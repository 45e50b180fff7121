-------------------------------- MODULE Runner --------------------------------
(***************************************************************************)
(* The bot's side of the protocol: Runner.run of skeleton/runner.py, which *)
(* rebuilds the game tree from the clauses the engine sends.               *)
(*                                                                         *)
(*   b  [skeleton, up, failed, active, round_flag, round_state, bankroll,  *)
(*      round_num]  the locals of run: what the bot is built on, whether   *)
(*      the process is running, whether it died of an exception of its     *)
(*      own, and the game as reconstructed so far.                         *)
(*                                                                         *)
(* A clause is [t, v]: its letter and its value.  The T clause every       *)
(* packet starts with carries only the clock and is left out.              *)
(***************************************************************************)
EXTENDS Integers, SequencesExt

CONSTANTS STARTING_STACK, BIG_BLIND, SMALL_BLIND

Tree == INSTANCE BotRoundState

Clause(t, v) == [t |-> t, v |-> v]

Start ==
  [skeleton |-> "python", up |-> TRUE, failed |-> FALSE, active |-> 0, round_flag |-> TRUE,
   round_state |-> [type |-> "none"], bankroll |-> 0, round_num |-> 1]

\* An assertion or an attribute error: the process ends with a traceback.
Fail(b) == [b EXCEPT !.up = FALSE, !.failed = TRUE]

InTree(b) == b.round_state.type = "round"
AtEnd(b) == b.round_state.type = "terminal"

\* Mutant: the board is appended to the round but the street's cards are lost.
HandleBoard_stale(b, n) == IF InTree(b) THEN b ELSE Fail(b)

HandleBoard(b, n) ==
  IF InTree(b) THEN [b EXCEPT !.round_state.deck = n] ELSE Fail(b)

\* G: the runner only knows its own bounty; the first one of a round starts it.
HandleBounty(b, rank) ==
  IF InTree(b) THEN [b EXCEPT !.round_state.bounty = rank, !.round_flag = FALSE] ELSE Fail(b)

HandleAction(b, c) ==
  IF InTree(b) THEN [b EXCEPT !.round_state = Tree!proceed(b.round_state, c.t, c.v)] ELSE Fail(b)

\* O: backtrack from the showdown and rebuild it with the opponent's hand.  Before
\* the showdown the code would take one action back in silence: here that counts
\* as a failure too, so that RunnersNeverFail also says it does not happen.
HandleOpponentHand(b) ==
  IF AtEnd(b)
  THEN [b EXCEPT !.round_state =
         Tree!TerminalState(Tree!Both(0, 0), Tree!NoHits,
                            [b.round_state.previous_state EXCEPT !.seen = TRUE])]
  ELSE Fail(b)

\* Mutant: the delta is booked for seat 0 whatever the bot's seat is.
HandleDelta_seat0(b, delta) ==
  IF AtEnd(b)
  THEN [b EXCEPT !.round_state.deltas = Tree!Both(delta, -delta),
                 !.bankroll = IF b.active = 0 THEN @ + delta ELSE @ - delta]
  ELSE Fail(b)

HandleDelta(b, delta) ==
  IF AtEnd(b)
  THEN [b EXCEPT !.round_state.deltas = [i \in {0, 1} |-> IF i = b.active THEN delta ELSE -delta],
                 !.bankroll = @ + delta]
  ELSE Fail(b)

\* Y: hero's hit comes first; a masked hit counts as not hit.
HandleRoundOver(b, hits) ==
  IF AtEnd(b)
  THEN [b EXCEPT !.round_state.bounty_hits = [i \in {0, 1} |-> hits[(i + b.active) % 2] = "1"],
                 !.round_num = @ + 1,
                 !.round_flag = TRUE]
  ELSE Fail(b)

HandleClause(b, c) ==
  CASE ~b.up -> b
    [] b.up /\ c.t = "P" -> [b EXCEPT !.active = c.v]
    [] b.up /\ c.t = "H" -> [b EXCEPT !.round_state = Tree!NewRound]
    [] b.up /\ c.t = "G" -> HandleBounty(b, c.v)
    [] b.up /\ c.t \in {"F", "C", "K", "R"} -> HandleAction(b, c)
    [] b.up /\ c.t = "B" -> HandleBoard(b, c.v)
    [] b.up /\ c.t = "O" -> HandleOpponentHand(b)
    [] b.up /\ c.t = "D" -> HandleDelta(b, c.v)
    [] b.up /\ c.t = "Y" -> HandleRoundOver(b, c.v)
    [] b.up /\ c.t = "Q" -> [b EXCEPT !.up = FALSE]

\* The turn the runner believes in is checked before the bot is asked.
CheckTurn(b) ==
  IF b.up /\ ~b.round_flag /\ (~InTree(b) \/ b.active # Tree!active(b.round_state))
  THEN Fail(b) ELSE b

HandlePacket(b, packet) == CheckTurn(FoldLeft(HandleClause, b, packet))
=============================================================================
