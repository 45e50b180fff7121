------------------------------ MODULE JavaRunner ------------------------------
(***************************************************************************)
(* Runner.run of the Java skeleton.  The record is that of Runner; unlike  *)
(* the Python runner it starts from a made-up round, has no assertion on   *)
(* whose turn it is, and fails by a ClassCastException when a clause meets *)
(* a state of the wrong class.                                             *)
(***************************************************************************)
EXTENDS Integers, SequencesExt

CONSTANTS STARTING_STACK, BIG_BLIND, SMALL_BLIND

Tree == INSTANCE JavaRoundState

Start ==
  [skeleton |-> "java", up |-> TRUE, failed |-> FALSE, active |-> 0, round_flag |-> TRUE,
   round_state |-> Tree!NewRoundState(Tree!asList(0, 0), Tree!asList(0, 0)),
   bankroll |-> 0, round_num |-> 1]

Throw(b) == [b EXCEPT !.up = FALSE, !.failed = TRUE]
IsRound(b) == b.round_state.type = "round"

NewHand(b) ==
  LET stacks == Tree!asList(STARTING_STACK - SMALL_BLIND, STARTING_STACK - BIG_BLIND)
  IN  [b EXCEPT !.round_state = Tree!NewRoundState(Tree!asList(SMALL_BLIND, BIG_BLIND), stacks)]

\* The clauses that cast the state to RoundState.  A fold looks at the first letter
\* of as many cards as the street has, which an empty string does not have.
OnRound(b, c) ==
  CASE c.t = "G" -> [b EXCEPT !.round_state.bounty = c.v, !.round_flag = FALSE]
    [] c.t = "B" -> [b EXCEPT !.round_state.deck = c.v]
    [] c.t = "F" /\ b.round_state.deck < b.round_state.street -> Throw(b)
    [] OTHER -> [b EXCEPT !.round_state = Tree!proceed(b.round_state, c.t, c.v)]

\* Mutant: hero's hit is put first whatever the seat.
OnTerminal_hits_unswapped(b, c) ==
  CASE c.t = "O" -> [b EXCEPT !.round_state.previous_state.seen = TRUE]
    [] c.t = "D" -> [b EXCEPT !.round_state.deltas = [i \in {0, 1} |-> IF i = b.active THEN c.v ELSE -c.v],
                              !.bankroll = @ + c.v]
    [] c.t = "Y" -> [b EXCEPT !.round_state.bounty_hits = [i \in {0, 1} |-> c.v[i] = "1"],
                              !.round_num = @ + 1, !.round_flag = TRUE]

\* Those that cast it to TerminalState.  O starts the payoffs afresh.
OnTerminal(b, c) ==
  CASE c.t = "O" -> [b EXCEPT !.round_state.previous_state.seen = TRUE,
                              !.round_state.deltas = Tree!asList(0, 0)]
    [] c.t = "D" -> [b EXCEPT !.round_state.deltas = [i \in {0, 1} |-> IF i = b.active THEN c.v ELSE -c.v],
                              !.bankroll = @ + c.v]
    [] c.t = "Y" -> [b EXCEPT !.round_state.bounty_hits =
                                [i \in {0, 1} |-> c.v[IF b.active = 1 THEN 1 - i ELSE i] = "1"],
                              !.round_num = @ + 1, !.round_flag = TRUE]

HandleClause(b, c) ==
  CASE ~b.up -> b
    [] b.up /\ c.t = "P" -> [b EXCEPT !.active = c.v]
    [] b.up /\ c.t = "H" -> NewHand(b)
    [] b.up /\ c.t = "Q" -> [b EXCEPT !.up = FALSE]
    [] b.up /\ c.t \in {"G", "B", "F", "C", "K", "R"} -> IF IsRound(b) THEN OnRound(b, c) ELSE Throw(b)
    [] b.up /\ c.t \in {"O", "D", "Y"} -> IF IsRound(b) THEN Throw(b) ELSE OnTerminal(b, c)

\* getAction is called with the state cast to RoundState.
HandlePacket(b, packet) ==
  LET h == FoldLeft(HandleClause, b, packet)
  IN  IF h.up /\ ~h.round_flag /\ ~IsRound(h) THEN Throw(h) ELSE h
=============================================================================
