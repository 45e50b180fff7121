------------------------------- MODULE CppRunner -------------------------------
(***************************************************************************)
(* Runner<BotType>::run of the C++ skeleton, on the record of Runner.  It  *)
(* casts the state without a check: a clause that met a state of the other *)
(* class would be undefined behaviour.  That is a failure here, whatever   *)
(* the build makes of it, so RunnersNeverFail says that it never happens.  *)
(***************************************************************************)
EXTENDS Integers, SequencesExt

CONSTANTS STARTING_STACK, BIG_BLIND, SMALL_BLIND

Tree == INSTANCE CppRoundState

Start ==
  [skeleton |-> "cpp", up |-> TRUE, failed |-> FALSE, active |-> 0, round_flag |-> TRUE,
   round_state |-> Tree!RoundState(0, 0, Tree!array(0, 0), Tree!array(0, 0)),
   bankroll |-> 0, round_num |-> 1]

Undefined(b) == [b EXCEPT !.up = FALSE, !.failed = TRUE]

NewRound ==
  Tree!RoundState(0, 0, Tree!array(SMALL_BLIND, BIG_BLIND),
                  Tree!array(STARTING_STACK - SMALL_BLIND, STARTING_STACK - BIG_BLIND))

\* The clauses that read the state as a RoundState.
castToRound(b, c) ==
  CASE c.t = "G" -> [b EXCEPT !.round_state.bounty = c.v, !.round_flag = FALSE]
    [] c.t = "B" -> [b EXCEPT !.round_state.deck = c.v]
    [] c.t \in {"F", "C", "K", "R"} -> [b EXCEPT !.round_state = Tree!proceed(@, c.t, c.v)]

\* Mutant: the opponent's hand is thrown away with the state it is put in.
castToTerminal_forgets_hand(b, c) ==
  CASE c.t = "O" -> [b EXCEPT !.round_state = Tree!showdown(@.previous_state)]
    [] c.t = "D" -> [b EXCEPT !.round_state = Tree!TerminalState([i \in {0, 1} |-> IF i = b.active THEN c.v ELSE -1 * c.v],
                                                             Tree!array(FALSE, FALSE), @.previous_state),
                              !.bankroll = @ + c.v]
    [] c.t = "Y" -> [b EXCEPT !.round_state.bounty_hits = [i \in {0, 1} |-> c.v[(i + b.active) % 2] = "1"],
                              !.round_num = @ + 1, !.round_flag = TRUE]

\* Those that read it as a TerminalState.
castToTerminal(b, c) ==
  CASE c.t = "O" -> [b EXCEPT !.round_state = Tree!showdown([@.previous_state EXCEPT !.seen = TRUE])]
    [] c.t = "D" -> [b EXCEPT !.round_state = Tree!TerminalState([i \in {0, 1} |-> IF i = b.active THEN c.v ELSE -1 * c.v],
                                                             Tree!array(FALSE, FALSE), @.previous_state),
                              !.bankroll = @ + c.v]
    [] c.t = "Y" -> [b EXCEPT !.round_state.bounty_hits = [i \in {0, 1} |-> c.v[(i + b.active) % 2] = "1"],
                              !.round_num = @ + 1, !.round_flag = TRUE]

NeedsRound == {"G", "B", "F", "C", "K", "R"}
NeedsTerminal == {"O", "D", "Y"}

HandleClause(b, c) ==
  CASE ~b.up -> b
    [] b.up /\ c.t = "P" -> [b EXCEPT !.active = c.v]
    [] b.up /\ c.t = "H" -> [b EXCEPT !.round_state = NewRound]
    [] b.up /\ c.t = "Q" -> [b EXCEPT !.up = FALSE]
    [] b.up /\ c.t \in NeedsRound ->
         IF b.round_state.type = "round" THEN castToRound(b, c) ELSE Undefined(b)
    [] b.up /\ c.t \in NeedsTerminal ->
         IF b.round_state.type = "terminal" THEN castToTerminal(b, c) ELSE Undefined(b)

\* getAction reads the state as a RoundState whoever's turn it is.
HandlePacket(b, packet) ==
  LET h == FoldLeft(HandleClause, b, packet)
  IN  IF h.up /\ ~h.round_flag /\ h.round_state.type # "round" THEN Undefined(h) ELSE h
=============================================================================
