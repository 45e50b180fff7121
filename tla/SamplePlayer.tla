----------------------------- MODULE SamplePlayer -----------------------------
(***************************************************************************)
(* The player every skeleton comes with: it tosses coins.  Written from    *)
(* python_skeleton/player.py; Player.java and main.cpp do the same.        *)
(***************************************************************************)
EXTENDS BotTable

\* Mutant: the coin for a raise is tossed before it is known whether one is legal.
MinRaises_unasked == {RaiseAction(Tree!raise_bounds(round_state)[1])}

MinRaises == IF "Raise" \in legal THEN {RaiseAction(Tree!raise_bounds(round_state)[1])} ELSE {}

CheckOrCall == IF "Check" \in legal THEN {CheckAction} ELSE {FoldAction, CallAction}

SampleActs ==
  /\ HerosTurn
  /\ \E answer \in MinRaises \cup CheckOrCall : Answer(answer)
  /\ UNCHANGED <<cards, seat, round_num, up>>

\* handle_round_over only prints.
SampleNextRound == NextRound(TRUE)
=============================================================================
