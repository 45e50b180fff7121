---------------------------- MODULE JavaRoundState ----------------------------
(***************************************************************************)
(* The game tree of the Java skeleton: RoundState.java and TerminalState   *)
(* of java_skeleton.  Like BotRoundState a state is a record; deck is the  *)
(* number of cards of the board that are not the empty string.             *)
(***************************************************************************)
EXTENDS Integers

CONSTANTS STARTING_STACK, BIG_BLIND, SMALL_BLIND   \* State.java

asList(a, b) == [i \in {0, 1} |-> IF i = 0 THEN a ELSE b]
Lesser(a, b) == IF a <= b THEN a ELSE b

NewRoundState(pips, stacks) ==
  [type |-> "round", button |-> 0, street |-> 0, pips |-> pips, stacks |-> stacks,
   deck |-> 0, bounty |-> "none", seen |-> FALSE]

TerminalState(deltas, hits, s) ==
  [type |-> "terminal", deltas |-> deltas, bounty_hits |-> hits, previous_state |-> s]

showdown(s) == TerminalState(asList(0, 0), asList(FALSE, FALSE), s)

toAct(s) == s.button % 2
continueCost(s) == s.pips[1 - toAct(s)] - s.pips[toAct(s)]
someoneAllIn(s) == s.stacks[0] = 0 \/ s.stacks[1] = 0

legalActions(s) ==
  LET raisesForbidden == continueCost(s) = s.stacks[toAct(s)] \/ s.stacks[1 - toAct(s)] = 0
  IN  CASE continueCost(s) = 0 -> {"Check", "Fold"} \cup {a \in {"Raise"} : ~someoneAllIn(s)}
        [] OTHER -> {"Fold", "Call"} \cup {a \in {"Raise"} : ~raisesForbidden}

\* Mutant: a bet need not be as large as the one it raises.
raiseBounds_min_blind(s) ==
  LET a == toAct(s)
      maxContribution == Lesser(s.stacks[a], s.stacks[1 - a] + continueCost(s))
  IN  <<s.pips[a] + Lesser(maxContribution, continueCost(s) + BIG_BLIND), s.pips[a] + maxContribution>>

raiseBounds(s) ==
  LET a == toAct(s)
      cost == continueCost(s)
      maxContribution == Lesser(s.stacks[a], s.stacks[1 - a] + cost)
      raiseBy == IF cost > BIG_BLIND THEN cost ELSE BIG_BLIND
  IN  <<s.pips[a] + Lesser(maxContribution, cost + raiseBy), s.pips[a] + maxContribution>>

proceedStreet(s) ==
  IF s.street = 5 THEN showdown(s)
  ELSE [s EXCEPT !.button = 1,
                 !.street = IF s.street = 0 THEN 3 ELSE s.street + 1,
                 !.pips = asList(0, 0)]

\* RAISE_ACTION_TYPE, and what CALL_ACTION_TYPE does before the street is closed.
raiseTo(s, amount) ==
  LET contribution == amount - s.pips[toAct(s)]
  IN  [s EXCEPT !.button = @ + 1, !.stacks[toAct(s)] = @ - contribution, !.pips[toAct(s)] = amount]

foldDelta(s) ==
  IF toAct(s) = 0 THEN s.stacks[0] - STARTING_STACK ELSE STARTING_STACK - s.stacks[1]

\* The hits noted at a fold are forgotten when the D clause arrives.
proceed(s, code, amount) ==
  CASE code = "F" -> TerminalState(asList(foldDelta(s), -foldDelta(s)), asList(FALSE, FALSE), s)
    [] code = "C" /\ s.button = 0 ->
         [s EXCEPT !.button = 1,
                   !.pips = asList(BIG_BLIND, BIG_BLIND),
                   !.stacks = asList(STARTING_STACK - BIG_BLIND, STARTING_STACK - BIG_BLIND)]
    [] code = "C" /\ s.button # 0 -> proceedStreet(raiseTo(s, s.pips[1 - toAct(s)]))
    [] code = "K" /\ ((s.street = 0 /\ s.button > 0) \/ s.button > 1) -> proceedStreet(s)
    [] code = "K" /\ s.button <= 1 /\ (s.street > 0 \/ s.button = 0) -> [s EXCEPT !.button = @ + 1]
    [] code = "R" -> raiseTo(s, amount)
=============================================================================
