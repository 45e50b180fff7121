----------------------------- MODULE CppRoundState -----------------------------
(***************************************************************************)
(* The game tree of the C++ skeleton: states.cpp of cpp_skeleton.  A state *)
(* is a record like that of BotRoundState; deck is the number of strings   *)
(* of the board that have been filled in.                                  *)
(***************************************************************************)
EXTENDS Integers

CONSTANTS STARTING_STACK, BIG_BLIND, SMALL_BLIND   \* constants.h

array(a, b) == [i \in {0, 1} |-> IF i = 0 THEN a ELSE b]
smaller(a, b) == IF b < a THEN b ELSE a
larger(a, b) == IF a < b THEN b ELSE a

RoundState(button, street, pips, stacks) ==
  [type |-> "round", button |-> button, street |-> street, pips |-> pips, stacks |-> stacks,
   deck |-> 0, bounty |-> "none", seen |-> FALSE]

TerminalState(deltas, hits, previousState) ==
  [type |-> "terminal", deltas |-> deltas, bounty_hits |-> hits, previous_state |-> previousState]

showdown(s) == TerminalState(array(0, 0), array(FALSE, FALSE), s)

getActive(s) == s.button % 2
continueCost(s) == s.pips[1 - getActive(s)] - s.pips[getActive(s)]

legalActions(s) ==
  LET active == getActive(s)
      betsForbidden == \E i \in {0, 1} : s.stacks[i] = 0
      raisesForbidden == continueCost(s) = s.stacks[active] \/ s.stacks[1 - active] = 0
  IN  IF continueCost(s) = 0
      THEN {"Check", "Fold"} \cup (IF betsForbidden THEN {} ELSE {"Raise"})
      ELSE {"Call", "Fold"} \cup (IF raisesForbidden THEN {} ELSE {"Raise"})

\* Mutant: the opponent's stack alone caps a raise.
raiseBounds_opponent_stack(s) ==
  LET active == getActive(s)
      maxContribution == smaller(s.stacks[active], s.stacks[1 - active])
      minContribution == smaller(maxContribution, continueCost(s) + larger(continueCost(s), BIG_BLIND))
  IN  <<s.pips[active] + minContribution, s.pips[active] + maxContribution>>

raiseBounds(s) ==
  LET active == getActive(s)
      maxContribution == smaller(s.stacks[active], s.stacks[1 - active] + continueCost(s))
      minContribution == smaller(maxContribution, continueCost(s) + larger(continueCost(s), BIG_BLIND))
  IN  <<s.pips[active] + minContribution, s.pips[active] + maxContribution>>

proceedStreet(s) ==
  IF s.street = 5 THEN showdown(s)
  ELSE [s EXCEPT !.button = 1,
                 !.street = IF s.street = 0 THEN 3 ELSE s.street + 1,
                 !.pips = array(0, 0)]

\* Mutant: the small blind's call keeps the pips of the blinds.
afterCall_keeps_pips(s) ==
  IF s.button = 0
  THEN [s EXCEPT !.button = 1, !.stacks = array(STARTING_STACK - BIG_BLIND, STARTING_STACK - BIG_BLIND)]
  ELSE LET a == getActive(s) IN proceedStreet(
         [s EXCEPT !.button = @ + 1, !.stacks[a] = @ - continueCost(s), !.pips[a] = @ + continueCost(s)])

afterCall(s) ==
  IF s.button = 0
  THEN [s EXCEPT !.button = 1,
                 !.pips = array(BIG_BLIND, BIG_BLIND),
                 !.stacks = array(STARTING_STACK - BIG_BLIND, STARTING_STACK - BIG_BLIND)]
  ELSE LET a == getActive(s) IN proceedStreet(
         [s EXCEPT !.button = @ + 1, !.stacks[a] = @ - continueCost(s), !.pips[a] = @ + continueCost(s)])

\* The hits noted at a fold are forgotten when the D clause arrives.
afterFold(s) ==
  LET delta == IF getActive(s) = 0 THEN s.stacks[0] - STARTING_STACK ELSE STARTING_STACK - s.stacks[1]
  IN  TerminalState(array(delta, -1 * delta), array(FALSE, FALSE), s)

afterCheck(s) ==
  IF s.button > (IF s.street = 0 THEN 0 ELSE 1) THEN proceedStreet(s) ELSE [s EXCEPT !.button = @ + 1]

afterRaise(s, amount) ==
  LET a == getActive(s)
  IN  [s EXCEPT !.button = @ + 1, !.stacks[a] = @ - (amount - s.pips[a]), !.pips[a] = amount]

proceed(s, code, amount) ==
  CASE code = "F" -> afterFold(s)
    [] code = "C" -> afterCall(s)
    [] code = "K" -> afterCheck(s)
    [] code = "R" -> afterRaise(s, amount)
=============================================================================
