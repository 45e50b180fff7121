------------------------------ MODULE RoundState ------------------------------
(***************************************************************************)
(* The game tree of one round of Bounty Hold'em: the class RoundState of   *)
(* engine.py, method by method.  A round state is the immutable tuple of   *)
(* the code as a record; the fields that never change during a round       *)
(* (hands, deck, bounties) are the parameter cards.                        *)
(*                                                                         *)
(*   s      [type |-> "round", button, street, pips, stacks]               *)
(*   cards  [holes, board, bounties, best]: the ranks of each player's     *)
(*          hole cards, the ranks on the board once 3, 4 or 5 cards are    *)
(*          open, each player's bounty rank, and the outcome of            *)
(*          eval7.evaluate on both hands (0, 1, or 2 for equal scores).    *)
(***************************************************************************)
EXTENDS Integers

CONSTANTS
  STARTING_STACK,   \* chips of each player when a round starts
  BIG_BLIND,        \* posted by seat 1
  SMALL_BLIND,      \* posted by seat 0
  RATIO_NUM,        \* BOUNTY_RATIO is the rational RATIO_NUM / RATIO_DEN
  RATIO_DEN,
  BOUNTY_CONSTANT   \* chips added to a payoff when the bounty is hit

ASSUME BlindsAssumption ==
  /\ STARTING_STACK \in Nat
  /\ BIG_BLIND \in Nat
  /\ SMALL_BLIND \in Nat
  /\ 0 < SMALL_BLIND
  /\ SMALL_BLIND <= BIG_BLIND
  /\ BIG_BLIND <= STARTING_STACK

ASSUME BountyAssumption ==
  /\ RATIO_NUM \in Nat
  /\ RATIO_DEN \in Nat
  /\ BOUNTY_CONSTANT \in Nat
  /\ 0 < RATIO_DEN
  /\ RATIO_DEN <= RATIO_NUM

Seats == {0, 1}
Streets == {0, 3, 4, 5}

Pair(a, b) == [i \in Seats |-> IF i = 0 THEN a ELSE b]
min(a, b) == IF a <= b THEN a ELSE b
max(a, b) == IF a >= b THEN a ELSE b

ActionTypes == {"Fold", "Call", "Check", "Raise"}
FoldAction == [type |-> "Fold", amount |-> 0]
CallAction == [type |-> "Call", amount |-> 0]
CheckAction == [type |-> "Check", amount |-> 0]
RaiseAction(n) == [type |-> "Raise", amount |-> n]

\* The state run_round starts from: the blinds are posted, seat 0 acts.
InitialState ==
  [type |-> "round", button |-> 0, street |-> 0,
   pips |-> Pair(SMALL_BLIND, BIG_BLIND),
   stacks |-> Pair(STARTING_STACK - SMALL_BLIND, STARTING_STACK - BIG_BLIND)]

-----------------------------------------------------------------------------
(* Whose turn it is, and the chips that player must add to stay.           *)
active(s) == s.button % 2
continue_cost(s) == s.pips[1 - active(s)] - s.pips[active(s)]

\* Mutant: re-raising stays legal when a call takes the whole stack.
legal_actions_always_raise(s) ==
  IF continue_cost(s) = 0 THEN {"Check", "Raise", "Fold"}
                          ELSE {"Fold", "Call", "Raise"}

legal_actions(s) ==
  LET a == active(s)
      bets_forbidden == s.stacks[0] = 0 \/ s.stacks[1] = 0
      raises_forbidden == continue_cost(s) = s.stacks[a] \/ s.stacks[1 - a] = 0
  IN  IF continue_cost(s) = 0
      THEN {"Check", "Fold"} \cup (IF bets_forbidden THEN {} ELSE {"Raise"})
      ELSE {"Fold", "Call"} \cup (IF raises_forbidden THEN {} ELSE {"Raise"})

\* Mutant: the opponent's stack does not cap the raise.
raise_bounds_uncapped(s) ==
  LET a == active(s)
      cost == continue_cost(s)
  IN  <<s.pips[a] + cost + max(cost, BIG_BLIND),
        s.pips[a] + s.stacks[a] + cost>>

\* Mutant: any raise above the cost of calling is accepted.
raise_bounds_any_size(s) ==
  LET a == active(s)
      cost == continue_cost(s)
  IN  <<s.pips[a] + min(s.stacks[a], cost + 1), s.pips[a] + s.stacks[a]>>

raise_bounds(s) ==
  LET a == active(s)
      cost == continue_cost(s)
      max_contribution == min(s.stacks[a], s.stacks[1 - a] + cost)
      min_contribution == min(max_contribution, cost + max(cost, BIG_BLIND))
  IN  <<s.pips[a] + min_contribution, s.pips[a] + max_contribution>>

-----------------------------------------------------------------------------
(* Payoffs.  delta is what seat 0 wins.  The code computes it in floating  *)
(* point with a ratio that is a power-of-two fraction; here it is the      *)
(* exact numerator over the denominator Scale, rounded as get_delta does:  *)
(* down when the button is even, up when it is odd.                        *)
Scale == 2 * RATIO_DEN

Rounded(n, button) ==
  IF button % 2 = 0 THEN n \div Scale ELSE -((-n) \div Scale)

\* Mutant: the opponent's hole cards count as well.
get_bounty_hits_any_hole(s, cards) ==
  LET open == IF s.street = 0 THEN {} ELSE cards.board[s.street]
  IN  [i \in Seats |-> cards.bounties[i] \in cards.holes[0] \cup cards.holes[1] \cup open]

\* A bounty is hit by the player's own hole cards or the cards open so far.
get_bounty_hits(s, cards) ==
  LET open == IF s.street = 0 THEN {} ELSE cards.board[s.street]
  IN  [i \in Seats |-> cards.bounties[i] \in cards.holes[i] \cup open]

\* Mutant: seat 1's bonus is given to seat 0 instead of taken from it.
exact_delta_bonus_sign(s, cards, winner) ==
  LET hit == get_bounty_hits(s, cards)
      won == STARTING_STACK - s.stacks[1]
      lost == s.stacks[0] - STARTING_STACK
      bonus(i) == IF hit[i] THEN Scale * BOUNTY_CONSTANT ELSE 0
      rate(i) == IF hit[i] THEN 2 * RATIO_NUM ELSE Scale
  IN  IF winner = 2 THEN 0
      ELSE IF winner = 0 THEN rate(0) * won + bonus(0) ELSE rate(1) * lost + bonus(1)

\* Mutant: a split pot pays seat 0's hit even when both bounties are hit.
exact_delta_both_hit(s, cards, winner) ==
  LET hit == get_bounty_hits(s, cards)
      stake == STARTING_STACK - s.stacks[0]
      won == STARTING_STACK - s.stacks[1]
      lost == s.stacks[0] - STARTING_STACK
      bonus == Scale * BOUNTY_CONSTANT
      split == (RATIO_NUM - RATIO_DEN) * stake + bonus
  IN  CASE winner = 2 -> IF hit[0] THEN split ELSE IF hit[1] THEN -split ELSE 0
        [] winner = 0 -> IF hit[0] THEN 2 * RATIO_NUM * won + bonus ELSE Scale * won
        [] winner = 1 -> IF hit[1] THEN 2 * RATIO_NUM * lost - bonus ELSE Scale * lost

\* What seat 0 wins, times Scale, before rounding.
exact_delta(s, cards, winner) ==
  LET hit == get_bounty_hits(s, cards)
      stake == STARTING_STACK - s.stacks[0]
      won == STARTING_STACK - s.stacks[1]
      lost == s.stacks[0] - STARTING_STACK
      bonus == Scale * BOUNTY_CONSTANT
      split == (RATIO_NUM - RATIO_DEN) * stake + bonus
  IN  CASE winner = 2 /\ hit[0] = hit[1] -> 0
        [] winner = 2 /\ hit[0] /\ ~hit[1] -> split
        [] winner = 2 /\ ~hit[0] /\ hit[1] -> -split
        [] winner = 0 -> IF hit[0] THEN 2 * RATIO_NUM * won + bonus ELSE Scale * won
        [] winner = 1 -> IF hit[1] THEN 2 * RATIO_NUM * lost - bonus ELSE Scale * lost

get_delta(s, cards, winner) == Rounded(exact_delta(s, cards, winner), s.button)

TerminalState(s, cards, winner) ==
  LET delta == get_delta(s, cards, winner)
  IN  [type |-> "terminal", deltas |-> Pair(delta, -delta),
       bounty_hits |-> get_bounty_hits(s, cards), previous_state |-> s]

-----------------------------------------------------------------------------
(* Transitions.  The assertion of showdown, equal stacks, is a property    *)
(* (ShowdownStacksEqual), not a guard.                                     *)
showdown(s, cards) == TerminalState(s, cards, cards.best)

\* Mutant: the turn is dealt for ever, the river never.
proceed_street_stuck(s, cards) ==
  IF s.street = 5 THEN showdown(s, cards)
  ELSE [s EXCEPT !.button = 1, !.street = IF s.street = 0 THEN 3 ELSE 4, !.pips = Pair(0, 0)]

proceed_street(s, cards) ==
  IF s.street = 5 THEN showdown(s, cards)
  ELSE [s EXCEPT !.button = 1,
                 !.street = IF s.street = 0 THEN 3 ELSE s.street + 1,
                 !.pips = Pair(0, 0)]

\* The active player adds contribution chips to its pip; the turn passes.
PutIn(s, contribution) ==
  [s EXCEPT !.button = s.button + 1,
            !.stacks[active(s)] = @ - contribution,
            !.pips[active(s)] = @ + contribution]

call(s, cards) ==
  IF s.button = 0
  THEN [s EXCEPT !.button = 1,
                 !.pips = Pair(BIG_BLIND, BIG_BLIND),
                 !.stacks = Pair(STARTING_STACK - BIG_BLIND, STARTING_STACK - BIG_BLIND)]
  ELSE proceed_street(PutIn(s, continue_cost(s)), cards)

\* Mutant: the first check of a street closes it.
check_closes_early(s, cards) ==
  IF s.button > 0 THEN proceed_street(s, cards) ELSE [s EXCEPT !.button = s.button + 1]

check(s, cards) ==
  IF (s.street = 0 /\ s.button > 0) \/ s.button > 1
  THEN proceed_street(s, cards)
  ELSE [s EXCEPT !.button = s.button + 1]

raise_to(s, amount) == PutIn(s, amount - s.pips[active(s)])

\* Mutant: the caller's chips are counted in the pip but stay in the stack.
proceed_call_keeps_stack(s, cards, action) ==
  CASE action.type = "Fold" -> TerminalState(s, cards, 1 - active(s))
    [] action.type = "Call" -> proceed_street(
         [s EXCEPT !.button = s.button + 1, !.pips[active(s)] = @ + continue_cost(s)], cards)
    [] action.type = "Check" -> check(s, cards)
    [] action.type = "Raise" -> raise_to(s, action.amount)

proceed(s, cards, action) ==
  CASE action.type = "Fold" -> TerminalState(s, cards, 1 - active(s))
    [] action.type = "Call" -> call(s, cards)
    [] action.type = "Check" -> check(s, cards)
    [] action.type = "Raise" -> raise_to(s, action.amount)
=============================================================================
