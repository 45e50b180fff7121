-------------------------- MODULE BettingRound_proofs --------------------------
(***************************************************************************)
(* Proofs about BettingRound for every size of stack and blinds, every     *)
(* bounty payoff and every set of deals.                                   *)
(*                                                                         *)
(* The inductive invariant is Balanced: chips a player has in front of it  *)
(* and behind it add up to the same number for both players, so that equal *)
(* pips mean equal stacks and whoever faces a bet has the chips to call it.*)
(***************************************************************************)
EXTENDS BettingRound, TLAPS

Balanced(s) ==
  /\ s \in RoundStates
  /\ s.stacks[0] + s.pips[0] = s.stacks[1] + s.pips[1]
  /\ s.stacks[0] + s.pips[0] <= STARTING_STACK
  /\ 0 <= continue_cost(s)
  /\ s.button = 0 => s = InitialState

Ended(t) ==
  /\ t \in TerminalStates
  /\ \A i \in Seats : t.previous_state.stacks[i] <= STARTING_STACK

RoundInv ==
  /\ cards \in Deals
  /\ \/ Balanced(round_state)
     \/ Ended(round_state)

-----------------------------------------------------------------------------
(* Payoffs are integers.                                                   *)

\* The scale of exact_delta is a positive integer.
LEMMA ScalePositive == Scale \in Nat /\ 0 < Scale
BY BountyAssumption DEF Scale

\* get_delta returns an integer whatever the exact payoff (its int(delta)).
LEMMA RoundedInt ==
  ASSUME NEW n \in Int, NEW button \in Nat
  PROVE  Rounded(n, button) \in Int
<1>1. \A x \in Int, d \in Int : 0 < d => x \div d \in Int
  OBVIOUS
<1>2. n \div Scale \in Int /\ (-n) \div Scale \in Int
  BY <1>1, ScalePositive
<1> QED BY <1>2 DEF Rounded

\* Both bounties are either hit or not (get_bounty_hits).
LEMMA HitsBoolean ==
  ASSUME NEW s, NEW c
  PROVE  get_bounty_hits(s, c) \in [Seats -> BOOLEAN]
BY DEF get_bounty_hits, Seats

\* The exact payoff of a win by either side or of a split is an integer.
LEMMA ExactDeltaInt ==
  ASSUME NEW s \in RoundStates, NEW c, NEW winner \in {0, 1, 2}
  PROVE  exact_delta(s, c, winner) \in Int
<1> DEFINE hit == get_bounty_hits(s, c)
           stake == STARTING_STACK - s.stacks[0]
           won == STARTING_STACK - s.stacks[1]
           lost == s.stacks[0] - STARTING_STACK
           bonus == Scale * BOUNTY_CONSTANT
           split == (RATIO_NUM - RATIO_DEN) * stake + bonus
<1>1. hit[0] \in BOOLEAN /\ hit[1] \in BOOLEAN
  BY HitsBoolean DEF Seats
<1>2. stake \in Int /\ won \in Int /\ lost \in Int
  BY BlindsAssumption DEF RoundStates, Seats
<1>3. bonus \in Int /\ Scale * won \in Int /\ Scale * lost \in Int
  BY <1>2, ScalePositive, BountyAssumption
<1>4. split \in Int /\ -split \in Int
  BY <1>2, <1>3, BountyAssumption
<1>5. 2 * RATIO_NUM * won + bonus \in Int /\ 2 * RATIO_NUM * lost - bonus \in Int
  BY <1>2, <1>3, BountyAssumption
<1> HIDE DEF hit, stake, won, lost, bonus, split
<1>6. CASE winner = 2
  <2>1. exact_delta(s, c, winner) = 0 \/ exact_delta(s, c, winner) = split
          \/ exact_delta(s, c, winner) = -split
    BY <1>1, <1>6 DEF exact_delta, hit, stake, bonus, split
  <2> QED BY <2>1, <1>4
<1>7. CASE winner = 0
  <2>1. exact_delta(s, c, winner) = Scale * won
          \/ exact_delta(s, c, winner) = 2 * RATIO_NUM * won + bonus
    BY <1>1, <1>7 DEF exact_delta, hit, won, bonus
  <2> QED BY <2>1, <1>3, <1>5
<1>8. CASE winner = 1
  <2>1. exact_delta(s, c, winner) = Scale * lost
          \/ exact_delta(s, c, winner) = 2 * RATIO_NUM * lost - bonus
    BY <1>1, <1>8 DEF exact_delta, hit, lost, bonus
  <2> QED BY <2>1, <1>3, <1>5
<1> QED BY <1>6, <1>7, <1>8

\* A terminal state built on a round state whose stacks are within the starting
\* stack is well formed (TerminalState, showdown).
LEMMA TerminalEnded ==
  ASSUME NEW s \in RoundStates, NEW c, NEW winner \in {0, 1, 2},
         \A i \in Seats : s.stacks[i] <= STARTING_STACK
  PROVE  Ended(TerminalState(s, c, winner))
<1> DEFINE delta == get_delta(s, c, winner)
<1>0. s.button \in Nat /\ exact_delta(s, c, winner) \in Int
  BY ExactDeltaInt DEF RoundStates
<1>1. delta \in Int /\ -delta \in Int
  <2>1. delta \in Int
    BY <1>0, RoundedInt DEF get_delta
  <2> QED BY <2>1
<1>2. Pair(delta, -delta) \in [Seats -> Int]
  BY <1>1 DEF Pair, Seats
<1>3. get_bounty_hits(s, c) \in [Seats -> BOOLEAN]
  BY HitsBoolean
<1> HIDE DEF delta
<1>4. TerminalState(s, c, winner) =
        [type |-> "terminal", deltas |-> Pair(delta, -delta),
         bounty_hits |-> get_bounty_hits(s, c), previous_state |-> s]
  BY DEF TerminalState, delta
<1>5. TerminalState(s, c, winner) \in TerminalStates
  BY <1>2, <1>3, <1>4 DEF TerminalStates
<1>6. TerminalState(s, c, winner).previous_state = s
  BY <1>4
<1> QED BY <1>5, <1>6 DEF Ended

-----------------------------------------------------------------------------
(* Every step of the game tree keeps the players balanced.                 *)

\* The two seats take turns (button % 2).
LEMMA ActiveSeat ==
  ASSUME NEW s \in RoundStates
  PROVE  (active(s) = 0 /\ 1 - active(s) = 1) \/ (active(s) = 1 /\ 1 - active(s) = 0)
BY DEF active, RoundStates

\* What Balanced says field by field, with the chips the active player needs.
LEMMA BalancedFields ==
  ASSUME NEW s, Balanced(s)
  PROVE  /\ s.type = "round" /\ s.button \in Nat /\ s.street \in Streets
         /\ s.pips[0] \in Nat /\ s.pips[1] \in Nat
         /\ s.stacks[0] \in Nat /\ s.stacks[1] \in Nat
         /\ s.stacks[0] <= STARTING_STACK /\ s.stacks[1] <= STARTING_STACK
         /\ continue_cost(s) \in Nat
         /\ continue_cost(s) <= s.stacks[active(s)]
         /\ s.stacks[active(s)] = s.stacks[1 - active(s)] + continue_cost(s)
<1>1. /\ s.type = "round" /\ s.button \in Nat /\ s.street \in Streets
      /\ s.pips[0] \in Nat /\ s.pips[1] \in Nat
      /\ s.stacks[0] \in Nat /\ s.stacks[1] \in Nat
  BY DEF Balanced, RoundStates, Seats
<1>2. (active(s) = 0 /\ 1 - active(s) = 1) \/ (active(s) = 1 /\ 1 - active(s) = 0)
  BY ActiveSeat DEF Balanced
<1>3. continue_cost(s) = s.pips[1 - active(s)] - s.pips[active(s)]
  BY DEF continue_cost
<1> QED BY <1>1, <1>2, <1>3, BlindsAssumption DEF Balanced

\* The blinds leave the players balanced (run_round).
LEMMA InitialBalanced == Balanced(InitialState)
<1>1. InitialState \in RoundStates
  BY BlindsAssumption DEF InitialState, RoundStates, Pair, Seats, Streets
<1>2. /\ InitialState.pips[0] = SMALL_BLIND /\ InitialState.pips[1] = BIG_BLIND
      /\ InitialState.stacks[0] = STARTING_STACK - SMALL_BLIND
      /\ InitialState.stacks[1] = STARTING_STACK - BIG_BLIND
      /\ InitialState.button = 0
  BY DEF InitialState, Pair, Seats
<1>3. active(InitialState) = 0
  BY <1>2 DEF active
<1> QED BY <1>1, <1>2, <1>3, BlindsAssumption DEF Balanced, continue_cost

\* Opening the next street, or showing the hands down, is sound once the stacks
\* are equal (proceed_street).
LEMMA ProceedStreet ==
  ASSUME NEW s \in RoundStates, NEW c \in Deals,
         s.stacks[0] = s.stacks[1], s.stacks[0] <= STARTING_STACK
  PROVE  Balanced(proceed_street(s, c)) \/ Ended(proceed_street(s, c))
<1>1. CASE s.street = 5
  <2>1. c.best \in {0, 1, 2}
    BY DealsAssumption
  <2>2. \A i \in Seats : s.stacks[i] <= STARTING_STACK
    BY DEF Seats
  <2>3. Ended(TerminalState(s, c, c.best))
    BY <2>1, <2>2, TerminalEnded
  <2> QED BY <2>3, <1>1 DEF proceed_street, showdown
<1>2. CASE s.street # 5
  <2> DEFINE t == [s EXCEPT !.button = 1,
                            !.street = IF s.street = 0 THEN 3 ELSE s.street + 1,
                            !.pips = Pair(0, 0)]
  <2>1. (IF s.street = 0 THEN 3 ELSE s.street + 1) \in Streets
    BY <1>2 DEF RoundStates, Streets
  <2>2. Pair(0, 0) \in [Seats -> Nat] /\ Pair(0, 0)[0] = 0 /\ Pair(0, 0)[1] = 0
    BY DEF Pair, Seats
  <2>3. t \in RoundStates
    BY <2>1, <2>2 DEF RoundStates
  <2>4. t.button = 1 /\ t.pips = Pair(0, 0) /\ t.stacks = s.stacks
    BY DEF RoundStates
  <2>5. s.stacks[0] \in Nat
    BY DEF RoundStates, Seats
  <2> HIDE DEF t
  <2>6. active(t) = 1
    BY <2>4 DEF active
  <2>7. continue_cost(t) = 0
    BY <2>2, <2>4, <2>6 DEF continue_cost
  <2>8. Balanced(t)
    BY <2>2, <2>3, <2>4, <2>5, <2>7 DEF Balanced
  <2> QED BY <2>8, <1>2 DEF proceed_street, t
<1> QED BY <1>1, <1>2

\* Putting chips in: the other player's cost is what the contribution adds
\* beyond the bet (proceed, on a call or a raise).
LEMMA PutInBalanced ==
  ASSUME NEW s, Balanced(s), NEW n \in Nat,
         continue_cost(s) <= n, n <= s.stacks[active(s)]
  PROVE  /\ Balanced(PutIn(s, n))
         /\ PutIn(s, n) \in RoundStates
         /\ n = continue_cost(s) => PutIn(s, n).stacks[0] = PutIn(s, n).stacks[1]
         /\ PutIn(s, n).stacks[0] <= STARTING_STACK
<1> DEFINE t == PutIn(s, n)
           a == active(s)
<1>1. /\ s \in RoundStates /\ s.button \in Nat
      /\ s.pips[0] \in Nat /\ s.pips[1] \in Nat
      /\ s.stacks[0] \in Nat /\ s.stacks[1] \in Nat
      /\ s.stacks[0] <= STARTING_STACK /\ s.stacks[1] <= STARTING_STACK
  BY BalancedFields DEF Balanced
<1>2. (a = 0 /\ 1 - a = 1) \/ (a = 1 /\ 1 - a = 0)
  BY <1>1, ActiveSeat
<1>3. s.stacks \in [Seats -> Nat] /\ s.pips \in [Seats -> Nat] /\ a \in Seats /\ 1 - a \in Seats
  BY <1>1, <1>2 DEF RoundStates, Seats
<1>4. s.stacks[a] - n \in Nat /\ s.pips[a] + n \in Nat
  BY <1>1, <1>2
<1>5. /\ t.stacks = [s.stacks EXCEPT ![a] = @ - n]
      /\ t.pips = [s.pips EXCEPT ![a] = @ + n]
      /\ t.button = s.button + 1
  BY <1>1 DEF PutIn, RoundStates
<1>6. t \in RoundStates
  <2>1. t.stacks \in [Seats -> Nat] /\ t.pips \in [Seats -> Nat] /\ t.button \in Nat
    BY <1>1, <1>3, <1>4, <1>5
  <2>2. t = [s EXCEPT !.button = t.button, !.stacks = t.stacks, !.pips = t.pips]
    BY <1>1, <1>5 DEF PutIn, RoundStates
  <2> QED BY <1>1, <2>1, <2>2 DEF RoundStates
<1>7. /\ t.stacks[a] = s.stacks[a] - n /\ t.stacks[1 - a] = s.stacks[1 - a]
      /\ t.pips[a] = s.pips[a] + n /\ t.pips[1 - a] = s.pips[1 - a]
  BY <1>2, <1>3, <1>5
<1>8. active(t) = 1 - a
  BY <1>1, <1>5 DEF active
<1> HIDE DEF t, a
<1>9. continue_cost(s) = s.pips[1 - a] - s.pips[a]
  BY DEF continue_cost, a
<1>10. continue_cost(t) = n - continue_cost(s)
  <2>1. continue_cost(t) = t.pips[1 - (1 - a)] - t.pips[1 - a]
    BY <1>8 DEF continue_cost
  <2> QED BY <2>1, <1>1, <1>2, <1>7, <1>9
<1>11. s.stacks[0] + s.pips[0] = s.stacks[1] + s.pips[1] /\ s.stacks[0] + s.pips[0] <= STARTING_STACK
  BY DEF Balanced
<1>12. t.button # 0
  BY <1>1, <1>5
<1>13. /\ t.stacks[0] + t.pips[0] = t.stacks[1] + t.pips[1]
       /\ t.stacks[0] + t.pips[0] <= STARTING_STACK
  BY <1>1, <1>2, <1>7, <1>11
<1>14. 0 <= continue_cost(t)
  BY <1>1, <1>2, <1>9, <1>10
<1>15. Balanced(t)
  BY <1>6, <1>12, <1>13, <1>14 DEF Balanced
<1>16. n = continue_cost(s) => t.stacks[0] = t.stacks[1]
  <2>1. CASE a = 0 /\ 1 - a = 1
    <3>1. continue_cost(s) = s.pips[1] - s.pips[0]
      BY <1>9, <2>1
    <3>2. t.stacks[0] = s.stacks[0] - n /\ t.stacks[1] = s.stacks[1]
      BY <1>7, <2>1
    <3>3. s.stacks[0] - (s.pips[1] - s.pips[0]) = s.stacks[1]
      BY <1>1, <1>11
    <3> QED BY <3>1, <3>2, <3>3
  <2>2. CASE a = 1 /\ 1 - a = 0
    <3>1. continue_cost(s) = s.pips[0] - s.pips[1]
      BY <1>9, <2>2
    <3>2. t.stacks[1] = s.stacks[1] - n /\ t.stacks[0] = s.stacks[0]
      BY <1>7, <2>2
    <3> QED BY <1>1, <1>11, <3>1, <3>2
  <2> QED BY <1>2, <2>1, <2>2
<1>17. t.stacks[0] <= STARTING_STACK
  <2>1. CASE a = 0
    BY <1>1, <1>2, <1>7, <2>1, BlindsAssumption
  <2>2. CASE a = 1
    BY <1>1, <1>2, <1>7, <2>2, BlindsAssumption
  <2> QED BY <1>2, <2>1, <2>2
<1> QED BY <1>6, <1>15, <1>16, <1>17 DEF t

\* A fold ends the round (proceed, FoldAction).
LEMMA FoldStep ==
  ASSUME NEW s, NEW c, Balanced(s)
  PROVE  Ended(proceed(s, c, FoldAction))
<1>1. s \in RoundStates
  BY DEF Balanced
<1>2. \A i \in Seats : s.stacks[i] <= STARTING_STACK
  BY BalancedFields DEF Seats
<1>3. 1 - active(s) \in {0, 1, 2}
  BY <1>1, ActiveSeat
<1>4. Ended(TerminalState(s, c, 1 - active(s)))
  BY <1>1, <1>2, <1>3, TerminalEnded
<1> QED BY <1>4 DEF proceed, FoldAction

\* A check that is legal passes the turn or closes a street on which the players
\* have put in the same (proceed, CheckAction).
LEMMA CheckStep ==
  ASSUME NEW s, NEW c \in Deals, Balanced(s), continue_cost(s) = 0
  PROVE  /\ Balanced(proceed(s, c, CheckAction)) \/ Ended(proceed(s, c, CheckAction))
         /\ s.stacks[0] = s.stacks[1]
         /\ \/ proceed(s, c, CheckAction) = proceed_street(s, c)
            \/ /\ proceed(s, c, CheckAction).type = "round"
               /\ proceed(s, c, CheckAction).street = s.street
<1>1. /\ s \in RoundStates /\ s.button \in Nat /\ s.type = "round"
      /\ s.pips[0] \in Nat /\ s.pips[1] \in Nat
      /\ s.stacks[0] \in Nat /\ s.stacks[1] \in Nat
      /\ s.stacks[0] <= STARTING_STACK
  BY BalancedFields DEF Balanced
<1>2. s.pips[0] = s.pips[1]
  <2>1. (active(s) = 0 /\ 1 - active(s) = 1) \/ (active(s) = 1 /\ 1 - active(s) = 0)
    BY <1>1, ActiveSeat
  <2> QED BY <1>1, <2>1 DEF continue_cost
<1>3. s.stacks[0] + s.pips[0] = s.stacks[1] + s.pips[1] /\ s.stacks[0] + s.pips[0] <= STARTING_STACK
  BY DEF Balanced
<1>4. s.stacks[0] = s.stacks[1]
  BY <1>1, <1>2, <1>3
<1> DEFINE t == [s EXCEPT !.button = s.button + 1]
<1>5. proceed(s, c, CheckAction) = proceed_street(s, c) \/ proceed(s, c, CheckAction) = t
  BY DEF proceed, check, CheckAction
<1>6. Balanced(t) /\ t.type = "round" /\ t.street = s.street
  <2>1. t \in RoundStates /\ t.type = "round" /\ t.street = s.street
    BY <1>1 DEF RoundStates
  <2>2. t.pips = s.pips /\ t.stacks = s.stacks /\ t.button = s.button + 1 /\ t.button # 0
    BY <1>1 DEF RoundStates
  <2> HIDE DEF t
  <2>3. (active(t) = 0 /\ 1 - active(t) = 1) \/ (active(t) = 1 /\ 1 - active(t) = 0)
    BY <2>1, ActiveSeat
  <2>4. continue_cost(t) = 0
    BY <1>1, <1>2, <2>2, <2>3 DEF continue_cost
  <2> QED BY <1>3, <2>1, <2>2, <2>4 DEF Balanced
<1>7. Balanced(proceed_street(s, c)) \/ Ended(proceed_street(s, c))
  BY <1>1, <1>4, ProceedStreet
<1> HIDE DEF t
<1> QED BY <1>4, <1>5, <1>6, <1>7

\* A call of the small blind leaves the big blind its option; any other call
\* makes the stacks equal and closes the street (proceed, CallAction).
LEMMA CallStep ==
  ASSUME NEW s, NEW c \in Deals, Balanced(s)
  PROVE  LET t == PutIn(s, continue_cost(s))
         IN  /\ Balanced(proceed(s, c, CallAction)) \/ Ended(proceed(s, c, CallAction))
             /\ \/ /\ proceed(s, c, CallAction) = proceed_street(t, c)
                   /\ t \in RoundStates
                   /\ t.stacks[0] = t.stacks[1]
                \/ /\ proceed(s, c, CallAction).type = "round"
                   /\ proceed(s, c, CallAction).street = s.street
<1> DEFINE t == PutIn(s, continue_cost(s))
           u == [s EXCEPT !.button = 1, !.pips = Pair(BIG_BLIND, BIG_BLIND),
                          !.stacks = Pair(STARTING_STACK - BIG_BLIND, STARTING_STACK - BIG_BLIND)]
<1>1. /\ s \in RoundStates /\ s.button \in Nat /\ s.type = "round"
      /\ continue_cost(s) \in Nat /\ continue_cost(s) <= s.stacks[active(s)]
  BY BalancedFields DEF Balanced
<1>2. CASE s.button = 0
  <2>1. proceed(s, c, CallAction) = u
    BY <1>2 DEF proceed, call, CallAction
  <2>2. /\ Pair(BIG_BLIND, BIG_BLIND) \in [Seats -> Nat]
        /\ Pair(BIG_BLIND, BIG_BLIND)[0] = BIG_BLIND /\ Pair(BIG_BLIND, BIG_BLIND)[1] = BIG_BLIND
    BY BlindsAssumption DEF Pair, Seats
  <2>3. LET rest == STARTING_STACK - BIG_BLIND
        IN  Pair(rest, rest) \in [Seats -> Nat] /\ Pair(rest, rest)[0] = rest /\ Pair(rest, rest)[1] = rest
    BY BlindsAssumption DEF Pair, Seats
  <2>4. /\ u \in RoundStates /\ u.type = "round" /\ u.street = s.street /\ u.button = 1
        /\ u.pips = Pair(BIG_BLIND, BIG_BLIND)
        /\ u.stacks = Pair(STARTING_STACK - BIG_BLIND, STARTING_STACK - BIG_BLIND)
    BY <1>1, <2>2, <2>3 DEF RoundStates
  <2> HIDE DEF u
  <2>5. active(u) = 1
    BY <2>4 DEF active
  <2>6. continue_cost(u) = 0
    BY <2>2, <2>4, <2>5, BlindsAssumption DEF continue_cost
  <2>7. Balanced(u)
    BY <2>2, <2>3, <2>4, <2>6, BlindsAssumption DEF Balanced
  <2> QED BY <2>1, <2>4, <2>7
<1>3. CASE s.button # 0
  <2>1. proceed(s, c, CallAction) = proceed_street(t, c)
    BY <1>3 DEF proceed, call, CallAction
  <2>2. /\ t \in RoundStates
        /\ t.stacks[0] = t.stacks[1] /\ t.stacks[0] <= STARTING_STACK
    <3>1. continue_cost(s) <= continue_cost(s)
      BY <1>1
    <3> QED BY <1>1, <3>1, PutInBalanced
  <2> HIDE DEF t
  <2>3. Balanced(proceed_street(t, c)) \/ Ended(proceed_street(t, c))
    BY <2>2, ProceedStreet
  <2> QED BY <2>1, <2>2, <2>3 DEF t
<1> QED BY <1>2, <1>3

\* The bounds of a legal raise: above the bet it faces and within both stacks
\* (raise_bounds).
LEMMA RaiseBounds ==
  ASSUME NEW s, Balanced(s), "Raise" \in legal_actions(s)
  PROVE  LET a == active(s)
             bounds == raise_bounds(s)
         IN  /\ bounds[1] \in Int /\ bounds[2] \in Int
             /\ s.pips[1 - a] < bounds[1]
             /\ bounds[1] <= bounds[2]
             /\ bounds[2] <= s.pips[a] + s.stacks[a]
             /\ bounds[2] <= s.pips[1 - a] + s.stacks[1 - a]
<1> DEFINE a == active(s)
           cost == continue_cost(s)
           most == min(s.stacks[a], s.stacks[1 - a] + cost)
           least == min(most, cost + max(cost, BIG_BLIND))
<1>1. (a = 0 /\ 1 - a = 1) \/ (a = 1 /\ 1 - a = 0)
  BY ActiveSeat DEF Balanced
<1>2. /\ s.pips[a] \in Nat /\ s.pips[1 - a] \in Nat
      /\ s.stacks[a] \in Nat /\ s.stacks[1 - a] \in Nat
      /\ cost \in Nat /\ s.stacks[a] = s.stacks[1 - a] + cost
  BY <1>1, BalancedFields
<1>3. cost = s.pips[1 - a] - s.pips[a]
  BY DEF continue_cost
<1>4. s.stacks[1 - a] # 0
  BY <1>1 DEF legal_actions
<1>5. raise_bounds(s) = <<s.pips[a] + least, s.pips[a] + most>>
  BY DEF raise_bounds
<1> HIDE DEF a, cost
<1>6. most = s.stacks[a] /\ most \in Nat
  BY <1>2 DEF min
<1> HIDE DEF most
<1>7. least \in Nat /\ least <= most /\ cost < least
  BY <1>2, <1>4, <1>6, BlindsAssumption DEF min, max
<1> HIDE DEF least
<1>8. raise_bounds(s)[1] = s.pips[a] + least /\ raise_bounds(s)[2] = s.pips[a] + most
  BY <1>5
<1>9. s.pips[1 - a] = s.pips[a] + cost
  BY <1>2, <1>3
<1> QED BY <1>2, <1>6, <1>7, <1>8, <1>9 DEF a

\* A raise within the bounds keeps the round going (proceed, RaiseAction).
LEMMA RaiseStep ==
  ASSUME NEW s, NEW c, Balanced(s), "Raise" \in legal_actions(s),
         NEW amount \in raise_bounds(s)[1] .. raise_bounds(s)[2]
  PROVE  Balanced(proceed(s, c, RaiseAction(amount)))
<1> DEFINE a == active(s)
           n == amount - s.pips[a]
<1>1. (a = 0 /\ 1 - a = 1) \/ (a = 1 /\ 1 - a = 0)
  BY ActiveSeat DEF Balanced
<1>2. /\ s.pips[a] \in Nat /\ s.pips[1 - a] \in Nat /\ s.stacks[a] \in Nat
      /\ continue_cost(s) \in Nat
  BY <1>1, BalancedFields
<1>3. /\ raise_bounds(s)[1] \in Int /\ raise_bounds(s)[2] \in Int
      /\ s.pips[1 - a] < raise_bounds(s)[1]
      /\ raise_bounds(s)[2] <= s.pips[a] + s.stacks[a]
  BY RaiseBounds
<1>4. continue_cost(s) = s.pips[1 - a] - s.pips[a]
  BY DEF continue_cost
<1> HIDE DEF a
<1>5. n \in Nat /\ continue_cost(s) <= n /\ n <= s.stacks[a]
  BY <1>2, <1>3, <1>4
<1>6. Balanced(PutIn(s, n))
  BY <1>5, PutInBalanced DEF a
<1>7. proceed(s, c, RaiseAction(amount)) = PutIn(s, n)
  BY DEF proceed, raise_to, RaiseAction, a
<1> QED BY <1>6, <1>7

-----------------------------------------------------------------------------
(* The specification.                                                      *)

\* A check is legal only when there is nothing to call (legal_actions).
LEMMA CheckIsFree ==
  ASSUME NEW s, "Check" \in legal_actions(s)
  PROVE  continue_cost(s) = 0
BY DEF legal_actions

\* In a round RoundInv means that the players are balanced.
LEMMA RoundIsBalanced ==
  ASSUME RoundInv, InRound
  PROVE  Balanced(round_state) /\ cards \in Deals
BY DEF RoundInv, InRound, Ended, TerminalStates

\* The first deal apart, every step keeps the chips balanced: the four actions and
\* the next deal.
LEMMA RoundInvInductive ==
  ASSUME RoundInv, [RoundsNext]_roundVars
  PROVE  RoundInv'
<1>1. CASE Fold
  <2>1. Ended(proceed(round_state, cards, FoldAction))
    BY <1>1, RoundIsBalanced, FoldStep DEF Fold
  <2> QED BY <1>1, <2>1 DEF Fold, Proceed, RoundInv
<1>2. CASE Call
  <2>1. Balanced(proceed(round_state, cards, CallAction))
          \/ Ended(proceed(round_state, cards, CallAction))
    BY <1>2, RoundIsBalanced, CallStep DEF Call
  <2> QED BY <1>2, <2>1 DEF Call, Proceed, RoundInv
<1>3. CASE Check
  <2>1. continue_cost(round_state) = 0
    BY <1>3, CheckIsFree DEF Check
  <2>2. Balanced(proceed(round_state, cards, CheckAction))
          \/ Ended(proceed(round_state, cards, CheckAction))
    BY <1>3, <2>1, RoundIsBalanced, CheckStep DEF Check
  <2> QED BY <1>3, <2>2 DEF Check, Proceed, RoundInv
<1>4. CASE RaiseLegally
  <2>1. PICK amount \in raise_bounds(round_state)[1] .. raise_bounds(round_state)[2] : Raise(amount)
    BY <1>4 DEF RaiseLegally
  <2>2. Balanced(proceed(round_state, cards, RaiseAction(amount)))
    BY <2>1, RoundIsBalanced, RaiseStep DEF Raise
  <2> QED BY <2>1, <2>2 DEF Raise, Proceed, RoundInv
<1>5. CASE NextDeal
  BY <1>5, InitialBalanced DEF NextDeal, RoundInv
<1>6. CASE UNCHANGED roundVars
  BY <1>6 DEF roundVars, RoundInv, Balanced, Ended, continue_cost, active
<1> QED BY <1>1, <1>2, <1>3, <1>4, <1>5, <1>6 DEF RoundsNext, Act

\* The balance of the chips holds in every reachable state.
THEOREM Balance == RoundsSpec => []RoundInv
<1>1. RoundsInit => RoundInv
  BY InitialBalanced DEF RoundsInit, RoundInv
<1>2. RoundInv /\ [RoundsNext]_roundVars => RoundInv'
  BY RoundInvInductive
<1> QED BY <1>1, <1>2, PTL DEF RoundsSpec

\* The round state is well typed in every reachable state; in particular no stack
\* or pip is ever negative.
THEOREM TypeCorrect == RoundsSpec => []RoundTypeOK
<1>1. RoundInv => RoundTypeOK
  BY DEF RoundInv, RoundTypeOK, Balanced, Ended
<1> QED BY <1>1, Balance, PTL

\* Whoever has to decide can afford to call, and is offered a raise only within a
\* non-empty range both players can afford.
THEOREM DecisionsAreWellFormed == RoundsSpec => []DecisionWellFormed
<1>1. RoundInv => DecisionWellFormed
  <2> SUFFICES ASSUME RoundInv, InRound PROVE DecisionWellFormed
    BY DEF DecisionWellFormed
  <2>1. Balanced(round_state)
    BY RoundIsBalanced
  <2>2. /\ continue_cost(round_state) \in Nat
        /\ continue_cost(round_state) <= round_state.stacks[active(round_state)]
        /\ round_state.stacks[active(round_state)] \in Nat
    <3>1. /\ round_state.stacks[0] \in Nat /\ round_state.stacks[1] \in Nat
          /\ continue_cost(round_state) \in Nat
          /\ continue_cost(round_state) <= round_state.stacks[active(round_state)]
      BY <2>1, BalancedFields
    <3>2. active(round_state) = 0 \/ active(round_state) = 1
      BY <2>1, ActiveSeat DEF Balanced
    <3> QED BY <3>1, <3>2
  <2>3. continue_cost(round_state) \in 0 .. round_state.stacks[active(round_state)]
    BY <2>2
  <2> QED BY <2>1, <2>3, RaiseBounds DEF DecisionWellFormed
<1> QED BY <1>1, Balance, PTL

\* The assertions of showdown and get_delta never fail: a street closes, and a
\* hand is shown down, only with equal stacks.
THEOREM ShowdownsAreEven == RoundsSpec => EqualStakesWhenStreetCloses
<1> DEFINE Closes == \/ round_state'.type = "terminal"
                     \/ round_state'.type = "round" /\ round_state'.street # round_state.street
           closed == IF round_state'.type = "round" THEN round_state'
                                                    ELSE round_state'.previous_state
           Even == closed.stacks[0] = closed.stacks[1]
<1>1. ASSUME NEW s \in RoundStates, NEW c, s.stacks[0] = s.stacks[1],
             round_state' = proceed_street(s, c)
      PROVE  Even
  <2>1. CASE s.street = 5
    <3>1. round_state' = TerminalState(s, c, c.best)
      BY <1>1, <2>1 DEF proceed_street, showdown
    <3>2. round_state'.type = "terminal" /\ round_state'.previous_state = s
      BY <3>1 DEF TerminalState
    <3> QED BY <1>1, <3>2
  <2>2. CASE s.street # 5
    <3>1. round_state'.type = "round" /\ round_state'.stacks = s.stacks
      BY <1>1, <2>2 DEF proceed_street, RoundStates
    <3> QED BY <1>1, <3>1
  <2> QED BY <2>1, <2>2
<1>2. ASSUME RoundInv, Check, Closes
      PROVE  Even
  <2>1. Balanced(round_state) /\ cards \in Deals
    BY <1>2, RoundIsBalanced DEF Check
  <2>2. continue_cost(round_state) = 0
    BY <1>2, CheckIsFree DEF Check
  <2>3. round_state' = proceed(round_state, cards, CheckAction)
    BY <1>2 DEF Check, Proceed
  <2>4. /\ round_state.stacks[0] = round_state.stacks[1]
        /\ round_state' = proceed_street(round_state, cards)
    BY <1>2, <2>1, <2>2, <2>3, CheckStep
  <2> QED BY <1>1, <2>1, <2>4 DEF Balanced
<1>3. ASSUME RoundInv, Call, Closes
      PROVE  Even
  <2> DEFINE t == PutIn(round_state, continue_cost(round_state))
  <2>1. Balanced(round_state) /\ cards \in Deals
    BY <1>3, RoundIsBalanced DEF Call
  <2>2. round_state' = proceed(round_state, cards, CallAction)
    BY <1>3 DEF Call, Proceed
  <2>3. t \in RoundStates /\ t.stacks[0] = t.stacks[1] /\ round_state' = proceed_street(t, cards)
    BY <1>3, <2>1, <2>2, CallStep
  <2> QED BY <1>1, <2>3
<1>4. RoundInv /\ [RoundsNext]_roundVars =>
        [ (Call \/ Check) /\ Closes => Even ]_roundVars
  BY <1>2, <1>3
<1> QED BY <1>4, Balance, PTL DEF RoundsSpec, EqualStakesWhenStreetCloses

-----------------------------------------------------------------------------
(* What one player wins the other loses.                                   *)
DeltasCancel == ~InRound => round_state.deltas[1] = -round_state.deltas[0]

Cancelling(t) == t.type = "terminal" /\ t.deltas[1] = -t.deltas[0]

\* A terminal state pays one player what it takes from the other.
LEMMA TerminalCancels ==
  ASSUME NEW s, NEW c, NEW winner
  PROVE  Cancelling(TerminalState(s, c, winner))
<1> DEFINE delta == get_delta(s, c, winner)
<1>1. TerminalState(s, c, winner).deltas = Pair(delta, -delta)
  BY DEF TerminalState
<1>2. TerminalState(s, c, winner).type = "terminal"
  BY DEF TerminalState
<1> HIDE DEF delta
<1>3. Pair(delta, -delta)[0] = delta /\ Pair(delta, -delta)[1] = -delta
  BY DEF Pair, Seats
<1> QED BY <1>1, <1>2, <1>3 DEF Cancelling

\* A street that closes goes on to the next one or pays out.
LEMMA StreetCancels ==
  ASSUME NEW s \in RoundStates, NEW c
  PROVE  proceed_street(s, c).type = "round" \/ Cancelling(proceed_street(s, c))
<1>1. CASE s.street = 5
  BY <1>1, TerminalCancels DEF proceed_street, showdown
<1>2. CASE s.street # 5
  BY <1>2 DEF proceed_street, RoundStates
<1> QED BY <1>1, <1>2

\* In every reachable state the payoffs of a finished round cancel out.
LEMMA PayoffsCancel == RoundsSpec => []DeltasCancel
<1>1. RoundsInit => DeltasCancel
  BY DEF RoundsInit, DeltasCancel, InRound, InitialState
<1>2. ASSUME RoundInv, DeltasCancel, [RoundsNext]_roundVars
      PROVE  DeltasCancel'
  <2>1. CASE Fold
    <3>1. round_state' = TerminalState(round_state, cards, 1 - active(round_state))
      BY <2>1 DEF Fold, Proceed, proceed, FoldAction
    <3> QED BY <3>1, TerminalCancels DEF Cancelling, DeltasCancel
  <2>2. CASE Call
    <3> DEFINE t == PutIn(round_state, continue_cost(round_state))
    <3>1. Balanced(round_state) /\ cards \in Deals
      BY <1>2, <2>2, RoundIsBalanced DEF Call
    <3>2. round_state' = proceed(round_state, cards, CallAction)
      BY <2>2 DEF Call, Proceed
    <3>3. \/ round_state'.type = "round"
          \/ t \in RoundStates /\ round_state' = proceed_street(t, cards)
      BY <3>1, <3>2, CallStep
    <3> HIDE DEF t
    <3>4. round_state'.type = "round" \/ Cancelling(round_state')
      BY <3>3, StreetCancels
    <3> QED BY <3>4 DEF Cancelling, DeltasCancel, InRound
  <2>3. CASE Check
    <3>1. Balanced(round_state) /\ cards \in Deals
      BY <1>2, <2>3, RoundIsBalanced DEF Check
    <3>2. round_state' = proceed(round_state, cards, CheckAction)
      BY <2>3 DEF Check, Proceed
    <3>3. continue_cost(round_state) = 0
      BY <2>3, CheckIsFree DEF Check
    <3>4. round_state'.type = "round" \/ round_state' = proceed_street(round_state, cards)
      BY <3>1, <3>2, <3>3, CheckStep
    <3>5. round_state'.type = "round" \/ Cancelling(round_state')
      BY <3>1, <3>4, StreetCancels DEF Balanced
    <3> QED BY <3>5 DEF Cancelling, DeltasCancel, InRound
  <2>4. CASE RaiseLegally
    <3>1. PICK amount \in raise_bounds(round_state)[1] .. raise_bounds(round_state)[2] : Raise(amount)
      BY <2>4 DEF RaiseLegally
    <3>2. Balanced(proceed(round_state, cards, RaiseAction(amount)))
      BY <1>2, <3>1, RoundIsBalanced, RaiseStep DEF Raise
    <3>3. round_state'.type = "round"
      BY <3>1, <3>2, BalancedFields DEF Raise, Proceed
    <3> QED BY <3>3 DEF DeltasCancel, InRound
  <2>5. CASE NextDeal
    BY <2>5 DEF NextDeal, DeltasCancel, InRound, InitialState
  <2>6. CASE UNCHANGED roundVars
    BY <1>2, <2>6 DEF roundVars, DeltasCancel, InRound
  <2> QED BY <1>2, <2>1, <2>2, <2>3, <2>4, <2>5, <2>6 DEF RoundsNext, Act
<1> QED BY <1>1, <1>2, Balance, PTL DEF RoundsSpec
-----------------------------------------------------------------------------
(* What the payoffs owe to the outcome and to the seats.                   *)

\* Multiplying by a positive number keeps the order.
LEMMA ScaledOrder ==
  ASSUME NEW d \in Nat, 0 < d, NEW a \in Int, NEW b \in Int
  PROVE  a <= b <=> d * a <= d * b
<1>1. \A x \in Nat : 0 <= d * x /\ (0 < x => 0 < d * x)
  OBVIOUS
<1>2. CASE a <= b
  <2>1. b - a \in Nat /\ 0 <= d * (b - a)
    BY <1>1, <1>2
  <2>2. d * (b - a) = d * b - d * a
    OBVIOUS
  <2> QED BY <1>2, <2>1, <2>2
<1>3. CASE b < a
  <2>1. a - b \in Nat /\ 0 < d * (a - b)
    BY <1>1, <1>3
  <2>2. d * (a - b) = d * a - d * b
    OBVIOUS
  <2> QED BY <1>3, <2>1, <2>2
<1> QED BY <1>2, <1>3

\* int(delta) rounds down: what the quotient is, without the division.
LEMMA FloorBounds ==
  ASSUME NEW n \in Int
  PROVE  /\ n \div Scale \in Int
         /\ Scale * (n \div Scale) <= n
         /\ n < Scale * (n \div Scale + 1)
<1>1. \A x \in Int, d \in Nat : 0 < d =>
        x \div d \in Int /\ d * (x \div d) <= x /\ x < d * (x \div d + 1)
  OBVIOUS
<1> QED BY <1>1, ScalePositive

\* Rounding, up or down, never crosses an integer (get_delta).
LEMMA RoundedOrder ==
  ASSUME NEW n \in Int, NEW k \in Int, NEW button \in Nat
  PROVE  /\ Scale * k <= n => k <= Rounded(n, button)
         /\ n <= Scale * k => Rounded(n, button) <= k
<1> DEFINE q == n \div Scale
           r == (-n) \div Scale
<1>1. q \in Int /\ Scale * q <= n /\ n < Scale * (q + 1)
  BY FloorBounds
<1>2. -n \in Int /\ r \in Int /\ Scale * r <= -n /\ -n < Scale * (r + 1)
  BY FloorBounds
<1>3. Rounded(n, button) = q \/ Rounded(n, button) = -r
  BY DEF Rounded
<1> HIDE DEF q, r
<1>4. Scale \in Nat /\ 0 < Scale /\ Scale * k \in Int /\ Scale * q \in Int
        /\ Scale * (q + 1) \in Int /\ Scale * r \in Int /\ Scale * (r + 1) \in Int
        /\ Scale * (-k) \in Int /\ Scale * (-k) = -(Scale * k)
  BY <1>1, <1>2, ScalePositive
<1>5. /\ Scale * k <= n => k <= q
      /\ n <= Scale * k => q <= k
  <2>1. Scale * (q + 1) <= Scale * k <=> q + 1 <= k
    BY <1>1, <1>4, ScaledOrder
  <2>2. Scale * q <= Scale * k <=> q <= k
    BY <1>1, <1>4, ScaledOrder
  <2>3. q + 1 <= k <=> q < k
    BY <1>1
  <2>4. Scale * k <= n => ~(Scale * (q + 1) <= Scale * k)
    BY <1>1, <1>4
  <2>5. n <= Scale * k => Scale * q <= Scale * k
    BY <1>1, <1>4
  <2> QED BY <1>1, <2>1, <2>2, <2>3, <2>4, <2>5
<1>6. /\ Scale * k <= n => k <= -r
      /\ n <= Scale * k => -r <= k
  <2>1. Scale * (r + 1) <= Scale * (-k) <=> r + 1 <= -k
    BY <1>2, <1>4, ScaledOrder
  <2>2. Scale * r <= Scale * (-k) <=> r <= -k
    BY <1>2, <1>4, ScaledOrder
  <2>3. n <= Scale * k => ~(Scale * (r + 1) <= Scale * (-k))
    BY <1>2, <1>4
  <2>4. Scale * k <= n => Scale * r <= Scale * (-k)
    BY <1>2, <1>4
  <2> QED BY <1>2, <2>1, <2>2, <2>3, <2>4
<1> QED BY <1>3, <1>5, <1>6

\* Rounding a payoff and its opposite loses at most one chip (get_delta).
LEMMA RoundedOpposite ==
  ASSUME NEW n \in Int, NEW button \in Nat
  PROVE  Rounded(n, button) + Rounded(-n, button) \in {-1, 0, 1}
<1> DEFINE q == n \div Scale
           r == (-n) \div Scale
<1>1. q \in Int /\ Scale * q <= n /\ n < Scale * (q + 1)
  BY FloorBounds
<1>2. -n \in Int /\ -(-n) = n /\ r \in Int /\ Scale * r <= -n /\ -n < Scale * (r + 1)
  BY FloorBounds
<1>3. Rounded(n, button) + Rounded(-n, button) = q + r
        \/ Rounded(n, button) + Rounded(-n, button) = -r - q
  BY <1>1, <1>2 DEF Rounded
<1> HIDE DEF q, r
<1>4. /\ Scale \in Nat /\ 0 < Scale
      /\ Scale * q \in Int /\ Scale * r \in Int
      /\ Scale * (q + 1) \in Int /\ Scale * (r + 1) \in Int
      /\ Scale * (q + r) = Scale * q + Scale * r
      /\ Scale * (q + r + 2) = Scale * (q + 1) + Scale * (r + 1)
      /\ Scale * 0 = 0
  BY <1>1, <1>2, ScalePositive
<1>5. q + r <= 0
  <2>1. Scale * (q + r) <= Scale * 0 <=> q + r <= 0
    BY <1>1, <1>2, <1>4, ScaledOrder
  <2> QED BY <1>1, <1>2, <1>4, <2>1
<1>6. 0 < q + r + 2
  <2>1. Scale * (q + r + 2) <= Scale * 0 <=> q + r + 2 <= 0
    BY <1>1, <1>2, <1>4, ScaledOrder
  <2> QED BY <1>1, <1>2, <1>4, <2>1
<1>7. q + r = 0 \/ q + r = -1
  BY <1>1, <1>2, <1>5, <1>6
<1> QED BY <1>1, <1>2, <1>3, <1>7

\* The payoffs of a terminal state reached with winner are the rounded exact ones
\* (TerminalState).
LEMMA TerminalFields ==
  ASSUME NEW s, NEW c, NEW winner
  PROVE  LET t == TerminalState(s, c, winner)
         IN  /\ t.type = "terminal"
             /\ t.deltas[0] = get_delta(s, c, winner)
             /\ t.deltas[1] = -get_delta(s, c, winner)
             /\ t.bounty_hits = get_bounty_hits(s, c)
             /\ t.previous_state = s
<1> DEFINE delta == get_delta(s, c, winner)
<1>1. TerminalState(s, c, winner) =
        [type |-> "terminal", deltas |-> Pair(delta, -delta),
         bounty_hits |-> get_bounty_hits(s, c), previous_state |-> s]
  BY DEF TerminalState
<1> HIDE DEF delta
<1>2. Pair(delta, -delta)[0] = delta /\ Pair(delta, -delta)[1] = -delta
  BY DEF Pair, Seats
<1> QED BY <1>1, <1>2 DEF delta

\* What PayoffsFollowTheOutcome asks of one payoff.
PaidAs(winner, t) ==
  LET stake == Stakes(t.previous_state)
      gain == t.deltas
      hit == t.bounty_hits
  IN  /\ winner # 2 => gain[winner] >= stake[1 - winner]
      /\ winner = 2 => \A i \in Seats : gain[i] > 0 => hit[i] /\ ~hit[1 - i]

\* The winner's bonus is on top of the loser's stake, and a split pays only for a
\* bounty the other player did not hit (get_delta).
LEMMA TerminalPays ==
  ASSUME NEW s \in RoundStates, NEW c, NEW winner \in {0, 1, 2},
         s.stacks[0] <= STARTING_STACK, s.stacks[1] <= STARTING_STACK
  PROVE  PaidAs(winner, TerminalState(s, c, winner))
<1> DEFINE t == TerminalState(s, c, winner)
           hit == get_bounty_hits(s, c)
           n == exact_delta(s, c, winner)
           stake == STARTING_STACK - s.stacks[0]
           won == STARTING_STACK - s.stacks[1]
           lost == s.stacks[0] - STARTING_STACK
           bonus == Scale * BOUNTY_CONSTANT
           split == (RATIO_NUM - RATIO_DEN) * stake + bonus
           delta == get_delta(s, c, winner)
<1>1. hit[0] \in BOOLEAN /\ hit[1] \in BOOLEAN
  BY HitsBoolean DEF Seats
<1>2. stake \in Nat /\ won \in Nat /\ lost = -stake
  BY BlindsAssumption DEF RoundStates, Seats
<1>3. n \in Int /\ s.button \in Nat
  BY ExactDeltaInt DEF RoundStates
<1>4. delta = Rounded(n, s.button)
  BY DEF get_delta
<1>5. delta \in Int
  BY <1>3, <1>4, RoundedInt
<1>6. /\ t.deltas[0] = delta /\ t.deltas[1] = -delta
      /\ t.bounty_hits = hit /\ t.previous_state = s
  BY TerminalFields
<1>7. Stakes(s)[0] = stake /\ Stakes(s)[1] = won
  BY DEF Stakes, Seats
<1>8. bonus \in Nat
  BY ScalePositive, BountyAssumption
<1>9. (winner = 2 => n = IF hit[0] = hit[1] THEN 0 ELSE IF hit[0] THEN split ELSE -split)
        /\ (winner = 0 => n = IF hit[0] THEN 2 * RATIO_NUM * won + bonus ELSE Scale * won)
        /\ (winner = 1 => n = IF hit[1] THEN 2 * RATIO_NUM * lost - bonus ELSE Scale * lost)
  BY <1>1 DEF exact_delta
<1> HIDE DEF t, hit, n, stake, won, lost, bonus, split, delta
<1>10. CASE winner = 0
  <2>1. Scale * won <= 2 * RATIO_NUM * won
    <3>1. RATIO_NUM - RATIO_DEN \in Nat
      BY BountyAssumption
    <3>2. 0 <= 2 * ((RATIO_NUM - RATIO_DEN) * won)
      BY <1>2, <3>1
    <3>3. 2 * RATIO_NUM * won = Scale * won + 2 * ((RATIO_NUM - RATIO_DEN) * won)
      BY <1>2, BountyAssumption DEF Scale
    <3>4. Scale * won \in Int
      BY <1>2, ScalePositive
    <3>5. (RATIO_NUM - RATIO_DEN) * won \in Int
      BY <1>2, <3>1
    <3> QED BY <3>2, <3>3, <3>4, <3>5
  <2>2. Scale * won <= n
    <3>1. Scale * won \in Int /\ 2 * RATIO_NUM * won \in Int
      BY <1>2, ScalePositive, BountyAssumption
    <3> QED BY <1>1, <1>8, <1>9, <1>10, <2>1, <3>1
  <2>3. won <= delta
    BY <1>2, <1>3, <1>4, <2>2, RoundedOrder
  <2>4. t.deltas[winner] >= Stakes(t.previous_state)[1 - winner]
    BY <1>2, <1>5, <1>6, <1>7, <1>10, <2>3
  <2> QED BY <1>10, <2>4 DEF PaidAs, t
<1>11. CASE winner = 1
  <2>1. 2 * RATIO_NUM * lost <= Scale * lost
    <3>1. RATIO_NUM - RATIO_DEN \in Nat
      BY BountyAssumption
    <3>2. 0 <= 2 * ((RATIO_NUM - RATIO_DEN) * stake)
      BY <1>2, <3>1
    <3>3. Scale * lost = 2 * RATIO_NUM * lost + 2 * ((RATIO_NUM - RATIO_DEN) * stake)
      BY <1>2, BountyAssumption DEF Scale
    <3>4. 2 * RATIO_NUM * lost \in Int /\ (RATIO_NUM - RATIO_DEN) * stake \in Int
      BY <1>2, <3>1, BountyAssumption
    <3> QED BY <3>2, <3>3, <3>4
  <2>2. n <= Scale * lost
    <3>1. Scale * lost \in Int /\ 2 * RATIO_NUM * lost \in Int
      BY <1>2, ScalePositive, BountyAssumption
    <3> QED BY <1>1, <1>8, <1>9, <1>11, <2>1, <3>1
  <2>3. delta <= lost
    BY <1>2, <1>3, <1>4, <2>2, RoundedOrder
  <2>4. t.deltas[winner] >= Stakes(t.previous_state)[1 - winner]
    BY <1>2, <1>5, <1>6, <1>7, <1>11, <2>3
  <2> QED BY <1>11, <2>4 DEF PaidAs, t
<1>12. CASE winner = 2
  <2>1. split \in Nat
    <3>1. RATIO_NUM - RATIO_DEN \in Nat
      BY BountyAssumption
    <3>2. (RATIO_NUM - RATIO_DEN) * stake \in Nat
      BY <1>2, <3>1
    <3> QED BY <1>8, <3>2 DEF split
  <2>2. Scale * 0 = 0
    BY ScalePositive
  <2>3. (hit[0] = hit[1] => n = 0) /\ (~hit[0] => n <= 0) /\ (~hit[1] => 0 <= n)
    BY <1>1, <1>9, <1>12, <2>1
  <2>4. (n <= 0 => delta <= 0) /\ (0 <= n => 0 <= delta)
    BY <1>3, <1>4, <2>2, RoundedOrder
  <2>5. \A i \in Seats : t.deltas[i] > 0 => t.bounty_hits[i] /\ ~t.bounty_hits[1 - i]
    <3>1. t.deltas[0] > 0 => t.bounty_hits[0] /\ ~t.bounty_hits[1]
      BY <1>1, <1>3, <1>5, <1>6, <2>3, <2>4
    <3>2. t.deltas[1] > 0 => t.bounty_hits[1] /\ ~t.bounty_hits[0]
      BY <1>1, <1>3, <1>5, <1>6, <2>3, <2>4
    <3> QED BY <3>1, <3>2 DEF Seats
  <2> QED BY <1>12, <2>5 DEF PaidAs, t
<1> QED BY <1>10, <1>11, <1>12

\* A street that closes pays out only by the outcome of the cards (showdown).
LEMMA StreetPays ==
  ASSUME NEW s \in RoundStates, NEW c \in Deals,
         s.stacks[0] = s.stacks[1], s.stacks[0] <= STARTING_STACK
  PROVE  \/ proceed_street(s, c).type = "round"
         \/ PaidAs(c.best, proceed_street(s, c))
<1>1. CASE s.street = 5
  <2>1. c.best \in {0, 1, 2}
    BY DealsAssumption
  <2> QED BY <1>1, <2>1, TerminalPays DEF proceed_street, showdown
<1>2. CASE s.street # 5
  BY <1>2 DEF proceed_street, RoundStates
<1> QED BY <1>1, <1>2

\* In every round the winner gains at least the loser's stake, and a split pays
\* only for a lone bounty, whatever the stacks, the ratio and the constant.
THEOREM PayoffsFollow == RoundsSpec => PayoffsFollowTheOutcome
<1> DEFINE a == active(round_state)
           winner == IF Fold THEN 1 - a ELSE cards.best
<1>1. ASSUME RoundInv, InRound, RoundsNext, round_state'.type = "terminal"
      PROVE  PaidAs(winner, round_state')
  <2>0. Balanced(round_state) /\ round_state \in RoundStates /\ cards \in Deals
    BY <1>1, RoundIsBalanced DEF Balanced
  <2>1. CASE Fold
    <3>1. round_state' = TerminalState(round_state, cards, 1 - a)
      BY <2>1 DEF Fold, Proceed, proceed, FoldAction
    <3>2. 1 - a \in {0, 1, 2}
      BY <2>0, ActiveSeat
    <3>3. PaidAs(1 - a, round_state')
      BY <2>0, <3>1, <3>2, TerminalPays, BalancedFields
    <3> QED BY <2>1, <3>3
  <2>2. CASE ~Fold /\ Call
    <3> DEFINE t == PutIn(round_state, continue_cost(round_state))
    <3>1. round_state' = proceed(round_state, cards, CallAction)
      BY <2>2 DEF Call, Proceed
    <3>2. /\ continue_cost(round_state) \in Nat
          /\ continue_cost(round_state) <= continue_cost(round_state)
          /\ continue_cost(round_state) <= round_state.stacks[a]
      BY <2>0, BalancedFields
    <3>3. t \in RoundStates /\ t.stacks[0] = t.stacks[1] /\ t.stacks[0] <= STARTING_STACK
      BY <2>0, <3>2, PutInBalanced
    <3>4. round_state' = proceed_street(t, cards)
      BY <1>1, <2>0, <3>1, CallStep
    <3> HIDE DEF t
    <3>5. PaidAs(cards.best, round_state')
      BY <1>1, <2>0, <3>3, <3>4, StreetPays
    <3> QED BY <2>2, <3>5
  <2>3. CASE ~Fold /\ Check
    <3>1. round_state' = proceed(round_state, cards, CheckAction)
      BY <2>3 DEF Check, Proceed
    <3>2. continue_cost(round_state) = 0
      BY <2>3, CheckIsFree DEF Check
    <3>3. /\ round_state.stacks[0] = round_state.stacks[1]
          /\ round_state' = proceed_street(round_state, cards)
      BY <1>1, <2>0, <3>1, <3>2, CheckStep
    <3>4. round_state.stacks[0] <= STARTING_STACK
      BY <2>0, BalancedFields
    <3>5. PaidAs(cards.best, round_state')
      BY <1>1, <2>0, <3>3, <3>4, StreetPays
    <3> QED BY <2>3, <3>5
  <2>4. CASE RaiseLegally
    <3>1. PICK amount \in raise_bounds(round_state)[1] .. raise_bounds(round_state)[2] : Raise(amount)
      BY <2>4 DEF RaiseLegally
    <3>2. Balanced(proceed(round_state, cards, RaiseAction(amount)))
      BY <2>0, <3>1, RaiseStep DEF Raise
    <3>3. round_state'.type = "round"
      BY <3>1, <3>2, BalancedFields DEF Raise, Proceed
    <3> QED BY <1>1, <3>3
  <2> QED BY <1>1, <2>1, <2>2, <2>3, <2>4 DEF RoundsNext, Act, NextDeal
<1>2. RoundInv /\ [RoundsNext]_roundVars =>
        [ InRound /\ round_state'.type = "terminal" => PaidAs(winner, round_state') ]_roundVars
  BY <1>1 DEF roundVars
<1>3. [ InRound /\ round_state'.type = "terminal" => PaidAs(winner, round_state') ]_roundVars
        => [ InRound /\ round_state'.type = "terminal" =>
               LET stake == Stakes(round_state'.previous_state)
                   gain == round_state'.deltas
                   hit == round_state'.bounty_hits
               IN  /\ winner # 2 => gain[winner] >= stake[1 - winner]
                   /\ winner = 2 => \A i \in Seats : gain[i] > 0 => hit[i] /\ ~hit[1 - i] ]_roundVars
  BY DEF PaidAs
<1> QED BY <1>2, <1>3, Balance, PTL DEF RoundsSpec, PayoffsFollowTheOutcome

\* The bounties of the mirrored deal are hit by the other player.
LEMMA MirroredHits ==
  ASSUME NEW s \in RoundStates, NEW c \in Deals
  PROVE  LET hit == get_bounty_hits(s, c)
             mirrored == get_bounty_hits(MirrorState(s), MirrorCards(c))
         IN  mirrored[0] = hit[1] /\ mirrored[1] = hit[0]
<1>1. /\ MirrorCards(c).holes = Swapped(c.holes)
      /\ MirrorCards(c).bounties = Swapped(c.bounties)
      /\ MirrorCards(c).board = c.board
  BY DealsAssumption DEF MirrorCards
<1>2. MirrorState(s).street = s.street
  BY DEF MirrorState, RoundStates
<1>3. /\ MirrorCards(c).holes[0] = c.holes[1] /\ MirrorCards(c).holes[1] = c.holes[0]
      /\ MirrorCards(c).bounties[0] = c.bounties[1] /\ MirrorCards(c).bounties[1] = c.bounties[0]
  BY <1>1 DEF Swapped, Seats
<1> QED BY <1>1, <1>2, <1>3 DEF get_bounty_hits, Seats

\* Exchanging the seats turns the exact payoff of seat 0 into its opposite.
LEMMA MirroredDelta ==
  ASSUME NEW s \in RoundStates, NEW c \in Deals, NEW winner \in {0, 1, 2},
         winner = 2 => s.stacks[0] = s.stacks[1]
  PROVE  exact_delta(MirrorState(s), MirrorCards(c), IF winner = 2 THEN 2 ELSE 1 - winner)
           = -exact_delta(s, c, winner)
<1> DEFINE hit == get_bounty_hits(s, c)
           mirrored == get_bounty_hits(MirrorState(s), MirrorCards(c))
           m == MirrorState(s)
<1>1. hit[0] \in BOOLEAN /\ hit[1] \in BOOLEAN
  BY HitsBoolean DEF Seats
<1>2. mirrored[0] = hit[1] /\ mirrored[1] = hit[0]
  BY MirroredHits
<1>3. m.stacks[0] = s.stacks[1] /\ m.stacks[1] = s.stacks[0]
  BY DEF MirrorState, Swapped, Seats, RoundStates
<1>4. s.stacks[0] \in Nat /\ s.stacks[1] \in Nat /\ STARTING_STACK \in Nat
        /\ Scale \in Nat /\ RATIO_NUM \in Nat /\ RATIO_DEN \in Nat /\ BOUNTY_CONSTANT \in Nat
  BY ScalePositive, BlindsAssumption, BountyAssumption DEF RoundStates, Seats
<1> DEFINE x == STARTING_STACK - s.stacks[0]
           y == STARTING_STACK - s.stacks[1]
           bonus == Scale * BOUNTY_CONSTANT
           split == (RATIO_NUM - RATIO_DEN) * x + bonus
<1>5. CASE winner = 2
  <2>1. exact_delta(s, c, 2) = IF hit[0] = hit[1] THEN 0 ELSE IF hit[0] THEN split ELSE -split
    BY <1>1 DEF exact_delta
  <2>2. exact_delta(m, MirrorCards(c), 2) =
          IF hit[0] = hit[1] THEN 0 ELSE IF hit[1] THEN split ELSE -split
    BY <1>1, <1>2, <1>3, <1>5 DEF exact_delta
  <2>3. split \in Int
    BY <1>4
  <2> HIDE DEF split, hit
  <2> QED BY <1>1, <1>5, <2>1, <2>2, <2>3
<1>6. CASE winner = 0
  <2>1. exact_delta(s, c, 0) = IF hit[0] THEN 2 * RATIO_NUM * y + bonus ELSE Scale * y
    BY <1>1 DEF exact_delta
  <2>2. exact_delta(m, MirrorCards(c), 1) =
          IF hit[0] THEN 2 * RATIO_NUM * (s.stacks[1] - STARTING_STACK) - bonus
                    ELSE Scale * (s.stacks[1] - STARTING_STACK)
    BY <1>1, <1>2, <1>3 DEF exact_delta
  <2>3. s.stacks[1] - STARTING_STACK = -y /\ y \in Int /\ bonus \in Int
    BY <1>4
  <2> HIDE DEF hit, y, bonus
  <2>4. 2 * RATIO_NUM * (-y) - bonus = -(2 * RATIO_NUM * y + bonus) /\ Scale * (-y) = -(Scale * y)
    BY <1>4, <2>3
  <2> QED BY <1>1, <1>6, <2>1, <2>2, <2>3, <2>4
<1>7. CASE winner = 1
  <2>1. exact_delta(s, c, 1) =
          IF hit[1] THEN 2 * RATIO_NUM * (s.stacks[0] - STARTING_STACK) - bonus
                    ELSE Scale * (s.stacks[0] - STARTING_STACK)
    BY <1>1 DEF exact_delta
  <2>2. exact_delta(m, MirrorCards(c), 0) = IF hit[1] THEN 2 * RATIO_NUM * x + bonus ELSE Scale * x
    BY <1>1, <1>2, <1>3 DEF exact_delta
  <2>3. s.stacks[0] - STARTING_STACK = -x /\ x \in Int /\ bonus \in Int
    BY <1>4
  <2> HIDE DEF hit, x, bonus
  <2>4. 2 * RATIO_NUM * x + bonus = -(2 * RATIO_NUM * (-x) - bonus) /\ Scale * x = -(Scale * (-x))
    BY <1>4, <2>3
  <2> QED BY <1>1, <1>7, <2>1, <2>2, <2>3, <2>4
<1> QED BY <1>5, <1>6, <1>7

\* In every reachable state that ends a round, exchanging the seats exchanges the
\* payoffs up to the chip that is rounded away.
THEOREM SeatsAreAlike == RoundsSpec => []PayoffsSeatNeutral
<1>1. RoundInv => PayoffsSeatNeutral
  <2> SUFFICES ASSUME RoundInv, ~InRound,
                      NEW winner \in {0, 1} \cup
                        (IF round_state.previous_state.stacks[0] = round_state.previous_state.stacks[1]
                         THEN {2} ELSE {})
               PROVE  get_delta(round_state.previous_state, cards, winner)
                        + get_delta(MirrorState(round_state.previous_state), MirrorCards(cards),
                                    IF winner = 2 THEN 2 ELSE 1 - winner) \in {-1, 0, 1}
    BY DEF PayoffsSeatNeutral
  <2> DEFINE s == round_state.previous_state
             n == exact_delta(s, cards, winner)
  <2>1. cards \in Deals /\ s \in RoundStates
    BY DEF RoundInv, InRound, Balanced, RoundStates, Ended, TerminalStates
  <2>2. winner \in {0, 1, 2} /\ (winner = 2 => s.stacks[0] = s.stacks[1])
    OBVIOUS
  <2> HIDE DEF s
  <2>3. exact_delta(MirrorState(s), MirrorCards(cards), IF winner = 2 THEN 2 ELSE 1 - winner) = -n
    BY <2>1, <2>2, MirroredDelta
  <2>4. n \in Int /\ s.button \in Nat
    BY <2>1, <2>2, ExactDeltaInt DEF RoundStates
  <2>5. MirrorState(s).button = s.button
    BY <2>1 DEF MirrorState, RoundStates
  <2>6. /\ get_delta(s, cards, winner) = Rounded(n, s.button)
        /\ get_delta(MirrorState(s), MirrorCards(cards), IF winner = 2 THEN 2 ELSE 1 - winner)
             = Rounded(-n, s.button)
    BY <2>3, <2>5 DEF get_delta
  <2> QED BY <2>4, <2>6, RoundedOpposite DEF s
<1> QED BY <1>1, Balance, PTL
-----------------------------------------------------------------------------
(* What one action does to the street, the turn and the cost of calling.   *)

\* The test by which check closes a street.
CheckCloses(s) == (s.street = 0 /\ s.button > 0) \/ s.button > 1

\* The street of s is closed by the step to t: cards are opened, or the round ends.
ClosedBy(s, t) ==
  \/ t.type = "terminal"
  \/ /\ t.type = "round" /\ s.street < t.street
     /\ t.button = 1 /\ continue_cost(t) = 0

\* The same street goes on, with the turn passed and nothing to call.
PassedBy(s, t) ==
  /\ t.type = "round" /\ t.street = s.street
  /\ t.button = s.button + 1 /\ continue_cost(t) = 0

\* Opening cards starts a street at button 1 with empty pips (proceed_street).
LEMMA StreetEffect ==
  ASSUME NEW s \in RoundStates, NEW r \in RoundStates, NEW c, r.street = s.street
  PROVE  ClosedBy(s, proceed_street(r, c))
<1>1. CASE r.street = 5
  <2>1. proceed_street(r, c).type = "terminal"
    BY <1>1, TerminalFields DEF proceed_street, showdown
  <2> QED BY <2>1 DEF ClosedBy
<1>2. CASE r.street # 5
  <2> DEFINE t == proceed_street(r, c)
  <2>1. t.type = "round" /\ t.button = 1 /\ t.pips = Pair(0, 0)
          /\ t.street = IF r.street = 0 THEN 3 ELSE r.street + 1
    BY <1>2 DEF proceed_street, RoundStates
  <2>2. s.street < t.street
    <3>1. r.street \in {0, 3, 4}
      BY <1>2 DEF RoundStates, Streets
    <3> QED BY <3>1, <2>1
  <2> HIDE DEF t
  <2>3. continue_cost(t) = 0
    BY <2>1 DEF continue_cost, active, Pair, Seats
  <2> QED BY <2>1, <2>2, <2>3 DEF ClosedBy, t
<1> QED BY <1>1, <1>2

\* Whoever acts after the turn is passed is the other player.
LEMMA TurnPasses ==
  ASSUME NEW s \in RoundStates, NEW t, t.button = s.button + 1
  PROVE  active(s) = 1 - active(t)
<1>1. s.button \in Nat
  BY DEF RoundStates
<1> QED BY <1>1 DEF active

\* A call leaves the street open only at the first decision of the round.
LEMMA CallEffect ==
  ASSUME NEW s, NEW c, Balanced(s)
  PROVE  LET t == proceed(s, c, CallAction)
         IN  IF s.button = 0 THEN PassedBy(s, t) ELSE ClosedBy(s, t)
<1>1. s \in RoundStates /\ s.button \in Nat
  BY BalancedFields DEF Balanced
<1>2. CASE s.button = 0
  <2> DEFINE t == proceed(s, c, CallAction)
  <2>1. t.type = "round" /\ t.street = s.street /\ t.button = 1
          /\ t.pips = Pair(BIG_BLIND, BIG_BLIND)
    BY <1>1, <1>2 DEF proceed, call, CallAction, RoundStates
  <2> HIDE DEF t
  <2>2. continue_cost(t) = 0
    BY <2>1, BlindsAssumption DEF continue_cost, active, Pair, Seats
  <2> QED BY <1>2, <2>1, <2>2 DEF PassedBy, t
<1>3. CASE s.button # 0
  <2> DEFINE r == PutIn(s, continue_cost(s))
  <2>1. /\ continue_cost(s) \in Nat
        /\ continue_cost(s) <= continue_cost(s)
        /\ continue_cost(s) <= s.stacks[active(s)]
    BY BalancedFields
  <2>2. r \in RoundStates
    BY <2>1, PutInBalanced
  <2>3. r.street = s.street
    BY <1>1 DEF PutIn, RoundStates
  <2>4. proceed(s, c, CallAction) = proceed_street(r, c)
    BY <1>3 DEF proceed, call, CallAction
  <2> HIDE DEF r
  <2>5. ClosedBy(s, proceed_street(r, c))
    BY <1>1, <2>2, <2>3, StreetEffect
  <2> QED BY <1>3, <2>4, <2>5
<1> QED BY <1>2, <1>3

\* A legal check passes the turn or closes the street.
LEMMA CheckEffect ==
  ASSUME NEW s, NEW c, Balanced(s), continue_cost(s) = 0
  PROVE  LET t == proceed(s, c, CheckAction)
         IN  IF CheckCloses(s) THEN ClosedBy(s, t) ELSE PassedBy(s, t)
<1>1. s \in RoundStates /\ s.button \in Nat
  BY BalancedFields DEF Balanced
<1>2. CASE CheckCloses(s)
  <2>1. proceed(s, c, CheckAction) = proceed_street(s, c)
    BY <1>2 DEF proceed, check, CheckAction, CheckCloses
  <2> QED BY <1>1, <1>2, <2>1, StreetEffect
<1>3. CASE ~CheckCloses(s)
  <2> DEFINE t == proceed(s, c, CheckAction)
  <2>1. t = [s EXCEPT !.button = s.button + 1]
    BY <1>3 DEF proceed, check, CheckAction, CheckCloses
  <2>2. t.type = "round" /\ t.street = s.street /\ t.button = s.button + 1 /\ t.pips = s.pips
    BY <1>1, <2>1 DEF RoundStates
  <2> HIDE DEF t
  <2>3. (active(s) = 0 /\ active(t) = 1) \/ (active(s) = 1 /\ active(t) = 0)
    BY <1>1, <2>2 DEF active
  <2>4. s.pips[0] \in Nat /\ s.pips[1] \in Nat
    BY BalancedFields
  <2>5. continue_cost(t) = 0
    BY <2>2, <2>3, <2>4 DEF continue_cost
  <2> QED BY <1>3, <2>2, <2>5 DEF PassedBy, t
<1> QED BY <1>2, <1>3

\* After a raise the opponent has to call by what the raise topped the bet, and
\* the raiser's chips are what it raised to (proceed, RaiseAction).
LEMMA RaiseEffect ==
  ASSUME NEW s, NEW c, Balanced(s), "Raise" \in legal_actions(s),
         NEW amount \in raise_bounds(s)[1] .. raise_bounds(s)[2]
  PROVE  LET t == proceed(s, c, RaiseAction(amount))
             a == active(s)
         IN  /\ t.type = "round" /\ t.street = s.street /\ t.button = s.button + 1
             /\ amount \in Int /\ s.pips[1 - a] < amount
             /\ active(t) = 1 - a
             /\ t.pips[a] = amount
             /\ t.stacks[a] = s.stacks[a] + s.pips[a] - amount
             /\ continue_cost(t) = amount - s.pips[1 - a]
<1> DEFINE a == active(s)
           t == proceed(s, c, RaiseAction(amount))
           n == amount - s.pips[a]
<1>1. s \in RoundStates /\ s.button \in Nat
  BY BalancedFields DEF Balanced
<1>2. (a = 0 /\ 1 - a = 1) \/ (a = 1 /\ 1 - a = 0)
  BY <1>1, ActiveSeat
<1>3. s.pips \in [Seats -> Nat] /\ s.stacks \in [Seats -> Nat] /\ a \in Seats /\ 1 - a \in Seats
  BY <1>1, <1>2 DEF RoundStates, Seats
<1>4. /\ raise_bounds(s)[1] \in Int /\ raise_bounds(s)[2] \in Int
      /\ s.pips[1 - a] < raise_bounds(s)[1]
  BY RaiseBounds
<1>5. amount \in Int /\ s.pips[1 - a] < amount
  BY <1>3, <1>4
<1>6. t = PutIn(s, n)
  BY DEF proceed, raise_to, RaiseAction
<1>7. /\ t.type = "round" /\ t.street = s.street /\ t.button = s.button + 1
      /\ t.stacks = [s.stacks EXCEPT ![a] = @ - n]
      /\ t.pips = [s.pips EXCEPT ![a] = @ + n]
  BY <1>1, <1>6 DEF PutIn, RoundStates
<1>8. active(t) = 1 - a
  BY <1>1, <1>7 DEF active
<1> HIDE DEF t, a
<1>9. /\ t.stacks[a] = s.stacks[a] - n
      /\ t.pips[a] = s.pips[a] + n /\ t.pips[1 - a] = s.pips[1 - a]
  BY <1>2, <1>3, <1>7
<1>10. t.stacks[a] = s.stacks[a] + s.pips[a] - amount /\ t.pips[a] = amount
  BY <1>3, <1>5, <1>9
<1>11. continue_cost(t) = t.pips[1 - (1 - a)] - t.pips[1 - a]
  BY <1>8 DEF continue_cost
<1>12. continue_cost(t) = amount - s.pips[1 - a]
  BY <1>2, <1>9, <1>10, <1>11
<1> QED BY <1>5, <1>7, <1>8, <1>10, <1>12 DEF t, a
=============================================================================
