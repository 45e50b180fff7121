------------------------- MODULE BettingHistory_proofs -------------------------
(***************************************************************************)
(* Proofs that the code's shortcuts about the betting history are right:   *)
(* the parity and size of button tell who has acted, and the cost of       *)
(* calling tells how large the last raise was.  Observed says so, and is   *)
(* inductive together with RoundInv of BettingRound_proofs.                *)
(***************************************************************************)
EXTENDS BettingHistory, BettingRound_proofs

\* At the first decision nobody has acted; a player who faces a bet faces the last
\* raise, and only the raiser has acted; otherwise the other player has acted
\* exactly when a check would close the street.
ObservedAt(s) ==
  LET a == active(s)
      cost == continue_cost(s)
  IN  /\ s.button = 0 => acted = {} /\ excess = BIG_BLIND
      /\ s.button # 0 /\ cost # 0 => acted = {1 - a} /\ excess = cost
      /\ s.button # 0 /\ cost = 0 =>
           /\ acted = IF CheckCloses(s) THEN {1 - a} ELSE {}
           /\ excess \in 0 .. BIG_BLIND

Observed == InRound => ObservedAt(round_state)

-----------------------------------------------------------------------------
(* The auxiliary variables tell the same as the round state.               *)

\* Every behaviour with history is a behaviour of BettingRound.
LEMMA HistoryOnlyObserves == HSpec => RoundsSpec
<1>1. HInit => RoundsInit
  BY DEF HInit
<1>2. [HNext]_hvars => [RoundsNext]_roundVars
  BY DEF HNext, HAct, HNextDeal, RoundsNext, Act, hvars, roundVars
<1> QED BY <1>1, <1>2, PTL DEF HSpec, RoundsSpec

\* Observed is inductive: what proceed makes of button and pips follows what the
\* players did.
LEMMA ObservedInductive ==
  ASSUME RoundInv, Observed, [HNext]_hvars
  PROVE  Observed'
<1> DEFINE s == round_state
           t == round_state'
           a == active(round_state)
<1>1. CASE HAct /\ Fold
  <2>1. t.type = "terminal"
    BY <1>1, TerminalFields DEF Fold, Proceed, proceed, FoldAction
  <2> QED BY <2>1 DEF Observed, InRound
<1>2. ASSUME HAct, InRound, PassedBy(s, t), Call \/ Check,
             s.button = 0 \/ ~CheckCloses(s), s.button = 0 \/ continue_cost(s) = 0, Balanced(s)
      PROVE  Observed'
  <2>1. s \in RoundStates /\ s.button \in Nat /\ t.button = s.button + 1 /\ t.button # 0
    BY <1>2, BalancedFields DEF Balanced, PassedBy
  <2>2. active(s) = 1 - active(t)
    BY <2>1, TurnPasses
  <2>3. t.type = "round" /\ t.street = s.street /\ continue_cost(t) = 0
    BY <1>2 DEF PassedBy
  <2>4. StreetGoesOn
    BY <2>3 DEF StreetGoesOn
  <2>5. acted' = acted \cup {active(s)} /\ excess' = excess
    <3>1. ~RaiseLegally
      <4>1. SUFFICES ASSUME RaiseLegally PROVE FALSE
        OBVIOUS
      <4>2. PICK amount \in raise_bounds(s)[1] .. raise_bounds(s)[2] : Raise(amount)
        BY <4>1 DEF RaiseLegally
      <4>3. t = proceed(s, cards, RaiseAction(amount)) /\ "Raise" \in legal_actions(s)
        BY <4>2 DEF Raise, Proceed
      <4>4. amount \in Int /\ s.pips[1 - a] < amount /\ continue_cost(t) = amount - s.pips[1 - a]
        BY <1>2, <4>2, <4>3, RaiseEffect
      <4>5. s.pips[1 - a] \in Int
        <5>1. (a = 0 /\ 1 - a = 1) \/ (a = 1 /\ 1 - a = 0)
          BY <2>1, ActiveSeat
        <5> QED BY <1>2, <5>1, BalancedFields
      <4> QED BY <2>3, <4>4, <4>5
    <3>2. ~Fold
      <4>1. Fold => t.type = "terminal"
        BY TerminalFields DEF Fold, Proceed, proceed, FoldAction
      <4> QED BY <2>3, <4>1
    <3> QED BY <1>2, <2>4, <3>1, <3>2 DEF HAct
  <2>6. acted = {} /\ excess \in 0 .. BIG_BLIND
    <3>1. CASE s.button = 0
      BY <1>2, <3>1, BlindsAssumption DEF Observed, ObservedAt
    <3>2. CASE s.button # 0
      BY <1>2, <3>2 DEF Observed, ObservedAt
    <3> QED BY <3>1, <3>2
  <2>7. CheckCloses(t)
    <3>1. CASE s.button = 0
      <4>1. s = InitialState
        BY <1>2, <3>1 DEF Balanced
      <4> QED BY <2>1, <2>3, <3>1, <4>1 DEF CheckCloses, InitialState
    <3>2. CASE s.button # 0
      BY <2>1, <2>3, <3>2 DEF CheckCloses
    <3> QED BY <3>1, <3>2
  <2>8. acted' = {1 - active(t)}
    BY <2>2, <2>5, <2>6
  <2> QED BY <2>1, <2>3, <2>5, <2>6, <2>7, <2>8 DEF Observed, ObservedAt
<1>3. ASSUME HAct, InRound, ClosedBy(s, t), Call \/ Check, Balanced(s)
      PROVE  Observed'
  <2>1. CASE t.type = "terminal"
    BY <2>1 DEF Observed, InRound
  <2>2. CASE t.type # "terminal"
    <3>0. s.street < t.street /\ t.type = "round" /\ t.button = 1 /\ continue_cost(t) = 0
      BY <1>3, <2>2 DEF ClosedBy
    <3>1. t.street # s.street /\ t.street # 0 /\ t.type = "round" /\ t.button = 1
            /\ continue_cost(t) = 0
      <4>1. s.street \in Nat
        BY <1>3 DEF Balanced, RoundStates, Streets
      <4> QED BY <3>0, <4>1
    <3>2. ~StreetGoesOn
      BY <3>1 DEF StreetGoesOn
    <3>3. ~Fold
      <4>1. Fold => t.type = "terminal"
        BY TerminalFields DEF Fold, Proceed, proceed, FoldAction
      <4> QED BY <2>2, <4>1
    <3>4. ~RaiseLegally
      <4>1. SUFFICES ASSUME RaiseLegally PROVE FALSE
        OBVIOUS
      <4>2. PICK amount \in raise_bounds(s)[1] .. raise_bounds(s)[2] : Raise(amount)
        BY <4>1 DEF RaiseLegally
      <4>3. t = proceed(s, cards, RaiseAction(amount)) /\ "Raise" \in legal_actions(s)
        BY <4>2 DEF Raise, Proceed
      <4>4. t.street = s.street
        BY <1>3, <4>2, <4>3, RaiseEffect
      <4> QED BY <3>1, <4>4
    <3>5. acted' = {} /\ excess' = 0
      BY <1>3, <3>2, <3>3, <3>4 DEF HAct
    <3>6. ~CheckCloses(t)
      BY <3>1 DEF CheckCloses
    <3> QED BY <3>1, <3>5, <3>6, BlindsAssumption DEF Observed, ObservedAt
  <2> QED BY <2>1, <2>2
<1>4. CASE HAct /\ Call
  <2>1. InRound /\ Balanced(s)
    BY <1>4, RoundIsBalanced DEF Call
  <2>2. t = proceed(s, cards, CallAction)
    BY <1>4 DEF Call, Proceed
  <2>3. IF s.button = 0 THEN PassedBy(s, t) ELSE ClosedBy(s, t)
    BY <2>1, <2>2, CallEffect
  <2> QED BY <1>2, <1>3, <1>4, <2>1, <2>3
<1>5. CASE HAct /\ Check
  <2>1. InRound /\ Balanced(s) /\ continue_cost(s) = 0
    BY <1>5, RoundIsBalanced, CheckIsFree DEF Check
  <2>2. t = proceed(s, cards, CheckAction)
    BY <1>5 DEF Check, Proceed
  <2>3. IF CheckCloses(s) THEN ClosedBy(s, t) ELSE PassedBy(s, t)
    BY <2>1, <2>2, CheckEffect
  <2> QED BY <1>2, <1>3, <1>5, <2>1, <2>3
<1>6. CASE HAct /\ RaiseLegally /\ ~Fold /\ ~Call /\ ~Check
  <2>1. PICK amount \in raise_bounds(s)[1] .. raise_bounds(s)[2] : Raise(amount)
    BY <1>6 DEF RaiseLegally
  <2>2. InRound /\ "Raise" \in legal_actions(s) /\ t = proceed(s, cards, RaiseAction(amount))
    BY <2>1 DEF Raise, Proceed
  <2>3. Balanced(s) /\ s \in RoundStates /\ s.button \in Nat
    BY <2>2, RoundIsBalanced, BalancedFields DEF Balanced
  <2>4. /\ t.type = "round" /\ t.button = s.button + 1
        /\ amount \in Int /\ s.pips[1 - a] < amount
        /\ active(t) = 1 - a /\ t.pips[a] = amount
        /\ continue_cost(t) = amount - s.pips[1 - a]
    BY <2>1, <2>2, <2>3, RaiseEffect
  <2>5. acted' = {a} /\ excess' = t.pips[a] - s.pips[1 - a]
    BY <1>6 DEF HAct
  <2>6. active(s) = 1 - active(t)
    BY <2>3, <2>4, TurnPasses
  <2>7. excess' = continue_cost(t)
    BY <2>4, <2>5
  <2>8. (a = 0 /\ 1 - a = 1) \/ (a = 1 /\ 1 - a = 0)
    BY <2>3, ActiveSeat
  <2>9. s.pips[1 - a] \in Nat
    BY <2>3, <2>8, BalancedFields
  <2>10. t.button # 0 /\ continue_cost(t) # 0
    BY <2>3, <2>4, <2>9
  <2> QED BY <2>5, <2>6, <2>7, <2>10 DEF Observed, ObservedAt
<1>7. CASE HNextDeal
  <2>1. t = InitialState /\ acted' = {} /\ excess' = BIG_BLIND
    BY <1>7 DEF HNextDeal, NextDeal
  <2>2. t.button = 0
    BY <2>1 DEF InitialState
  <2> QED BY <2>1, <2>2 DEF Observed, ObservedAt
<1>8. CASE UNCHANGED hvars
  <2>1. round_state' = round_state /\ acted' = acted /\ excess' = excess
    BY <1>8 DEF hvars
  <2> QED BY <2>1 DEF Observed, InRound, ObservedAt
<1>9. HAct => Fold \/ Call \/ Check \/ RaiseLegally
  BY DEF HAct
<1> QED BY <1>1, <1>4, <1>5, <1>6, <1>7, <1>8, <1>9 DEF HNext

\* The round state tells the betting history in every reachable state.
THEOREM HistoryIsObserved == HSpec => [](RoundInv /\ Observed)
<1>1. HInit => Observed
  <2> SUFFICES ASSUME HInit PROVE Observed
    OBVIOUS
  <2>1. round_state = InitialState /\ acted = {} /\ excess = BIG_BLIND
    BY DEF HInit, RoundsInit
  <2>2. round_state.button = 0
    BY <2>1 DEF InitialState
  <2> QED BY <2>1, <2>2 DEF Observed, ObservedAt
<1>2. RoundInv /\ Observed /\ [HNext]_hvars => Observed'
  BY ObservedInductive
<1>3. HSpec => []RoundInv
  BY HistoryOnlyObserves, Balance
<1> QED BY <1>1, <1>2, <1>3, PTL DEF HSpec

-----------------------------------------------------------------------------
(* The rules of Hold'em about the betting.                                 *)

\* A street closes exactly when both players have acted since the last raise.
THEOREM StreetsCloseRight == HSpec => StreetClosesWhenBothActed
<1> DEFINE s == round_state
           t == round_state'
           a == active(round_state)
           Right == StreetGoesOn <=> acted \cup {a} # Seats
<1>1. ASSUME RoundInv, Observed, Call \/ Check
      PROVE  Right
  <2>1. InRound /\ Balanced(s) /\ s \in RoundStates
    BY <1>1, RoundIsBalanced DEF Call, Check, Balanced
  <2>2. (a = 0 /\ 1 - a = 1) \/ (a = 1 /\ 1 - a = 0)
    BY <2>1, ActiveSeat
  <2>3. {} \cup {a} # Seats /\ {1 - a} \cup {a} = Seats
    BY <2>2 DEF Seats
  <2>4. PassedBy(s, t) => StreetGoesOn
    BY DEF PassedBy, StreetGoesOn
  <2>5. ClosedBy(s, t) => ~StreetGoesOn
    BY <2>1 DEF ClosedBy, StreetGoesOn, RoundStates, Streets
  <2>6. CASE Call
    <3>1. "Call" \in legal_actions(s) /\ t = proceed(s, cards, CallAction)
      BY <2>6 DEF Call, Proceed
    <3>2. IF s.button = 0 THEN PassedBy(s, t) ELSE ClosedBy(s, t)
      BY <2>1, <3>1, CallEffect
    <3>3. continue_cost(s) # 0
      BY <3>1 DEF legal_actions
    <3>4. acted = IF s.button = 0 THEN {} ELSE {1 - a}
      BY <1>1, <2>1, <3>3 DEF Observed, ObservedAt
    <3> QED BY <2>3, <2>4, <2>5, <3>2, <3>4
  <2>7. CASE Check
    <3>1. continue_cost(s) = 0 /\ t = proceed(s, cards, CheckAction)
      BY <2>7, CheckIsFree DEF Check, Proceed
    <3>2. IF CheckCloses(s) THEN ClosedBy(s, t) ELSE PassedBy(s, t)
      BY <2>1, <3>1, CheckEffect
    <3>3. acted = IF CheckCloses(s) THEN {1 - a} ELSE {}
      <4>1. CASE s.button = 0
        BY <1>1, <2>1, <4>1 DEF Observed, ObservedAt, CheckCloses
      <4>2. CASE s.button # 0
        BY <1>1, <2>1, <3>1, <4>2 DEF Observed, ObservedAt
      <4> QED BY <4>1, <4>2
    <3> QED BY <2>3, <2>4, <2>5, <3>2, <3>3
  <2> QED BY <1>1, <2>6, <2>7
<1>2. RoundInv /\ Observed /\ [HNext]_hvars => [Call \/ Check => Right]_hvars
  BY <1>1
<1> QED BY <1>2, HistoryIsObserved, PTL DEF HSpec, StreetClosesWhenBothActed

\* Every raise is at least as large as the one before it and the big blind, unless
\* a player is put all-in.
THEOREM RaisesAreLarge == HSpec => NoUndersizedRaise
<1> DEFINE s == round_state
           t == round_state'
           a == active(round_state)
           Large == \/ excess' >= max(BIG_BLIND, excess)
                    \/ t.stacks[a] = 0
                    \/ t.pips[a] = t.pips[1 - a] + t.stacks[1 - a]
<1>1. ASSUME RoundInv, Observed, HNext, RaiseLegally
      PROVE  Large
  <2>1. PICK amount \in raise_bounds(s)[1] .. raise_bounds(s)[2] : Raise(amount)
    BY <1>1 DEF RaiseLegally
  <2>2. InRound /\ "Raise" \in legal_actions(s) /\ t = proceed(s, cards, RaiseAction(amount))
    BY <2>1 DEF Raise, Proceed
  <2>3. Balanced(s) /\ s \in RoundStates /\ s.button \in Nat
    BY <1>1, <2>2, RoundIsBalanced, BalancedFields DEF Balanced
  <2>4. (a = 0 /\ 1 - a = 1) \/ (a = 1 /\ 1 - a = 0)
    BY <2>3, ActiveSeat
  <2>5. /\ s.pips[a] \in Nat /\ s.pips[1 - a] \in Nat
        /\ s.stacks[a] \in Nat /\ s.stacks[1 - a] \in Nat /\ continue_cost(s) \in Nat
        /\ s.stacks[a] = s.stacks[1 - a] + continue_cost(s)
    BY <2>3, <2>4, BalancedFields
  <2>6. /\ t.type = "round" /\ t.street = s.street
        /\ amount \in Int /\ s.pips[1 - a] < amount
        /\ t.pips[a] = amount
        /\ t.stacks[a] = s.stacks[a] + s.pips[a] - amount
        /\ continue_cost(t) = amount - s.pips[1 - a]
    BY <2>1, <2>2, <2>3, RaiseEffect
  <2>7. excess' = amount - s.pips[1 - a]
    <3>1. continue_cost(t) # 0
      BY <2>5, <2>6
    <3>2. ~PassedBy(s, t) /\ ~ClosedBy(s, t)
      BY <2>6, <3>1 DEF PassedBy, ClosedBy
    <3>3. ~Fold
      BY <2>6, TerminalFields DEF Fold, Proceed, proceed, FoldAction
    <3>4. ~Call
      BY <2>3, <3>2, CallEffect DEF Call, Proceed
    <3>5. ~Check
      BY <2>3, <3>2, CheckIsFree, CheckEffect DEF Check, Proceed
    <3> QED BY <1>1, <2>2, <2>6, <3>3, <3>4, <3>5 DEF HNext, HAct, HNextDeal, NextDeal
  <2> DEFINE cost == continue_cost(s)
             most == min(s.stacks[a], s.stacks[1 - a] + cost)
             least == min(most, cost + max(cost, BIG_BLIND))
  <2>8. amount >= s.pips[a] + least /\ amount <= s.pips[a] + most
    <3>1. raise_bounds(s) = <<s.pips[a] + least, s.pips[a] + most>>
      BY DEF raise_bounds
    <3> HIDE DEF least, most
    <3>2. raise_bounds(s)[1] = s.pips[a] + least /\ raise_bounds(s)[2] = s.pips[a] + most
      BY <3>1
    <3>3. raise_bounds(s)[1] \in Int /\ raise_bounds(s)[2] \in Int
      BY <2>2, <2>3, RaiseBounds
    <3> QED BY <2>1, <3>2, <3>3
  <2>9. cost = s.pips[1 - a] - s.pips[a]
    BY DEF continue_cost
  <2>10. max(BIG_BLIND, excess) <= max(cost, BIG_BLIND)
    <3>1. CASE s.button = 0
      BY <1>1, <2>2, <2>5, <3>1, BlindsAssumption DEF Observed, ObservedAt, max
    <3>2. CASE s.button # 0
      BY <1>1, <2>2, <2>5, <3>2, BlindsAssumption DEF Observed, ObservedAt, max
    <3> QED BY <3>1, <3>2
  <2> HIDE DEF cost
  <2>11. max(BIG_BLIND, excess) \in Int /\ max(cost, BIG_BLIND) \in Int
    <3>1. excess \in Int
      BY <1>1, <2>2, <2>5, BlindsAssumption DEF Observed, ObservedAt
    <3> QED BY <2>5, <3>1, BlindsAssumption DEF max, cost
  <2>12. most = s.stacks[a]
    BY <2>5 DEF min, cost
  <2>13. CASE least = most
    <3>1. t.stacks[a] = 0
      BY <2>5, <2>6, <2>8, <2>12, <2>13
    <3> QED BY <3>1
  <2>14. CASE least = cost + max(cost, BIG_BLIND)
    <3>1. excess' >= max(cost, BIG_BLIND)
      BY <2>5, <2>6, <2>7, <2>8, <2>9, <2>11, <2>14 DEF cost
    <3>2. excess' >= max(BIG_BLIND, excess)
      BY <2>5, <2>6, <2>7, <2>10, <2>11, <3>1 DEF cost
    <3> QED BY <3>2
  <2> QED BY <2>13, <2>14 DEF min
<1>2. RoundInv /\ Observed /\ [HNext]_hvars => [RaiseLegally => Large]_hvars
  BY <1>1
<1> QED BY <1>2, HistoryIsObserved, PTL DEF HSpec, NoUndersizedRaise
=============================================================================
