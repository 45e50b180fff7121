---------------------------- MODULE Skeletons_proofs ----------------------------
(***************************************************************************)
(* The bots' side of a match: a bot on any of the three skeletons that     *)
(* holds the engine's round, as seen from its seat, and reads what the     *)
(* engine logs of its next step holds the engine's next round, or the end  *)
(* of the round and its outcome, and never fails on the way.               *)
(*                                                                         *)
(* A packet is a fold over its clauses (Folding), so that the clause the   *)
(* engine logs next is one more step of the fold.                          *)
(***************************************************************************)
EXTENDS Match, BettingRound_proofs

PyFold == INSTANCE Folding WITH Op <- Py!HandleClause
JavaFold == INSTANCE Folding WITH Op <- Java!HandleClause
CppFold == INSTANCE Folding WITH Op <- Cpp!HandleClause

-----------------------------------------------------------------------------
(* The three game trees against that of the engine.                        *)

\* A round as a bot holds it: deck cards of the board are known and its own bounty.
Shadow(s, deck, rank) ==
  [type |-> "round", button |-> s.button, street |-> s.street, pips |-> s.pips, stacks |-> s.stacks,
   deck |-> deck, bounty |-> rank, seen |-> FALSE]

\* The end of a round as a bot sees it before it is told the outcome.
Closed(u) ==
  /\ u = [type |-> "terminal", deltas |-> u.deltas, bounty_hits |-> u.bounty_hits,
          previous_state |-> u.previous_state]
  /\ u.previous_state = Shadow(u.previous_state, u.previous_state.deck, u.previous_state.bounty)

\* What the engine lets a player do.
Permitted(s, action) ==
  \/ action = FoldAction
  \/ action = CallAction /\ "Call" \in legal_actions(s)
  \/ action = CheckAction /\ "Check" \in legal_actions(s)
  \/ /\ "Raise" \in legal_actions(s)
     /\ \E n \in raise_bounds(s)[1] .. raise_bounds(s)[2] : action = RaiseAction(n)

\* The bot's state follows the engine's from s to t.
Follows(u, t, deck, rank) == IF t.type = "round" THEN u = Shadow(t, deck, rank) ELSE Closed(u)

\* A street that ends: the Python skeleton opens the next one, or closes the round, as the engine does.
LEMMA PyStreet ==
  ASSUME NEW s \in RoundStates, NEW c, NEW deck, NEW rank
  PROVE  Follows(Py!Tree!proceed_street(Shadow(s, deck, rank)), proceed_street(s, c), deck, rank)
<1>1. CASE s.street = 5
  <2>1. proceed_street(s, c).type = "terminal"
    BY <1>1 DEF proceed_street, showdown, TerminalState
  <2>2. Closed(Py!Tree!proceed_street(Shadow(s, deck, rank)))
    BY <1>1 DEF Py!Tree!proceed_street, Py!Tree!TerminalState, Shadow, Closed
  <2> QED BY <2>1, <2>2 DEF Follows
<1>2. CASE s.street # 5
  BY <1>2 DEF Follows, proceed_street, Py!Tree!proceed_street, Shadow, RoundStates, Pair,
    Py!Tree!Both, Seats
<1> QED BY <1>1, <1>2

\* The same of the Java skeleton,
LEMMA JavaStreet ==
  ASSUME NEW s \in RoundStates, NEW c, NEW deck, NEW rank
  PROVE  Follows(Java!Tree!proceedStreet(Shadow(s, deck, rank)), proceed_street(s, c), deck, rank)
<1>1. CASE s.street = 5
  <2>1. proceed_street(s, c).type = "terminal"
    BY <1>1 DEF proceed_street, showdown, TerminalState
  <2>2. Closed(Java!Tree!proceedStreet(Shadow(s, deck, rank)))
    BY <1>1 DEF Java!Tree!proceedStreet, Java!Tree!showdown, Java!Tree!TerminalState, Shadow, Closed
  <2> QED BY <2>1, <2>2 DEF Follows
<1>2. CASE s.street # 5
  BY <1>2 DEF Follows, proceed_street, Java!Tree!proceedStreet, Shadow, RoundStates, Pair,
    Java!Tree!asList, Seats
<1> QED BY <1>1, <1>2

\* and of the C++ skeleton.
LEMMA CppStreet ==
  ASSUME NEW s \in RoundStates, NEW c, NEW deck, NEW rank
  PROVE  Follows(Cpp!Tree!proceedStreet(Shadow(s, deck, rank)), proceed_street(s, c), deck, rank)
<1>1. CASE s.street = 5
  <2>1. proceed_street(s, c).type = "terminal"
    BY <1>1 DEF proceed_street, showdown, TerminalState
  <2>2. Closed(Cpp!Tree!proceedStreet(Shadow(s, deck, rank)))
    BY <1>1 DEF Cpp!Tree!proceedStreet, Cpp!Tree!showdown, Cpp!Tree!TerminalState, Shadow, Closed
  <2> QED BY <2>1, <2>2 DEF Follows
<1>2. CASE s.street # 5
  BY <1>2 DEF Follows, proceed_street, Cpp!Tree!proceedStreet, Shadow, RoundStates, Pair,
    Cpp!Tree!array, Seats
<1> QED BY <1>1, <1>2
\* A round after the player in seat a has put in chips.
Paid(s, a, n, deck, rank) ==
  [type |-> "round", button |-> s.button + 1, street |-> s.street,
   pips |-> [s.pips EXCEPT ![a] = @ + n], stacks |-> [s.stacks EXCEPT ![a] = @ - n],
   deck |-> deck, bounty |-> rank, seen |-> FALSE]

\* Chips put in by the engine,
LEMMA EnginePuts ==
  ASSUME NEW s \in RoundStates, NEW n \in Int, NEW deck, NEW rank
  PROVE  Shadow(PutIn(s, n), deck, rank) = Paid(s, active(s), n, deck, rank)
<1> DEFINE a == active(s)
<1>1. PutIn(s, n) = [s EXCEPT !.button = s.button + 1, !.stacks[a] = @ - n, !.pips[a] = @ + n]
  BY DEF PutIn
<1> HIDE DEF a
<1> QED BY <1>1 DEF Shadow, Paid, RoundStates, a

\* by the Python skeleton,
LEMMA PyPuts ==
  ASSUME NEW s \in RoundStates, NEW n \in Int, NEW deck, NEW rank
  PROVE  Py!Tree!Contribute(Shadow(s, deck, rank), n) = Shadow(PutIn(s, n), deck, rank)
<1> DEFINE b == Shadow(s, deck, rank)
           a == active(s)
<1>1. Py!Tree!active(b) = a /\ b.button = s.button
  BY DEF Shadow, Py!Tree!active, active
<1>2. Py!Tree!Contribute(b, n) = [b EXCEPT !.button = b.button + 1, !.stacks[a] = @ - n, !.pips[a] = @ + n]
  BY <1>1 DEF Py!Tree!Contribute
<1> HIDE DEF a
<1>3. Py!Tree!Contribute(b, n) = Paid(s, a, n, deck, rank)
  BY <1>2 DEF Shadow, Paid
<1> QED BY <1>3, EnginePuts DEF a

\* by the Java skeleton, which is told the new pip and not the chips,
LEMMA JavaPuts ==
  ASSUME NEW s \in RoundStates, NEW amount \in Int, NEW deck, NEW rank
  PROVE  Java!Tree!raiseTo(Shadow(s, deck, rank), amount)
         = Shadow(PutIn(s, amount - s.pips[active(s)]), deck, rank)
<1> DEFINE b == Shadow(s, deck, rank)
           a == active(s)
           n == amount - s.pips[a]
<1>1. Java!Tree!toAct(b) = a /\ b.button = s.button /\ b.pips = s.pips
  BY DEF Shadow, Java!Tree!toAct, active
<1>2. Java!Tree!raiseTo(b, amount) = [b EXCEPT !.button = @ + 1, !.stacks[a] = @ - n, !.pips[a] = amount]
  BY <1>1 DEF Java!Tree!raiseTo
<1>3. n \in Int /\ s.pips \in [Seats -> Nat] /\ a \in Seats /\ s.pips[a] + n = amount
  BY ActiveSeat DEF RoundStates, Seats
<1> HIDE DEF a, n
<1>4. Java!Tree!raiseTo(b, amount) = Paid(s, a, n, deck, rank)
  BY <1>2, <1>3 DEF Shadow, Paid
<1> QED BY <1>3, <1>4, EnginePuts DEF a, n

\* and by the C++ skeleton.
LEMMA CppPuts ==
  ASSUME NEW s \in RoundStates, NEW amount \in Int, NEW deck, NEW rank
  PROVE  Cpp!Tree!afterRaise(Shadow(s, deck, rank), amount)
         = Shadow(PutIn(s, amount - s.pips[active(s)]), deck, rank)
<1> DEFINE b == Shadow(s, deck, rank)
           a == active(s)
           n == amount - s.pips[a]
<1>1. Cpp!Tree!getActive(b) = a /\ b.button = s.button /\ b.pips = s.pips
  BY DEF Shadow, Cpp!Tree!getActive, active
<1>2. Cpp!Tree!afterRaise(b, amount) = [b EXCEPT !.button = @ + 1, !.stacks[a] = @ - n, !.pips[a] = amount]
  BY <1>1 DEF Cpp!Tree!afterRaise
<1>3. n \in Int /\ s.pips \in [Seats -> Nat] /\ a \in Seats /\ s.pips[a] + n = amount
  BY ActiveSeat DEF RoundStates, Seats
<1> HIDE DEF a, n
<1>4. Cpp!Tree!afterRaise(b, amount) = Paid(s, a, n, deck, rank)
  BY <1>2, <1>3 DEF Shadow, Paid
<1> QED BY <1>3, <1>4, EnginePuts DEF a, n

\* What the four actions make of a round, in the engine.
LEMMA FourCases ==
  ASSUME NEW s, NEW c \in Deals, Balanced(s), NEW action, Permitted(s, action)
  PROVE  \/ action = FoldAction /\ proceed(s, c, action).type = "terminal"
         \/ /\ action = CallAction /\ s.button = 0
            /\ proceed(s, c, action) =
                 [s EXCEPT !.button = 1, !.pips = Pair(BIG_BLIND, BIG_BLIND),
                           !.stacks = Pair(STARTING_STACK - BIG_BLIND, STARTING_STACK - BIG_BLIND)]
         \/ /\ action = CallAction /\ s.button # 0
            /\ PutIn(s, continue_cost(s)) \in RoundStates
            /\ proceed(s, c, action) = proceed_street(PutIn(s, continue_cost(s)), c)
         \/ /\ action = CheckAction /\ CheckCloses(s)
            /\ proceed(s, c, action) = proceed_street(s, c)
         \/ /\ action = CheckAction /\ ~CheckCloses(s)
            /\ proceed(s, c, action) = [s EXCEPT !.button = s.button + 1]
         \/ /\ action.type = "Raise" /\ action.amount \in Int
            /\ proceed(s, c, action) = PutIn(s, action.amount - s.pips[active(s)])
<1>1. CASE action = FoldAction
  BY <1>1 DEF FoldAction, proceed, TerminalState
<1>2. CASE action = CallAction
  <2>1. s \in RoundStates /\ continue_cost(s) \in Nat /\ continue_cost(s) <= s.stacks[active(s)]
    BY BalancedFields DEF Balanced
  <2>2. continue_cost(s) <= continue_cost(s)
    BY <2>1
  <2>3. PutIn(s, continue_cost(s)) \in RoundStates
    BY <2>1, <2>2, PutInBalanced
  <2> QED BY <1>2, <2>3 DEF CallAction, proceed, call
<1>3. CASE action = CheckAction
  BY <1>3 DEF CheckAction, proceed, check, CheckCloses
<1>4. ASSUME NEW n \in raise_bounds(s)[1] .. raise_bounds(s)[2], action = RaiseAction(n),
             "Raise" \in legal_actions(s)
      PROVE  /\ action.type = "Raise" /\ action.amount \in Int
             /\ proceed(s, c, action) = PutIn(s, action.amount - s.pips[active(s)])
  <2>1. raise_bounds(s)[1] \in Int /\ raise_bounds(s)[2] \in Int
    BY <1>4, RaiseBounds
  <2> QED BY <1>4, <2>1 DEF RaiseAction, proceed, raise_to
<1> QED BY <1>1, <1>2, <1>3, <1>4 DEF Permitted

\* Each skeleton's proceed takes the bot where the engine goes.
LEMMA PyFollows ==
  ASSUME NEW s, NEW c \in Deals, Balanced(s), NEW action, Permitted(s, action), NEW deck, NEW rank
  PROVE  Follows(Py!Tree!proceed(Shadow(s, deck, rank), Code(action).t, Code(action).v),
                 proceed(s, c, action), deck, rank)
<1> DEFINE b == Shadow(s, deck, rank)
           u == Py!Tree!proceed(b, Code(action).t, Code(action).v)
<1>0. /\ s \in RoundStates /\ s.button \in Nat /\ s.type = "round" /\ continue_cost(s) \in Int
      /\ b.button = s.button /\ b.street = s.street /\ b.pips = s.pips /\ b.stacks = s.stacks
      /\ b = Shadow(b, b.deck, b.bounty)
  BY BalancedFields DEF Balanced, Shadow
<1>1. CASE action = FoldAction /\ proceed(s, c, action).type = "terminal"
  <2>1. u = Py!Tree!fold(b)
    BY <1>1 DEF FoldAction, Code, Clause, Py!Clause, Py!Tree!proceed
  <2> HIDE DEF b, u
  <2>2. Closed(u)
    BY <1>0, <2>1 DEF Py!Tree!fold, Py!Tree!TerminalState, Closed
  <2> QED BY <1>1, <2>2 DEF Follows, u, b
<1>2. CASE /\ action = CallAction /\ s.button = 0
           /\ proceed(s, c, action) =
                [s EXCEPT !.button = 1, !.pips = Pair(BIG_BLIND, BIG_BLIND),
                          !.stacks = Pair(STARTING_STACK - BIG_BLIND, STARTING_STACK - BIG_BLIND)]
  <2>1. u = Py!Tree!call(b)
    BY <1>2 DEF CallAction, Code, Clause, Py!Clause, Py!Tree!proceed
  <2>2. u = Shadow(proceed(s, c, action), deck, rank)
    BY <1>0, <1>2, <2>1 DEF Py!Tree!call, Shadow, RoundStates, Pair, Py!Tree!Both, Seats
  <2>3. proceed(s, c, action).type = "round"
    BY <1>0, <1>2 DEF RoundStates
  <2> QED BY <2>2, <2>3 DEF Follows
<1>3. CASE /\ action = CallAction /\ s.button # 0
           /\ PutIn(s, continue_cost(s)) \in RoundStates
           /\ proceed(s, c, action) = proceed_street(PutIn(s, continue_cost(s)), c)
  <2>1. u = Py!Tree!call(b)
    BY <1>3 DEF CallAction, Code, Clause, Py!Clause, Py!Tree!proceed
  <2>2. Py!Tree!continue_cost(b) = continue_cost(s)
    BY <1>0 DEF Py!Tree!continue_cost, continue_cost, Py!Tree!active, active
  <2>3. u = Py!Tree!proceed_street(Shadow(PutIn(s, continue_cost(s)), deck, rank))
    BY <1>0, <1>3, <2>1, <2>2, PyPuts DEF Py!Tree!call
  <2> QED BY <1>3, <2>3, PyStreet
<1>4. CASE action = CheckAction /\ CheckCloses(s) /\ proceed(s, c, action) = proceed_street(s, c)
  <2>1. u = Py!Tree!check(b)
    BY <1>4 DEF CheckAction, Code, Clause, Py!Clause, Py!Tree!proceed
  <2>2. u = Py!Tree!proceed_street(b)
    BY <1>0, <1>4, <2>1 DEF Py!Tree!check, CheckCloses
  <2> QED BY <1>0, <1>4, <2>2, PyStreet
<1>5. CASE action = CheckAction /\ ~CheckCloses(s) /\ proceed(s, c, action) = [s EXCEPT !.button = s.button + 1]
  <2>1. u = Py!Tree!check(b)
    BY <1>5 DEF CheckAction, Code, Clause, Py!Clause, Py!Tree!proceed
  <2>2. u = Shadow(proceed(s, c, action), deck, rank) /\ proceed(s, c, action).type = "round"
    BY <1>0, <1>5, <2>1 DEF Py!Tree!check, CheckCloses, Shadow, RoundStates
  <2> QED BY <2>2 DEF Follows
<1>6. CASE /\ action.type = "Raise" /\ action.amount \in Int
           /\ proceed(s, c, action) = PutIn(s, action.amount - s.pips[active(s)])
  <2>1. u = Py!Tree!raise_to(b, action.amount)
    BY <1>6 DEF Code, Clause, Py!Clause, Py!Tree!proceed
  <2>2. s.pips[active(s)] \in Int
    BY <1>0, ActiveSeat DEF RoundStates, Seats
  <2>3. u = Py!Tree!Contribute(b, action.amount - s.pips[active(s)])
    BY <1>0, <2>1 DEF Py!Tree!raise_to, Py!Tree!active, active
  <2>4. u = Shadow(proceed(s, c, action), deck, rank)
    BY <1>0, <1>6, <2>2, <2>3, PyPuts
  <2>5. proceed(s, c, action).type = "round"
    BY <1>0, <1>6 DEF PutIn, RoundStates
  <2> QED BY <2>4, <2>5 DEF Follows
<1> QED BY <1>1, <1>2, <1>3, <1>4, <1>5, <1>6, FourCases, ZenonT(40)

\* The cases of the Java skeleton's switch that do not close the street.
LEMMA JavaCases ==
  ASSUME NEW b, b.button \in Nat, b.street \in Streets
  PROVE  /\ ~CheckCloses(b) => Java!Tree!proceed(b, "K", 0) = [b EXCEPT !.button = @ + 1]
         /\ b.button = 0 =>
              Java!Tree!proceed(b, "C", 0) =
                [b EXCEPT !.button = 1, !.pips = Java!Tree!asList(BIG_BLIND, BIG_BLIND),
                   !.stacks = Java!Tree!asList(STARTING_STACK - BIG_BLIND, STARTING_STACK - BIG_BLIND)]
<1>1. CASE ~CheckCloses(b)
  BY <1>1 DEF Java!Tree!proceed, CheckCloses, Streets
<1>2. CASE b.button = 0
  BY <1>2 DEF Java!Tree!proceed
<1> QED BY <1>1, <1>2 DEF CheckCloses, Streets

\* The same of the Java skeleton, which looks at the cards of the board to fold,
LEMMA JavaFollows ==
  ASSUME NEW s, NEW c \in Deals, Balanced(s), NEW action, Permitted(s, action), NEW deck, NEW rank
  PROVE  Follows(Java!Tree!proceed(Shadow(s, deck, rank), Code(action).t, Code(action).v),
                 proceed(s, c, action), deck, rank)
<1> DEFINE b == Shadow(s, deck, rank)
           u == Java!Tree!proceed(b, Code(action).t, Code(action).v)
<1>0. /\ s \in RoundStates /\ s.button \in Nat /\ s.type = "round" /\ continue_cost(s) \in Int
      /\ b.button = s.button /\ b.street = s.street /\ b.pips = s.pips /\ b.stacks = s.stacks
      /\ b = Shadow(b, b.deck, b.bounty)
  BY BalancedFields DEF Balanced, Shadow
<1>1. CASE action = FoldAction /\ proceed(s, c, action).type = "terminal"
  <2> DEFINE delta == Java!Tree!foldDelta(b)
  <2>1. u = Java!Tree!TerminalState(Java!Tree!asList(delta, -delta), Java!Tree!asList(FALSE, FALSE), b)
    BY <1>1 DEF FoldAction, Code, Clause, Py!Clause, Java!Tree!proceed
  <2> HIDE DEF b, u, delta
  <2>2. Closed(u)
    BY <1>0, <2>1 DEF Java!Tree!TerminalState, Closed
  <2> QED BY <1>1, <2>2 DEF Follows, u, b
<1>2. CASE /\ action = CallAction /\ s.button = 0
           /\ proceed(s, c, action) =
                [s EXCEPT !.button = 1, !.pips = Pair(BIG_BLIND, BIG_BLIND),
                          !.stacks = Pair(STARTING_STACK - BIG_BLIND, STARTING_STACK - BIG_BLIND)]
  <2>1. u = [b EXCEPT !.button = 1, !.pips = Java!Tree!asList(BIG_BLIND, BIG_BLIND),
               !.stacks = Java!Tree!asList(STARTING_STACK - BIG_BLIND, STARTING_STACK - BIG_BLIND)]
    <3> HIDE DEF b
    <3>1. u = Java!Tree!proceed(b, "C", 0)
      BY <1>2 DEF CallAction, Code, Clause, Py!Clause
    <3>2. b.button \in Nat /\ b.button = 0 /\ b.street \in Streets
      BY <1>0, <1>2 DEF RoundStates
    <3> HIDE DEF u
    <3> QED BY <3>1, <3>2, JavaCases
  <2>2. u = Shadow(proceed(s, c, action), deck, rank)
    <3> HIDE DEF u
    <3> QED BY <1>0, <1>2, <2>1 DEF Shadow, RoundStates, Pair, Java!Tree!asList, Seats
  <2>3. proceed(s, c, action).type = "round"
    BY <1>0, <1>2 DEF RoundStates
  <2> QED BY <2>2, <2>3 DEF Follows
<1>3. CASE /\ action = CallAction /\ s.button # 0
           /\ PutIn(s, continue_cost(s)) \in RoundStates
           /\ proceed(s, c, action) = proceed_street(PutIn(s, continue_cost(s)), c)
  <2>1. u = Java!Tree!proceedStreet(Java!Tree!raiseTo(b, b.pips[1 - Java!Tree!toAct(b)]))
    BY <1>0, <1>3 DEF CallAction, Code, Clause, Py!Clause, Java!Tree!proceed
  <2>2. /\ b.pips[1 - Java!Tree!toAct(b)] = s.pips[1 - active(s)]
        /\ continue_cost(s) = s.pips[1 - active(s)] - s.pips[active(s)]
    BY <1>0 DEF Java!Tree!toAct, active, continue_cost
  <2>3. s.pips[1 - active(s)] \in Int
    BY <1>0, ActiveSeat DEF RoundStates, Seats
  <2>4. u = Java!Tree!proceedStreet(Shadow(PutIn(s, continue_cost(s)), deck, rank))
    BY <1>0, <2>1, <2>2, <2>3, JavaPuts
  <2> QED BY <1>3, <2>4, JavaStreet
<1>4. CASE action = CheckAction /\ CheckCloses(s) /\ proceed(s, c, action) = proceed_street(s, c)
  <2>1. u = Java!Tree!proceedStreet(b)
    <3>1. s.street \in {0, 3, 4, 5}
      BY <1>0 DEF RoundStates, Streets
    <3>2. u = Java!Tree!proceed(b, "K", 0)
      BY <1>4 DEF CheckAction, Code, Clause, Py!Clause
    <3> HIDE DEF b, u
    <3> QED BY <1>0, <1>4, <3>1, <3>2 DEF Java!Tree!proceed, CheckCloses
  <2> QED BY <1>0, <1>4, <2>1, JavaStreet
<1>5. CASE action = CheckAction /\ ~CheckCloses(s) /\ proceed(s, c, action) = [s EXCEPT !.button = s.button + 1]
  <2>1. u = [b EXCEPT !.button = @ + 1]
    <3> HIDE DEF b
    <3>1. b.button \in Nat /\ b.street \in Streets /\ ~CheckCloses(b)
      BY <1>0, <1>5 DEF RoundStates, CheckCloses
    <3>2. u = Java!Tree!proceed(b, "K", 0)
      BY <1>5 DEF CheckAction, Code, Clause, Py!Clause
    <3> HIDE DEF u
    <3> QED BY <3>1, <3>2, JavaCases
  <2>2. u = Shadow(proceed(s, c, action), deck, rank) /\ proceed(s, c, action).type = "round"
    <3> HIDE DEF u
    <3> QED BY <1>0, <1>5, <2>1 DEF Shadow, RoundStates
  <2> QED BY <2>2 DEF Follows
<1>6. CASE /\ action.type = "Raise" /\ action.amount \in Int
           /\ proceed(s, c, action) = PutIn(s, action.amount - s.pips[active(s)])
  <2>1. u = Java!Tree!raiseTo(b, action.amount)
    BY <1>6 DEF Code, Clause, Py!Clause, Java!Tree!proceed
  <2>2. u = Shadow(proceed(s, c, action), deck, rank)
    BY <1>0, <1>6, <2>1, JavaPuts
  <2>3. proceed(s, c, action).type = "round"
    BY <1>0, <1>6 DEF PutIn, RoundStates
  <2> QED BY <2>2, <2>3 DEF Follows
<1> QED BY <1>1, <1>2, <1>3, <1>4, <1>5, <1>6, FourCases, ZenonT(40)

\* and of the C++ skeleton.
LEMMA CppFollows ==
  ASSUME NEW s, NEW c \in Deals, Balanced(s), NEW action, Permitted(s, action), NEW deck, NEW rank
  PROVE  Follows(Cpp!Tree!proceed(Shadow(s, deck, rank), Code(action).t, Code(action).v),
                 proceed(s, c, action), deck, rank)
<1> DEFINE b == Shadow(s, deck, rank)
           u == Cpp!Tree!proceed(b, Code(action).t, Code(action).v)
<1>0. /\ s \in RoundStates /\ s.button \in Nat /\ s.type = "round" /\ continue_cost(s) \in Int
      /\ b.button = s.button /\ b.street = s.street /\ b.pips = s.pips /\ b.stacks = s.stacks
      /\ b = Shadow(b, b.deck, b.bounty)
  BY BalancedFields DEF Balanced, Shadow
<1>1. CASE action = FoldAction /\ proceed(s, c, action).type = "terminal"
  <2>1. u = Cpp!Tree!afterFold(b)
    BY <1>1 DEF FoldAction, Code, Clause, Py!Clause, Cpp!Tree!proceed
  <2> HIDE DEF b, u
  <2>2. Closed(u)
    BY <1>0, <2>1 DEF Cpp!Tree!afterFold, Cpp!Tree!TerminalState, Closed
  <2> QED BY <1>1, <2>2 DEF Follows, u, b
<1>2. CASE /\ action = CallAction /\ s.button = 0
           /\ proceed(s, c, action) =
                [s EXCEPT !.button = 1, !.pips = Pair(BIG_BLIND, BIG_BLIND),
                          !.stacks = Pair(STARTING_STACK - BIG_BLIND, STARTING_STACK - BIG_BLIND)]
  <2>1. u = Cpp!Tree!afterCall(b)
    BY <1>2 DEF CallAction, Code, Clause, Py!Clause, Cpp!Tree!proceed
  <2>2. u = Shadow(proceed(s, c, action), deck, rank)
    BY <1>0, <1>2, <2>1 DEF Cpp!Tree!afterCall, Shadow, RoundStates, Pair, Cpp!Tree!array, Seats
  <2>3. proceed(s, c, action).type = "round"
    BY <1>0, <1>2 DEF RoundStates
  <2> QED BY <2>2, <2>3 DEF Follows
<1>3. CASE /\ action = CallAction /\ s.button # 0
           /\ PutIn(s, continue_cost(s)) \in RoundStates
           /\ proceed(s, c, action) = proceed_street(PutIn(s, continue_cost(s)), c)
  <2>1. u = Cpp!Tree!afterCall(b)
    BY <1>3 DEF CallAction, Code, Clause, Py!Clause, Cpp!Tree!proceed
  <2>2. Cpp!Tree!continueCost(b) = continue_cost(s)
    BY <1>0 DEF Cpp!Tree!continueCost, continue_cost, Cpp!Tree!getActive, active
  <2>3. u = Cpp!Tree!proceedStreet(Cpp!Tree!afterRaise(b, continue_cost(s) + s.pips[active(s)]))
    <3>1. Cpp!Tree!getActive(b) = active(s) /\ s.pips[active(s)] \in Int
      BY <1>0, ActiveSeat DEF Cpp!Tree!getActive, active, RoundStates, Seats
    <3>2. (continue_cost(s) + s.pips[active(s)]) - s.pips[active(s)] = continue_cost(s)
          /\ s.pips[active(s)] + continue_cost(s) = continue_cost(s) + s.pips[active(s)]
      BY <1>0, <3>1
    <3> QED BY <1>0, <1>3, <2>1, <2>2, <3>1, <3>2 DEF Cpp!Tree!afterCall, Cpp!Tree!afterRaise
  <2>4. u = Cpp!Tree!proceedStreet(Shadow(PutIn(s, continue_cost(s)), deck, rank))
    <3>1. s.pips[active(s)] \in Int
      BY <1>0, ActiveSeat DEF RoundStates, Seats
    <3>2. (continue_cost(s) + s.pips[active(s)]) - s.pips[active(s)] = continue_cost(s)
          /\ continue_cost(s) + s.pips[active(s)] \in Int
      BY <1>0, <3>1
    <3> QED BY <1>0, <2>3, <3>2, CppPuts
  <2> QED BY <1>3, <2>4, CppStreet
<1>4. CASE action = CheckAction /\ CheckCloses(s) /\ proceed(s, c, action) = proceed_street(s, c)
  <2>1. u = Cpp!Tree!afterCheck(b)
    BY <1>4 DEF CheckAction, Code, Clause, Py!Clause, Cpp!Tree!proceed
  <2>2. u = Cpp!Tree!proceedStreet(b)
    BY <1>0, <1>4, <2>1 DEF Cpp!Tree!afterCheck, CheckCloses
  <2> QED BY <1>0, <1>4, <2>2, CppStreet
<1>5. CASE action = CheckAction /\ ~CheckCloses(s) /\ proceed(s, c, action) = [s EXCEPT !.button = s.button + 1]
  <2>1. u = Cpp!Tree!afterCheck(b)
    BY <1>5 DEF CheckAction, Code, Clause, Py!Clause, Cpp!Tree!proceed
  <2>2. u = Shadow(proceed(s, c, action), deck, rank) /\ proceed(s, c, action).type = "round"
    BY <1>0, <1>5, <2>1 DEF Cpp!Tree!afterCheck, CheckCloses, Shadow, RoundStates
  <2> QED BY <2>2 DEF Follows
<1>6. CASE /\ action.type = "Raise" /\ action.amount \in Int
           /\ proceed(s, c, action) = PutIn(s, action.amount - s.pips[active(s)])
  <2>1. u = Cpp!Tree!afterRaise(b, action.amount)
    BY <1>6 DEF Code, Clause, Py!Clause, Cpp!Tree!proceed
  <2>2. u = Shadow(proceed(s, c, action), deck, rank)
    BY <1>0, <1>6, <2>1, CppPuts
  <2>3. proceed(s, c, action).type = "round"
    BY <1>0, <1>6 DEF PutIn, RoundStates
  <2> QED BY <2>2, <2>3 DEF Follows
<1> QED BY <1>1, <1>2, <1>3, <1>4, <1>5, <1>6, FourCases, ZenonT(40)

-----------------------------------------------------------------------------
(* One clause, in each of the three runners.                               *)
\* What makes up the locals of a runner, and a terminal state.
BotFields == {"skeleton", "up", "failed", "active", "round_flag", "round_state", "bankroll", "round_num"}
IsBot(b) == b = [f \in BotFields |-> b[f]]
EndFields == {"type", "deltas", "bounty_hits", "previous_state"}
IsEnd(t) == t = [f \in EndFields |-> t[f]] /\ t.type = "terminal"

\* The bot runs, has not failed, and holds this.
Knows(b, sk, i, flag, rs, money, n) ==
  /\ IsBot(b) /\ b.skeleton = sk /\ b.up = TRUE /\ b.failed = FALSE
  /\ b.active = i /\ b.round_flag = flag /\ b.round_state = rs /\ b.bankroll = money /\ b.round_num = n

\* One clause, handled as the bot's skeleton does it.
Handled(sk, b, c) ==
  CASE sk = "python" -> Py!HandleClause(b, c)
    [] sk = "java" -> Java!HandleClause(b, c)
    [] sk = "cpp" -> Cpp!HandleClause(b, c)

\* Which operator of a skeleton a clause goes to.
LEMMA PyClauses ==
  ASSUME NEW b, b.up = TRUE, NEW v
  PROVE  /\ Py!HandleClause(b, Clause("G", v)) = Py!HandleBounty(b, v)
         /\ \A t \in {"F", "C", "K", "R"} : Py!HandleClause(b, Clause(t, v)) = Py!HandleAction(b, Clause(t, v))
         /\ Py!HandleClause(b, Clause("B", v)) = Py!HandleBoard(b, v)
         /\ Py!HandleClause(b, Clause("O", v)) = Py!HandleOpponentHand(b)
         /\ Py!HandleClause(b, Clause("D", v)) = Py!HandleDelta(b, v)
         /\ Py!HandleClause(b, Clause("Y", v)) = Py!HandleRoundOver(b, v)
BY DEF Py!HandleClause, Clause, Py!Clause

\* The same of the Java runner, which casts the state first,
LEMMA JavaClauses ==
  ASSUME NEW b, b.up = TRUE, NEW v
  PROVE  /\ \A t \in {"G", "B", "F", "C", "K", "R"} :
              Java!HandleClause(b, Clause(t, v)) =
                IF Java!IsRound(b) THEN Java!OnRound(b, Clause(t, v)) ELSE Java!Throw(b)
         /\ \A t \in {"O", "D", "Y"} :
              Java!HandleClause(b, Clause(t, v)) =
                IF Java!IsRound(b) THEN Java!Throw(b) ELSE Java!OnTerminal(b, Clause(t, v))
BY DEF Java!HandleClause, Clause, Py!Clause

\* and of the C++ runner.
LEMMA CppClauses ==
  ASSUME NEW b, b.up = TRUE, NEW v
  PROVE  /\ \A t \in {"G", "B", "F", "C", "K", "R"} :
              Cpp!HandleClause(b, Clause(t, v)) =
                IF b.round_state.type = "round" THEN Cpp!castToRound(b, Clause(t, v)) ELSE Cpp!Undefined(b)
         /\ \A t \in {"O", "D", "Y"} :
              Cpp!HandleClause(b, Clause(t, v)) =
                IF b.round_state.type = "terminal" THEN Cpp!castToTerminal(b, Clause(t, v)) ELSE Cpp!Undefined(b)
BY DEF Cpp!HandleClause, Clause, Py!Clause, Cpp!NeedsRound, Cpp!NeedsTerminal

\* A clause goes to the runner the bot is built on.
LEMMA HandledBy ==
  ASSUME NEW b, NEW c, NEW sk \in Skeletons
  PROVE  /\ sk = "python" => Handled(sk, b, c) = Py!HandleClause(b, c)
         /\ sk = "java" => Handled(sk, b, c) = Java!HandleClause(b, c)
         /\ sk = "cpp" => Handled(sk, b, c) = Cpp!HandleClause(b, c)
         /\ Handled(sk, b, c) \in {Py!HandleClause(b, c), Java!HandleClause(b, c), Cpp!HandleClause(b, c)}
BY DEF Handled, Skeletons

\* What the bot learns of the cards changes nothing else of its round.
LEMMA ShadowChanges ==
  ASSUME NEW s, NEW deck, NEW rank, NEW v
  PROVE  /\ Shadow(s, deck, rank).type = "round"
         /\ [Shadow(s, deck, rank) EXCEPT !.bounty = v] = Shadow(s, deck, v)
         /\ [Shadow(s, deck, rank) EXCEPT !.deck = v] = Shadow(s, v, rank)
<1> DEFINE Seen(d, r, f) ==
      [type |-> "round", button |-> s.button, street |-> s.street, pips |-> s.pips, stacks |-> s.stacks,
       deck |-> d, bounty |-> r, seen |-> f]
<1>1. \A f : [Seen(deck, rank, f) EXCEPT !.bounty = v] = Seen(deck, v, f)
  OBVIOUS
<1>2. \A f : [Seen(deck, rank, f) EXCEPT !.deck = v] = Seen(v, rank, f)
  OBVIOUS
<1>3. \A d, r : Shadow(s, d, r) = Seen(d, r, FALSE) /\ Shadow(s, d, r).type = "round"
  BY DEF Shadow
<1> HIDE DEF Seen
<1> QED BY <1>1, <1>2, <1>3

\* P, the beginning of a round.
LEMMA HandlesSeat ==
  ASSUME NEW sk \in Skeletons, NEW a, NEW flag, NEW rs, NEW money, NEW n, NEW b, Knows(b, sk, a, flag, rs, money, n),
         NEW v
  PROVE  Knows(Handled(sk, b, Clause("P", v)), sk, v, flag, rs, money, n)
<1>1. b.up = TRUE
  BY DEF Knows
<1>2. /\ Py!HandleClause(b, Clause("P", v)) = [b EXCEPT !.active = v]
      /\ Java!HandleClause(b, Clause("P", v)) = [b EXCEPT !.active = v]
      /\ Cpp!HandleClause(b, Clause("P", v)) = [b EXCEPT !.active = v]
  <2>1. Py!HandleClause(b, Clause("P", v)) = [b EXCEPT !.active = v]
    BY <1>1 DEF Py!HandleClause, Clause, Py!Clause
  <2>2. Java!HandleClause(b, Clause("P", v)) = [b EXCEPT !.active = v]
    BY <1>1 DEF Java!HandleClause, Clause, Py!Clause
  <2>3. Cpp!HandleClause(b, Clause("P", v)) = [b EXCEPT !.active = v]
    BY <1>1 DEF Cpp!HandleClause, Cpp!NeedsRound, Cpp!NeedsTerminal, Clause, Py!Clause
  <2> QED BY <2>1, <2>2, <2>3
<1>3. Knows([b EXCEPT !.active = v], sk, v, flag, rs, money, n)
  BY DEF Knows, IsBot, BotFields
<1> QED BY <1>2, <1>3, HandledBy

\* H, the cards are dealt.
LEMMA HandlesHand ==
  ASSUME NEW sk \in Skeletons, NEW a, NEW flag, NEW rs, NEW money, NEW n, NEW b, Knows(b, sk, a, flag, rs, money, n)
  PROVE  Knows(Handled(sk, b, Clause("H", 0)), sk, a, flag, Shadow(InitialState, 0, "none"), money, n)
<1> DEFINE r == Shadow(InitialState, 0, "none")
<1>1. b.up = TRUE
  BY DEF Knows
<1>2. Py!Tree!NewRound = r
  BY DEF Py!Tree!NewRound, Py!Tree!Both, Shadow, InitialState, Pair, Seats
<1>3. Java!NewHand(b) = [b EXCEPT !.round_state = r]
  BY DEF Java!NewHand, Java!Tree!NewRoundState, Java!Tree!asList, Shadow, InitialState, Pair, Seats
<1>4. Cpp!NewRound = r
  BY DEF Cpp!NewRound, Cpp!Tree!RoundState, Cpp!Tree!array, Shadow, InitialState, Pair, Seats
<1> HIDE DEF r
<1>5. /\ Py!HandleClause(b, Clause("H", 0)) = [b EXCEPT !.round_state = r]
      /\ Java!HandleClause(b, Clause("H", 0)) = [b EXCEPT !.round_state = r]
      /\ Cpp!HandleClause(b, Clause("H", 0)) = [b EXCEPT !.round_state = r]
  <2>1. Py!HandleClause(b, Clause("H", 0)) = [b EXCEPT !.round_state = r]
    BY <1>1, <1>2 DEF Py!HandleClause, Clause, Py!Clause
  <2>2. Java!HandleClause(b, Clause("H", 0)) = [b EXCEPT !.round_state = r]
    BY <1>1, <1>3 DEF Java!HandleClause, Clause, Py!Clause
  <2>3. Cpp!HandleClause(b, Clause("H", 0)) = [b EXCEPT !.round_state = r]
    BY <1>1, <1>4 DEF Cpp!HandleClause, Cpp!NeedsRound, Cpp!NeedsTerminal, Clause, Py!Clause
  <2> QED BY <2>1, <2>2, <2>3
<1>6. Knows([b EXCEPT !.round_state = r], sk, a, flag, r, money, n)
  BY DEF Knows, IsBot, BotFields
<1> QED BY <1>5, <1>6, HandledBy DEF r

\* G and B, what is known of the cards.
LEMMA HandlesCards ==
  ASSUME NEW sk \in Skeletons, NEW a, NEW flag, NEW s, NEW deck, NEW rank, NEW money, NEW n, NEW b,
         Knows(b, sk, a, flag, Shadow(s, deck, rank), money, n), NEW v
  PROVE  /\ Knows(Handled(sk, b, Clause("G", v)), sk, a, FALSE, Shadow(s, deck, v), money, n)
         /\ Knows(Handled(sk, b, Clause("B", v)), sk, a, flag, Shadow(s, v, rank), money, n)
<1> DEFINE u == Shadow(s, deck, rank)
           g == [b EXCEPT !.round_state.bounty = v, !.round_flag = FALSE]
           d == [b EXCEPT !.round_state.deck = v]
<1>1. u.type = "round" /\ [u EXCEPT !.bounty = v] = Shadow(s, deck, v) /\ [u EXCEPT !.deck = v] = Shadow(s, v, rank)
  BY ShadowChanges
<1>2. Knows(b, sk, a, flag, u, money, n)
  OBVIOUS
<1> HIDE DEF u
<1>3. Knows(g, sk, a, FALSE, [u EXCEPT !.bounty = v], money, n)
  BY <1>2 DEF Knows, IsBot, BotFields
<1>4. Knows(d, sk, a, flag, [u EXCEPT !.deck = v], money, n)
  BY <1>2 DEF Knows, IsBot, BotFields
<1>5. b.up = TRUE /\ b.round_state.type = "round"
  BY <1>1, <1>2 DEF Knows
<1>6. CASE sk = "python"
  <2>1. Py!HandleBounty(b, v) = g /\ Py!HandleBoard(b, v) = d
    BY <1>5 DEF Py!HandleBounty, Py!HandleBoard, Py!InTree
  <2> HIDE DEF g, d
  <2>2. Handled(sk, b, Clause("G", v)) = g /\ Handled(sk, b, Clause("B", v)) = d
    <3>1. \A c : Handled(sk, b, c) = Py!HandleClause(b, c)
      BY <1>6, HandledBy
    <3> QED BY <1>5, <2>1, <3>1, PyClauses
  <2> QED BY <1>1, <1>3, <1>4, <2>2
<1>7. CASE sk = "java"
  <2>1. Java!OnRound(b, Clause("G", v)) = g /\ Java!OnRound(b, Clause("B", v)) = d /\ Java!IsRound(b)
    BY <1>5 DEF Java!OnRound, Java!IsRound, Clause, Py!Clause
  <2> HIDE DEF g, d
  <2>2. Handled(sk, b, Clause("G", v)) = g /\ Handled(sk, b, Clause("B", v)) = d
    BY <1>5, <1>7, <2>1, HandledBy, JavaClauses
  <2> QED BY <1>1, <1>3, <1>4, <2>2
<1>8. CASE sk = "cpp"
  <2>1. Cpp!castToRound(b, Clause("G", v)) = g /\ Cpp!castToRound(b, Clause("B", v)) = d
    BY DEF Cpp!castToRound, Clause, Py!Clause
  <2> HIDE DEF g, d
  <2>2. Handled(sk, b, Clause("G", v)) = g /\ Handled(sk, b, Clause("B", v)) = d
    BY <1>5, <1>8, <2>1, HandledBy, CppClauses
  <2> QED BY <1>1, <1>3, <1>4, <2>2
<1> QED BY <1>6, <1>7, <1>8 DEF Skeletons

\* The clause of an action is one of four.
LEMMA ActionCodes ==
  ASSUME NEW s, NEW action, Permitted(s, action)
  PROVE  \E t \in {"F", "C", "K", "R"} : Code(action) = Clause(t, Code(action).v)
<1>1. CASE action = FoldAction
  BY <1>1 DEF FoldAction, Code, Clause, Py!Clause
<1>2. CASE action = CallAction
  BY <1>2 DEF CallAction, Code, Clause, Py!Clause
<1>3. CASE action = CheckAction
  BY <1>3 DEF CheckAction, Code, Clause, Py!Clause
<1>4. ASSUME NEW n, action = RaiseAction(n)
      PROVE  Code(action) = Clause("R", Code(action).v)
  BY <1>4 DEF RaiseAction, Code, Clause, Py!Clause
<1> QED BY <1>1, <1>2, <1>3, <1>4 DEF Permitted

\* F, C, K and R, the actions of the round: the bot goes where the engine goes.
LEMMA HandlesAction ==
  ASSUME NEW sk \in Skeletons, NEW i, NEW s, NEW c \in Deals, Balanced(s),
         NEW action, Permitted(s, action), NEW rank, NEW money, NEW n, NEW b,
         Knows(b, sk, i, FALSE, Shadow(s, s.street, rank), money, n)
  PROVE  \E u : /\ Follows(u, proceed(s, c, action), s.street, rank)
                /\ Knows(Handled(sk, b, Code(action)), sk, i, FALSE, u, money, n)
<1> DEFINE r == Shadow(s, s.street, rank)
<1>0. r.type = "round" /\ r.deck = s.street /\ r.street = s.street /\ s.street \in Int
  BY BalancedFields DEF Shadow, Streets
<1> DEFINE v == Code(action).v
<1>1. PICK t \in {"F", "C", "K", "R"} : Code(action) = Clause(t, v)
  BY ActionCodes
<1>2. Code(action).t = t /\ Code(action).v = v
  BY <1>1 DEF Clause, Py!Clause
<1> HIDE DEF v
<1>3. Knows(b, sk, i, FALSE, r, money, n)
  OBVIOUS
<1>4. Follows(Py!Tree!proceed(r, t, v), proceed(s, c, action), s.street, rank)
  BY <1>2, PyFollows
<1>5. Follows(Java!Tree!proceed(r, t, v), proceed(s, c, action), s.street, rank)
  BY <1>2, JavaFollows
<1>6. Follows(Cpp!Tree!proceed(r, t, v), proceed(s, c, action), s.street, rank)
  BY <1>2, CppFollows
<1> HIDE DEF r
<1>7. ASSUME NEW u
      PROVE  Knows([b EXCEPT !.round_state = u], sk, i, FALSE, u, money, n)
  BY <1>3 DEF Knows, IsBot, BotFields
<1>8. b.up = TRUE /\ b.round_state = r
  BY <1>3 DEF Knows
<1>9. CASE sk = "python"
  <2>1. Handled(sk, b, Code(action)) = Py!HandleAction(b, Clause(t, v))
    <3>1. Handled(sk, b, Code(action)) = Py!HandleClause(b, Code(action))
      BY <1>9, HandledBy
    <3> QED BY <1>1, <1>8, <3>1, PyClauses
  <2>2. Py!HandleAction(b, Clause(t, v)) = [b EXCEPT !.round_state = Py!Tree!proceed(r, t, v)]
    BY <1>0, <1>8 DEF Py!HandleAction, Py!InTree, Clause, Py!Clause
  <2>3. Knows(Handled(sk, b, Code(action)), sk, i, FALSE, Py!Tree!proceed(r, t, v), money, n)
    BY <1>7, <2>1, <2>2
  <2> QED BY <1>4, <2>3
<1>10. CASE sk = "java"
  <2>1. Handled(sk, b, Code(action)) = Java!OnRound(b, Clause(t, v))
    <3>1. Handled(sk, b, Code(action)) = Java!HandleClause(b, Code(action))
      BY <1>10, HandledBy
    <3>2. Java!IsRound(b)
      BY <1>0, <1>8 DEF Java!IsRound
    <3> QED BY <1>1, <1>8, <3>1, <3>2, JavaClauses
  <2>2. Java!OnRound(b, Clause(t, v)) = [b EXCEPT !.round_state = Java!Tree!proceed(r, t, v)]
    BY <1>0, <1>8 DEF Java!OnRound, Clause, Py!Clause
  <2>3. Knows(Handled(sk, b, Code(action)), sk, i, FALSE, Java!Tree!proceed(r, t, v), money, n)
    BY <1>7, <2>1, <2>2
  <2> QED BY <1>5, <2>3
<1>11. CASE sk = "cpp"
  <2>1. Handled(sk, b, Code(action)) = Cpp!castToRound(b, Clause(t, v))
    <3>1. Handled(sk, b, Code(action)) = Cpp!HandleClause(b, Code(action))
      BY <1>11, HandledBy
    <3> QED BY <1>0, <1>1, <1>8, <3>1, CppClauses
  <2>2. Cpp!castToRound(b, Clause(t, v)) = [b EXCEPT !.round_state = Cpp!Tree!proceed(r, t, v)]
    BY <1>0, <1>8 DEF Cpp!castToRound, Clause, Py!Clause
  <2>3. Knows(Handled(sk, b, Code(action)), sk, i, FALSE, Cpp!Tree!proceed(r, t, v), money, n)
    BY <1>7, <2>1, <2>2
  <2> QED BY <1>6, <2>3
<1> QED BY <1>9, <1>10, <1>11 DEF Skeletons

\* What TerminalState makes in the three skeletons.
Terminal(d, h, p) == [type |-> "terminal", deltas |-> d, bounty_hits |-> h, previous_state |-> p]

\* The three constructors of a terminal state make the same record.
LEMMA Terminals ==
  ASSUME NEW d, NEW h, NEW p
  PROVE  /\ Py!Tree!TerminalState(d, h, p) = Terminal(d, h, p)
         /\ Java!Tree!TerminalState(d, h, p) = Terminal(d, h, p)
         /\ Cpp!Tree!TerminalState(d, h, p) = Terminal(d, h, p)
         /\ IsEnd(Terminal(d, h, p))
         /\ Terminal(d, h, p).deltas = d /\ Terminal(d, h, p).bounty_hits = h
         /\ Terminal(d, h, p).previous_state = p
<1>1. /\ Py!Tree!TerminalState(d, h, p) = Terminal(d, h, p)
      /\ Java!Tree!TerminalState(d, h, p) = Terminal(d, h, p)
      /\ Cpp!Tree!TerminalState(d, h, p) = Terminal(d, h, p)
  BY DEF Py!Tree!TerminalState, Java!Tree!TerminalState, Cpp!Tree!TerminalState, Terminal
<1>2. IsEnd(Terminal(d, h, p))
  BY DEF Terminal, IsEnd, EndFields
<1>3. /\ Terminal(d, h, p).deltas = d /\ Terminal(d, h, p).bounty_hits = h
      /\ Terminal(d, h, p).previous_state = p
  BY DEF Terminal
<1> QED BY <1>1, <1>2, <1>3

\* An end of a round after one of its fields is filled in.
LEMMA EndChanges ==
  ASSUME NEW u, IsEnd(u), NEW v
  PROVE  /\ [u EXCEPT !.deltas = v] = Terminal(v, u.bounty_hits, u.previous_state)
         /\ [u EXCEPT !.bounty_hits = v] = Terminal(u.deltas, v, u.previous_state)
         /\ [u EXCEPT !.previous_state = v] = Terminal(u.deltas, u.bounty_hits, v)
BY DEF IsEnd, EndFields, Terminal

\* A round that was just closed is a terminal state that shows no hand yet.
LEMMA ClosedIsEnd ==
  ASSUME NEW u, Closed(u)
  PROVE  /\ IsEnd(u) /\ u.previous_state.seen = FALSE
         /\ [u.previous_state EXCEPT !.seen = TRUE].seen = TRUE
<1>1. IsEnd(u)
  BY DEF Closed, IsEnd, EndFields
<1>2. PICK deck, rank, p : u.previous_state = Shadow(p, deck, rank)
  BY DEF Closed
<1>3. Shadow(p, deck, rank).seen = FALSE
  BY DEF Shadow
<1>4. \A f : [Shadow(p, deck, rank) EXCEPT !.seen = f].seen = f
  BY DEF Shadow
<1> QED BY <1>1, <1>2, <1>3, <1>4

\* O, the opponent's hand is shown.
LEMMA HandlesShowdown ==
  ASSUME NEW sk \in Skeletons, NEW i, NEW u, Closed(u), NEW flag, NEW money, NEW n, NEW b,
         Knows(b, sk, i, flag, u, money, n)
  PROVE  \E w : /\ IsEnd(w) /\ w.previous_state.seen = TRUE
                /\ Knows(Handled(sk, b, Clause("O", 0)), sk, i, flag, w, money, n)
<1> DEFINE p == [u.previous_state EXCEPT !.seen = TRUE]
<1>1. p.seen = TRUE /\ IsEnd(u) /\ u.type = "terminal"
  BY ClosedIsEnd DEF IsEnd
<1>2. b.up = TRUE /\ b.round_state = u
  BY DEF Knows
<1>3. ASSUME NEW w
      PROVE  Knows([b EXCEPT !.round_state = w], sk, i, flag, w, money, n)
  BY DEF Knows, IsBot, BotFields
<1>4. ASSUME NEW d, NEW h, Handled(sk, b, Clause("O", 0)) = [b EXCEPT !.round_state = Terminal(d, h, p)]
      PROVE  \E w : /\ IsEnd(w) /\ w.previous_state.seen = TRUE
                    /\ Knows(Handled(sk, b, Clause("O", 0)), sk, i, flag, w, money, n)
  <2> DEFINE w == Terminal(d, h, p)
  <2>1. IsEnd(w) /\ w.previous_state = p
    BY Terminals
  <2>2. w.previous_state.seen = TRUE
    BY <1>1, <2>1
  <2> HIDE DEF w
  <2>3. Knows(Handled(sk, b, Clause("O", 0)), sk, i, flag, w, money, n)
    BY <1>3, <1>4 DEF w
  <2> QED BY <2>1, <2>2, <2>3
<1>5. CASE sk = "python"
  <2>1. Handled(sk, b, Clause("O", 0)) = Py!HandleOpponentHand(b)
    <3>1. Handled(sk, b, Clause("O", 0)) = Py!HandleClause(b, Clause("O", 0))
      BY <1>5, HandledBy
    <3> QED BY <1>2, <3>1, PyClauses
  <2>2. Py!HandleOpponentHand(b)
          = [b EXCEPT !.round_state = Py!Tree!TerminalState(Py!Tree!Both(0, 0), Py!Tree!NoHits, p)]
    BY <1>1, <1>2 DEF Py!HandleOpponentHand, Py!AtEnd
  <2> HIDE DEF p
  <2>3. Py!Tree!TerminalState(Py!Tree!Both(0, 0), Py!Tree!NoHits, p)
          = Terminal(Py!Tree!Both(0, 0), Py!Tree!NoHits, p)
    BY Terminals
  <2>4. Handled(sk, b, Clause("O", 0)) = [b EXCEPT !.round_state = Terminal(Py!Tree!Both(0, 0), Py!Tree!NoHits, p)]
    BY ONLY <2>1, <2>2, <2>3, Zenon
  <2> QED BY <1>4, <2>4
<1>6. CASE sk = "java"
  <2>1. Handled(sk, b, Clause("O", 0)) = Java!OnTerminal(b, Clause("O", 0))
    <3>1. Handled(sk, b, Clause("O", 0)) = Java!HandleClause(b, Clause("O", 0))
      BY <1>6, HandledBy
    <3>2. ~Java!IsRound(b)
      BY <1>1, <1>2 DEF Java!IsRound
    <3> QED BY <1>2, <3>1, <3>2, JavaClauses
  <2> DEFINE zero == Java!Tree!asList(0, 0)
  <2>2. Java!OnTerminal(b, Clause("O", 0))
          = [b EXCEPT !.round_state.previous_state.seen = TRUE, !.round_state.deltas = zero]
    BY DEF Java!OnTerminal, Clause, Py!Clause
  <2> HIDE DEF zero
  <2>3. ASSUME NEW f
        PROVE  [b EXCEPT !.round_state.previous_state.seen = f, !.round_state.deltas = zero]
               = [b EXCEPT !.round_state = Terminal(zero, u.bounty_hits, [u.previous_state EXCEPT !.seen = f])]
    <3>1. [b EXCEPT !.round_state.previous_state.seen = f, !.round_state.deltas = zero]
          = [b EXCEPT !.round_state = [[u EXCEPT !.previous_state = [u.previous_state EXCEPT !.seen = f]] EXCEPT !.deltas = zero]]
      BY <1>2 DEF Knows, IsBot, BotFields
    <3> DEFINE q == [u.previous_state EXCEPT !.seen = f]
    <3> HIDE DEF q
    <3>2. [[u EXCEPT !.previous_state = q] EXCEPT !.deltas = zero] = Terminal(zero, u.bounty_hits, q)
      <4> DEFINE t == Terminal(u.deltas, u.bounty_hits, q)
      <4>1. [u EXCEPT !.previous_state = q] = t
        BY <1>1, EndChanges
      <4>2. IsEnd(t) /\ t.bounty_hits = u.bounty_hits /\ t.previous_state = q
        BY Terminals
      <4> HIDE DEF t
      <4>3. [t EXCEPT !.deltas = zero] = Terminal(zero, u.bounty_hits, q)
        BY <4>2, EndChanges
      <4> QED BY <4>1, <4>3
    <3> QED BY <3>1, <3>2 DEF q
  <2>4. Handled(sk, b, Clause("O", 0)) = [b EXCEPT !.round_state = Terminal(zero, u.bounty_hits, p)]
    BY ONLY <2>1, <2>2, <2>3, Zenon
  <2> HIDE DEF p
  <2> QED BY <1>4, <2>4
<1>7. CASE sk = "cpp"
  <2>1. Handled(sk, b, Clause("O", 0)) = Cpp!castToTerminal(b, Clause("O", 0))
    <3>1. Handled(sk, b, Clause("O", 0)) = Cpp!HandleClause(b, Clause("O", 0))
      BY <1>7, HandledBy
    <3> QED BY <1>1, <1>2, <3>1, CppClauses
  <2>2. Cpp!castToTerminal(b, Clause("O", 0)) = [b EXCEPT !.round_state = Cpp!Tree!showdown(p)]
    <3>1. Cpp!castToTerminal(b, Clause("O", 0))
          = [b EXCEPT !.round_state = Cpp!Tree!showdown([@.previous_state EXCEPT !.seen = TRUE])]
      BY DEF Cpp!castToTerminal, Clause, Py!Clause
    <3> QED BY <1>2, <3>1
  <2> HIDE DEF p
  <2>3. Cpp!Tree!showdown(p) = Cpp!Tree!TerminalState(Cpp!Tree!array(0, 0), Cpp!Tree!array(FALSE, FALSE), p)
    BY DEF Cpp!Tree!showdown
  <2>4. Cpp!Tree!TerminalState(Cpp!Tree!array(0, 0), Cpp!Tree!array(FALSE, FALSE), p)
          = Terminal(Cpp!Tree!array(0, 0), Cpp!Tree!array(FALSE, FALSE), p)
    BY Zenon DEF Cpp!Tree!TerminalState, Terminal
  <2>5. Handled(sk, b, Clause("O", 0))
          = [b EXCEPT !.round_state = Terminal(Cpp!Tree!array(0, 0), Cpp!Tree!array(FALSE, FALSE), p)]
    BY ONLY <2>1, <2>2, <2>3, <2>4, Zenon
  <2> QED BY <1>4, <2>5
<1> QED BY <1>5, <1>6, <1>7 DEF Skeletons

\* The bot's end u of a round with the payoff d filled in.
BookedPayoff(b, sk, i, flag, u, d, money, n) ==
  \E w : /\ IsEnd(w) /\ w.previous_state = u.previous_state
         /\ w.deltas = [j \in Seats |-> IF j = i THEN d ELSE -d]
         /\ Knows(b, sk, i, flag, w, money + d, n)

\* D, the payoff: the bot books its own and knows its opponent's.
LEMMA HandlesPayoff ==
  ASSUME NEW sk \in Skeletons, NEW i, NEW u, IsEnd(u), NEW flag, NEW money \in Int, NEW n, NEW b,
         Knows(b, sk, i, flag, u, money, n), NEW d \in Int
  PROVE  BookedPayoff(Handled(sk, b, Clause("D", d)), sk, i, flag, u, d, money, n)
<1> SUFFICES \E w : /\ IsEnd(w) /\ w.previous_state = u.previous_state
                    /\ w.deltas = [j \in Seats |-> IF j = i THEN d ELSE -d]
                    /\ Knows(Handled(sk, b, Clause("D", d)), sk, i, flag, w, money + d, n)
  BY DEF BookedPayoff
<1> DEFINE pays == [j \in {0, 1} |-> IF j = i THEN d ELSE -d]
<1>1. u.type = "terminal" /\ b.up = TRUE /\ b.round_state = u /\ b.active = i /\ b.bankroll = money
  BY DEF Knows, IsEnd
<1>2. ASSUME NEW w
      PROVE  Knows([b EXCEPT !.round_state = w, !.bankroll = money + d], sk, i, flag, w, money + d, n)
  BY DEF Knows, IsBot, BotFields
<1>3. ASSUME NEW h, Handled(sk, b, Clause("D", d))
                      = [b EXCEPT !.round_state = Terminal(pays, h, u.previous_state), !.bankroll = money + d]
      PROVE  \E w : /\ IsEnd(w) /\ w.previous_state = u.previous_state
                    /\ w.deltas = [j \in Seats |-> IF j = i THEN d ELSE -d]
                    /\ Knows(Handled(sk, b, Clause("D", d)), sk, i, flag, w, money + d, n)
  <2> DEFINE w == Terminal(pays, h, u.previous_state)
  <2>1. IsEnd(w) /\ w.previous_state = u.previous_state /\ w.deltas = pays
    BY Terminals
  <2> HIDE DEF w
  <2>2. Knows(Handled(sk, b, Clause("D", d)), sk, i, flag, w, money + d, n)
    BY <1>2, <1>3 DEF w
  <2> QED BY <2>1, <2>2 DEF Seats
<1>4. [u EXCEPT !.deltas = pays] = Terminal(pays, u.bounty_hits, u.previous_state)
  BY EndChanges
<1>5. ASSUME Handled(sk, b, Clause("D", d)) = [b EXCEPT !.round_state.deltas = pays, !.bankroll = @ + d]
      PROVE  Handled(sk, b, Clause("D", d))
               = [b EXCEPT !.round_state = Terminal(pays, u.bounty_hits, u.previous_state), !.bankroll = money + d]
  <2> HIDE DEF pays
  <2>1. [b EXCEPT !.round_state.deltas = pays, !.bankroll = @ + d]
        = [b EXCEPT !.round_state = [u EXCEPT !.deltas = pays], !.bankroll = money + d]
    BY <1>1 DEF Knows, IsBot, BotFields
  <2> QED BY <1>4, <1>5, <2>1
<1>6. CASE sk = "python"
  <2>1. Handled(sk, b, Clause("D", d)) = Py!HandleDelta(b, d)
    <3>1. Handled(sk, b, Clause("D", d)) = Py!HandleClause(b, Clause("D", d))
      BY <1>6, HandledBy
    <3> QED BY <1>1, <3>1, PyClauses
  <2>2. Py!HandleDelta(b, d) = [b EXCEPT !.round_state.deltas = pays, !.bankroll = @ + d]
    BY <1>1 DEF Py!HandleDelta, Py!AtEnd
  <2> HIDE DEF pays
  <2> QED BY <1>3, <1>5, <2>1, <2>2
<1>7. CASE sk = "java"
  <2>1. Handled(sk, b, Clause("D", d)) = Java!OnTerminal(b, Clause("D", d))
    <3>1. Handled(sk, b, Clause("D", d)) = Java!HandleClause(b, Clause("D", d))
      BY <1>7, HandledBy
    <3>2. ~Java!IsRound(b)
      BY <1>1 DEF Java!IsRound
    <3> QED BY <1>1, <3>1, <3>2, JavaClauses
  <2>2. Java!OnTerminal(b, Clause("D", d)) = [b EXCEPT !.round_state.deltas = pays, !.bankroll = @ + d]
    BY <1>1 DEF Java!OnTerminal, Clause, Py!Clause
  <2> HIDE DEF pays
  <2> QED BY <1>3, <1>5, <2>1, <2>2
<1>8. CASE sk = "cpp"
  <2>1. Handled(sk, b, Clause("D", d)) = Cpp!castToTerminal(b, Clause("D", d))
    <3>1. Handled(sk, b, Clause("D", d)) = Cpp!HandleClause(b, Clause("D", d))
      BY <1>8, HandledBy
    <3> QED BY <1>1, <3>1, CppClauses
  <2> DEFINE h == Cpp!Tree!array(FALSE, FALSE)
  <2>2. Cpp!castToTerminal(b, Clause("D", d))
        = [b EXCEPT !.round_state = Cpp!Tree!TerminalState([j \in {0, 1} |-> IF j = b.active THEN d ELSE -1 * d], h, @.previous_state),
                    !.bankroll = @ + d]
    BY DEF Cpp!castToTerminal, Clause, Py!Clause
  <2> HIDE DEF h
  <2>3. [j \in {0, 1} |-> IF j = b.active THEN d ELSE -1 * d] = pays
    BY <1>1
  <2> HIDE DEF pays
  <2>4. Cpp!castToTerminal(b, Clause("D", d))
        = [b EXCEPT !.round_state = Cpp!Tree!TerminalState(pays, h, @.previous_state), !.bankroll = @ + d]
    BY ONLY <2>2, <2>3
  <2>5. [b EXCEPT !.round_state = Cpp!Tree!TerminalState(pays, h, @.previous_state), !.bankroll = @ + d]
        = [b EXCEPT !.round_state = Cpp!Tree!TerminalState(pays, h, u.previous_state), !.bankroll = money + d]
    BY <1>1
  <2>6. Cpp!Tree!TerminalState(pays, h, u.previous_state) = Terminal(pays, h, u.previous_state)
    BY Zenon DEF Cpp!Tree!TerminalState, Terminal
  <2>7. Handled(sk, b, Clause("D", d))
        = [b EXCEPT !.round_state = Terminal(pays, h, u.previous_state), !.bankroll = money + d]
    BY ONLY <2>1, <2>4, <2>5, <2>6
  <2> QED BY <1>3, <2>7
<1> QED BY <1>6, <1>7, <1>8 DEF Skeletons

\* The bot's end u of a round with the hits filled in.
NotedHits(b, sk, i, u, own, other, money, n) ==
  \E w : /\ IsEnd(w) /\ w.previous_state = u.previous_state /\ w.deltas = u.deltas
         /\ w.bounty_hits = [j \in Seats |-> (IF j = i THEN own ELSE other) = "1"]
         /\ Knows(b, sk, i, TRUE, w, money, n + 1)

\* Y, the end of the round: the bot's own hit comes first.
LEMMA HandlesHits ==
  ASSUME NEW sk \in Skeletons, NEW i \in Seats, NEW u, IsEnd(u), NEW flag, NEW money, NEW n \in Int, NEW b,
         Knows(b, sk, i, flag, u, money, n), NEW own, NEW other
  PROVE  NotedHits(Handled(sk, b, Clause("Y", Pair(own, other))), sk, i, u, own, other, money, n)
<1> DEFINE hits == [j \in Seats |-> (IF j = i THEN own ELSE other) = "1"]
           v == Pair(own, other)
           c == Clause("Y", v)
           told(f, m) == [b EXCEPT !.round_state.bounty_hits = hits, !.round_num = m, !.round_flag = f]
<1> DEFINE Goal == \E w : /\ IsEnd(w) /\ w.previous_state = u.previous_state /\ w.deltas = u.deltas
                          /\ w.bounty_hits = hits
                          /\ Knows(Handled(sk, b, c), sk, i, TRUE, w, money, n + 1)
<1> SUFFICES Goal
  BY DEF NotedHits
<1>0. c.t = "Y" /\ c.v = v
  BY DEF Clause, Py!Clause
<1>1. u.type = "terminal" /\ b.up = TRUE /\ b.round_state = u /\ b.active = i /\ b.round_num = n
  BY DEF Knows, IsEnd
<1>2. ASSUME NEW w, NEW f, NEW m
      PROVE  Knows([b EXCEPT !.round_state = w, !.round_num = m, !.round_flag = f], sk, i, f, w, money, m)
  BY DEF Knows, IsBot, BotFields
<1>3. \A x \in {0, 1} : v[(x + i) % 2] = IF x = i THEN own ELSE other
  BY DEF Pair, Seats
<1>4. \A x \in {0, 1} : v[IF i = 1 THEN 1 - x ELSE x] = IF x = i THEN own ELSE other
  BY DEF Pair, Seats
<1> HIDE DEF v
<1>5. [x \in {0, 1} |-> v[(x + i) % 2] = "1"] = hits
  BY <1>3, Zenon DEF Seats
<1>6. [x \in {0, 1} |-> v[IF i = 1 THEN 1 - x ELSE x] = "1"] = hits
  BY <1>4, Zenon DEF Seats
<1> HIDE DEF hits, c
<1>7. ASSUME NEW f, NEW m
      PROVE  told(f, m) = [b EXCEPT !.round_state = [u EXCEPT !.bounty_hits = hits], !.round_num = m, !.round_flag = f]
  BY <1>1 DEF Knows, IsBot, BotFields
<1>8. ASSUME NEW f, NEW m
      PROVE  Knows(told(f, m), sk, i, f, Terminal(u.deltas, hits, u.previous_state), money, m)
  <2>1. [u EXCEPT !.bounty_hits = hits] = Terminal(u.deltas, hits, u.previous_state)
    BY EndChanges
  <2> HIDE DEF told
  <2> QED BY <1>2, <1>7, <2>1
<1>9. ASSUME NEW f
      PROVE  [b EXCEPT !.round_state.bounty_hits = hits, !.round_num = @ + 1, !.round_flag = f] = told(f, n + 1)
  BY <1>1
<1>10. ASSUME Handled(sk, b, c) = [b EXCEPT !.round_state.bounty_hits = hits, !.round_num = @ + 1, !.round_flag = TRUE]
       PROVE  Goal
  <2> DEFINE w == Terminal(u.deltas, hits, u.previous_state)
  <2>1. Handled(sk, b, c) = told(TRUE, n + 1)
    BY ONLY <1>9, <1>10, Zenon
  <2> HIDE DEF told
  <2>2. IsEnd(w) /\ w.previous_state = u.previous_state /\ w.deltas = u.deltas /\ w.bounty_hits = hits
    BY Terminals
  <2>3. Knows(Handled(sk, b, c), sk, i, TRUE, w, money, n + 1)
    BY ONLY <1>8, <2>1, Zenon
  <2> HIDE DEF w
  <2> QED BY <2>2, <2>3
<1> HIDE DEF told, Goal
<1>11. CASE sk = "python"
  <2>1. Handled(sk, b, c) = Py!HandleRoundOver(b, v)
    <3>1. Handled(sk, b, c) = Py!HandleClause(b, c)
      BY <1>11, HandledBy
    <3> QED BY <1>1, <3>1, PyClauses DEF c
  <2>2. Py!HandleRoundOver(b, v)
        = [b EXCEPT !.round_state.bounty_hits = [x \in {0, 1} |-> v[(x + b.active) % 2] = "1"],
                    !.round_num = @ + 1, !.round_flag = TRUE]
    BY <1>1, Zenon DEF Py!HandleRoundOver, Py!AtEnd
  <2>3. [x \in {0, 1} |-> v[(x + b.active) % 2] = "1"] = hits
    BY <1>1, <1>5
  <2>4. Handled(sk, b, c) = [b EXCEPT !.round_state.bounty_hits = hits, !.round_num = @ + 1, !.round_flag = TRUE]
    BY ONLY <2>1, <2>2, <2>3, Zenon
  <2> QED BY <1>10, <2>4 DEF Goal
<1>12. CASE sk = "java"
  <2>1. Handled(sk, b, c) = Java!OnTerminal(b, c)
    <3>1. Handled(sk, b, c) = Java!HandleClause(b, c)
      BY <1>12, HandledBy
    <3>2. ~Java!IsRound(b)
      BY <1>1 DEF Java!IsRound
    <3> QED BY <1>1, <3>1, <3>2, JavaClauses DEF c
  <2>2. Java!OnTerminal(b, c)
        = [b EXCEPT !.round_state.bounty_hits = [x \in {0, 1} |-> c.v[IF b.active = 1 THEN 1 - x ELSE x] = "1"],
                    !.round_num = @ + 1, !.round_flag = TRUE]
    BY <1>0 DEF Java!OnTerminal
  <2>3. [x \in {0, 1} |-> c.v[IF b.active = 1 THEN 1 - x ELSE x] = "1"] = hits
    BY <1>0, <1>1, <1>6
  <2>4. Handled(sk, b, c) = [b EXCEPT !.round_state.bounty_hits = hits, !.round_num = @ + 1, !.round_flag = TRUE]
    BY ONLY <2>1, <2>2, <2>3, Zenon
  <2> QED BY <1>10, <2>4 DEF Goal
<1>13. CASE sk = "cpp"
  <2>1. Handled(sk, b, c) = Cpp!castToTerminal(b, c)
    <3>1. Handled(sk, b, c) = Cpp!HandleClause(b, c)
      BY <1>13, HandledBy
    <3> QED BY <1>1, <3>1, CppClauses DEF c
  <2>2. Cpp!castToTerminal(b, c)
        = [b EXCEPT !.round_state.bounty_hits = [x \in {0, 1} |-> c.v[(x + b.active) % 2] = "1"],
                    !.round_num = @ + 1, !.round_flag = TRUE]
    BY <1>0 DEF Cpp!castToTerminal
  <2>3. [x \in {0, 1} |-> c.v[(x + b.active) % 2] = "1"] = hits
    BY <1>0, <1>1, <1>5
  <2>4. Handled(sk, b, c) = [b EXCEPT !.round_state.bounty_hits = hits, !.round_num = @ + 1, !.round_flag = TRUE]
    BY ONLY <2>1, <2>2, <2>3, Zenon
  <2> QED BY <1>10, <2>4 DEF Goal
<1> QED BY <1>11, <1>12, <1>13 DEF Skeletons

-----------------------------------------------------------------------------
(* A packet.                                                               *)
\* A queue that held one line.
LEMMA OneLine ==
  ASSUME NEW line
  PROVE  /\ Head(<<line>>) = line /\ Tail(<<line>>) = <<>>
         /\ Append(<<>>, line) = <<line>> /\ <<line>> # <<>>
OBVIOUS

IsSeq(q) == \E S : q \in Seq(S)

\* A log or a queue that gets one more element at its end.
LEMMA SeqGrows ==
  ASSUME NEW q, IsSeq(q), NEW x
  PROVE  /\ IsSeq(Append(q, x)) /\ Append(q, x) # <<>>
         /\ q # <<>> => Head(Append(q, x)) = Head(q) /\ Tail(Append(q, x)) = Append(Tail(q), x)
<1>1. PICK S : q \in Seq(S)
  BY DEF IsSeq
<1> DEFINE R == S \cup {x}
<1>2. q \in Seq(R) /\ x \in R
  BY <1>1
<1> HIDE DEF R
<1>3. Append(q, x) \in Seq(R) /\ Append(q, x) # <<>>
  <2>1. Append(q, x) \in Seq(R) /\ Len(Append(q, x)) = Len(q) + 1 /\ Len(q) \in Nat
    BY <1>2
  <2>2. Len(<<>>) = 0
    OBVIOUS
  <2> QED BY <2>1, <2>2
<1>4. q # <<>> => Head(Append(q, x)) = Head(q) /\ Tail(Append(q, x)) = Append(Tail(q), x)
  BY <1>2
<1> QED BY <1>3, <1>4 DEF IsSeq

\* A queue whose first element is taken.
LEMMA SeqShrinks ==
  ASSUME NEW q, IsSeq(q), q # <<>>
  PROVE  IsSeq(Tail(q))
<1>1. PICK S : q \in Seq(S)
  BY DEF IsSeq
<1>2. Tail(q) \in Seq(S)
  BY <1>1
<1> QED BY <1>2 DEF IsSeq

\* An empty log.
LEMMA EmptyIsSeq == IsSeq(<<>>)
<1>1. <<>> \in Seq({})
  OBVIOUS
<1> QED BY <1>1 DEF IsSeq

\* Two clauses at the end are two clauses one after the other.
LEMMA TwoMore ==
  ASSUME NEW q, IsSeq(q), NEW x, NEW y
  PROVE  q \o <<x, y>> = Append(Append(q, x), y) /\ q \o <<>> = q /\ q \o <<x>> = Append(q, x)
<1>1. PICK S : q \in Seq(S)
  BY DEF IsSeq
<1> DEFINE R == S \cup {x, y}
<1>2. q \in Seq(R) /\ x \in R /\ y \in R
  BY <1>1
<1> HIDE DEF R
<1> QED BY <1>2

\* What a bot on a skeleton holds once it has read a log.
FoldOf(sk, b, log) ==
  CASE sk = "python" -> PyFold!Fold(b, log)
    [] sk = "java" -> JavaFold!Fold(b, log)
    [] sk = "cpp" -> CppFold!Fold(b, log)

\* A packet without clauses changes nothing.
LEMMA ReadsNothing ==
  ASSUME NEW sk \in Skeletons, NEW b
  PROVE  FoldOf(sk, b, <<>>) = b
BY PyFold!FoldEmpty, JavaFold!FoldEmpty, CppFold!FoldEmpty DEF FoldOf, Skeletons

\* One more clause at the end of a packet is handled after all the others.
LEMMA ReadsOneMore ==
  ASSUME NEW sk \in Skeletons, NEW b, NEW log, IsSeq(log), NEW c
  PROVE  FoldOf(sk, b, Append(log, c)) = Handled(sk, FoldOf(sk, b, log), c)
<1>1. PICK S : log \in Seq(S)
  BY DEF IsSeq
<1>2. /\ PyFold!Fold(b, Append(log, c)) = Py!HandleClause(PyFold!Fold(b, log), c)
      /\ JavaFold!Fold(b, Append(log, c)) = Java!HandleClause(JavaFold!Fold(b, log), c)
      /\ CppFold!Fold(b, Append(log, c)) = Cpp!HandleClause(CppFold!Fold(b, log), c)
  BY <1>1, PyFold!FoldAppend, JavaFold!FoldAppend, CppFold!FoldAppend
<1> QED BY <1>2 DEF FoldOf, Handled, Skeletons

\* The runner's own check of the turn lets the bot go on.
InTurn(h) ==
  \/ h.up = FALSE
  \/ h.round_flag = TRUE
  \/ h.round_state.type = "round" /\ h.active = h.round_state.button % 2

\* A packet is its clauses, one after the other, and the check of the turn.
LEMMA PacketIsFold ==
  ASSUME NEW b, b.skeleton \in Skeletons, NEW log, NEW h, h = FoldOf(b.skeleton, b, log), InTurn(h)
  PROVE  HandlePacket(b, log) = h
<1>1. Py!HandlePacket(b, log) = Py!CheckTurn(PyFold!Fold(b, log))
  BY Zenon DEF Py!HandlePacket, Py!FoldLeft, Py!MapThenFoldSet, Py!Max,
     PyFold!Fold, PyFold!FoldLeft, PyFold!MapThenFoldSet, PyFold!Max
<1>2. Java!HandlePacket(b, log) =
        LET r == JavaFold!Fold(b, log)
        IN  IF r.up /\ ~r.round_flag /\ ~Java!IsRound(r) THEN Java!Throw(r) ELSE r
  BY Zenon DEF Java!HandlePacket, Java!FoldLeft, Java!MapThenFoldSet, Java!Max,
     JavaFold!Fold, JavaFold!FoldLeft, JavaFold!MapThenFoldSet, JavaFold!Max
<1>3. Cpp!HandlePacket(b, log) =
        LET r == CppFold!Fold(b, log)
        IN  IF r.up /\ ~r.round_flag /\ r.round_state.type # "round" THEN Cpp!Undefined(r) ELSE r
  BY Zenon DEF Cpp!HandlePacket, Cpp!FoldLeft, Cpp!MapThenFoldSet, Cpp!Max,
     CppFold!Fold, CppFold!FoldLeft, CppFold!MapThenFoldSet, CppFold!Max
<1>4. CASE b.skeleton = "python"
  <2>1. h = PyFold!Fold(b, log)
    BY <1>4 DEF FoldOf
  <2>2. Py!CheckTurn(h) = h
    BY DEF Py!CheckTurn, Py!InTree, Py!Tree!active, InTurn
  <2>3. HandlePacket(b, log) = Py!HandlePacket(b, log)
    BY <1>4 DEF HandlePacket
  <2> QED BY <1>1, <2>1, <2>2, <2>3
<1>5. CASE b.skeleton = "java"
  <2>1. h = JavaFold!Fold(b, log)
    BY <1>5 DEF FoldOf
  <2>2. HandlePacket(b, log) = Java!HandlePacket(b, log)
    BY <1>5 DEF HandlePacket
  <2> QED BY <1>2, <2>1, <2>2 DEF InTurn, Java!IsRound
<1>6. CASE b.skeleton = "cpp"
  <2>1. h = CppFold!Fold(b, log)
    BY <1>6 DEF FoldOf
  <2>2. HandlePacket(b, log) = Cpp!HandlePacket(b, log)
    BY <1>6 DEF HandlePacket
  <2> QED BY <1>3, <2>1, <2>2 DEF InTurn
<1> QED BY <1>4, <1>5, <1>6 DEF Skeletons

\* The end of a round t as the engine announces it.
Learned(u, t, folded) ==
  /\ u.deltas = t.deltas
  /\ \A j \in Seats : t.deltas[j] > 0 => u.bounty_hits[j] = t.bounty_hits[j]
  /\ u.previous_state.seen = ~folded

\* A packet of one clause.
LEMMA ReadsOne ==
  ASSUME NEW sk \in Skeletons, NEW b, NEW c
  PROVE  FoldOf(sk, b, <<c>>) = Handled(sk, b, c)
<1>1. <<c>> = Append(<<>>, c)
  BY OneLine
<1>2. FoldOf(sk, b, Append(<<>>, c)) = Handled(sk, FoldOf(sk, b, <<>>), c)
  <2> DEFINE e == <<>>
  <2>1. IsSeq(e)
    BY EmptyIsSeq
  <2> HIDE DEF e
  <2>2. FoldOf(sk, b, Append(e, c)) = Handled(sk, FoldOf(sk, b, e), c)
    BY <2>1, ReadsOneMore
  <2> QED BY <2>2 DEF e
<1>3. FoldOf(sk, b, <<>>) = b
  BY ReadsNothing
<1> QED BY ONLY <1>1, <1>2, <1>3

\* A log of three clauses, one after the other.
LEMMA ThreeClauses ==
  ASSUME NEW x, NEW y, NEW z
  PROVE  /\ <<x, y, z>> = Append(Append(<<x>>, y), z)
         /\ IsSeq(<<x>>) /\ IsSeq(Append(<<x>>, y))
<1>1. <<x>> \in Seq({x})
  OBVIOUS
<1>2. IsSeq(<<x>>)
  BY <1>1 DEF IsSeq
<1>3. IsSeq(Append(<<x>>, y))
  BY <1>2, SeqGrows
<1>4. <<x, y, z>> = Append(Append(<<x>>, y), z)
  OBVIOUS
<1> QED BY <1>2, <1>3, <1>4

\* A bot that runs, or has ended without failing.
Sound(b) == IsBot(b) /\ b.skeleton \in Skeletons /\ b.up \in BOOLEAN /\ b.failed = FALSE

QuitLine(line) == line.clauses = <<Clause("Q", 0)>>

\* The end of the match ends the process.
LEMMA QuitsSoundly ==
  ASSUME NEW b, Sound(b), b.up
  PROVE  Sound(HandlePacket(b, <<Clause("Q", 0)>>))
<1> DEFINE h == [b EXCEPT !.up = FALSE]
           sk == b.skeleton
<1>1. b.up = TRUE /\ sk \in Skeletons
  BY DEF Sound
<1>2. /\ Py!HandleClause(b, Clause("Q", 0)) = h
      /\ Java!HandleClause(b, Clause("Q", 0)) = h
      /\ Cpp!HandleClause(b, Clause("Q", 0)) = h
  <2>1. Py!HandleClause(b, Clause("Q", 0)) = h
    BY <1>1 DEF Py!HandleClause, Clause, Py!Clause
  <2>2. Java!HandleClause(b, Clause("Q", 0)) = h
    BY <1>1 DEF Java!HandleClause, Clause, Py!Clause
  <2>3. Cpp!HandleClause(b, Clause("Q", 0)) = h
    BY <1>1 DEF Cpp!HandleClause, Cpp!NeedsRound, Cpp!NeedsTerminal, Clause, Py!Clause
  <2> QED BY <2>1, <2>2, <2>3
<1>3. ASSUME NEW f \in BOOLEAN
      PROVE  Sound([b EXCEPT !.up = f]) /\ [b EXCEPT !.up = f].up = f
  BY DEF Sound, IsBot, BotFields
<1>4. Sound(h) /\ h.up = FALSE
  BY <1>3, Zenon
<1> HIDE DEF h, sk
<1>5. FoldOf(sk, b, <<Clause("Q", 0)>>) = h
  <2>3. Handled(sk, b, Clause("Q", 0)) = h
    BY <1>1, <1>2, HandledBy
  <2>4. FoldOf(sk, b, <<Clause("Q", 0)>>) = Handled(sk, b, Clause("Q", 0))
    BY <1>1, ReadsOne
  <2> QED BY <2>3, <2>4
<1> QED BY <1>1, <1>4, <1>5, PacketIsFold DEF InTurn, sk

\* What a bot knows when the round has been introduced to it.
LEMMA ReadsIntroduction ==
  ASSUME NEW sk \in Skeletons, NEW a, NEW flag, NEW rs, NEW money, NEW n, NEW b,
         Knows(b, sk, a, flag, rs, money, n), NEW i, NEW rank
  PROVE  Knows(FoldOf(sk, b, <<Clause("P", i), Clause("H", 0), Clause("G", rank)>>), sk, i, FALSE,
               Shadow(InitialState, 0, rank), money, n)
<1> DEFINE x == Clause("P", i)
           y == Clause("H", 0)
           z == Clause("G", rank)
<1>1. Knows(Handled(sk, b, x), sk, i, flag, rs, money, n)
  BY HandlesSeat
<1>2. FoldOf(sk, b, <<x>>) = Handled(sk, b, x)
  <2> HIDE DEF x
  <2> QED BY ReadsOne
<1>3. Knows(Handled(sk, FoldOf(sk, b, <<x>>), y), sk, i, flag, Shadow(InitialState, 0, "none"), money, n)
  <2> HIDE DEF x
  <2> QED BY <1>1, <1>2, HandlesHand
<1>4. /\ <<x, y, z>> = Append(Append(<<x>>, y), z)
      /\ IsSeq(<<x>>) /\ IsSeq(Append(<<x>>, y))
  <2> HIDE DEF x, y, z
  <2> QED BY ThreeClauses
<1> DEFINE h == Append(<<x>>, y)
<1>5. FoldOf(sk, b, h) = Handled(sk, FoldOf(sk, b, <<x>>), y)
  <2> HIDE DEF x, y
  <2> QED BY <1>4, ReadsOneMore
<1>6. FoldOf(sk, b, Append(h, z)) = Handled(sk, FoldOf(sk, b, h), z)
  <2> HIDE DEF x, y, z, h
  <2>1. IsSeq(h)
    BY <1>4 DEF h
  <2> QED BY <2>1, ReadsOneMore
<1> DEFINE k == FoldOf(sk, b, h)
<1>7. Knows(k, sk, i, flag, Shadow(InitialState, 0, "none"), money, n)
  BY <1>3, <1>5
<1> HIDE DEF k
<1>8. Knows(Handled(sk, k, z), sk, i, FALSE, Shadow(InitialState, 0, rank), money, n)
  BY <1>7, HandlesCards
<1> QED BY <1>4, <1>6, <1>8 DEF k

\* What is permitted keeps the chips balanced.
LEMMA PermittedKeepsBalance ==
  ASSUME NEW s, NEW c \in Deals, Balanced(s), NEW action, Permitted(s, action)
  PROVE  Balanced(proceed(s, c, action)) \/ Ended(proceed(s, c, action))
<1>1. CASE action = FoldAction
  BY <1>1, FoldStep
<1>2. CASE action = CallAction
  BY <1>2, CallStep
<1>3. CASE action = CheckAction /\ "Check" \in legal_actions(s)
  <2>1. continue_cost(s) = 0
    BY <1>3, CheckIsFree
  <2> QED BY <1>3, <2>1, CheckStep
<1>4. ASSUME NEW m \in raise_bounds(s)[1] .. raise_bounds(s)[2], action = RaiseAction(m),
             "Raise" \in legal_actions(s)
      PROVE  Balanced(proceed(s, c, action))
  BY <1>4, RaiseStep
<1> QED BY <1>1, <1>2, <1>3, <1>4 DEF Permitted

\* The board is announced whenever it changes: a new street opens with button 1.
LEMMA StreetIsAnnounced ==
  ASSUME NEW s, NEW c \in Deals, Balanced(s), NEW action, Permitted(s, action),
         proceed(s, c, action).type = "round"
  PROVE  LET t == proceed(s, c, action) IN t.street = s.street \/ (t.street > 0 /\ t.button = 1)
<1> DEFINE t == proceed(s, c, action)
<1> SUFFICES t.street = s.street \/ (t.street > 0 /\ t.button = 1)
  OBVIOUS
<1>0. s.street \in Nat
  BY BalancedFields DEF Streets
<1>1. ASSUME ClosedBy(s, t)
      PROVE  t.street > 0 /\ t.button = 1
  <2>1. t.button = 1 /\ s.street < t.street
    BY <1>1 DEF ClosedBy
  <2>2. t.street \in Nat
    <3>1. Balanced(t) \/ Ended(t)
      BY PermittedKeepsBalance
    <3>2. t \in RoundStates
      BY <3>1 DEF Balanced, Ended, TerminalStates
    <3> QED BY <3>2 DEF RoundStates, Streets
  <2> QED BY <1>0, <2>1, <2>2
<1>2. CASE action = FoldAction
  BY <1>2 DEF proceed, FoldAction, TerminalState
<1>3. CASE action = CallAction
  <2>1. IF s.button = 0 THEN PassedBy(s, t) ELSE ClosedBy(s, t)
    BY <1>3, CallEffect
  <2> HIDE DEF t
  <2> QED BY <1>1, <2>1 DEF PassedBy
<1>4. CASE action = CheckAction /\ "Check" \in legal_actions(s)
  <2>1. continue_cost(s) = 0
    BY <1>4, CheckIsFree
  <2>2. IF CheckCloses(s) THEN ClosedBy(s, t) ELSE PassedBy(s, t)
    BY <1>4, <2>1, CheckEffect
  <2> HIDE DEF t
  <2> QED BY <1>1, <2>2 DEF PassedBy
<1>5. ASSUME NEW m \in raise_bounds(s)[1] .. raise_bounds(s)[2], action = RaiseAction(m),
             "Raise" \in legal_actions(s)
      PROVE  t.street = s.street
  BY <1>5, RaiseEffect
<1> QED BY <1>2, <1>3, <1>4, <1>5 DEF Permitted

\* A bot of which it is known what it holds runs and has not failed.
LEMMA KnowsIsSound ==
  ASSUME NEW b, NEW sk \in Skeletons, NEW i, NEW flag, NEW rs, NEW money, NEW n,
         Knows(b, sk, i, flag, rs, money, n)
  PROVE  Sound(b) /\ b.skeleton = sk
BY DEF Knows, Sound

\* A bot that nothing was sent to yet, whatever round it starts from.
JustStarted(b, sk) == \E rs : Knows(b, sk, 0, TRUE, rs, 0, 1)

\* A bot that has just started.
LEMMA StartKnows ==
  ASSUME NEW sk \in Skeletons, NEW up \in BOOLEAN, NEW b, b = [BotStart(sk) EXCEPT !.up = up]
  PROVE  Sound(b) /\ b.up = up /\ b.skeleton = sk /\ (up => JustStarted(b, sk))
<1> DEFINE Fresh(g, f, rs) ==
      [skeleton |-> sk, up |-> g, failed |-> f, active |-> 0, round_flag |-> ~f, round_state |-> rs,
       bankroll |-> 0, round_num |-> 1]
<1>1. \E rs : BotStart(sk) = Fresh(TRUE, FALSE, rs)
  <2>1. /\ \E rs : sk = "python" => Py!Start = Fresh(TRUE, FALSE, rs)
        /\ \E rs : sk = "java" => Java!Start = Fresh(TRUE, FALSE, rs)
        /\ \E rs : sk = "cpp" => Cpp!Start = Fresh(TRUE, FALSE, rs)
    BY DEF Py!Start, Java!Start, Cpp!Start
  <2> HIDE DEF Fresh
  <2> QED BY <2>1 DEF BotStart, Skeletons
<1>2. PICK rs : BotStart(sk) = Fresh(TRUE, FALSE, rs)
  BY <1>1
<1> DEFINE Changed(g, f, x) == [Fresh(g, f, x) EXCEPT !.up = up]
<1>3. \A g, f, x : Changed(g, f, x) = Fresh(up, f, x)
  OBVIOUS
<1>4. b = Fresh(up, FALSE, rs)
  <2>1. b = Changed(TRUE, FALSE, rs)
    <3> HIDE DEF Fresh
    <3> QED BY <1>2
  <2> HIDE DEF Fresh, Changed
  <2>2. Changed(TRUE, FALSE, rs) = Fresh(up, FALSE, rs)
    BY <1>3, Zenon
  <2> QED BY <2>1, <2>2
<1>5. ASSUME NEW f \in BOOLEAN
      PROVE  LET h == Fresh(up, f, rs)
             IN  /\ IsBot(h) /\ h.skeleton = sk /\ h.up = up /\ h.failed = f /\ h.active = 0 /\ h.round_flag = ~f
                 /\ h.round_state = rs /\ h.bankroll = 0 /\ h.round_num = 1
  BY DEF IsBot, BotFields
<1>6. LET h == Fresh(up, FALSE, rs)
      IN  /\ IsBot(h) /\ h.skeleton = sk /\ h.up = up /\ h.failed = FALSE /\ h.active = 0 /\ h.round_flag = ~FALSE
          /\ h.round_state = rs /\ h.bankroll = 0 /\ h.round_num = 1
  BY <1>5, Zenon
<1> HIDE DEF Fresh
<1>7. /\ IsBot(b) /\ b.skeleton = sk /\ b.up = up /\ b.failed = FALSE /\ b.active = 0 /\ b.round_flag = TRUE
      /\ b.round_state = rs /\ b.bankroll = 0 /\ b.round_num = 1
  BY <1>4, <1>6
<1>8. Sound(b)
  BY <1>7 DEF Sound
<1>9. up => Knows(b, sk, 0, TRUE, rs, 0, 1)
  BY <1>7 DEF Knows
<1> QED BY <1>7, <1>8, <1>9 DEF JustStarted

-----------------------------------------------------------------------------
(* What the engine logs of an action, and what a bot holds once it is read. *)
\* A log with the board announced, if a street has just been opened in t.
Announced(t, log) == IF t.street > 0 /\ t.button = 1 THEN Append(log, Clause("B", t.street)) ELSE log

\* What a bot that is in the round s holds after it has read an action that keeps
\* the round going, and the board if the street was closed.
LEMMA ReadsAction ==
  ASSUME NEW sk \in Skeletons, NEW i, NEW s, NEW c \in Deals, Balanced(s),
         NEW action, Permitted(s, action), NEW rank, NEW money, NEW n, NEW b, NEW log, IsSeq(log),
         Knows(FoldOf(sk, b, log), sk, i, FALSE, Shadow(s, s.street, rank), money, n),
         NEW t, t = proceed(s, c, action), t.type = "round",
         NEW rest, rest = Append(log, Code(action)),
         NEW final, final = Announced(t, rest)
  PROVE  Knows(FoldOf(sk, b, final), sk, i, FALSE, Shadow(t, t.street, rank), money, n) /\ IsSeq(final)
<1>1. FoldOf(sk, b, rest) = Handled(sk, FoldOf(sk, b, log), Code(action)) /\ IsSeq(rest)
  BY ReadsOneMore, SeqGrows
<1> DEFINE h == FoldOf(sk, b, rest)
<1>2. PICK u : Follows(u, proceed(s, c, action), s.street, rank) /\ Knows(h, sk, i, FALSE, u, money, n)
  <2> DEFINE a == Code(action)
             k == FoldOf(sk, b, log)
  <2>1. Knows(k, sk, i, FALSE, Shadow(s, s.street, rank), money, n)
    OBVIOUS
  <2> HIDE DEF k
  <2>2. \E u : Follows(u, proceed(s, c, action), s.street, rank)
               /\ Knows(Handled(sk, k, a), sk, i, FALSE, u, money, n)
    BY <2>1, HandlesAction
  <2> QED BY <1>1, <2>2 DEF k
<1>3. Knows(h, sk, i, FALSE, Shadow(t, s.street, rank), money, n)
  BY <1>2 DEF Follows
<1>4. CASE t.street > 0 /\ t.button = 1
  <2> DEFINE k == Clause("B", t.street)
  <2>1. Knows(Handled(sk, h, k), sk, i, FALSE, Shadow(t, t.street, rank), money, n)
    <3> HIDE DEF h
    <3> QED BY <1>3, HandlesCards
  <2> HIDE DEF k
  <2>2. FoldOf(sk, b, Append(rest, k)) = Handled(sk, h, k) /\ IsSeq(Append(rest, k))
    BY <1>1, ReadsOneMore, SeqGrows
  <2>3. final = Append(rest, k)
    BY <1>4 DEF k, Announced
  <2> QED BY <2>1, <2>2, <2>3
<1>5. CASE ~(t.street > 0 /\ t.button = 1)
  <2>1. t.street = s.street
    BY <1>5, StreetIsAnnounced
  <2>2. final = rest
    BY <1>5 DEF Announced
  <2> QED BY <1>1, <1>3, <2>1, <2>2
<1> QED BY <1>4, <1>5

\* The hits as the two clauses' readers see them: a winner's is what it is.
LEMMA HitsAreTold ==
  ASSUME NEW t \in TerminalStates, t.deltas[1] = -t.deltas[0], NEW i \in Seats, NEW w,
         w = [j \in Seats |-> (IF j = i THEN hit_chars(t)[i] ELSE hit_chars(t)[1 - i]) = "1"]
  PROVE  \A j \in Seats : t.deltas[j] > 0 => w[j] = t.bounty_hits[j]
<1> SUFFICES ASSUME NEW j \in Seats, t.deltas[j] > 0 PROVE w[j] = t.bounty_hits[j]
  OBVIOUS
<1>1. /\ t.deltas[0] \in Int /\ t.deltas[1] \in Int /\ t.bounty_hits[j] \in BOOLEAN
      /\ (j = 0 /\ 1 - j = 1) \/ (j = 1 /\ 1 - j = 0)
  BY DEF TerminalStates, Seats
<1>2. ~(t.deltas[1 - j] > 0)
  BY <1>1
<1>3. hit_chars(t)[j] = IF t.bounty_hits[j] THEN "1" ELSE "0"
  BY <1>2 DEF hit_chars
<1>4. j = i \/ j = 1 - i
  BY DEF Seats
<1>5. w[j] = (hit_chars(t)[j] = "1")
  <2>1. (IF j = i THEN hit_chars(t)[i] ELSE hit_chars(t)[1 - i]) = hit_chars(t)[j]
    BY <1>4
  <2>2. w[j] = ((IF j = i THEN hit_chars(t)[i] ELSE hit_chars(t)[1 - i]) = "1")
    OBVIOUS
  <2> QED BY <2>1, <2>2
<1>6. "1" # "0"
  OBVIOUS
<1>7. CASE t.bounty_hits[j] = TRUE
  BY <1>3, <1>5, <1>7
<1>8. CASE t.bounty_hits[j] = FALSE
  BY <1>3, <1>5, <1>6, <1>8
<1> QED BY <1>1, <1>7, <1>8

\* A log with the outcome for seat i added: the opponent's hand if nobody folded,
\* the payoff, and the hits as far as they are told.
WithOutcome(log, t, i, folded) ==
  log \o (IF folded THEN <<>> ELSE <<Clause("O", 0)>>)
      \o <<Clause("D", t.deltas[i]), Clause("Y", Pair(hit_chars(t)[i], hit_chars(t)[1 - i]))>>

\* The bot has learned how the round ended.
KnowsOutcome(b, sk, i, t, folded, money, n) ==
  \E u : Learned(u, t, folded) /\ Knows(b, sk, i, TRUE, u, money, n)

\* What it holds after it has read the action that ends the round, and the outcome.
LEMMA ReadsOutcome ==
  ASSUME NEW sk \in Skeletons, NEW i \in Seats, NEW s, NEW c \in Deals, Balanced(s),
         NEW action, Permitted(s, action), NEW rank, NEW money \in Int, NEW n \in Int, NEW b, NEW log, IsSeq(log),
         Knows(FoldOf(sk, b, log), sk, i, FALSE, Shadow(s, s.street, rank), money, n),
         NEW t \in TerminalStates, t = proceed(s, c, action), t.type # "round", t.deltas[1] = -t.deltas[0],
         NEW folded \in BOOLEAN, NEW rest, rest = Append(log, Code(action)),
         NEW final, final = WithOutcome(rest, t, i, folded)
  PROVE  KnowsOutcome(FoldOf(sk, b, final), sk, i, t, folded, money + t.deltas[i], n + 1) /\ IsSeq(final)
<1> DEFINE h == FoldOf(sk, b, rest)
<1>1. FoldOf(sk, b, rest) = Handled(sk, FoldOf(sk, b, log), Code(action)) /\ IsSeq(rest)
  BY ReadsOneMore, SeqGrows
<1>2. PICK u : Closed(u) /\ Knows(h, sk, i, FALSE, u, money, n)
  <2> DEFINE a == Code(action)
             k == FoldOf(sk, b, log)
  <2>1. Knows(k, sk, i, FALSE, Shadow(s, s.street, rank), money, n)
    OBVIOUS
  <2> HIDE DEF k
  <2>2. \E u : Follows(u, proceed(s, c, action), s.street, rank)
               /\ Knows(Handled(sk, k, a), sk, i, FALSE, u, money, n)
    BY <2>1, HandlesAction
  <2> QED BY <1>1, <2>2 DEF k, Follows
<1> DEFINE shown == IF folded THEN rest ELSE Append(rest, Clause("O", 0))
<1>3. IsSeq(shown) /\ \E w : /\ IsEnd(w) /\ w.previous_state.seen = ~folded
                             /\ Knows(FoldOf(sk, b, shown), sk, i, FALSE, w, money, n)
  <2>1. CASE folded
    <3>1. IsEnd(u) /\ u.previous_state.seen = FALSE
      BY <1>2, ClosedIsEnd
    <3>2. shown = rest /\ ~folded = FALSE
      BY <2>1
    <3> QED BY <1>1, <1>2, <3>1, <3>2
  <2>2. CASE ~folded
    <3> DEFINE o == Clause("O", 0)
    <3>1. shown = Append(rest, o) /\ ~folded = TRUE
      BY <2>2
    <3>2. PICK w : /\ IsEnd(w) /\ w.previous_state.seen = TRUE
                   /\ Knows(Handled(sk, h, o), sk, i, FALSE, w, money, n)
      <4> HIDE DEF h
      <4> QED BY <1>2, HandlesShowdown
    <3> HIDE DEF o
    <3>3. FoldOf(sk, b, Append(rest, o)) = Handled(sk, h, o) /\ IsSeq(Append(rest, o))
      BY <1>1, ReadsOneMore, SeqGrows
    <3> HIDE DEF shown
    <3> QED BY <3>1, <3>2, <3>3
  <2> QED BY <2>1, <2>2
<1> DEFINE d == Clause("D", t.deltas[i])
           own == hit_chars(t)[i]
           other == hit_chars(t)[1 - i]
           y == Clause("Y", Pair(own, other))
<1>4. final = Append(Append(shown, d), y)
  <2>1. rest \o (IF folded THEN <<>> ELSE <<Clause("O", 0)>>) = shown
    BY <1>1, TwoMore
  <2> HIDE DEF shown, d, y
  <2>2. shown \o <<d, y>> = Append(Append(shown, d), y)
    BY <1>3, TwoMore
  <2> QED BY <2>1, <2>2 DEF d, y, WithOutcome
<1>5. PICK w : /\ IsEnd(w) /\ w.previous_state.seen = ~folded
               /\ Knows(FoldOf(sk, b, shown), sk, i, FALSE, w, money, n)
  BY <1>3
<1> HIDE DEF shown
<1>6. t.deltas[i] \in Int
  BY DEF TerminalStates
<1>7. PICK x : /\ IsEnd(x) /\ x.previous_state = w.previous_state
               /\ x.deltas = [j \in Seats |-> IF j = i THEN t.deltas[i] ELSE -t.deltas[i]]
               /\ Knows(Handled(sk, FoldOf(sk, b, shown), d), sk, i, FALSE, x, money + t.deltas[i], n)
  <2> DEFINE k == FoldOf(sk, b, shown)
  <2>1. Knows(k, sk, i, FALSE, w, money, n)
    BY <1>5
  <2> HIDE DEF k
  <2> DEFINE p == t.deltas[i]
  <2>2. p \in Int /\ d = Clause("D", p)
    BY <1>6
  <2> HIDE DEF p, d
  <2>3. BookedPayoff(Handled(sk, k, Clause("D", p)), sk, i, FALSE, w, p, money, n)
    BY <1>5, <2>1, <2>2, HandlesPayoff
  <2> QED BY <2>2, <2>3 DEF k, p, BookedPayoff
<1> DEFINE paid == Append(shown, d)
<1>8. FoldOf(sk, b, paid) = Handled(sk, FoldOf(sk, b, shown), d) /\ IsSeq(paid)
  <2> HIDE DEF d
  <2> QED BY <1>3, ReadsOneMore, SeqGrows
<1>9. Knows(FoldOf(sk, b, paid), sk, i, FALSE, x, money + t.deltas[i], n)
  BY <1>7, <1>8
<1> HIDE DEF paid
<1>10. PICK e : /\ IsEnd(e) /\ e.previous_state = x.previous_state /\ e.deltas = x.deltas
                /\ e.bounty_hits = [j \in Seats |-> (IF j = i THEN own ELSE other) = "1"]
                /\ Knows(Handled(sk, FoldOf(sk, b, paid), y), sk, i, TRUE, e, money + t.deltas[i], n + 1)
  <2> DEFINE k == FoldOf(sk, b, paid)
             m == money + t.deltas[i]
  <2>1. Knows(k, sk, i, FALSE, x, m, n)
    BY <1>9
  <2> HIDE DEF k, m, own, other
  <2>2. NotedHits(Handled(sk, k, Clause("Y", Pair(own, other))), sk, i, x, own, other, m, n)
    BY <1>7, <2>1, HandlesHits
  <2> QED BY <2>2 DEF k, m, NotedHits
<1>11. FoldOf(sk, b, Append(paid, y)) = Handled(sk, FoldOf(sk, b, paid), y) /\ IsSeq(Append(paid, y))
  <2> HIDE DEF y
  <2> QED BY <1>8, ReadsOneMore, SeqGrows DEF paid
<1>12. \A j \in Seats : t.deltas[j] > 0 => e.bounty_hits[j] = t.bounty_hits[j]
  <2> DEFINE g == e.bounty_hits
  <2>1. g = [j \in Seats |-> (IF j = i THEN hit_chars(t)[i] ELSE hit_chars(t)[1 - i]) = "1"]
    BY <1>10
  <2> HIDE DEF g
  <2>2. \A j \in Seats : t.deltas[j] > 0 => g[j] = t.bounty_hits[j]
    BY ONLY <2>1, HitsAreTold, t \in TerminalStates, t.deltas[1] = -t.deltas[0], i \in Seats
  <2> QED BY <2>2 DEF g
<1>13. e.deltas = t.deltas
  <2>1. t.deltas = [j \in Seats |-> t.deltas[j]] /\ t.deltas[0] \in Int /\ t.deltas[1] \in Int
    BY DEF TerminalStates, Seats
  <2>2. \A j \in Seats : t.deltas[j] = IF j = i THEN t.deltas[i] ELSE -t.deltas[i]
    BY <2>1 DEF Seats
  <2> QED BY <1>7, <1>10, <2>1, <2>2
<1>14. Learned(e, t, folded)
  BY <1>5, <1>7, <1>10, <1>12, <1>13 DEF Learned
<1> HIDE DEF y
<1>15. FoldOf(sk, b, final) = Handled(sk, FoldOf(sk, b, paid), y) /\ IsSeq(final)
  BY <1>4, <1>11 DEF paid
<1> QED BY <1>10, <1>14, <1>15 DEF y, KnowsOutcome

-----------------------------------------------------------------------------
(* What a bot may do.                                                      *)
\* The three game trees offer what the engine's does.
LEMMA RulesAgree ==
  ASSUME NEW s, Balanced(s), NEW deck, NEW rank
  PROVE  LET u == Shadow(s, deck, rank)
         IN  /\ Py!Tree!legal_actions(u) = legal_actions(s) /\ Py!Tree!raise_bounds(u) = raise_bounds(s)
             /\ Java!Tree!legalActions(u) = legal_actions(s) /\ Java!Tree!raiseBounds(u) = raise_bounds(s)
             /\ Cpp!Tree!legalActions(u) = legal_actions(s) /\ Cpp!Tree!raiseBounds(u) = raise_bounds(s)
<1> DEFINE u == Shadow(s, deck, rank)
<1>1. u.button = s.button /\ u.pips = s.pips /\ u.stacks = s.stacks
  BY DEF Shadow
<1>2. /\ continue_cost(s) \in Nat /\ active(s) \in Seats /\ s.stacks[0] \in Nat /\ s.stacks[1] \in Nat
      /\ s.stacks[active(s)] \in Nat /\ s.stacks[1 - active(s)] \in Nat
      /\ s.pips[0] \in Nat /\ s.pips[1] \in Nat
  BY BalancedFields, ActiveSeat DEF Balanced, Seats
<1> HIDE DEF u
<1>3. Py!Tree!legal_actions(u) = legal_actions(s)
  BY <1>1 DEF legal_actions, active, continue_cost, Py!Tree!legal_actions, Py!Tree!active, Py!Tree!continue_cost
<1>4. Java!Tree!legalActions(u) = legal_actions(s)
  BY <1>1 DEF legal_actions, active, continue_cost,
    Java!Tree!legalActions, Java!Tree!toAct, Java!Tree!continueCost, Java!Tree!someoneAllIn
<1>5. Cpp!Tree!legalActions(u) = legal_actions(s)
  BY <1>1 DEF legal_actions, active, continue_cost, Cpp!Tree!legalActions, Cpp!Tree!getActive, Cpp!Tree!continueCost
<1> USE BlindsAssumption
<1>6. Py!Tree!raise_bounds(u) = raise_bounds(s)
  BY <1>1 DEF raise_bounds, min, max, active, continue_cost,
    Py!Tree!raise_bounds, Py!Tree!Least, Py!Tree!Most, Py!Tree!active, Py!Tree!continue_cost
<1>7. Java!Tree!raiseBounds(u) = raise_bounds(s)
  BY <1>1, <1>2 DEF raise_bounds, min, max, active, continue_cost,
    Java!Tree!raiseBounds, Java!Tree!Lesser, Java!Tree!toAct, Java!Tree!continueCost
<1>8. Cpp!Tree!raiseBounds(u) = raise_bounds(s)
  BY <1>1, <1>2 DEF raise_bounds, min, max, active, continue_cost,
    Cpp!Tree!raiseBounds, Cpp!Tree!smaller, Cpp!Tree!larger, Cpp!Tree!getActive, Cpp!Tree!continueCost
<1> QED BY <1>3, <1>4, <1>5, <1>6, <1>7, <1>8 DEF u
=============================================================================
