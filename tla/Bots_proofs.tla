------------------------------ MODULE Bots_proofs ------------------------------
(***************************************************************************)
(* Proofs about the bots at the table, for every size of stack and blinds, *)
(* every set of deals, every file a bot may start with, every equity a     *)
(* simulation may return and every line a person may type.                 *)
(*                                                                         *)
(* Each bot brings its own copy of the game tree: the first lemmas say     *)
(* that the copies agree.  Then every move of a bot is shown to be one the *)
(* rules allow, and of best_bot's regrets that they are its own.           *)
(***************************************************************************)
EXTENDS Bots, BettingRound_proofs

-----------------------------------------------------------------------------
(* The copies of the game tree agree.                                      *)
\* best_bot plays on the engine's game tree, and its states.py allows and bounds what the
\* engine's RoundState does.
LEMMA BestSame ==
  /\ Best!HerosTurn = HerosTurn
  /\ \A survives : Best!NextRound(survives) = NextRound(survives)
  /\ \A action : Best!Answer(action) = Answer(action)
  /\ \A n : Best!RaiseAction(n) = RaiseAction(n)
  /\ Best!FoldAction = FoldAction /\ Best!CheckAction = CheckAction /\ Best!CallAction = CallAction
  /\ Best!legal = legal_actions(round_state)
  /\ Best!Tree!raise_bounds(round_state) = raise_bounds(round_state)
<1>1. Best!HerosTurn = HerosTurn
  BY DEF Best!HerosTurn, HerosTurn, Best!ToAct, ToAct, Best!InRound, InRound, Best!active, active
<1>2. ASSUME NEW survives PROVE Best!NextRound(survives) = NextRound(survives)
  BY DEF Best!NextRound, NextRound, Best!NextDeal, NextDeal, Best!InRound, InRound,
         Best!InitialState, InitialState, Best!Pair, Pair, Best!Seats, Seats
<1>3. ASSUME NEW s, NEW c, NEW action PROVE Best!proceed(s, c, action) = proceed(s, c, action)
  BY DEF proceed, Best!proceed, TerminalState, Best!TerminalState, get_delta, Best!get_delta,
         Rounded, Best!Rounded, Scale, Best!Scale, exact_delta, Best!exact_delta,
         get_bounty_hits, Best!get_bounty_hits, Pair, Best!Pair, Seats, Best!Seats,
         active, Best!active, continue_cost, Best!continue_cost, PutIn, Best!PutIn,
         call, Best!call, check, Best!check, raise_to, Best!raise_to,
         proceed_street, Best!proceed_street, showdown, Best!showdown
<1>4. ASSUME NEW action PROVE Best!Answer(action) = Answer(action)
  BY <1>3 DEF Best!Answer, Answer
<1>5. /\ \A n : Best!RaiseAction(n) = RaiseAction(n)
      /\ Best!FoldAction = FoldAction /\ Best!CheckAction = CheckAction /\ Best!CallAction = CallAction
  BY DEF Best!RaiseAction, RaiseAction, Best!FoldAction, FoldAction,
         Best!CheckAction, CheckAction, Best!CallAction, CallAction
<1>6. Best!legal = legal_actions(round_state)
  BY DEF Best!legal, Best!Tree!legal_actions, legal_actions, continue_cost, active,
         Best!Tree!continue_cost, Best!Tree!active
<1>7. Best!Tree!raise_bounds(round_state) = raise_bounds(round_state)
  BY DEF Best!Tree!raise_bounds, raise_bounds, continue_cost, active, min, max,
         Best!Tree!continue_cost, Best!Tree!active, Best!Tree!Least, Best!Tree!Most
<1> QED BY <1>1, <1>2, <1>4, <1>5, <1>6, <1>7

\* So does pickle_bot.
LEMMA PickleSame ==
  /\ Pickle!HerosTurn = HerosTurn
  /\ \A survives : Pickle!NextRound(survives) = NextRound(survives)
  /\ \A action : Pickle!Answer(action) = Answer(action)
  /\ \A n : Pickle!RaiseAction(n) = RaiseAction(n)
  /\ Pickle!FoldAction = FoldAction /\ Pickle!CheckAction = CheckAction /\ Pickle!CallAction = CallAction
  /\ Pickle!legal = legal_actions(round_state)
  /\ Pickle!Tree!raise_bounds(round_state) = raise_bounds(round_state)
<1>1. Pickle!HerosTurn = HerosTurn
  BY DEF Pickle!HerosTurn, HerosTurn, Pickle!ToAct, ToAct, Pickle!InRound, InRound, Pickle!active, active
<1>2. ASSUME NEW survives PROVE Pickle!NextRound(survives) = NextRound(survives)
  BY DEF Pickle!NextRound, NextRound, Pickle!NextDeal, NextDeal, Pickle!InRound, InRound,
         Pickle!InitialState, InitialState, Pickle!Pair, Pair, Pickle!Seats, Seats
<1>3. ASSUME NEW s, NEW c, NEW action PROVE Pickle!proceed(s, c, action) = proceed(s, c, action)
  BY DEF proceed, Pickle!proceed, TerminalState, Pickle!TerminalState, get_delta, Pickle!get_delta,
         Rounded, Pickle!Rounded, Scale, Pickle!Scale, exact_delta, Pickle!exact_delta,
         get_bounty_hits, Pickle!get_bounty_hits, Pair, Pickle!Pair, Seats, Pickle!Seats,
         active, Pickle!active, continue_cost, Pickle!continue_cost, PutIn, Pickle!PutIn,
         call, Pickle!call, check, Pickle!check, raise_to, Pickle!raise_to,
         proceed_street, Pickle!proceed_street, showdown, Pickle!showdown
<1>4. ASSUME NEW action PROVE Pickle!Answer(action) = Answer(action)
  BY <1>3 DEF Pickle!Answer, Answer
<1>5. /\ \A n : Pickle!RaiseAction(n) = RaiseAction(n)
      /\ Pickle!FoldAction = FoldAction /\ Pickle!CheckAction = CheckAction /\ Pickle!CallAction = CallAction
  BY DEF Pickle!RaiseAction, RaiseAction, Pickle!FoldAction, FoldAction,
         Pickle!CheckAction, CheckAction, Pickle!CallAction, CallAction
<1>6. Pickle!legal = legal_actions(round_state)
  BY DEF Pickle!legal, Pickle!Tree!legal_actions, legal_actions, continue_cost, active,
         Pickle!Tree!continue_cost, Pickle!Tree!active
<1>7. Pickle!Tree!raise_bounds(round_state) = raise_bounds(round_state)
  BY DEF Pickle!Tree!raise_bounds, raise_bounds, continue_cost, active, min, max,
         Pickle!Tree!continue_cost, Pickle!Tree!active, Pickle!Tree!Least, Pickle!Tree!Most
<1> QED BY <1>1, <1>2, <1>4, <1>5, <1>6, <1>7

\* So does the player of the skeletons.
LEMMA SampleSame ==
  /\ Sample!HerosTurn = HerosTurn
  /\ \A survives : Sample!NextRound(survives) = NextRound(survives)
  /\ \A action : Sample!Answer(action) = Answer(action)
  /\ \A n : Sample!RaiseAction(n) = RaiseAction(n)
  /\ Sample!FoldAction = FoldAction /\ Sample!CheckAction = CheckAction /\ Sample!CallAction = CallAction
  /\ Sample!legal = legal_actions(round_state)
  /\ Sample!Tree!raise_bounds(round_state) = raise_bounds(round_state)
<1>1. Sample!HerosTurn = HerosTurn
  BY DEF Sample!HerosTurn, HerosTurn, Sample!ToAct, ToAct, Sample!InRound, InRound, Sample!active, active
<1>2. ASSUME NEW survives PROVE Sample!NextRound(survives) = NextRound(survives)
  BY DEF Sample!NextRound, NextRound, Sample!NextDeal, NextDeal, Sample!InRound, InRound,
         Sample!InitialState, InitialState, Sample!Pair, Pair, Sample!Seats, Seats
<1>3. ASSUME NEW s, NEW c, NEW action PROVE Sample!proceed(s, c, action) = proceed(s, c, action)
  BY DEF proceed, Sample!proceed, TerminalState, Sample!TerminalState, get_delta, Sample!get_delta,
         Rounded, Sample!Rounded, Scale, Sample!Scale, exact_delta, Sample!exact_delta,
         get_bounty_hits, Sample!get_bounty_hits, Pair, Sample!Pair, Seats, Sample!Seats,
         active, Sample!active, continue_cost, Sample!continue_cost, PutIn, Sample!PutIn,
         call, Sample!call, check, Sample!check, raise_to, Sample!raise_to,
         proceed_street, Sample!proceed_street, showdown, Sample!showdown
<1>4. ASSUME NEW action PROVE Sample!Answer(action) = Answer(action)
  BY <1>3 DEF Sample!Answer, Answer
<1>5. /\ \A n : Sample!RaiseAction(n) = RaiseAction(n)
      /\ Sample!FoldAction = FoldAction /\ Sample!CheckAction = CheckAction /\ Sample!CallAction = CallAction
  BY DEF Sample!RaiseAction, RaiseAction, Sample!FoldAction, FoldAction,
         Sample!CheckAction, CheckAction, Sample!CallAction, CallAction
<1>6. Sample!legal = legal_actions(round_state)
  BY DEF Sample!legal, Sample!Tree!legal_actions, legal_actions, continue_cost, active,
         Sample!Tree!continue_cost, Sample!Tree!active
<1>7. Sample!Tree!raise_bounds(round_state) = raise_bounds(round_state)
  BY DEF Sample!Tree!raise_bounds, raise_bounds, continue_cost, active, min, max,
         Sample!Tree!continue_cost, Sample!Tree!active, Sample!Tree!Least, Sample!Tree!Most
<1> QED BY <1>1, <1>2, <1>4, <1>5, <1>6, <1>7

\* The chatbot plays on the engine's game tree, and is overruled as Player.query does it.
LEMMA ChatSame ==
  /\ Chat!HerosTurn = HerosTurn
  /\ \A survives : Chat!NextRound(survives) = NextRound(survives)
  /\ \A action : Chat!Answer(action) = Answer(action)
  /\ \A n : Chat!RaiseAction(n) = RaiseAction(n)
  /\ Chat!FoldAction = FoldAction /\ Chat!CheckAction = CheckAction /\ Chat!CallAction = CallAction
  /\ \A action : Chat!Overruled(action) = Overruled(action)
<1>1. Chat!HerosTurn = HerosTurn
  BY DEF Chat!HerosTurn, HerosTurn, Chat!ToAct, ToAct, Chat!InRound, InRound, Chat!active, active
<1>2. ASSUME NEW survives PROVE Chat!NextRound(survives) = NextRound(survives)
  BY DEF Chat!NextRound, NextRound, Chat!NextDeal, NextDeal, Chat!InRound, InRound,
         Chat!InitialState, InitialState, Chat!Pair, Pair, Chat!Seats, Seats
<1>3. ASSUME NEW s, NEW c, NEW action PROVE Chat!proceed(s, c, action) = proceed(s, c, action)
  BY DEF proceed, Chat!proceed, TerminalState, Chat!TerminalState, get_delta, Chat!get_delta,
         Rounded, Chat!Rounded, Scale, Chat!Scale, exact_delta, Chat!exact_delta,
         get_bounty_hits, Chat!get_bounty_hits, Pair, Chat!Pair, Seats, Chat!Seats,
         active, Chat!active, continue_cost, Chat!continue_cost, PutIn, Chat!PutIn,
         call, Chat!call, check, Chat!check, raise_to, Chat!raise_to,
         proceed_street, Chat!proceed_street, showdown, Chat!showdown
<1>4. ASSUME NEW action PROVE Chat!Answer(action) = Answer(action)
  BY <1>3 DEF Chat!Answer, Answer
<1>5. /\ \A n : Chat!RaiseAction(n) = RaiseAction(n)
      /\ Chat!FoldAction = FoldAction /\ Chat!CheckAction = CheckAction /\ Chat!CallAction = CallAction
  BY DEF Chat!RaiseAction, RaiseAction, Chat!FoldAction, FoldAction,
         Chat!CheckAction, CheckAction, Chat!CallAction, CallAction
<1>6. ASSUME NEW s PROVE Chat!legal_actions(s) = legal_actions(s) /\ Chat!raise_bounds(s) = raise_bounds(s)
  BY DEF Chat!legal_actions, legal_actions, Chat!raise_bounds, raise_bounds, Chat!active, active,
         Chat!continue_cost, continue_cost, Chat!min, min, Chat!max, max
<1>7. ASSUME NEW action PROVE Chat!Overruled(action) = Overruled(action)
  BY <1>5, <1>6 DEF Chat!Overruled, Overruled, Chat!Allowed, Allowed, Chat!DefaultAction, DefaultAction
<1> QED BY <1>1, <1>2, <1>4, <1>5, <1>7

-----------------------------------------------------------------------------
(* Moves the rules allow.                                                  *)
Moves == {FoldAction, CheckAction, CallAction} \cup {RaiseAction(n) : n \in Int}

\* Somebody takes a move that is allowed, and it is executed.
Plays == InRound /\ (\E action \in Moves : Allowed(action) /\ Answer(action)) /\ UNCHANGED cards

\* What legal_actions offers.
LEMMA LegalActions ==
  ASSUME NEW s
  PROVE  /\ "Fold" \in legal_actions(s)
         /\ legal_actions(s) \subseteq Actions
         /\ "Check" \in legal_actions(s) \/ "Call" \in legal_actions(s)
BY DEF legal_actions, Actions

\* A move that is allowed is an action of BettingRound.
LEMMA PlaysActs ==
  ASSUME Plays
  PROVE  Act
<1>1. PICK action \in Moves : Allowed(action) /\ Answer(action)
  BY DEF Plays
<1>2. InRound /\ UNCHANGED cards /\ round_state' = proceed(round_state, cards, action)
  BY <1>1 DEF Plays, Answer
<1>3. CASE action = FoldAction
  BY <1>2, <1>3 DEF Act, Fold, Proceed
<1>4. CASE action = CheckAction
  BY <1>1, <1>2, <1>4 DEF Act, Check, Proceed, Allowed, CheckAction
<1>5. CASE action = CallAction
  BY <1>1, <1>2, <1>5 DEF Act, Call, Proceed, Allowed, CallAction
<1>6. CASE action \in {RaiseAction(n) : n \in Int}
  <2>1. PICK n \in Int : action = RaiseAction(n)
    BY <1>6
  <2>2. action.type = "Raise" /\ action.amount = n
    BY <2>1 DEF RaiseAction
  <2>3. n \in raise_bounds(round_state)[1] .. raise_bounds(round_state)[2]
    BY <1>1, <2>2 DEF Allowed
  <2>4. Raise(n)
    BY <1>1, <1>2, <2>1, <2>2 DEF Raise, Proceed, Allowed
  <2> QED BY <1>2, <2>3, <2>4 DEF Act, RaiseLegally
<1> QED BY <1>3, <1>4, <1>5, <1>6 DEF Moves

\* And the other way round: the opponent's legal actions are such moves.
LEMMA ActsPlay ==
  ASSUME RoundInv, Act
  PROVE  Plays
<1>1. CASE Fold
  <2>1. FoldAction \in Moves /\ Allowed(FoldAction)
    BY LegalActions DEF Moves, Allowed, FoldAction
  <2> QED BY <1>1, <2>1 DEF Fold, Proceed, Plays, Answer
<1>2. CASE Call
  <2>1. CallAction \in Moves /\ Allowed(CallAction)
    BY <1>2 DEF Moves, Allowed, CallAction, Call
  <2> QED BY <1>2, <2>1 DEF Call, Proceed, Plays, Answer
<1>3. CASE Check
  <2>1. CheckAction \in Moves /\ Allowed(CheckAction)
    BY <1>3 DEF Moves, Allowed, CheckAction, Check
  <2> QED BY <1>3, <2>1 DEF Check, Proceed, Plays, Answer
<1>4. CASE RaiseLegally
  <2>1. PICK n \in raise_bounds(round_state)[1] .. raise_bounds(round_state)[2] : Raise(n)
    BY <1>4 DEF RaiseLegally
  <2>2. Balanced(round_state)
    BY <2>1, RoundIsBalanced DEF Raise
  <2>3. n \in Int
    BY <2>1, <2>2, RaiseBounds DEF Raise
  <2>4. RaiseAction(n) \in Moves /\ Allowed(RaiseAction(n))
    BY <2>1, <2>3 DEF Moves, Allowed, RaiseAction, Raise
  <2> QED BY <2>1, <2>4 DEF Raise, Proceed, Plays, Answer
<1> QED BY <1>1, <1>2, <1>3, <1>4 DEF Act

\* What the engine plays for a bot is allowed.
LEMMA DefaultPlays ==
  ASSUME InRound, NEW action, action = DefaultAction, Answer(action), UNCHANGED cards
  PROVE  Plays
<1>1. DefaultAction \in Moves /\ Allowed(DefaultAction)
  BY LegalActions DEF DefaultAction, Moves, Allowed, CheckAction, FoldAction
<1> QED BY <1>1 DEF Plays

\* An amount cut to the bounds is within them.
LEMMA CutToBounds ==
  ASSUME NEW s, Balanced(s), "Raise" \in legal_actions(s), NEW x \in Int
  PROVE  LET n == max(raise_bounds(s)[1], min(x, raise_bounds(s)[2]))
         IN  n \in Int /\ n \in raise_bounds(s)[1] .. raise_bounds(s)[2]
<1>1. /\ raise_bounds(s)[1] \in Int /\ raise_bounds(s)[2] \in Int
      /\ raise_bounds(s)[1] <= raise_bounds(s)[2]
  BY RaiseBounds
<1> QED BY <1>1 DEF max, min

-----------------------------------------------------------------------------
(* The moves of the bots.                                                  *)

\* A move other than a raise is allowed when it is legal.
LEMMA LegalMove ==
  ASSUME NEW a \in {CheckAction, FoldAction, CallAction}, a.type \in legal_actions(round_state)
  PROVE  a \in Moves /\ Allowed(a)
BY DEF Moves, Allowed, CheckAction, FoldAction, CallAction

\* A raise of an amount cut to the bounds is allowed when raises are legal.
LEMMA CutRaise ==
  ASSUME Balanced(round_state), "Raise" \in legal_actions(round_state), NEW x \in Int,
         NEW n, n = max(raise_bounds(round_state)[1], min(x, raise_bounds(round_state)[2]))
  PROVE  RaiseAction(n) \in Moves /\ Allowed(RaiseAction(n))
<1>1. n \in Int /\ n \in raise_bounds(round_state)[1] .. raise_bounds(round_state)[2]
  BY CutToBounds
<1> QED BY <1>1 DEF Moves, Allowed, RaiseAction

\* Sizes of the bots' raises before they are cut are integers.
LEMMA SizeInt ==
  ASSUME NEW pot \in Int, NEW g \in Int, NEW k, k = min(7 * (Unit \div 2), g)
  PROVE  (pot * k) \div Unit \in Int
<1>1. Unit \in Nat /\ 0 < Unit
  BY BotTableAssumption
<1>2. Unit \div 2 \in Int
  BY <1>1
<1>3. k \in Int
  BY <1>2 DEF min
<1>4. \A x \in Int, d \in Nat : 0 < d => x \div d \in Int
  OBVIOUS
<1>5. pot * k \in Int
  BY <1>3
<1> QED BY <1>1, <1>4, <1>5

\* The pot of a balanced round is a number of chips (get_action of best_bot).
LEMMA PotSizeNat ==
  ASSUME Balanced(round_state)
  PROVE  Best!PotSize \in Nat
<1>1. /\ round_state.stacks[0] \in Nat /\ round_state.stacks[1] \in Nat
      /\ round_state.stacks[0] <= STARTING_STACK /\ round_state.stacks[1] <= STARTING_STACK
  BY BalancedFields
<1> QED BY <1>1, BlindsAssumption DEF Best!PotSize

\* best_bot: whatever it has learned, it answers with a move that is allowed
\* (get_action, get_strategy, dynamic_raise_amount).
LEMMA BestMoves ==
  ASSUME RoundInv, Best!BestActs
  PROVE  Plays /\ HerosTurn
<1>1. PICK equity \in Equities : Best!get_action(equity)
  BY DEF Best!BestActs
<1>2. PICK chosen \in Best!Choices : \E answer \in Best!Answers(chosen, equity) : Best!Answer(answer)
  BY <1>1 DEF Best!get_action
<1>3. PICK answer \in Best!Answers(chosen, equity) : Answer(answer)
  BY <1>2, BestSame
<1>4. HerosTurn /\ UNCHANGED cards
  BY BestSame DEF Best!BestActs
<1>5. InRound /\ Balanced(round_state)
  BY <1>4, RoundIsBalanced DEF HerosTurn, ToAct
<1>6. chosen \in legal_actions(round_state)
  BY BestSame, LegalActions DEF Best!Choices, Best!Weighted
<1>7. answer \in Moves /\ Allowed(answer)
  <2>1. CASE chosen = "Raise"
    <3>1. PICK g \in Best!Aggressions(equity) : answer = RaiseAction(Best!dynamic_raise_amount(g))
      BY <2>1, BestSame DEF Best!Answers
    <3>2. equity \in Nat
      BY BotTableAssumption
    <3>3. g \in Int
      BY <3>2 DEF Best!Aggressions
    <3> DEFINE x == (Best!PotSize * Best!min(7 * (Unit \div 2), g)) \div Unit
    <3>4. Best!min(7 * (Unit \div 2), g) = min(7 * (Unit \div 2), g)
      BY DEF Best!min, min
    <3>5. x \in Int
      BY <1>5, <3>3, <3>4, SizeInt, PotSizeNat
    <3>6. Best!dynamic_raise_amount(g) = max(raise_bounds(round_state)[1], min(x, raise_bounds(round_state)[2]))
      BY BestSame DEF Best!dynamic_raise_amount, Best!max, max, Best!min, min
    <3> HIDE DEF x
    <3> QED BY <1>5, <1>6, <2>1, <3>1, <3>5, <3>6, CutRaise
  <2>2. CASE chosen # "Raise"
    <3>1. answer \in {CheckAction, FoldAction, CallAction} /\ answer.type = chosen
      BY <2>2, BestSame DEF Best!Answers
    <3> QED BY <1>6, <3>1, LegalMove
  <2> QED BY <2>1, <2>2
<1> QED BY <1>3, <1>4, <1>5, <1>7 DEF Plays

\* pickle_bot: the same of its regrets, its bounty and its cached equities.
LEMMA PickleMoves ==
  ASSUME RoundInv, Pickle!PickleActs, \A x \in DOMAIN equities : equities[x] \in Equities
  PROVE  Plays /\ HerosTurn
<1>1. PICK equity \in Pickle!EquitiesNow : Pickle!get_action(equity)
  BY DEF Pickle!PickleActs
<1>2. equity \in Equities
  BY <1>1 DEF Pickle!EquitiesNow
<1>3. PICK chosen \in Pickle!Weighted :
        Answer(IF chosen = "Raise" THEN RaiseAction(Pickle!dynamic_raise_amount(equity))
               ELSE CHOOSE a \in {CheckAction, FoldAction, CallAction} : a.type = chosen)
  BY <1>1, PickleSame DEF Pickle!get_action
<1>4. HerosTurn /\ UNCHANGED cards
  BY PickleSame DEF Pickle!PickleActs
<1>5. InRound /\ Balanced(round_state)
  BY <1>4, RoundIsBalanced DEF HerosTurn, ToAct
<1>6. chosen \in legal_actions(round_state)
  BY PickleSame DEF Pickle!Weighted
<1> DEFINE answer == IF chosen = "Raise" THEN RaiseAction(Pickle!dynamic_raise_amount(equity))
                     ELSE CHOOSE a \in {CheckAction, FoldAction, CallAction} : a.type = chosen
<1>7. answer \in Moves /\ Allowed(answer)
  <2>1. CASE chosen = "Raise"
    <3> DEFINE pot == Pickle!pot_size
               g == equity * (IF Pickle!bounty_hit THEN 7 ELSE 5)
               x == (pot * Pickle!min(7 * (Unit \div 2), g)) \div Unit
    <3>1. pot \in Int
      <4>1. round_state.pips[0] \in Nat /\ round_state.pips[1] \in Nat
        BY <1>5, BalancedFields
      <4> QED BY <4>1 DEF Pickle!pot_size
    <3>2. g \in Int
      BY <1>2, BotTableAssumption
    <3>3. Pickle!min(7 * (Unit \div 2), g) = min(7 * (Unit \div 2), g)
      BY DEF Pickle!min, min
    <3> HIDE DEF g
    <3>4. x \in Int
      BY <3>1, <3>2, <3>3, SizeInt
    <3>5. Pickle!dynamic_raise_amount(equity)
            = max(raise_bounds(round_state)[1], min(x, raise_bounds(round_state)[2]))
      BY PickleSame DEF Pickle!dynamic_raise_amount, Pickle!max, max, Pickle!min, min, g
    <3> HIDE DEF x
    <3> QED BY <1>5, <1>6, <2>1, <3>4, <3>5, CutRaise
  <2>2. CASE chosen # "Raise"
    <3>1. \E a \in {CheckAction, FoldAction, CallAction} : a.type = chosen
      BY <1>6, <2>2, LegalActions DEF Actions, CheckAction, FoldAction, CallAction
    <3>2. answer \in {CheckAction, FoldAction, CallAction} /\ answer.type = chosen
      BY <2>2, <3>1
    <3> QED BY <1>6, <3>2, LegalMove
  <2> QED BY <2>1, <2>2
<1> HIDE DEF answer
<1>8. Answer(answer)
  BY <1>3 DEF answer
<1> QED BY <1>4, <1>5, <1>7, <1>8 DEF Plays

\* The sample player raises by the minimum, checks, calls or folds, as is legal.
LEMMA SampleMoves ==
  ASSUME RoundInv, Sample!SampleActs
  PROVE  Plays /\ HerosTurn
<1>1. HerosTurn /\ UNCHANGED cards
  BY SampleSame DEF Sample!SampleActs
<1>2. InRound /\ Balanced(round_state)
  BY <1>1, RoundIsBalanced DEF HerosTurn, ToAct
<1>3. PICK answer \in Sample!MinRaises \cup Sample!CheckOrCall : Answer(answer)
  BY SampleSame DEF Sample!SampleActs
<1>4. answer \in Moves /\ Allowed(answer)
  <2>1. CASE answer \in Sample!MinRaises
    <3>1. "Raise" \in legal_actions(round_state)
            /\ answer = RaiseAction(raise_bounds(round_state)[1])
      BY <2>1, SampleSame DEF Sample!MinRaises
    <3>2. /\ raise_bounds(round_state)[1] \in Int
          /\ raise_bounds(round_state)[1] \in raise_bounds(round_state)[1] .. raise_bounds(round_state)[2]
      BY <1>2, <3>1, RaiseBounds
    <3> QED BY <3>1, <3>2 DEF Moves, Allowed, RaiseAction
  <2>2. CASE answer \in Sample!CheckOrCall
    <3>1. answer \in {CheckAction, FoldAction, CallAction} /\ answer.type \in legal_actions(round_state)
      BY <2>2, SampleSame, LegalActions DEF Sample!CheckOrCall, CheckAction, FoldAction, CallAction
    <3> QED BY <3>1, LegalMove
  <2> QED BY <1>3, <2>1, <2>2
<1> QED BY <1>1, <1>2, <1>3, <1>4 DEF Plays

\* What a person types is overruled unless it is allowed (Player.query).
LEMMA OverruledMove ==
  ASSUME NEW act, NEW num
  PROVE  LET answer == Overruled(Chat!Returned(act, num)) IN answer \in Moves /\ Allowed(answer)
<1> DEFINE given == Chat!Returned(act, num)
<1>1. DefaultAction \in Moves /\ Allowed(DefaultAction)
  BY LegalActions DEF DefaultAction, Moves, Allowed, CheckAction, FoldAction
<1>2. given \in {FoldAction, CheckAction, CallAction} \/ given = RaiseAction(num)
  BY ChatSame DEF Chat!Returned
<1>3. CASE ~Allowed(given)
  BY <1>1, <1>3 DEF Overruled
<1>4. CASE Allowed(given)
  <2>1. Overruled(given) = given
    BY <1>4 DEF Overruled
  <2>2. given = RaiseAction(num) => num \in Int
    BY <1>4 DEF Allowed, RaiseAction
  <2> QED BY <1>2, <1>4, <2>1, <2>2 DEF Moves
<1> QED BY <1>3, <1>4

\* The chatbot: the loop goes on with nothing played, or a move is played.
LEMMA ChatMoves ==
  ASSUME Chat!ChatActs
  PROVE  HerosTurn /\ UNCHANGED <<cards, seat, round_num>> /\ (UNCHANGED round_state \/ Plays)
<1>1. PICK line \in Lines : Chat!PersonTypes(line)
  BY DEF Chat!ChatActs
<1>2. HerosTurn /\ UNCHANGED <<cards, seat, round_num>>
  BY <1>1, ChatSame DEF Chat!PersonTypes
<1>3. ASSUME NEW prompt, NEW act, NEW num, Chat!Loop(prompt, act, num, line)
      PROVE  UNCHANGED round_state \/ Plays
  <2>1. UNCHANGED round_state \/ Answer(Overruled(Chat!Returned(act, num)))
    BY <1>3, ChatSame DEF Chat!Loop
  <2>2. InRound
    BY <1>2 DEF HerosTurn, ToAct
  <2> QED BY <1>2, <2>1, <2>2, OverruledMove DEF Plays
<1>4. UNCHANGED round_state \/ Plays
  BY <1>1, <1>3 DEF Chat!PersonTypes, Chat!OneWord, Chat!TwoWords, Chat!MoreWords, Chat!Quits
<1> QED BY <1>2, <1>4

-----------------------------------------------------------------------------
(* The tables of regrets stay tables of regrets.                           *)

\* Quotients by a positive number are integers, as floats never are.
LEMMA QuotientInt ==
  ASSUME NEW x \in Int, NEW d \in Nat, 0 < d
  PROVE  x \div d \in Int
OBVIOUS

\* best_bot's regret of a legal action is a number (get_action).
LEMMA BestRegretInt ==
  ASSUME Balanced(round_state), NEW a \in Actions, NEW equity \in Nat
  PROVE  Best!Regret(a, equity) \in Int
<1>1. Unit \in Nat /\ Unit \div 10 \in Int
  <2>1. Unit \in Nat
    BY BotTableAssumption
  <2> QED BY <2>1, QuotientInt
<1>2. Best!PotSize \in Nat /\ Best!PotSize + BIG_BLIND \in Nat /\ 0 < Best!PotSize + BIG_BLIND
  BY PotSizeNat, BlindsAssumption
<1>3. Unit \div (Best!PotSize + BIG_BLIND) \in Int
  BY <1>1, <1>2, QuotientInt
<1>4. CASE a = "Call"
  <2>1. Best!Regret(a, equity) = equity - (Unit \div (Best!PotSize + BIG_BLIND)) * Best!PotSize
    BY <1>4 DEF Best!Regret
  <2>2. (Unit \div (Best!PotSize + BIG_BLIND)) * Best!PotSize \in Int
    BY <1>2, <1>3
  <2> QED BY <2>1, <2>2
<1>5. CASE a = "Raise"
  <2>1. Best!Regret(a, equity) = equity - 6 * (Unit \div 10)
    BY <1>5 DEF Best!Regret
  <2> QED BY <1>1, <2>1
<1>6. CASE a \in {"Check", "Fold"}
  <2>1. Best!Regret(a, equity) = -equity
    BY <1>6 DEF Best!Regret
  <2> QED BY <2>1
<1> QED BY <1>4, <1>5, <1>6 DEF Actions

\* A row of a table, as IsTable asks for it.
IsRow(row) ==
  /\ DOMAIN row # {} /\ DOMAIN row \subseteq Actions
  /\ \A a \in DOMAIN row : row[a] \in Int

\* Putting a row into a table keeps it a table.
LEMMA PutRow ==
  ASSUME NEW d, IsTable(d), NEW k, NEW row, IsRow(row),
         NEW e, e = [x \in DOMAIN d \cup {k} |-> IF x = k THEN row ELSE d[x]]
  PROVE  IsTable(e)
<1>1. DOMAIN e = DOMAIN d \cup {k}
  OBVIOUS
<1>2. \A x \in DOMAIN e : e[x] = IF x = k THEN row ELSE d[x]
  OBVIOUS
<1>3. \A x \in DOMAIN e : IsRow(e[x])
  BY <1>1, <1>2 DEF IsTable, IsRow
<1> QED BY <1>3 DEF IsTable, IsRow

\* What best_bot stores for the situation it is in is a row (get_strategy).
LEMMA BestStoredRow ==
  ASSUME IsTable(regret_sum)
  PROVE  IsRow(Best!Stored) /\ IsRow(Best!Known)
<1> DEFINE zeros == [a \in Best!legal |-> 0]
<1>1. Best!legal \subseteq Actions /\ "Fold" \in Best!legal
  BY BestSame, LegalActions
<1>2. IsRow(zeros)
  BY <1>1 DEF IsRow
<1>3. IsRow(Best!Known)
  <2>1. CASE Best!key \in DOMAIN regret_sum
    <3> DEFINE old == regret_sum[Best!key]
    <3>1. IsRow(old)
      BY <2>1 DEF IsTable, IsRow
    <3>2. Best!Known = [x \in DOMAIN old \cup Best!legal |-> IF x \in DOMAIN old THEN old[x] ELSE zeros[x]]
      BY <2>1 DEF Best!Known, Best!WithDefaults
    <3> HIDE DEF old
    <3>3. DOMAIN Best!Known = DOMAIN old \cup Best!legal
      BY <3>2
    <3>4. \A x \in DOMAIN Best!Known : Best!Known[x] \in Int
      BY <3>1, <3>2, <3>3 DEF IsRow
    <3> QED BY <1>1, <3>1, <3>3, <3>4 DEF IsRow
  <2>2. CASE Best!key \notin DOMAIN regret_sum
    BY <1>2, <2>2 DEF Best!Known
  <2> QED BY <2>1, <2>2
<1>4. IsRow(Best!Regrets)
  <2>1. DOMAIN Best!Regrets = DOMAIN Best!Known
    BY DEF Best!Regrets, Best!Inclined
  <2>2. Best!RaiseBonus \in Int
    <3>1. Unit \in Nat
      BY BotTableAssumption
    <3> QED BY <3>1, QuotientInt DEF Best!RaiseBonus
  <2>3. \A x \in DOMAIN Best!Regrets : Best!Regrets[x] \in Int
    BY <1>3, <2>1, <2>2 DEF IsRow, Best!Regrets, Best!Inclined
  <2> QED BY <1>3, <2>1, <2>3 DEF IsRow
<1> QED BY <1>3, <1>4 DEF Best!Stored

\* best_bot's update keeps its table (update_regret_sum).
LEMMA BestTable ==
  ASSUME RoundInv, IsTable(regret_sum), Best!BestActs
  PROVE  IsTable(regret_sum')
<1>1. PICK equity \in Equities : Best!get_action(equity)
  BY DEF Best!BestActs
<1>2. equity \in Nat
  BY BotTableAssumption
<1>3. Balanced(round_state)
  BY BestMoves, RoundIsBalanced DEF Plays
<1> DEFINE added(a) == IF a \in Best!legal THEN Best!Regret(a, equity) ELSE 0
           row == [a \in DOMAIN Best!Stored |-> Best!Stored[a] + added(a)]
<1>4. regret_sum' = [x \in DOMAIN regret_sum \cup {Best!key} |-> IF x = Best!key THEN row ELSE regret_sum[x]]
  BY <1>1 DEF Best!get_action, Best!update_regret_sum, Best!Put
<1>5. IsRow(row)
  <2>1. \A a \in Actions : added(a) \in Int
    BY <1>2, <1>3, BestRegretInt
  <2> HIDE DEF added
  <2>2. \A a \in DOMAIN Best!Stored : Best!Stored[a] + added(a) \in Int
    BY <2>1, BestStoredRow DEF IsRow
  <2> QED BY <2>2, BestStoredRow DEF IsRow
<1> HIDE DEF row
<1> QED BY <1>4, <1>5, PutRow

\* pickle_bot's regret of a legal action is a number (get_action).
LEMMA PickleRegretInt ==
  ASSUME Balanced(round_state), NEW a \in Actions, NEW equity \in Nat
  PROVE  Pickle!Regret(a, equity) \in Int
<1> DEFINE pot == Pickle!pot_size
           value == IF Pickle!bounty_hit THEN (3 * equity) \div 2 ELSE equity
           bonus == Pickle!fixed_bonus
<1>1. Unit \in Nat /\ Unit \div 10 \in Int
  <2>1. Unit \in Nat
    BY BotTableAssumption
  <2> QED BY <2>1, QuotientInt
<1>2. pot \in Nat
  <2>1. round_state.pips[0] \in Nat /\ round_state.pips[1] \in Nat
    BY BalancedFields
  <2> QED BY <2>1 DEF Pickle!pot_size
<1>3. value \in Int
  <2>1. (3 * equity) \div 2 \in Int
    BY QuotientInt
  <2> QED BY <2>1
<1>4. bonus \in Int
  <2>1. pot > 0 => (10 * Unit) \div pot \in Int
    BY <1>1, <1>2, QuotientInt
  <2>2. 1000 * Unit \in Int
    BY <1>1
  <2>3. pot = 0 \/ pot > 0
    BY <1>2
  <2>4. Pickle!bounty_hit \in BOOLEAN
    BY DEF Pickle!bounty_hit
  <2>5. CASE ~Pickle!bounty_hit
    BY <2>5 DEF Pickle!fixed_bonus
  <2>6. CASE Pickle!bounty_hit /\ pot = 0
    BY <2>2, <2>6 DEF Pickle!fixed_bonus
  <2>7. CASE Pickle!bounty_hit /\ pot > 0
    <3>1. bonus = (10 * Unit) \div pot
      BY <1>2, <2>7 DEF Pickle!fixed_bonus
    <3> QED BY <2>1, <2>7, <3>1
  <2> QED BY <2>3, <2>4, <2>5, <2>6, <2>7
<1>5. (Unit \div (pot + BIG_BLIND)) * pot \in Int
  <2>1. pot + BIG_BLIND \in Nat /\ 0 < pot + BIG_BLIND
    BY <1>2, BlindsAssumption
  <2>2. Unit \div (pot + BIG_BLIND) \in Int
    BY <1>1, <2>1, QuotientInt
  <2> QED BY <1>2, <2>2
<1>6. a = "Raise" => Pickle!Regret(a, equity) = value - 6 * (Unit \div 10) + bonus
  BY DEF Pickle!Regret
<1>7. a = "Call" => Pickle!Regret(a, equity) = value - (Unit \div (pot + BIG_BLIND)) * pot + bonus
  BY DEF Pickle!Regret
<1>8. a \in {"Check", "Fold"} => Pickle!Regret(a, equity) = -value
  BY DEF Pickle!Regret
<1> HIDE DEF value, bonus
<1>9. CASE a = "Raise"
  BY <1>1, <1>3, <1>4, <1>6, <1>9
<1>10. CASE a = "Call"
  BY <1>3, <1>4, <1>5, <1>7, <1>10
<1>11. CASE a \in {"Check", "Fold"}
  BY <1>3, <1>8, <1>11
<1> QED BY <1>9, <1>10, <1>11 DEF Actions

\* pickle_bot's update keeps its table and its cache of equities (get_action).
LEMMA PickleTable ==
  ASSUME RoundInv, IsTable(regret_sum), Pickle!PickleActs,
         \A x \in DOMAIN equities : equities[x] \in Equities
  PROVE  IsTable(regret_sum') /\ (\A x \in DOMAIN equities' : equities'[x] \in Equities)
<1>1. PICK equity \in Pickle!EquitiesNow : Pickle!get_action(equity)
  BY DEF Pickle!PickleActs
<1>2. equity \in Equities
  BY <1>1 DEF Pickle!EquitiesNow
<1>3. equity \in Nat
  BY <1>2, BotTableAssumption
<1>4. Balanced(round_state)
  BY PickleMoves, RoundIsBalanced DEF Plays
<1>5. \A x \in DOMAIN equities' : equities'[x] \in Equities
  <2>1. equities' = Pickle!PutNew(equities, Pickle!situation, equity)
    BY <1>1 DEF Pickle!get_action
  <2>2. CASE Pickle!situation \in DOMAIN equities
    BY <2>1, <2>2 DEF Pickle!PutNew
  <2>3. CASE Pickle!situation \notin DOMAIN equities
    <3>1. equities' = [x \in DOMAIN equities \cup {Pickle!situation} |->
                         IF x = Pickle!situation THEN equity ELSE equities[x]]
      BY <2>1, <2>3 DEF Pickle!PutNew, Pickle!Put
    <3> QED BY <1>2, <3>1
  <2> QED BY <2>2, <2>3
<1> DEFINE old == IF Pickle!key \in DOMAIN regret_sum THEN regret_sum[Pickle!key] ELSE <<>>
           new == [a \in Pickle!legal |-> Pickle!RegretOf(a) + Pickle!Regret(a, equity)]
           row == [x \in DOMAIN new \cup DOMAIN old |-> IF x \in DOMAIN new THEN new[x] ELSE old[x]]
<1>6. regret_sum' = [x \in DOMAIN regret_sum \cup {Pickle!key} |-> IF x = Pickle!key THEN row ELSE regret_sum[x]]
  BY <1>1 DEF Pickle!get_action, Pickle!Put, Pickle!WithDefaults
<1>7. IsRow(row)
  <2>1. Pickle!legal \subseteq Actions /\ "Fold" \in Pickle!legal
    BY PickleSame, LegalActions
  <2>2. \A a \in Pickle!legal : Pickle!RegretOf(a) \in Int /\ Pickle!Regret(a, equity) \in Int
    BY <1>3, <1>4, <2>1, PickleRegretInt DEF IsTable, Pickle!RegretOf
  <2>3. DOMAIN new = Pickle!legal /\ (\A a \in DOMAIN new : new[a] \in Int)
    BY <2>2
  <2>4. DOMAIN old \subseteq Actions /\ (\A a \in DOMAIN old : old[a] \in Int)
    <3>1. CASE Pickle!key \in DOMAIN regret_sum
      BY <3>1 DEF IsTable
    <3>2. CASE Pickle!key \notin DOMAIN regret_sum
      BY <3>2
    <3> QED BY <3>1, <3>2
  <2> HIDE DEF new, old
  <2> QED BY <2>1, <2>3, <2>4 DEF IsRow
<1> HIDE DEF row, old, new
<1>8. IsTable(regret_sum)
  OBVIOUS
<1>9. IsTable(regret_sum')
  BY ONLY <1>6, <1>7, <1>8, PutRow
<1> QED BY <1>5, <1>9

-----------------------------------------------------------------------------
(* The table is well formed, and everybody plays by the rules.             *)
TableInv ==
  /\ RoundInv
  /\ seat \in Seats /\ round_num \in 1 .. MAX_ROUNDS
  /\ up \in BOOLEAN /\ (bot \in {"best", "sample"} => up)
  /\ IsTable(regret_sum)
  /\ bot = "pickle" => \A x \in DOMAIN equities : equities[x] \in Equities

\* What a file gives best_bot to start with is a table, whose keys it will not find.
LEMMA LoadedTable ==
  ASSUME NEW contents \in CsvFiles
  PROVE  /\ IsTable(Best!load_cfr_data(contents))
         /\ \A k \in DOMAIN Best!load_cfr_data(contents) : k.strings = TRUE
<1> DEFINE table == Best!load_cfr_data(contents)
<1>1. DOMAIN table = {Best!ReadBack(written) : written \in DOMAIN contents}
        /\ \A k \in DOMAIN table : table[k] = contents[[k EXCEPT !.strings = FALSE]]
  BY DEF Best!load_cfr_data
<1>2. ASSUME NEW k \in DOMAIN table
      PROVE  k.strings = TRUE /\ [k EXCEPT !.strings = FALSE] \in DOMAIN contents
  <2>1. PICK w \in DOMAIN contents : k = [w EXCEPT !.strings = TRUE]
    BY <1>1 DEF Best!ReadBack
  <2>2. w = [street |-> w.street, hole |-> w.hole, board |-> w.board, strings |-> FALSE]
    BY FilesAssumption
  <2>3. k = [street |-> w.street, hole |-> w.hole, board |-> w.board, strings |-> TRUE]
    BY <2>1, <2>2
  <2>4. [k EXCEPT !.strings = FALSE] = w /\ k.strings = TRUE
    BY <2>2, <2>3
  <2> QED BY <2>4
<1>3. IsTable(contents)
  BY FilesAssumption
<1> HIDE DEF table
<1>4. IsTable(table)
  BY <1>1, <1>2, <1>3 DEF IsTable
<1> QED BY <1>2, <1>4 DEF table

\* The table is well formed to begin with.
LEMMA TableStarts ==
  ASSUME Init
  PROVE  TableInv
<1>1. RoundInv
  BY InitialBalanced DEF Init, TableInit, RoundsInit, RoundInv
<1>2. seat \in Seats /\ round_num = 1 /\ up = TRUE /\ equities = <<>> /\ round_num \in 1 .. MAX_ROUNDS
  BY BotTableAssumption DEF Init, TableInit
<1>3. IsTable(<<>>)
  BY DEF IsTable
<1>4. IsTable(regret_sum)
  <2>1. CASE bot = "best"
    <3>1. \E contents \in CsvFiles : regret_sum = Best!load_cfr_data(contents)
      BY <2>1 DEF Init, Best!BestInit
    <3> QED BY <3>1, LoadedTable
  <2>2. CASE bot = "pickle"
    BY <2>2, FilesAssumption DEF Init, Pickle!PickleInit
  <2>3. CASE bot \in {"chat", "sample"}
    BY <1>3, <2>3 DEF Init
  <2> QED BY <2>1, <2>2, <2>3 DEF Init
<1> QED BY <1>1, <1>2, <1>4 DEF TableInv

\* Who takes a step, and what becomes of the round: a move of the bot or of another,
\* the next deal, or no change of the round.
LEMMA StepsOfTheTable ==
  ASSUME TableInv, Next
  PROVE  \/ Plays /\ UNCHANGED <<seat, round_num>>
         \/ \E survives : NextRound(survives)
         \/ UNCHANGED <<round_state, cards, seat, round_num>>
<1>1. CASE BestPlays
  <2>1. Best!BestActs \/ NextRound(TRUE)
    BY <1>1, BestSame DEF BestPlays, Best!BestNextRound
  <2> QED BY <2>1, BestMoves DEF TableInv, Best!BestActs
<1>2. CASE PicklePlays
  <2>1. bot = "pickle" /\ (Pickle!PickleActs \/ NextRound(FALSE))
    BY <1>2, PickleSame DEF PicklePlays, Pickle!PickleNextRound
  <2> QED BY <2>1, PickleMoves DEF TableInv, Pickle!PickleActs
<1>3. CASE ChatPlays
  <2>1. Chat!ChatActs \/ \E continues \in BOOLEAN : NextRound(continues)
    BY <1>3, ChatSame DEF ChatPlays, Chat!ChatNextRound
  <2> QED BY <2>1, ChatMoves
<1>4. CASE SamplePlays
  <2>1. Sample!SampleActs \/ NextRound(TRUE)
    BY <1>4, SampleSame DEF SamplePlays, Sample!SampleNextRound
  <2> QED BY <2>1, SampleMoves DEF TableInv, Sample!SampleActs
<1>5. CASE OthersPlay
  <2>1. CASE VillainActs
    BY <2>1, ActsPlay DEF VillainActs, TableInv
  <2>2. CASE EngineActs
    BY <2>2, DefaultPlays DEF EngineActs, ToAct
  <2> QED BY <1>5, <2>1, <2>2 DEF OthersPlay
<1>6. CASE Done
  BY <1>6 DEF Done, vars, tableVars
<1> QED BY <1>1, <1>2, <1>3, <1>4, <1>5, <1>6 DEF Next

\* Every step is a step of BettingRound, or leaves the round alone.
LEMMA StepByTheRules ==
  ASSUME TableInv, [Next]_vars
  PROVE  [RoundsNext]_roundVars
<1>1. Plays => RoundsNext
  BY PlaysActs DEF RoundsNext
<1>2. (\E survives : NextRound(survives)) => RoundsNext
  BY DEF NextRound, RoundsNext
<1>3. UNCHANGED vars => UNCHANGED roundVars
  BY DEF vars, tableVars, roundVars
<1> QED BY <1>1, <1>2, <1>3, StepsOfTheTable DEF roundVars

\* The tables and the cache of the bots, and who is up, stay well formed.
LEMMA TableInductive ==
  ASSUME TableInv, [Next]_vars
  PROVE  TableInv'
<1>1. RoundInv'
  BY StepByTheRules, RoundInvInductive DEF TableInv
<1>2. seat' \in Seats /\ round_num' \in 1 .. MAX_ROUNDS
  <2>1. CASE UNCHANGED <<seat, round_num>>
    BY <2>1 DEF TableInv
  <2>2. CASE \E survives : NextRound(survives)
    <3>1. round_num < MAX_ROUNDS /\ seat' = 1 - seat /\ round_num' = round_num + 1
      BY <2>2 DEF NextRound
    <3> QED BY <3>1, BotTableAssumption DEF TableInv, Seats
  <2> QED BY <2>1, <2>2, StepsOfTheTable DEF vars, tableVars
<1>3. bot' = bot
  BY DEF Next, BestPlays, PicklePlays, ChatPlays, SamplePlays, OthersPlay, Done, vars
<1>4. up' \in BOOLEAN /\ (bot' \in {"best", "sample"} => up')
  <2>1. CASE BestPlays
    BY <1>3, <2>1, BestSame DEF BestPlays, Best!BestActs, Best!BestNextRound, NextRound, TableInv
  <2>2. CASE PicklePlays
    BY <1>3, <2>2, PickleSame DEF PicklePlays, Pickle!PickleActs, Pickle!PickleNextRound, NextRound, TableInv
  <2>3. CASE ChatPlays
    <3>1. bot = "chat"
      BY <2>3 DEF ChatPlays
    <3>2. CASE Chat!ChatActs
      <4>1. PICK line \in Lines : Chat!PersonTypes(line)
        BY <3>2 DEF Chat!ChatActs
      <4>2. up' = up \/ up' = FALSE
        BY <4>1 DEF Chat!PersonTypes, Chat!OneWord, Chat!TwoWords, Chat!MoreWords, Chat!Quits
      <4> QED BY <1>3, <3>1, <4>2 DEF TableInv
    <3>3. CASE Chat!ChatNextRound
      BY <1>3, <3>1, <3>3, ChatSame DEF Chat!ChatNextRound, NextRound, TableInv
    <3> QED BY <2>3, <3>2, <3>3 DEF ChatPlays
  <2>4. CASE SamplePlays
    BY <1>3, <2>4, SampleSame DEF SamplePlays, Sample!SampleActs, Sample!SampleNextRound, NextRound, TableInv
  <2>5. CASE OthersPlay
    BY <1>3, <2>5 DEF OthersPlay, VillainActs, EngineActs, TableInv
  <2>6. CASE Done \/ UNCHANGED vars
    BY <1>3, <2>6 DEF Done, vars, tableVars, TableInv
  <2> QED BY <2>1, <2>2, <2>3, <2>4, <2>5, <2>6 DEF Next
<1>5. IsTable(regret_sum') /\ (bot' = "pickle" => \A x \in DOMAIN equities' : equities'[x] \in Equities)
  <2>1. CASE BestPlays
    <3>1. bot = "best" /\ (regret_sum' = regret_sum \/ Best!BestActs)
      BY <2>1 DEF BestPlays, Best!BestNextRound
    <3> QED BY <1>3, <3>1, BestTable DEF TableInv
  <2>2. CASE PicklePlays
    <3>1. bot = "pickle" /\ (UNCHANGED <<regret_sum, equities>> \/ Pickle!PickleActs)
      BY <2>2 DEF PicklePlays, Pickle!PickleNextRound
    <3> QED BY <3>1, PickleTable DEF TableInv
  <2>3. CASE UNCHANGED <<regret_sum, equities>>
    BY <1>3, <2>3 DEF TableInv
  <2> QED BY <2>1, <2>2, <2>3 DEF Next, ChatPlays, SamplePlays, OthersPlay, Done, vars, best_side
<1>6. IsTable(regret_sum)' <=> IsTable(regret_sum')
  BY DEF IsTable
<1> QED BY <1>1, <1>2, <1>4, <1>5, <1>6 DEF TableInv

\* Everything TypeOK says of the table holds in every reachable state.
THEOREM TableTypeCorrect == Spec => []TypeOK
<1>1. Init => TableInv
  BY TableStarts
<1>2. TableInv /\ [Next]_vars => TableInv'
  BY TableInductive
<1>3. TableInv => TypeOK
  BY DEF TableInv, TypeOK, RoundTypeOK, RoundInv, Balanced, Ended
<1> QED BY <1>1, <1>2, <1>3, PTL DEF Spec

\* No bot's answer breaks a rule, whatever it has learned, simulated or been told: the
\* table with the bots implements BettingRound.
THEOREM BotsPlayByTheRules == Spec => PlaysByTheRules
<1>1. Init => TableInv /\ RoundsInit
  BY TableStarts DEF Init, TableInit
<1>2. TableInv /\ [Next]_vars => TableInv' /\ [RoundsNext]_roundVars
  BY TableInductive, StepByTheRules
<1> QED BY <1>1, <1>2, PTL DEF Spec, PlaysByTheRules, RoundsSpec

-----------------------------------------------------------------------------
(* What best_bot has learned.                                              *)

\* Regrets of a running game are the bot's own: other keys are those of the file, which
\* is why nothing that was read is ever found.
OwnExperience == \A k \in DOMAIN regret_sum : k.strings = TRUE \/ k \in seen

BestInv == bot = "best" => OwnExperience

\* The bot has learned of this situation only when it was in it, so far as it knows.
LEMMA NewSituation ==
  ASSUME OwnExperience, Best!key \notin seen
  PROVE  Best!key \notin DOMAIN regret_sum
BY DEF OwnExperience, Best!key

\* That regrets are of the bot's own making is inductive.
LEMMA BestInductive ==
  ASSUME TableInv, BestInv, [Next]_vars
  PROVE  BestInv'
<1>1. bot' = bot
  BY DEF Next, BestPlays, PicklePlays, ChatPlays, SamplePlays, OthersPlay, Done, vars
<1> SUFFICES ASSUME bot = "best" PROVE OwnExperience'
  BY <1>1 DEF BestInv
<1>2. OwnExperience
  BY DEF BestInv
<1>3. CASE BestPlays /\ Best!BestActs
  <2>1. PICK equity \in Equities : Best!get_action(equity)
    BY <1>3 DEF Best!BestActs
  <2>2. seen' = seen \cup {Best!key}
    BY <2>1 DEF Best!get_action
  <2>3. DOMAIN regret_sum' = DOMAIN regret_sum \cup {Best!key}
    BY <2>1 DEF Best!get_action, Best!update_regret_sum, Best!Put
  <2> QED BY <1>2, <2>2, <2>3 DEF OwnExperience
<1>4. CASE UNCHANGED <<regret_sum, seen>>
  BY <1>2, <1>4 DEF OwnExperience
<1>5. OthersPlay \/ Done \/ UNCHANGED vars => UNCHANGED <<regret_sum, seen>>
  BY DEF OthersPlay, best_side, Done, vars
<1>6. BestPlays => Best!BestActs \/ UNCHANGED <<regret_sum, seen>>
  BY DEF BestPlays, Best!BestNextRound
<1> QED BY <1>3, <1>4, <1>5, <1>6 DEF Next, PicklePlays, ChatPlays, SamplePlays

\* In every reachable state the keys of best_bot are of the file or of its own games.
LEMMA BestRemembers == Spec => [](TableInv /\ BestInv)
<1>1. Init => TableInv /\ BestInv
  <2> SUFFICES ASSUME Init PROVE TableInv /\ BestInv
    OBVIOUS
  <2>1. bot = "best" => OwnExperience
    BY LoadedTable DEF Init, Best!BestInit, OwnExperience
  <2> QED BY <2>1, TableStarts DEF BestInv
<1>2. TableInv /\ BestInv /\ [Next]_vars => (TableInv /\ BestInv)'
  BY TableInductive, BestInductive
<1> QED BY <1>1, <1>2, PTL DEF Spec

\* What best_bot weighs in a situation that is new to it: a raise when it may, and
\* everything legal otherwise (get_strategy with all regrets at zero).
LEMMA WeighsNew ==
  ASSUME Best!key \notin DOMAIN regret_sum
  PROVE  Best!Weighted = IF "Raise" \in Best!legal THEN {"Raise"} ELSE Best!legal
<1>1. Best!Known = [a \in Best!legal |-> 0]
  BY DEF Best!Known
<1>2. Best!RaiseBonus \in Int /\ 0 < Best!RaiseBonus
  <2>1. Unit \in Nat /\ 0 < Unit /\ Unit % 10 = 0
    BY BotTableAssumption
  <2>2. 5 <= Unit
    BY <2>1
  <2>3. \A x \in Nat : 5 <= x => x \div 5 \in Int /\ 0 < x \div 5
    OBVIOUS
  <2> QED BY <2>1, <2>2, <2>3 DEF Best!RaiseBonus
<1>3. Best!Regrets = [a \in Best!legal |-> IF a = "Raise" THEN 0 + Best!RaiseBonus ELSE 0]
  BY <1>1 DEF Best!Regrets, Best!Inclined
<1>4. DOMAIN Best!Regrets = Best!legal
        /\ \A a \in Best!legal : Best!Regrets[a] > 0 <=> a = "Raise"
  BY <1>2, <1>3
<1> QED BY <1>4 DEF Best!Weighted

\* best_bot raises in every situation that is new to it, whenever it may: what looks
\* like an inclination (a bonus of 0.2) is a certainty.
THEOREM NewSituationsAreRaised == Spec => RaisesInNewSituations
<1>1. ASSUME TableInv, BestInv, Next, bot = "best"
      PROVE  Best!RaisesWhenNew
  <2> SUFFICES ASSUME HerosTurn, Best!key \notin seen, "Raise" \in legal_actions(round_state)
               PROVE  InRound' /\ round_state'.pips[seat] > round_state.pips[1 - seat]
    BY BestSame DEF Best!RaisesWhenNew, Best!InRound, InRound
  <2>1. OwnExperience /\ RoundInv
    BY <1>1 DEF TableInv, BestInv
  <2>2. up /\ InRound /\ active(round_state) = seat
    BY DEF HerosTurn, ToAct
  <2>3. Best!BestActs
    <3>1. ~VillainActs /\ ~EngineActs /\ ~Done
      BY <2>2 DEF VillainActs, EngineActs, Done, Finished
    <3>2. ~Best!BestNextRound
      BY <2>2, BestSame DEF Best!BestNextRound, NextRound, NextDeal
    <3> QED BY <1>1, <3>1, <3>2
            DEF Next, BestPlays, PicklePlays, ChatPlays, SamplePlays, OthersPlay
  <2>4. Best!Weighted = {"Raise"}
    BY <2>1, NewSituation, WeighsNew, BestSame
  <2>5. PICK equity \in Equities : Best!get_action(equity)
    BY <2>3 DEF Best!BestActs
  <2>6. PICK answer \in Best!Answers("Raise", equity) : Answer(answer)
    BY <2>4, <2>5, BestSame DEF Best!get_action, Best!Choices
  <2>7. PICK g \in Best!Aggressions(equity) : answer = RaiseAction(Best!dynamic_raise_amount(g))
    BY <2>6, BestSame DEF Best!Answers
  <2> DEFINE n == Best!dynamic_raise_amount(g)
             x == (Best!PotSize * Best!min(7 * (Unit \div 2), g)) \div Unit
  <2>8. Balanced(round_state)
    BY <2>1, <2>2, RoundIsBalanced
  <2>9. x \in Int
    <3>1. equity \in Nat
      BY BotTableAssumption
    <3>2. g \in Int
      BY <3>1 DEF Best!Aggressions
    <3>3. Best!min(7 * (Unit \div 2), g) = min(7 * (Unit \div 2), g)
      BY DEF Best!min, min
    <3> QED BY <2>8, <3>2, <3>3, SizeInt, PotSizeNat
  <2>10. n = max(raise_bounds(round_state)[1], min(x, raise_bounds(round_state)[2]))
    BY BestSame DEF Best!dynamic_raise_amount, Best!max, max, Best!min, min
  <2> HIDE DEF n, x
  <2>11. n \in raise_bounds(round_state)[1] .. raise_bounds(round_state)[2]
    BY <2>8, <2>9, <2>10, CutToBounds
  <2>12. round_state' = proceed(round_state, cards, RaiseAction(n))
    BY <2>6, <2>7 DEF Answer, n
  <2>13. /\ round_state'.type = "round" /\ round_state'.pips[active(round_state)] = n
         /\ round_state.pips[1 - active(round_state)] < n
    BY <2>8, <2>11, <2>12, RaiseEffect
  <2> QED BY <2>2, <2>13 DEF InRound
<1>2. TableInv /\ BestInv /\ [Next]_vars => [bot = "best" => Best!RaisesWhenNew]_vars
  BY <1>1
<1> QED BY <1>2, BestRemembers, PTL DEF Spec, RaisesInNewSituations

-----------------------------------------------------------------------------
(* The chatbot.                                                            *)

\* However often the person was asked again, what is played is the move typed last.
THEOREM LastLineIsPlayed == Spec => AnswersAsTyped
<1>1. ASSUME Next, bot = "chat"
      PROVE  Chat!PlaysTheLastLine
  <2> SUFFICES ASSUME HerosTurn, round_state' # round_state
               PROVE  Chat!IsMove(entry'.last) /\ Answer(Overruled(Chat!Move(entry'.last)))
    BY ChatSame DEF Chat!PlaysTheLastLine
  <2>1. up /\ InRound /\ active(round_state) = seat
    BY DEF HerosTurn, ToAct
  <2>2. Chat!ChatActs
    <3>1. ~VillainActs /\ ~EngineActs /\ ~Done
      BY <2>1 DEF VillainActs, EngineActs, Done, Finished
    <3>2. ~Chat!ChatNextRound
      BY <2>1, ChatSame DEF Chat!ChatNextRound, NextRound, NextDeal
    <3> QED BY <1>1, <3>1, <3>2
            DEF Next, BestPlays, PicklePlays, ChatPlays, SamplePlays, OthersPlay
  <2>3. PICK line \in Lines : Chat!PersonTypes(line)
    BY <2>2 DEF Chat!ChatActs
  <2>4. ASSUME NEW prompt, NEW act, NEW num, Chat!Loop(prompt, act, num, line)
        PROVE  act # "None" /\ entry'.last = line /\ Answer(Overruled(Chat!Returned(act, num)))
    BY <2>4, ChatSame DEF Chat!Loop
  <2>5. CASE Chat!OneWord(line)
    <3> DEFINE act == IF line[1].capitalized \in Chat!OneWordMoves THEN line[1].capitalized ELSE "None"
    <3>1. act # "None" /\ entry'.last = line /\ Answer(Overruled(Chat!Returned(act, entry.num)))
      BY <2>4, <2>5 DEF Chat!OneWord
    <3>2. Len(line) = 1 /\ act \in {"Check", "Fold", "Call"} /\ act = line[1].capitalized
      BY <2>5, <3>1 DEF Chat!OneWord, Chat!OneWordMoves
    <3>3. Chat!IsMove(line)
      BY <3>2 DEF Chat!IsMove, Chat!OneWordMoves
    <3> HIDE DEF act
    <3>4. \A a, b \in {CheckAction, FoldAction, CallAction} : a.type = b.type => a = b
      BY DEF CheckAction, FoldAction, CallAction
    <3>5. Chat!Returned(act, entry.num) \in {CheckAction, FoldAction, CallAction}
            /\ Chat!Returned(act, entry.num).type = act
      BY <3>2, ChatSame DEF Chat!Returned, CheckAction, FoldAction, CallAction
    <3>6. Chat!Move(line) = CHOOSE a \in {CheckAction, FoldAction, CallAction} : a.type = act
      BY <3>2, ChatSame DEF Chat!Move
    <3>7. Chat!Move(line) = Chat!Returned(act, entry.num)
      BY <3>4, <3>5, <3>6
    <3> QED BY <3>1, <3>3, <3>7
  <2>6. CASE Chat!TwoWords(line)
    <3> DEFINE raise == line[1].capitalized = "Raise"
               number == line[2].number # Chat!NotANumber
               prompt == IF ~raise /\ ~number THEN "lost" ELSE "move"
               act == IF raise /\ number THEN "Raise" ELSE "None"
    <3>1. Len(line) = 2 /\ Chat!Loop(prompt, act, line[2].number, line)
      BY <2>6 DEF Chat!TwoWords
    <3>2. act # "None" /\ entry'.last = line /\ Answer(Overruled(Chat!Returned(act, line[2].number)))
      BY <2>4, <3>1
    <3>3. act = "Raise" /\ Chat!IsMove(line)
      BY <3>1, <3>2 DEF Chat!IsMove
    <3>4. Chat!Returned(act, line[2].number) = RaiseAction(line[2].number)
      BY <3>3, ChatSame DEF Chat!Returned
    <3>5. Chat!Move(line) = RaiseAction(line[2].number)
      BY <3>1, ChatSame DEF Chat!Move
    <3> QED BY <3>2, <3>3, <3>4, <3>5
  <2>7. ~Chat!MoreWords(line) /\ ~Chat!Loop("move", "None", entry.num, line) /\ ~Chat!Quits(line)
    BY <2>4 DEF Chat!MoreWords, Chat!Quits
  <2> QED BY <2>3, <2>5, <2>6, <2>7 DEF Chat!PersonTypes
<1>2. [Next]_vars => [bot = "chat" => Chat!PlaysTheLastLine]_vars
  BY <1>1
<1> QED BY <1>2, PTL DEF Spec, AnswersAsTyped
=============================================================================
