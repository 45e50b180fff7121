------------------------------ MODULE Match_proofs ------------------------------
(***************************************************************************)
(* Match implements BettingRound, for every number of rounds, every deal,  *)
(* every set of answers and any behaviour of the bots: what query lets     *)
(* through is an action of the rules. Its books balance, its lines are     *)
(* answered in order, and the bots that follow it stay in step with it     *)
(* (what a bot does with one packet is in Skeletons_proofs).               *)
(***************************************************************************)
EXTENDS Skeletons_proofs

\* The engine deals only once a round is over.
Between == pc \in {"paid", "stop", "quit", "done"} => ~InRound

\* What query falls back on is allowed by the rules (its last line).
LEMMA DefaultIsLegal ==
  ASSUME InRound, NEW log, PlayOn(DefaultAction, log), UNCHANGED cards
  PROVE  RoundsNext
<1>1. CASE "Check" \in legal_actions(round_state)
  <2>1. DefaultAction = CheckAction
    BY <1>1 DEF DefaultAction
  <2>2. Check
    BY <1>1, <2>1 DEF PlayOn, Check, Proceed
  <2> QED BY <2>2 DEF RoundsNext, Act
<1>2. CASE "Check" \notin legal_actions(round_state)
  <2>1. DefaultAction = FoldAction
    BY <1>2 DEF DefaultAction
  <2>2. Fold
    BY <2>1 DEF PlayOn, Fold, Proceed
  <2> QED BY <2>2 DEF RoundsNext, Act
<1> QED BY <1>1, <1>2

\* An action the code recognises is one of four, the only ones legal_actions lists.
LEMMA FourActions ==
  ASSUME NEW s
  PROVE  legal_actions(s) \subseteq {"Fold", "Call", "Check", "Raise"}
BY DEF legal_actions

\* An answer query accepts is an action of the rules.
LEMMA AcceptedIsLegal ==
  ASSUME InRound, NEW log, NEW answer, Legal(answer), PlayOn(answer, log), UNCHANGED cards
  PROVE  RoundsNext
<1>1. answer.type \in legal_actions(round_state)
  BY DEF Legal
<1>2. round_state' = proceed(round_state, cards, answer)
  BY DEF PlayOn
<1>3. CASE answer.type = "Fold"
  <2>1. proceed(round_state, cards, answer) = proceed(round_state, cards, FoldAction)
    BY <1>3 DEF proceed, FoldAction
  <2>2. Fold
    BY <1>2, <2>1 DEF Fold, Proceed
  <2> QED BY <2>2 DEF RoundsNext, Act
<1>4. CASE answer.type = "Call"
  <2>1. proceed(round_state, cards, answer) = proceed(round_state, cards, CallAction)
    BY <1>4 DEF proceed, CallAction
  <2>2. Call
    BY <1>1, <1>2, <1>4, <2>1 DEF Call, Proceed
  <2> QED BY <2>2 DEF RoundsNext, Act
<1>5. CASE answer.type = "Check"
  <2>1. proceed(round_state, cards, answer) = proceed(round_state, cards, CheckAction)
    BY <1>5 DEF proceed, CheckAction
  <2>2. Check
    BY <1>1, <1>2, <1>5, <2>1 DEF Check, Proceed
  <2> QED BY <2>2 DEF RoundsNext, Act
<1>6. CASE answer.type = "Raise"
  <2>1. answer.amount \in raise_bounds(round_state)[1] .. raise_bounds(round_state)[2]
    BY <1>6 DEF Legal
  <2>2. proceed(round_state, cards, answer) = proceed(round_state, cards, RaiseAction(answer.amount))
    BY <1>6 DEF proceed, RaiseAction
  <2>3. Raise(answer.amount)
    BY <1>1, <1>2, <1>6, <2>2 DEF Raise, Proceed
  <2>4. RaiseLegally
    BY <2>1, <2>3 DEF RaiseLegally
  <2> QED BY <2>4 DEF RoundsNext, Act
<1> QED BY <1>1, <1>3, <1>4, <1>5, <1>6, FourActions

\* However a query ends, the rules see one of their actions or nothing.
LEMMA ResumeImplements ==
  ASSUME NEW log, NEW action, Resume(action, log), UNCHANGED cards,
         InRound => action = DefaultAction \/ Legal(action)
  PROVE  [RoundsNext]_roundVars
<1>1. CASE PlayOn(action, log)
  <2>1. InRound
    BY <1>1 DEF PlayOn
  <2> QED BY <1>1, <2>1, DefaultIsLegal, AcceptedIsLegal
<1>2. CASE Pay(log)
  BY <1>2 DEF Pay, roundVars
<1> QED BY <1>1, <1>2 DEF Resume

\* The end of a query leaves the engine between rounds only if the round is over.
LEMMA ResumeBetween ==
  ASSUME NEW log, NEW action, Resume(action, log)
  PROVE  Between'
BY DEF Resume, PlayOn, Pay, Between, InRound

\* The engine deals, and the match ends, only between rounds.
THEOREM DealsBetweenRounds == Spec => []Between
<1>1. Init => Between
  BY DEF Init, Between
<1>2. ASSUME Between, [Next]_vars
      PROVE  Between'
  <2>1. CASE StartRound
    BY <2>1 DEF StartRound, Between
  <2>2. CASE EndMatch \/ Send \/ Stop \/ Quit
    BY <1>2, <2>2 DEF EndMatch, Send, Stop, Quit, Between, InRound
  <2>3. CASE SkipQuery \/ SendFails
    BY <2>3, ResumeBetween DEF SkipQuery, SendFails
  <2>4. CASE Receive \/ ReceiveTooLate
    BY <2>4, ResumeBetween DEF Receive, ReceiveTooLate
  <2>5. CASE SocketTimeout \/ ReadEOF \/ ReadReset
    BY <2>5, ResumeBetween DEF SocketTimeout, ReadEOF, ReadReset
  <2>6. ASSUME NEW p \in Players, Handle(p) \/ Crash(p)
        PROVE  Between'
    BY <1>2, <2>6 DEF Handle, Crash, engine, Between, InRound
  <2>7. CASE Done \/ UNCHANGED vars
    BY <1>2, <2>7 DEF Done, vars, Between, InRound
  <2> QED BY <1>2, <2>1, <2>2, <2>3, <2>4, <2>5, <2>6, <2>7 DEF Next, Engine
<1> QED BY <1>1, <1>2, PTL DEF Spec

\* Every match plays by the rules of BettingRound: the first deal is one of its
\* initial states, a query that ends inside a round is one of its actions, a new
\* deal is its NextDeal, and nothing else touches the round.
THEOREM MatchPlaysByTheRules == Spec => PlaysByTheRules
<1>1. Init => RoundsInit
  BY DEF Init, RoundsInit
<1>2. ASSUME Between, [Next]_vars
      PROVE  [RoundsNext]_roundVars
  <2>1. CASE StartRound
    <3>1. ~InRound
      BY <1>2, <2>1 DEF StartRound, Between
    <3>2. NextDeal
      BY <2>1, <3>1 DEF StartRound, NextDeal
    <3> QED BY <3>2 DEF RoundsNext
  <2>2. CASE EndMatch \/ Send \/ Stop \/ Quit
    BY <2>2 DEF EndMatch, Send, Stop, Quit, roundVars
  <2>3. CASE SkipQuery
    BY <2>3, ResumeImplements DEF SkipQuery
  <2>4. CASE SendFails
    BY <2>4, ResumeImplements DEF SendFails
  <2>5. CASE Receive
    <3> DEFINE answer == Head(outbox[Who]).answer
    <3>1. Accept(answer) = DefaultAction \/ Legal(Accept(answer))
      BY DEF Accept
    <3> HIDE DEF answer
    <3>2. Resume(Accept(answer), messages) /\ UNCHANGED cards
      BY <2>5 DEF Receive, answer
    <3> QED BY <3>1, <3>2, ResumeImplements
  <2>6. CASE ReceiveTooLate
    BY <2>6, ResumeImplements DEF ReceiveTooLate
  <2>7. CASE SocketTimeout
    BY <2>7, ResumeImplements DEF SocketTimeout
  <2>8. CASE ReadEOF
    BY <2>8, ResumeImplements DEF ReadEOF
  <2>9. CASE ReadReset
    BY <2>9, ResumeImplements DEF ReadReset
  <2>10. ASSUME NEW p \in Players, Handle(p) \/ Crash(p)
         PROVE  UNCHANGED roundVars
    BY <2>10 DEF Handle, Crash, engine, roundVars
  <2>11. CASE Done \/ UNCHANGED vars
    BY <2>11 DEF Done, vars, roundVars
  <2> QED BY <1>2, <2>1, <2>2, <2>3, <2>4, <2>5, <2>6, <2>7, <2>8, <2>9, <2>10, <2>11
      DEF Next, Engine
<1> QED BY <1>1, <1>2, DealsBetweenRounds, PTL DEF Spec, PlaysByTheRules, RoundsSpec

\* Whatever the bots answer and whenever they die, the round the engine plays is
\* well formed, and whoever is asked can call and has room for the raises offered.
THEOREM EveryDecisionIsWellFormed == Spec => [](RoundTypeOK /\ DecisionWellFormed)
BY MatchPlaysByTheRules, TypeCorrect, DecisionsAreWellFormed, PTL DEF PlaysByTheRules

-----------------------------------------------------------------------------
(* The books.  A payment is booked for one seat at a time, so the balance  *)
(* has to say what is still owed between the two.                          *)
SeatsTaken ==
  \/ players[0] = FirstOrder[0] /\ players[1] = FirstOrder[1]
  \/ players[0] = FirstOrder[1] /\ players[1] = FirstOrder[0]

Books ==
  /\ SeatsTaken
  /\ bankroll \in [Players -> Int]
  /\ pc \in Phases
  /\ InRound => served = 0
  /\ pc \in {"ask", "wait"} => served \in {0, 1}
  /\ ChipsChangeHands

\* A round that is over has integer payoffs that cancel out.
LEMMA PayoffsAreIntegers ==
  ASSUME NEW t \in RoundStates \cup TerminalStates, t.type # "round",
         t.deltas[1] = -t.deltas[0]
  PROVE  t.deltas[0] \in Int /\ t.deltas[1] \in Int /\ t.deltas[0] + t.deltas[1] = 0
<1>1. t \in TerminalStates
  BY DEF RoundStates
<1>2. t.deltas[0] \in Int /\ t.deltas[1] \in Int
  BY <1>1 DEF TerminalStates, Seats
<1> QED BY <1>2

\* Playing on books nothing; an ack books the payoff of the seat that was asked.
LEMMA ResumeKeepsBooks ==
  ASSUME Books, Between, RoundTypeOK, DeltasCancel, DeltasCancel', RoundTypeOK',
         pc \in {"ask", "wait"}, UNCHANGED players,
         NEW log, NEW action, Resume(action, log)
  PROVE  Books'
<1> USE MatchAssumption
<1>1. CASE PlayOn(action, log)
  <2>1. /\ InRound /\ served = 0 /\ UNCHANGED <<bankroll, served>> /\ pc' = "ask"
    BY <1>1 DEF PlayOn, Books
  <2>2. Unpaid = 0
    BY <2>1 DEF Unpaid
  <2>3. Unpaid' = 0
    <3>1. CASE InRound'
      BY <3>1 DEF Unpaid
    <3>2. CASE ~InRound'
      <4>1. (round_state.deltas[0] + round_state.deltas[1])' = 0
        BY <3>2, PayoffsAreIntegers DEF RoundTypeOK, DeltasCancel, InRound
      <4> QED BY <2>1, <3>2, <4>1 DEF Unpaid
    <3> QED BY <3>1, <3>2
  <2> QED BY <2>1, <2>2, <2>3 DEF Books, SeatsTaken, ChipsChangeHands, Phases
<1>2. CASE Pay(log)
  <2> DEFINE p == FirstOrder[0]
             q == FirstOrder[1]
             d0 == round_state.deltas[0]
             d1 == round_state.deltas[1]
  <2>1. /\ ~InRound /\ round_state' = round_state
        /\ bankroll' = [bankroll EXCEPT ![players[served]] = @ + round_state.deltas[served]]
        /\ served' = served + 1 /\ pc' = IF served = 0 THEN "ask" ELSE "paid"
    BY <1>2 DEF Pay, Payment, Who, Asked
  <2>2. d0 \in Int /\ d1 \in Int /\ d0 + d1 = 0
    BY <2>1, PayoffsAreIntegers DEF RoundTypeOK, DeltasCancel, InRound
  <2>3. bankroll[p] \in Int /\ bankroll[q] \in Int /\ p # q /\ p \in Players /\ q \in Players
    BY DEF Books
  <2>4. bankroll[p] + bankroll[q] + Unpaid = 0
    BY DEF Books, ChipsChangeHands
  <2>5. served \in {0, 1}
    BY DEF Books
  <2>6. players[served] \in {p, q} /\ SeatsTaken'
    BY <2>5 DEF Books, SeatsTaken
  <2> HIDE DEF p, q, d0, d1
  <2>7. CASE served = 0
    <3>1. Unpaid = 0
      BY <2>1, <2>2, <2>7 DEF Unpaid, d0, d1
    <3>2. Unpaid' = d1
      BY <2>1, <2>7 DEF Unpaid, InRound, d1
    <3>3. bankroll' \in [Players -> Int] /\ bankroll'[p] + bankroll'[q] = bankroll[p] + bankroll[q] + d0
      <4>1. round_state.deltas[served] = d0
        BY <2>7 DEF d0
      <4>2. CASE players[served] = p
        BY <2>1, <2>2, <2>3, <4>1, <4>2 DEF Books
      <4>3. CASE players[served] = q
        BY <2>1, <2>2, <2>3, <4>1, <4>3 DEF Books
      <4> QED BY <2>6, <4>2, <4>3
    <3>4. bankroll'[p] + bankroll'[q] + Unpaid' = 0
      BY <2>2, <2>3, <2>4, <3>1, <3>2, <3>3
    <3> QED BY <2>1, <2>6, <2>7, <3>3, <3>4 DEF Books, ChipsChangeHands, Phases, InRound, p, q
  <2>8. CASE served = 1
    <3>1. Unpaid = d1
      <4>1. pc \notin {"paid", "stop", "quit", "done"}
        OBVIOUS
      <4> QED BY <2>1, <2>8, <4>1 DEF Unpaid, d1
    <3>2. Unpaid' = 0
      BY <2>1, <2>8 DEF Unpaid
    <3>3. bankroll' \in [Players -> Int] /\ bankroll'[p] + bankroll'[q] = bankroll[p] + bankroll[q] + d1
      <4>1. round_state.deltas[served] = d1
        BY <2>8 DEF d1
      <4>2. CASE players[served] = p
        BY <2>1, <2>2, <2>3, <4>1, <4>2 DEF Books
      <4>3. CASE players[served] = q
        BY <2>1, <2>2, <2>3, <4>1, <4>3 DEF Books
      <4> QED BY <2>6, <4>2, <4>3
    <3>4. bankroll'[p] + bankroll'[q] + Unpaid' = 0
      BY <2>2, <2>3, <2>4, <3>1, <3>2, <3>3
    <3> QED BY <2>1, <2>6, <2>8, <3>3, <3>4 DEF Books, ChipsChangeHands, Phases, InRound, p, q
  <2> QED BY <2>5, <2>7, <2>8
<1> QED BY <1>1, <1>2 DEF Resume

\* In every reachable state the books balance.
LEMMA BooksAreKept == Spec => []Books
<1>1. Init => Books
  <2> SUFFICES ASSUME Init PROVE Books
    OBVIOUS
  <2>1. InRound
    BY DEF Init, RoundsInit, InitialState, InRound
  <2>2. Unpaid = 0
    BY <2>1 DEF Unpaid
  <2>3. FirstOrder[0] \in Players /\ FirstOrder[1] \in Players
    BY MatchAssumption
  <2>4. bankroll = [p \in Players |-> 0] /\ players = FirstOrder /\ served = 0 /\ pc = "ask"
    BY DEF Init
  <2> QED BY <2>2, <2>3, <2>4 DEF Books, SeatsTaken, ChipsChangeHands, Phases
<1>2. ASSUME Books, Between, RoundTypeOK, DeltasCancel, RoundTypeOK', DeltasCancel', [Next]_vars
      PROVE  Books'
  <2>1. CASE StartRound
    <3>1. InRound' /\ served' = 0 /\ pc' = "ask" /\ pc = "paid" /\ UNCHANGED bankroll
      BY <2>1 DEF StartRound, InRound, InitialState
    <3>2. Unpaid = 0 /\ Unpaid' = 0
      BY <3>1 DEF Unpaid
    <3>3. SeatsTaken'
      BY <1>2, <2>1 DEF StartRound, Books, SeatsTaken, Seats
    <3> QED BY <1>2, <3>1, <3>2, <3>3 DEF Books, ChipsChangeHands, Phases
  <2>2. CASE EndMatch
    <3>1. /\ pc' = "stop" /\ pc = "paid" /\ served' = 0 /\ UNCHANGED <<bankroll, round_state>>
      BY <2>2 DEF EndMatch
    <3>2. Unpaid = 0 /\ Unpaid' = 0
      BY <3>1 DEF Unpaid
    <3>3. SeatsTaken'
      BY <1>2, <2>2 DEF EndMatch, Books, SeatsTaken, Seats
    <3> QED BY <1>2, <3>1, <3>2, <3>3 DEF Books, ChipsChangeHands, Phases, InRound
  <2>3. CASE Send
    BY <1>2, <2>3 DEF Send, Books, SeatsTaken, ChipsChangeHands, Unpaid, Phases, InRound
  <2>4. CASE Stop \/ Quit
    <3>1. /\ pc \in {"stop", "quit"} /\ pc' \in {"quit", "stop", "done"}
          /\ UNCHANGED <<players, bankroll, round_state>>
      BY <2>4 DEF Stop, Quit
    <3>2. Unpaid = 0 /\ Unpaid' = 0 /\ ~InRound /\ ~InRound'
      BY <1>2, <3>1 DEF Unpaid, Between, InRound
    <3> QED BY <1>2, <3>1, <3>2 DEF Books, SeatsTaken, ChipsChangeHands, Phases
  <2>5. CASE SkipQuery \/ SendFails
    BY <1>2, <2>5, ResumeKeepsBooks DEF SkipQuery, SendFails
  <2>6. CASE Receive \/ ReceiveTooLate
    BY <1>2, <2>6, ResumeKeepsBooks DEF Receive, ReceiveTooLate
  <2>7. CASE SocketTimeout \/ ReadEOF \/ ReadReset
    BY <1>2, <2>7, ResumeKeepsBooks DEF SocketTimeout, ReadEOF, ReadReset
  <2>8. ASSUME NEW p \in Players, Handle(p) \/ Crash(p)
        PROVE  UNCHANGED engine
    BY <2>8 DEF Handle, Crash, engine
  <2>9. CASE UNCHANGED engine
    BY <1>2, <2>9 DEF engine, Books, SeatsTaken, ChipsChangeHands, Unpaid, InRound
  <2>10. Done \/ UNCHANGED vars => UNCHANGED engine
    BY DEF Done, vars, engine
  <2> QED BY <1>2, <2>1, <2>2, <2>3, <2>4, <2>5, <2>6, <2>7, <2>8, <2>9, <2>10 DEF Next, Engine
<1> QED BY <1>1, <1>2, DealsBetweenRounds, MatchPlaysByTheRules, TypeCorrect, PayoffsCancel, PTL
     DEF Spec, PlaysByTheRules

\* The books of Game.run balance at every step of a match, between the two
\* payments of a round included, whichever player timed out, died or was skipped.
THEOREM MatchIsZeroSum == Spec => []ChipsChangeHands
<1>1. Books => ChipsChangeHands
  BY DEF Books
<1> QED BY <1>1, BooksAreKept, PTL

-----------------------------------------------------------------------------
(* The state of the engine and the queues.                                 *)
\* The rest of the engine's state, beside the books: how many were paid or stopped
\* is tied to where the engine is.
Typed ==
  /\ Books
  /\ round_num \in 1 .. NUM_ROUNDS
  /\ players \in [Seats -> Players]
  /\ clock \in [Players -> BOOLEAN] /\ connected \in [Players -> BOOLEAN]
  /\ pc \in {"stop", "quit"} => served \in {0, 1}
  /\ pc \in {"paid", "done"} => served = 2

\* What the end of a query leaves alone, and where it leaves the engine.
LEMMA ResumeEffect ==
  ASSUME NEW log, NEW action, Resume(action, log), Typed, pc \in {"ask", "wait"}
  PROVE  /\ pc' \in {"ask", "paid"}
         /\ pc' = "paid" => served' = 2
BY DEF Resume, PlayOn, Pay, Typed, Books

\* Every step of a match keeps the types of its fields,
LEMMA TypedInductive ==
  ASSUME Typed, Books', [Next]_vars
  PROVE  Typed'
<1> USE MatchAssumption DEF Typed
<1>1. CASE StartRound
  <2>1. round_num' \in 1 .. NUM_ROUNDS
    BY <1>1 DEF StartRound
  <2>2. players' \in [Seats -> Players]
    BY <1>1 DEF StartRound, Seats
  <2> QED BY <1>1, <2>1, <2>2 DEF StartRound
<1>2. CASE EndMatch
  <2>1. players' \in [Seats -> Players]
    BY <1>2 DEF EndMatch, Seats
  <2> QED BY <1>2, <2>1 DEF EndMatch
<1>3. CASE Send \/ Stop \/ Quit
  BY <1>3 DEF Send, Stop, Quit
<1>4. CASE SkipQuery \/ SendFails
  BY <1>4, ResumeEffect DEF SkipQuery, SendFails, RunOut
<1>5. CASE Receive \/ ReceiveTooLate
  BY <1>5, ResumeEffect DEF Receive, ReceiveTooLate, RunOut
<1>6. CASE SocketTimeout \/ ReadEOF \/ ReadReset
  BY <1>6, ResumeEffect DEF SocketTimeout, ReadEOF, ReadReset, RunOut
<1>7. CASE UNCHANGED engine
  BY <1>7 DEF engine
<1>8. ASSUME NEW p \in Players, Handle(p) \/ Crash(p)
      PROVE  UNCHANGED engine
  BY <1>8 DEF Handle, Crash, engine
<1>9. Done \/ UNCHANGED vars => UNCHANGED engine
  BY DEF Done, vars, engine
<1> QED BY <1>1, <1>2, <1>3, <1>4, <1>5, <1>6, <1>7, <1>8, <1>9 DEF Next, Engine

\* with which it begins,
LEMMA TypedInitially == Init => Typed
<1> SUFFICES ASSUME Init PROVE Typed
  OBVIOUS
<1>1. InRound /\ Unpaid = 0
  BY DEF Init, RoundsInit, InitialState, InRound, Unpaid
<1> QED BY <1>1, MatchAssumption
    DEF Init, Typed, Books, SeatsTaken, ChipsChangeHands, Phases, Seats

\* and so they hold in every reachable state.
LEMMA MatchIsTyped == Spec => []Typed
<1>1. Typed /\ Books' /\ [Next]_vars => Typed'
  BY TypedInductive
<1> QED BY <1>1, TypedInitially, BooksAreKept, PTL DEF Spec

\* The type invariant of a match, for every number of rounds and any bots.
THEOREM MatchTypeCorrect == Spec => []TypeOK
<1>1. Typed /\ RoundTypeOK => TypeOK
  BY MatchAssumption DEF Typed, Books, SeatsTaken, TypeOK, Phases
<1> QED BY <1>1, MatchIsTyped, EveryDecisionIsWellFormed, PTL

-----------------------------------------------------------------------------
(* No bounty changes hands when the players change seats.                  *)
\* What a step of the engine within a round leaves alone.
LEMMA SeatsInARound ==
  ASSUME [Next]_vars, ~StartRound, pc' \in {"ask", "wait", "paid"}
  PROVE  UNCHANGED <<players, cards>>
<1>1. Engine => UNCHANGED <<players, cards>>
  <2>1. ~EndMatch /\ ~Stop /\ ~Quit
    BY DEF EndMatch, Stop, Quit
  <2> QED BY <2>1 DEF Engine, SkipQuery, Send, SendFails, Receive, ReceiveTooLate,
                            SocketTimeout, ReadEOF, ReadReset
<1>2. ASSUME NEW p \in Players, Handle(p) \/ Crash(p)
      PROVE  UNCHANGED <<players, cards>>
  BY <1>2 DEF Handle, Crash, engine
<1>3. Done \/ UNCHANGED vars => UNCHANGED <<players, cards>>
  BY DEF Done, vars
<1> QED BY <1>1, <1>2, <1>3 DEF Next

\* In no step of a round, and at no change of seats, does a player come to another bounty:
\* only a draw gives it one, in whichever of the steps a query ends or a bot fails.
THEOREM BountiesFollowPlayers == Spec => BountyStaysWithPlayer
<1>1. ASSUME Typed, [Next]_vars, pc' \in {"ask", "wait", "paid"},
             NEW i \in Seats, NEW j \in Seats, players'[i] = players[j],
             cards'.bounties[i] # cards.bounties[j]
      PROVE  round_num' # round_num /\ round_num' % ROUNDS_PER_BOUNTY = 1
  <2>1. \A a, b \in Seats : players[a] = players[b] => a = b
    <3>1. players[0] # players[1]
      BY <1>1, MatchAssumption DEF Typed, Books, SeatsTaken
    <3> QED BY <3>1 DEF Seats
  <2>2. StartRound
    <3>1. SUFFICES ASSUME ~StartRound PROVE FALSE
      OBVIOUS
    <3>2. players'[i] = players[i] /\ cards'.bounties[i] = cards.bounties[i]
      BY <1>1, <3>1, SeatsInARound
    <3>3. i = j
      BY <1>1, <2>1, <3>2
    <3> QED BY <1>1, <3>2, <3>3
  <2>3. players'[i] = players[1 - i] /\ round_num' # round_num
    BY <1>1, <2>2 DEF StartRound, Typed
  <2>4. j = 1 - i
    <3>1. 1 - i \in Seats
      BY DEF Seats
    <3> QED BY <1>1, <2>1, <2>3, <3>1
  <2>5. round_num' % ROUNDS_PER_BOUNTY # 1 => cards'.bounties[i] = cards.bounties[j]
    BY <2>2, <2>4 DEF StartRound, KeepBounties
  <2> QED BY <1>1, <2>3, <2>5
<1> DEFINE Kept == pc' \in {"ask", "wait", "paid"} =>
                     \A i, j \in Seats :
                       players'[i] = players[j] /\ cards'.bounties[i] # cards.bounties[j] =>
                         round_num' # round_num /\ round_num' % ROUNDS_PER_BOUNTY = 1
<1>2. Typed /\ [Next]_vars => [Kept]_vars
  BY <1>1
<1> QED BY <1>2, MatchIsTyped, PTL DEF BountyStaysWithPlayer, Spec
-----------------------------------------------------------------------------
(* Answers and queries.  A bot that still has time was asked at most once  *)
(* for what the engine waits for, and for nothing else: whatever makes the *)
(* engine give up an answer that may still come also stops its clock, and  *)
(* an engine that reads the end of the stream has no answer left to come.  *)
\* Nothing is under way between the engine and a bot that runs.
Quiet(p) ==
  /\ outbox[p] = <<>>
  /\ bot[p].up => inbox[p] = <<>>

\* One line is under way if the bot runs, its query or the answer, at most the
\* answer if it does not.
Queried(p) ==
  \/ /\ outbox[p] = <<>>
     /\ bot[p].up => \E clauses : inbox[p] = <<[clauses |-> clauses, query |-> Query]>>
  \/ /\ \E answer : outbox[p] = <<[answer |-> answer, query |-> Query]>>
     /\ bot[p].up => inbox[p] = <<>>

Lines ==
  /\ inbox = [p \in Players |-> inbox[p]]
  /\ outbox = [p \in Players |-> outbox[p]]
  /\ bot = [p \in Players |-> bot[p]]
  /\ pc = "wait" => clock[Who]
  /\ pc \in {"ask", "wait", "paid"} =>
       \A p \in Players : clock[p] => IF pc = "wait" /\ p = Who THEN Queried(p) ELSE Quiet(p)

\* Whoever is asked is one of the two players.
LEMMA WhoIsAPlayer ==
  ASSUME Typed, RoundTypeOK, pc \in {"ask", "wait"}
  PROVE  Asked \in Seats /\ Who \in Players
<1>1. Asked \in Seats
  BY DEF Typed, Books, Asked, RoundTypeOK, RoundStates, TerminalStates, InRound, active, Seats
<1> QED BY <1>1 DEF Typed, Who

\* A query that ends leaves nothing under way for a player whose clock still runs.
LEMMA GivenUp ==
  ASSUME Lines, Typed, pc \in {"ask", "wait"}, NEW log, NEW action, Resume(action, log),
         UNCHANGED <<inbox, bot>>, outbox' = [p \in Players |-> outbox'[p]],
         \A p \in Players : clock'[p] =>
           IF p = Who THEN Quiet(p)' ELSE outbox'[p] = outbox[p] /\ clock[p]
  PROVE  Lines'
<1>1. pc' \in {"ask", "paid"}
  BY ResumeEffect
<1>2. ASSUME NEW p \in Players, clock'[p]
      PROVE  Quiet(p)'
  <2>1. CASE p = Who
    BY <1>2, <2>1
  <2>2. CASE p # Who
    <3>1. Quiet(p)
      BY <1>2, <2>2 DEF Lines
    <3> QED BY <1>2, <2>2, <3>1 DEF Quiet
  <2> QED BY <2>1, <2>2
<1> QED BY <1>1, <1>2 DEF Lines

\* Every step of a match leaves the lines under way in order.
LEMMA LinesInductive ==
  ASSUME Lines, Typed, RoundTypeOK, [Next]_vars
  PROVE  Lines'
<1>1. pc \in {"ask", "wait"} => Who \in Players
  BY WhoIsAPlayer
<1>2. CASE StartRound
  BY <1>2 DEF StartRound, Lines, Quiet
<1>3. CASE EndMatch \/ Stop \/ Quit
  BY <1>3 DEF EndMatch, Stop, Quit, Lines
<1>4. CASE SkipQuery
  <2>1. ASSUME NEW p \in Players, clock[p]
        PROVE  Quiet(p)'
    BY <1>4, <2>1 DEF SkipQuery, Lines, Quiet
  <2> QED BY <1>4, <2>1, GivenUp DEF SkipQuery, Lines
<1>5. CASE Send
  <2> DEFINE line == [clauses |-> messages[Asked], query |-> Query]
  <2>1. /\ pc' = "wait" /\ Who' = Who /\ Query' = Query /\ Who \in Players /\ clock[Who]
        /\ UNCHANGED <<outbox, bot, clock>>
        /\ inbox' = [inbox EXCEPT ![Who] = Append(@, line)]
    BY <1>1, <1>5 DEF Send, Who, Asked, InRound, Query
  <2> HIDE DEF line
  <2>2. Quiet(Who)
    BY <1>5, <2>1 DEF Lines, Send
  <2>3. bot[Who].up => inbox'[Who] = <<line>>
    <3>1. inbox'[Who] = Append(inbox[Who], line)
      BY <2>1 DEF Lines
    <3> QED BY <2>2, <3>1, OneLine DEF Quiet
  <2>4. Queried(Who)'
    BY <2>1, <2>2, <2>3 DEF Quiet, Queried, line
  <2>5. ASSUME NEW p \in Players, clock[p], p # Who
        PROVE  Quiet(p)'
    BY <1>5, <2>1, <2>5 DEF Lines, Send, Quiet
  <2> QED BY <2>1, <2>4, <2>5 DEF Lines
<1>6. CASE SendFails
  BY <1>1, <1>6, GivenUp DEF SendFails, RunOut, Lines, Typed
<1>7. CASE Receive
  <2>1. Queried(Who) /\ pc = "wait" /\ Who \in Players
    BY <1>1, <1>7 DEF Receive, Lines
  <2>2. /\ outbox' = [outbox EXCEPT ![Who] = Tail(@)]
        /\ outbox[Who] # <<>> /\ UNCHANGED <<inbox, bot, clock>>
    BY <1>7 DEF Receive
  <2>3. ASSUME NEW p \in Players, p = Who
        PROVE  Quiet(p)'
    <3>1. outbox'[p] = Tail(outbox[p])
      BY <2>2, <2>3 DEF Lines
    <3> QED BY <2>1, <2>2, <2>3, <3>1, OneLine DEF Queried, Quiet
  <2>4. \A p \in Players : p # Who => outbox'[p] = outbox[p]
    BY <2>2 DEF Lines
  <2> QED BY <1>7, <2>2, <2>3, <2>4, GivenUp DEF Receive, Lines
<1>8. CASE ReceiveTooLate
  BY <1>1, <1>8, GivenUp DEF ReceiveTooLate, RunOut, Lines, Typed
<1>9. CASE SocketTimeout
  BY <1>1, <1>9, GivenUp DEF SocketTimeout, RunOut, Lines, Typed
<1>10. CASE ReadEOF
  <2>1. \A p \in Players : p = Who => Quiet(p)'
    BY <1>10 DEF ReadEOF, Quiet
  <2>2. pc = "wait" /\ UNCHANGED <<inbox, bot, clock, outbox>>
    BY <1>10 DEF ReadEOF
  <2> QED BY <1>10, <2>1, <2>2, GivenUp DEF ReadEOF, Lines
<1>11. CASE ReadReset
  BY <1>1, <1>11, GivenUp DEF ReadReset, RunOut, Lines, Typed
<1>12. ASSUME NEW p \in Players, Handle(p)
       PROVE  Lines'
  <2>1. UNCHANGED engine /\ Query' = Query /\ Who' = Who
    BY <1>12 DEF Handle, engine, Query, Who, Asked, InRound
  <2>2. /\ inbox' = [inbox EXCEPT ![p] = Tail(@)]
        /\ outbox' = [q \in Players |-> outbox'[q]] /\ bot' = [q \in Players |-> bot'[q]]
        /\ \A q \in Players \ {p} : UNCHANGED <<inbox[q], outbox[q], bot[q]>>
    BY <1>12 DEF Handle, Lines
  <2>3. ASSUME clock[p], pc \in {"ask", "wait", "paid"}
        PROVE  pc = "wait" /\ p = Who /\ Queried(p)'
    <3>1. bot[p].up /\ inbox[p] # <<>>
      BY <1>12 DEF Handle
    <3>2. pc = "wait" /\ p = Who /\ Queried(p)
      BY <2>3, <3>1 DEF Lines, Quiet
    <3>3. outbox[p] = <<>>
      BY <3>1, <3>2 DEF Queried
    <3>4. PICK clauses : inbox[p] = <<[clauses |-> clauses, query |-> Query]>>
      BY <3>1, <3>2 DEF Queried
    <3>5. inbox'[p] = <<>>
      BY <2>2, <3>4 DEF Lines
    <3>6. CASE outbox' = outbox /\ ~bot'[p].up
      BY <2>1, <3>2, <3>3, <3>6 DEF Queried
    <3>7. ASSUME NEW answer, outbox' = [outbox EXCEPT ![p] =
                          Append(@, [answer |-> answer, query |-> Head(inbox[p]).query])]
          PROVE  Queried(p)'
      <4>1. outbox'[p] = <<[answer |-> answer, query |-> Query]>>
        BY <3>3, <3>4, <3>7 DEF Lines
      <4> QED BY <2>1, <3>5, <4>1 DEF Queried
    <3>8. bot'[p] = HandlePacket(bot[p], Head(inbox[p]).clauses)
      BY <1>12 DEF Handle, Lines
    <3>9. \/ outbox' = outbox /\ ~bot'[p].up
          \/ \E answer : outbox' = [outbox EXCEPT ![p] =
                           Append(@, [answer |-> answer, query |-> Head(inbox[p]).query])]
      BY <1>12, <3>8 DEF Handle
    <3> QED BY <3>2, <3>6, <3>7, <3>9
  <2>4. ASSUME NEW q \in Players \ {p}
        PROVE  (Queried(q) => Queried(q)') /\ (Quiet(q) => Quiet(q)')
    BY <2>1, <2>2 DEF Queried, Quiet
  <2>5. inbox' = [q \in Players |-> inbox'[q]]
    BY <2>2 DEF Lines
  <2> QED BY <2>1, <2>2, <2>3, <2>4, <2>5 DEF Lines, engine
<1>13. ASSUME NEW p \in Players, Crash(p)
       PROVE  Lines'
  <2>1. UNCHANGED <<engine, inbox, outbox>> /\ Query' = Query /\ Who' = Who
    BY <1>13 DEF Crash, engine, Query, Who, Asked, InRound
  <2>2. bot[p].up /\ bot' = [q \in Players |-> bot'[q]] /\ \A q \in Players \ {p} : bot'[q] = bot[q]
    BY <1>13 DEF Crash, Lines
  <2>3. ASSUME NEW q \in Players
        PROVE  (Queried(q) => Queried(q)') /\ (Quiet(q) => Quiet(q)')
    BY <2>1, <2>2 DEF Queried, Quiet
  <2> QED BY <2>1, <2>2, <2>3 DEF Lines, engine
<1>14. CASE Done \/ UNCHANGED vars
  <2>1. /\ UNCHANGED <<pc, clock, inbox, outbox, bot>> /\ Query' = Query /\ Who' = Who
    BY <1>14 DEF Done, vars, Who, Query, Asked, InRound
  <2> QED BY <2>1 DEF Lines, Quiet, Queried
<1> QED BY <1>2, <1>3, <1>4, <1>5, <1>6, <1>7, <1>8, <1>9, <1>10, <1>11, <1>12, <1>13, <1>14
    DEF Next, Engine

\* In every reachable state the lines under way are those of the current query.
LEMMA LinesAreKept == Spec => []Lines
<1>1. Init => Lines
  BY DEF Init, Lines, Quiet
<1>2. Lines /\ Typed /\ RoundTypeOK /\ [Next]_vars => Lines'
  BY LinesInductive
<1> QED BY <1>1, <1>2, MatchIsTyped, EveryDecisionIsWellFormed, PTL DEF Spec

\* What the engine reads while it waits answers the query it sent, and no line is
\* left over for the next one, in whatever order clocks run out and bots die.
THEOREM AnswersMatchQueries == Spec => AnswersAreCurrent
<1>1. ASSUME Lines, Typed, RoundTypeOK, Receive \/ ReceiveTooLate
      PROVE  Head(outbox[Who]).query = Query
  <2>1. pc = "wait" /\ outbox[Who] # <<>>
    BY <1>1 DEF Receive, ReceiveTooLate
  <2>2. Who \in Players
    BY <1>1, <2>1, WhoIsAPlayer
  <2>3. Queried(Who)
    BY <1>1, <2>1, <2>2 DEF Lines
  <2>4. PICK answer : outbox[Who] = <<[answer |-> answer, query |-> Query]>>
    BY <2>1, <2>3 DEF Queried
  <2>5. Head(outbox[Who]) = [answer |-> answer, query |-> Query]
    BY <2>4, OneLine
  <2> QED BY <2>5
<1>2. Lines /\ Typed /\ RoundTypeOK => [Receive \/ ReceiveTooLate => Head(outbox[Who]).query = Query]_vars
  BY <1>1
<1> QED BY <1>2, LinesAreKept, MatchIsTyped, EveryDecisionIsWellFormed, PTL DEF Spec, AnswersAreCurrent

-----------------------------------------------------------------------------
(* Bots and engine in step.                                                *)
\* The engine still asks the bot, and the bot still answers.
InTouch(p) == clock[p] /\ bot[p].up

\* What the player in seat i is still to be paid for the round that is over.
Owed(i) == IF pc \in {"ask", "wait"} /\ served <= i THEN round_state.deltas[i] ELSE 0

\* b holds what the engine does, as seen from seat i.
Abreast(b, sk, i) ==
  IF InRound
  THEN Knows(b, sk, i, FALSE, Shadow(round_state, round_state.street, cards.bounties[i]),
             bankroll[players[i]], round_num)
  ELSE \E u : /\ Learned(u, round_state, last_line = "folds")
              /\ Knows(b, sk, i, TRUE, u, bankroll[players[i]] + Owed(i), round_num + 1)

\* The bot in seat i once it has read what it was sent, and what it will be sent next.
View(i) ==
  LET b == bot[players[i]]
      line == inbox[players[i]]
  IN  IF line = <<>> THEN FoldOf(b.skeleton, b, messages[i]) ELSE HandlePacket(b, Head(line).clauses)

\* Queues of quit lines.
OnlyQuits(q) == \A k \in DOMAIN q : QuitLine(q[k])

\* No line on its way makes the runner fail: the first may be a query, then only Q.
Orderly(p) ==
  bot[p].up /\ inbox[p] # <<>> =>
    /\ Sound(HandlePacket(bot[p], Head(inbox[p]).clauses))
    /\ OnlyQuits(Tail(inbox[p]))

Lockstep ==
  /\ \A p \in Players : /\ Sound(bot[p]) /\ IsSeq(inbox[p])
                        /\ bot[p].up => connected[p]
                        /\ Orderly(p)
  /\ messages = [i \in Seats |-> messages[i]]
  /\ \A i \in Seats : IsSeq(messages[i])
  /\ pc = "wait" => messages[Asked] = <<>>
  /\ pc \in {"ask", "wait", "paid"} =>
       \A i \in Seats : InTouch(players[i]) =>
          /\ Abreast(View(i), bot[players[i]].skeleton, i)
          /\ i < served => messages[i] = <<>>

\* What the engine knows of the round, in every reachable state.
Sane == Typed /\ RoundInv /\ DeltasCancel /\ RoundTypeOK /\ Between

\* Playing on tells the players what the engine did.
LEMMA PlayingOnIsTold ==
  ASSUME Sane, Sane', NEW action, NEW log, PlayOn(action, log), Permitted(round_state, action),
         UNCHANGED <<players, cards, round_num>>,
         NEW i \in Seats, IsSeq(log[i]), NEW b, NEW sk \in Skeletons,
         Abreast(FoldOf(sk, b, log[i]), sk, i)
  PROVE  Abreast(FoldOf(sk, b, messages[i]), sk, i)' /\ IsSeq(messages'[i])
<1> DEFINE s == round_state
           t == round_state'
           rank == cards.bounties[i]
           money == bankroll[players[i]]
           rest == Append(log[i], Code(action))
<1>1. /\ InRound /\ t = proceed(s, cards, action) /\ pc' = "ask"
      /\ UNCHANGED <<bankroll, served>>
      /\ last_line' = IF action.type = "Fold" THEN "folds" ELSE "other"
      /\ messages' = IF t.type = "round" THEN log_round_state(t, log_action(action, log))
                                         ELSE log_terminal_state(t, last_line' = "folds", log_action(action, log))
  BY DEF PlayOn
<1>2. Balanced(s) /\ cards \in Deals /\ served = 0 /\ money \in Int /\ round_num \in Int
  BY <1>1, RoundIsBalanced DEF Sane, Typed, Books
<1>3. Knows(FoldOf(sk, b, log[i]), sk, i, FALSE, Shadow(s, s.street, rank), money, round_num)
  BY <1>1 DEF Abreast
<1>4. log_action(action, log)[i] = rest
  BY DEF log_action, ToBoth
<1>5. CASE t.type = "round"
  <2> DEFINE final == Announced(t, rest)
  <2>1. messages'[i] = final
    BY <1>1, <1>4, <1>5 DEF log_round_state, ToBoth, Announced
  <2>2. Knows(FoldOf(sk, b, final), sk, i, FALSE, Shadow(t, t.street, rank), money, round_num) /\ IsSeq(final)
    <3>3. rest = Append(log[i], Code(action)) /\ final = Announced(t, rest)
      OBVIOUS
    <3> HIDE DEF rest
    <3> HIDE DEF t, s, rank, money, final
    <3>1. t = proceed(s, cards, action) /\ t.type = "round"
      BY <1>1, <1>5 DEF t, s
    <3>2. Permitted(s, action)
      BY DEF s
    <3> DEFINE q == log[i]
               m == round_num
    <3>5. /\ IsSeq(q) /\ rest = Append(q, Code(action)) /\ cards \in Deals /\ Balanced(s) /\ sk \in Skeletons
          /\ Knows(FoldOf(sk, b, q), sk, i, FALSE, Shadow(s, s.street, rank), money, m)
      BY <1>2, <1>3, <3>3
    <3> HIDE DEF q, m
    <3>6. Knows(FoldOf(sk, b, final), sk, i, FALSE, Shadow(t, t.street, rank), money, m) /\ IsSeq(final)
      BY ONLY <3>1, <3>2, <3>3, <3>5, ReadsAction
    <3> QED BY <3>6 DEF m
  <2> HIDE DEF final
  <2>3. InRound'
    BY <1>5 DEF InRound
  <2> QED BY <1>1, <2>1, <2>2, <2>3 DEF Abreast
<1>6. CASE t.type # "round"
  <2> DEFINE folded == last_line' = "folds"
             final == WithOutcome(rest, t, i, folded)
  <2>1. messages'[i] = final
    BY <1>1, <1>4, <1>6 DEF log_terminal_state, WithOutcome
  <2>2. t \in TerminalStates /\ t.deltas[1] = -t.deltas[0]
    BY <1>6 DEF Sane, RoundTypeOK, RoundStates, DeltasCancel, InRound
  <2>3. folded \in BOOLEAN
    OBVIOUS
  <2>4. KnowsOutcome(FoldOf(sk, b, final), sk, i, t, folded, money + t.deltas[i], round_num + 1) /\ IsSeq(final)
    <3> DEFINE q == log[i]
               n == round_num
    <3>1. final = WithOutcome(rest, t, i, folded) /\ rest = Append(q, Code(action))
      OBVIOUS
    <3> HIDE DEF final, rest, folded
    <3>2. t = proceed(s, cards, action) /\ t.type # "round" /\ Permitted(s, action)
      BY <1>1, <1>6
    <3> HIDE DEF t, s, rank, money
    <3>3. /\ IsSeq(q) /\ cards \in Deals /\ Balanced(s) /\ money \in Int /\ n \in Int
          /\ Knows(FoldOf(sk, b, q), sk, i, FALSE, Shadow(s, s.street, rank), money, n)
      BY <1>2, <1>3
    <3> HIDE DEF q, n
    <3>4. KnowsOutcome(FoldOf(sk, b, final), sk, i, t, folded, money + t.deltas[i], n + 1) /\ IsSeq(final)
      BY ONLY <2>2, <2>3, <3>1, <3>2, <3>3, ReadsOutcome, sk \in Skeletons, i \in Seats, ZenonT(40)
    <3> QED BY <3>4 DEF n
  <2> HIDE DEF final
  <2>5. ~InRound' /\ Owed(i)' = t.deltas[i]
    BY <1>1, <1>2, <1>6 DEF InRound, Owed, Seats
  <2> QED BY <1>1, <2>1, <2>4, <2>5 DEF Abreast, KnowsOutcome
<1> QED BY <1>5, <1>6

\* Paying moves what is owed to the bankroll.
LEMMA PayingIsExpected ==
  ASSUME Sane, NEW log, Pay(log), pc \in {"ask", "wait"}, UNCHANGED <<players, cards, round_num>>,
         NEW i \in Seats, NEW b, NEW sk, Abreast(b, sk, i)
  PROVE  Abreast(b, sk, i)'
<1>1. /\ ~InRound /\ bankroll' = [bankroll EXCEPT ![players[served]] = @ + round_state.deltas[served]]
      /\ served' = served + 1 /\ pc' = IF served = 0 THEN "ask" ELSE "paid"
      /\ UNCHANGED <<round_state, last_line>>
  BY DEF Pay, Who, Asked, Payment
<1>2. /\ served \in {0, 1} /\ players[0] # players[1] /\ players[0] \in Players /\ players[1] \in Players
      /\ bankroll \in [Players -> Int] /\ round_state.deltas[0] \in Int /\ round_state.deltas[1] \in Int
  <2>1. round_state.deltas[0] \in Int /\ round_state.deltas[1] \in Int
    BY <1>1, PayoffsAreIntegers DEF Sane, RoundTypeOK, DeltasCancel, InRound
  <2> QED BY <2>1, MatchAssumption DEF Sane, Typed, Books, SeatsTaken, Seats
<1>3. bankroll'[players[i]] + Owed(i)' = bankroll[players[i]] + Owed(i)
  <2>1. CASE served = 0 /\ i = 0
    BY <1>1, <1>2, <2>1 DEF Owed
  <2>2. CASE served = 0 /\ i = 1
    BY <1>1, <1>2, <2>2 DEF Owed
  <2>3. CASE served = 1 /\ i = 0
    BY <1>1, <1>2, <2>3 DEF Owed
  <2>4. CASE served = 1 /\ i = 1
    BY <1>1, <1>2, <2>4 DEF Owed
  <2> QED BY <1>2, <2>1, <2>2, <2>3, <2>4 DEF Seats
<1> QED BY <1>1, <1>3 DEF Abreast, InRound

\* Whatever query lets through is, for the round and for what is logged, one of the
\* four actions the rules permit.
LEMMA AcceptedIsPermitted ==
  ASSUME InRound, NEW log, NEW answer, Legal(answer), PlayOn(answer, log)
  PROVE  \E action : Permitted(round_state, action) /\ PlayOn(action, log)
<1>1. ASSUME NEW action, action.type = answer.type,
             proceed(round_state, cards, answer) = proceed(round_state, cards, action),
             Code(answer) = Code(action)
      PROVE  PlayOn(action, log)
  BY <1>1 DEF PlayOn, log_action
<1>2. answer.type \in legal_actions(round_state)
  BY DEF Legal
<1>3. CASE answer.type = "Fold"
  <2>1. /\ FoldAction.type = answer.type /\ Code(answer) = Code(FoldAction)
        /\ proceed(round_state, cards, answer) = proceed(round_state, cards, FoldAction)
    BY <1>3 DEF proceed, FoldAction, Code
  <2> QED BY <1>1, <2>1 DEF Permitted
<1>4. CASE answer.type = "Call"
  <2>1. /\ CallAction.type = answer.type /\ Code(answer) = Code(CallAction)
        /\ proceed(round_state, cards, answer) = proceed(round_state, cards, CallAction)
    BY <1>4 DEF proceed, CallAction, Code
  <2> QED BY <1>1, <1>2, <1>4, <2>1 DEF Permitted
<1>5. CASE answer.type = "Check"
  <2>1. /\ CheckAction.type = answer.type /\ Code(answer) = Code(CheckAction)
        /\ proceed(round_state, cards, answer) = proceed(round_state, cards, CheckAction)
    BY <1>5 DEF proceed, CheckAction, Code
  <2> QED BY <1>1, <1>2, <1>5, <2>1 DEF Permitted
<1>6. CASE answer.type = "Raise"
  <2> DEFINE r == RaiseAction(answer.amount)
  <2>1. /\ r.type = answer.type /\ Code(answer) = Code(r)
        /\ proceed(round_state, cards, answer) = proceed(round_state, cards, r)
    BY <1>6 DEF proceed, RaiseAction, Code
  <2>2. answer.amount \in raise_bounds(round_state)[1] .. raise_bounds(round_state)[2]
    BY <1>6 DEF Legal
  <2>3. Permitted(round_state, r)
    BY <1>2, <1>6, <2>2 DEF Permitted
  <2> HIDE DEF r
  <2> QED BY <1>1, <2>1, <2>3
<1> QED BY <1>2, <1>3, <1>4, <1>5, <1>6, FourActions

\* However a query ends, what is done is permitted.
LEMMA ResumedAsPermitted ==
  ASSUME NEW log, NEW action, Resume(action, log), InRound => action = DefaultAction \/ Legal(action)
  PROVE  \E a : Resume(a, log) /\ (InRound => Permitted(round_state, a))
<1>1. CASE PlayOn(action, log) /\ action = DefaultAction
  <2>1. InRound => Permitted(round_state, DefaultAction)
    BY DEF DefaultAction, Permitted
  <2> QED BY <1>1, <2>1 DEF Resume
<1>2. CASE PlayOn(action, log) /\ action # DefaultAction
  <2>1. InRound
    BY <1>2 DEF PlayOn
  <2> QED BY <1>2, <2>1, AcceptedIsPermitted DEF Resume
<1>3. CASE Pay(log)
  <2>1. ~InRound
    BY <1>3 DEF Pay
  <2> QED BY <2>1
<1> QED BY <1>1, <1>2, <1>3 DEF Resume

\* The log stays a pair of sequences.
LEMMA LogsStaySequences ==
  ASSUME NEW log, NEW action, Resume(action, log), log = [j \in Seats |-> log[j]], \A j \in Seats : IsSeq(log[j])
  PROVE  messages' = [j \in Seats |-> messages'[j]] /\ \A j \in Seats : IsSeq(messages'[j])
<1>1. CASE Pay(log)
  BY <1>1 DEF Pay
<1>2. CASE PlayOn(action, log)
  <2> DEFINE told == log_action(action, log)
             t == round_state'
             folded == last_line' = "folds"
  <2>1. told = [j \in Seats |-> told[j]] /\ \A j \in Seats : IsSeq(told[j])
    BY SeqGrows DEF log_action, ToBoth
  <2>2. messages' = IF t.type = "round" THEN log_round_state(t, told) ELSE log_terminal_state(t, folded, told)
    BY <1>2 DEF PlayOn
  <2> HIDE DEF told, t, folded
  <2>3. CASE t.type = "round"
    BY <2>1, <2>2, <2>3, SeqGrows DEF log_round_state, ToBoth
  <2>4. CASE t.type # "round"
    <3>1. /\ messages' = [j \in Seats |-> messages'[j]]
          /\ \A j \in Seats : messages'[j] =
               told[j] \o (IF folded THEN <<>> ELSE <<Clause("O", 0)>>)
                 \o <<Clause("D", t.deltas[j]), Clause("Y", Pair(hit_chars(t)[j], hit_chars(t)[1 - j]))>>
      BY <2>2, <2>4 DEF log_terminal_state
    <3>2. ASSUME NEW q, IsSeq(q), NEW x, NEW y, NEW z
          PROVE  IsSeq(q \o (IF folded THEN <<>> ELSE <<z>>) \o <<x, y>>)
      <4> DEFINE p == q \o (IF folded THEN <<>> ELSE <<z>>)
      <4>1. IsSeq(p)
        <5>1. CASE folded
          BY <3>2, <5>1, TwoMore
        <5>2. CASE ~folded
          <6>1. p = Append(q, z)
            BY <3>2, <5>2, TwoMore
          <6> HIDE DEF p
          <6> QED BY <3>2, <6>1, SeqGrows
        <5> QED BY <5>1, <5>2
      <4> HIDE DEF p
      <4>2. p \o <<x, y>> = Append(Append(p, x), y)
        BY <4>1, TwoMore
      <4>3. IsSeq(Append(p, x))
        BY <4>1, SeqGrows
      <4>4. IsSeq(Append(Append(p, x), y))
        BY <4>3, SeqGrows
      <4> QED BY <4>2, <4>4 DEF p
    <3>3. ASSUME NEW j \in Seats
          PROVE  IsSeq(messages'[j])
      <4> DEFINE x == Clause("D", t.deltas[j])
                 y == Clause("Y", Pair(hit_chars(t)[j], hit_chars(t)[1 - j]))
                 z == Clause("O", 0)
      <4>1. messages'[j] = told[j] \o (IF folded THEN <<>> ELSE <<z>>) \o <<x, y>>
        BY <3>1
      <4> HIDE DEF x, y, z
      <4>2. IsSeq(told[j])
        BY <2>1
      <4>3. IsSeq(told[j] \o (IF folded THEN <<>> ELSE <<z>>) \o <<x, y>>)
        BY <3>2, <4>2
      <4> QED BY <4>1, <4>3
    <3> QED BY <3>1, <3>3
  <2> QED BY <2>3, <2>4
<1> QED BY <1>1, <1>2 DEF Resume

\* A query that ends, however it ends, keeps every bot in touch in step.
LEMMA ResumeKeepsLockstep ==
  ASSUME Lockstep, Sane, Sane', pc \in {"ask", "wait"}, NEW log, NEW action, Resume(action, log),
         InRound => action = DefaultAction \/ Legal(action),
         UNCHANGED <<players, cards, round_num, inbox, bot, connected>>,
         log = [j \in Seats |-> log[j]], \A j \in Seats : IsSeq(log[j]),
         \A i \in Seats : InTouch(players[i])' =>
           /\ InTouch(players[i]) /\ inbox[players[i]] = <<>> /\ log[i] = messages[i]
           /\ i = Asked => messages[i] = <<>>
  PROVE  Lockstep'
<1>1. PICK a : Resume(a, log) /\ (InRound => Permitted(round_state, a))
  BY ResumedAsPermitted
<1>2. pc' \in {"ask", "paid"}
  BY ResumeEffect DEF Sane
<1>3. messages' = [j \in Seats |-> messages'[j]] /\ \A j \in Seats : IsSeq(messages'[j])
  BY LogsStaySequences
<1>4. \A p \in Players : /\ Sound(bot'[p]) /\ IsSeq(inbox'[p]) /\ (bot'[p].up => connected'[p])
                         /\ Orderly(p)'
  BY DEF Lockstep, Orderly
<1>5. ASSUME NEW i \in Seats, InTouch(players[i])'
      PROVE  /\ Abreast(View(i), bot[players[i]].skeleton, i)'
             /\ i < served' => messages'[i] = <<>>
  <2>1. PICK b : b = bot[players[i]]
    OBVIOUS
  <2> DEFINE sk == b.skeleton
  <2>2. /\ InTouch(players[i]) /\ inbox[players[i]] = <<>> /\ log[i] = messages[i]
        /\ i = Asked => messages[i] = <<>>
    BY <1>5
  <2>3. sk \in Skeletons
    BY <2>1 DEF Sane, Typed, Lockstep, Sound
  <2>4. /\ View(i) = FoldOf(sk, b, messages[i]) /\ View(i)' = FoldOf(sk, b, messages[i])'
        /\ bot'[players'[i]].skeleton = sk
    BY <2>1, <2>2 DEF View
  <2>5. Abreast(FoldOf(sk, b, messages[i]), sk, i) /\ (i < served => messages[i] = <<>>)
    BY <2>1, <2>2, <2>4 DEF Lockstep
  <2>6. CASE PlayOn(a, log)
    <3>1. InRound /\ served' = served /\ served = 0
      BY <2>6 DEF PlayOn, Sane, Typed, Books
    <3>2. Abreast(FoldOf(sk, b, messages[i]), sk, i)'
      <4> HIDE DEF sk
      <4>1. Abreast(FoldOf(sk, b, log[i]), sk, i) /\ IsSeq(log[i]) /\ Permitted(round_state, a)
        BY <1>1, <2>2, <2>5, <3>1
      <4> QED BY <2>3, <2>6, <4>1, PlayingOnIsTold
    <3> QED BY <2>4, <3>1, <3>2 DEF Seats
  <2>7. CASE Pay(log)
    <3>1. messages' = log /\ served' = served + 1 /\ Asked = served /\ served \in {0, 1}
      BY <2>7 DEF Pay, Asked, Sane, Typed, Books
    <3>2. Abreast(FoldOf(sk, b, messages[i]), sk, i)'
      <4> PICK x : x = FoldOf(sk, b, messages[i])
        OBVIOUS
      <4>1. x = FoldOf(sk, b, messages[i])'
        BY <2>2, <3>1
      <4>2. Abreast(x, sk, i)'
        <5> HIDE DEF sk
        <5> QED BY <2>5, <2>7, PayingIsExpected
      <4> QED BY <4>1, <4>2
    <3>3. i < served' => messages'[i] = <<>>
      BY <2>2, <2>5, <3>1 DEF Seats
    <3> QED BY <2>4, <3>2, <3>3
  <2> QED BY <1>1, <2>6, <2>7 DEF Resume
<1>6. (pc = "wait" => messages[Asked] = <<>>)'
  BY <1>2
<1> QED BY <1>2, <1>3, <1>4, <1>5, <1>6 DEF Lockstep

\* A bot in step passes its runner's check of the turn when it is the one asked.
LEMMA AbreastIsSound ==
  ASSUME Sane, NEW b, NEW sk \in Skeletons, NEW i, Abreast(b, sk, i)
  PROVE  Sound(b) /\ b.skeleton = sk /\ (i = Asked => InTurn(b))
<1>1. CASE InRound
  <2>1. Knows(b, sk, i, FALSE, Shadow(round_state, round_state.street, cards.bounties[i]),
              bankroll[players[i]], round_num)
    BY <1>1 DEF Abreast
  <2>2. Sound(b) /\ b.skeleton = sk
    BY <2>1, KnowsIsSound
  <2>3. /\ b.active = i /\ b.round_state = Shadow(round_state, round_state.street, cards.bounties[i])
    BY <2>1 DEF Knows
  <2>4. b.round_state.type = "round" /\ b.round_state.button = round_state.button
    BY <2>3 DEF Shadow
  <2>5. i = Asked => b.active = round_state.button % 2
    BY <1>1, <2>3 DEF Asked, active
  <2> QED BY <2>2, <2>4, <2>5 DEF InTurn
<1>2. CASE ~InRound
  <2>1. PICK u : Knows(b, sk, i, TRUE, u, bankroll[players[i]] + Owed(i), round_num + 1)
    BY <1>2 DEF Abreast
  <2>2. Sound(b) /\ b.skeleton = sk
    BY <2>1, KnowsIsSound
  <2>3. b.round_flag = TRUE
    BY <2>1 DEF Knows
  <2> QED BY <2>2, <2>3 DEF InTurn
<1> QED BY <1>1, <1>2

\* A queue of quit lines that gets another one.
LEMMA QuitsGrow ==
  ASSUME NEW q, IsSeq(q), NEW line, QuitLine(line), OnlyQuits(q)
  PROVE  OnlyQuits(Append(q, line))
<1>1. PICK S : q \in Seq(S)
  BY DEF IsSeq
<1> DEFINE R == S \cup {line}
<1>2. q \in Seq(R) /\ line \in R
  BY <1>1
<1> HIDE DEF R
<1>3. \A k \in DOMAIN Append(q, line) : Append(q, line)[k] = line \/ (k \in DOMAIN q /\ Append(q, line)[k] = q[k])
  BY <1>2
<1> QED BY <1>3 DEF OnlyQuits

\* A queue of quit lines whose first one is taken.
LEMMA QuitsShrink ==
  ASSUME NEW q, IsSeq(q), q # <<>>, OnlyQuits(q)
  PROVE  QuitLine(Head(q)) /\ OnlyQuits(Tail(q))
<1>1. PICK S : q \in Seq(S)
  BY DEF IsSeq
<1>2. 1 \in DOMAIN q /\ Head(q) = q[1]
  BY <1>1
<1>3. \A k \in DOMAIN Tail(q) : k + 1 \in DOMAIN q /\ Tail(q)[k] = q[k + 1]
  BY <1>1
<1> QED BY <1>2, <1>3 DEF OnlyQuits

\* An empty queue of quit lines.
LEMMA NoQuits == OnlyQuits(<<>>)
BY DEF OnlyQuits

\* The Q line may be added to whatever is on its way.
LEMMA QuitIsOrderly ==
  ASSUME NEW b, Sound(b), b.up, NEW q, IsSeq(q), NEW line, QuitLine(line),
         q # <<>> => Sound(HandlePacket(b, Head(q).clauses)) /\ OnlyQuits(Tail(q))
  PROVE  LET r == Append(q, line) IN Sound(HandlePacket(b, Head(r).clauses)) /\ OnlyQuits(Tail(r))
<1> DEFINE r == Append(q, line)
<1>1. CASE q = <<>>
  <2>1. Head(r) = line /\ Tail(r) = <<>>
    BY <1>1, OneLine
  <2> QED BY <2>1, QuitsSoundly, NoQuits DEF QuitLine
<1>2. CASE q # <<>>
  <2>1. Head(r) = Head(q) /\ Tail(r) = Append(Tail(q), line)
    BY <1>2, SeqGrows
  <2>2. IsSeq(Tail(q))
    BY <1>2, SeqShrinks
  <2> HIDE DEF r
  <2>3. OnlyQuits(Append(Tail(q), line))
    BY <1>2, <2>2, QuitsGrow
  <2> QED BY <1>2, <2>1, <2>3 DEF r
<1> QED BY <1>1, <1>2

\* Handling the first line leaves the rest in order.
LEMMA HandlingIsOrderly ==
  ASSUME NEW h, Sound(h), h.up, NEW q, IsSeq(q), q # <<>>, OnlyQuits(q)
  PROVE  Sound(HandlePacket(h, Head(q).clauses)) /\ OnlyQuits(Tail(q))
<1>1. QuitLine(Head(q)) /\ OnlyQuits(Tail(q))
  BY QuitsShrink
<1> QED BY <1>1, QuitsSoundly DEF QuitLine

\* The two players are different, and the one being asked sits in the seat asked.
LEMMA WhoSitsWhere ==
  ASSUME Sane
  PROVE  /\ players[0] # players[1] /\ \A i \in Seats : players[i] \in Players /\ 1 - i \in Seats
         /\ pc \in {"ask", "wait"} =>
              /\ Asked \in Seats /\ Who \in Players
              /\ \A i \in Seats : players[i] = Who <=> i = Asked
<1>1. players[0] # players[1] /\ \A i \in Seats : players[i] \in Players /\ 1 - i \in Seats
  BY MatchAssumption DEF Sane, Typed, Books, SeatsTaken, Seats
<1>2. ASSUME pc \in {"ask", "wait"}
      PROVE  Asked \in Seats /\ Who \in Players
  BY <1>2, WhoIsAPlayer DEF Sane
<1>3. ASSUME pc \in {"ask", "wait"}, NEW i \in Seats
      PROVE  players[i] = Who <=> i = Asked
  <2>1. Asked \in Seats /\ Who = players[Asked]
    BY <1>2, <1>3 DEF Who
  <2> QED BY <1>1, <2>1 DEF Seats
<1> QED BY <1>1, <1>2, <1>3

\* A query after which the bot that was asked is out of touch.
LEMMA LosingTouchKeepsLockstep ==
  ASSUME Lockstep, Lines, Sane, Sane', pc \in {"ask", "wait"}, NEW log, Resume(DefaultAction, log),
         UNCHANGED <<players, cards, round_num, inbox, bot, connected>>,
         log = [j \in Seats |-> log[j]], \A j \in Seats : IsSeq(log[j]) /\ (j # Asked => log[j] = messages[j]),
         ~(clock'[Who] /\ bot[Who].up), \A p \in Players : clock'[p] => clock[p]
  PROVE  Lockstep'
<1>1. ASSUME NEW i \in Seats, InTouch(players[i])'
      PROVE  /\ InTouch(players[i]) /\ inbox[players[i]] = <<>> /\ log[i] = messages[i]
             /\ i = Asked => messages[i] = <<>>
  <2> DEFINE p == players[i]
  <2>1. clock'[p] /\ bot[p].up
    BY <1>1 DEF InTouch
  <2>2. p \in Players /\ i # Asked /\ p # Who
    BY <2>1, WhoSitsWhere DEF Who
  <2>3. clock[p] /\ Quiet(p)
    BY <2>1, <2>2 DEF Lines
  <2> QED BY <2>1, <2>2, <2>3 DEF Quiet, InTouch
<1>2. \A i \in Seats : InTouch(players[i])' =>
           /\ InTouch(players[i]) /\ inbox[players[i]] = <<>> /\ log[i] = messages[i]
           /\ i = Asked => messages[i] = <<>>
  BY <1>1
<1>3. \A j \in Seats : IsSeq(log[j])
  OBVIOUS
<1>4. InRound => DefaultAction = DefaultAction \/ Legal(DefaultAction)
  OBVIOUS
<1> QED BY <1>2, <1>3, <1>4, ResumeKeepsLockstep

\* An answer that arrives in time.
LEMMA ReceiveKeepsLockstep ==
  ASSUME Lockstep, Lines, Sane, Sane', Receive
  PROVE  Lockstep'
<1> DEFINE action == Accept(Head(outbox[Who]).answer)
<1>1. /\ pc = "wait" /\ outbox[Who] # <<>> /\ Resume(action, messages)
      /\ UNCHANGED <<players, cards, round_num, inbox, bot, connected, clock>>
  BY DEF Receive
<1>2. action = DefaultAction \/ Legal(action)
  BY DEF Accept
<1> HIDE DEF action
<1>3. messages = [j \in Seats |-> messages[j]] /\ \A j \in Seats : IsSeq(messages[j])
  BY DEF Lockstep
<1>4. ASSUME NEW i \in Seats, InTouch(players[i])'
      PROVE  /\ InTouch(players[i]) /\ inbox[players[i]] = <<>> /\ messages[i] = messages[i]
             /\ i = Asked => messages[i] = <<>>
  <2> DEFINE p == players[i]
  <2>1. clock[p] /\ bot[p].up /\ InTouch(p)
    BY <1>1, <1>4 DEF InTouch
  <2>2. p \in Players
    BY WhoSitsWhere
  <2>3. IF p = Who THEN Queried(p) ELSE Quiet(p)
    BY <1>1, <2>1, <2>2 DEF Lines
  <2>4. inbox[p] = <<>>
    BY <1>1, <2>1, <2>3 DEF Quiet, Queried
  <2>5. i = Asked => messages[i] = <<>>
    BY <1>1 DEF Lockstep
  <2> QED BY <2>1, <2>4, <2>5
<1> QED BY <1>1, <1>2, <1>3, <1>4, ResumeKeepsLockstep

\* Any other end of a query.
LEMMA GivingUpKeepsLockstep ==
  ASSUME Lockstep, Lines, Sane, Sane',
         SkipQuery \/ SendFails \/ ReceiveTooLate \/ SocketTimeout \/ ReadEOF \/ ReadReset
  PROVE  Lockstep'
<1>1. pc \in {"ask", "wait"} /\ UNCHANGED <<players, cards, round_num, inbox, bot, connected>>
  BY DEF SkipQuery, SendFails, ReceiveTooLate, SocketTimeout, ReadEOF, ReadReset
<1>2. Who \in Players /\ Asked \in Seats /\ clock \in [Players -> BOOLEAN]
  BY <1>1, WhoSitsWhere DEF Sane, Typed
<1>3. messages = [j \in Seats |-> messages[j]] /\ \A j \in Seats : IsSeq(messages[j])
  BY DEF Lockstep
<1>4. RunOut => ~clock'[Who] /\ \A p \in Players : clock'[p] => clock[p]
  BY <1>2 DEF RunOut
<1>5. CASE SkipQuery
  <2>1. ~connected[Who] \/ ~clock[Who]
    BY <1>5 DEF SkipQuery
  <2>2. clock' = clock /\ Resume(DefaultAction, messages)
    BY <1>5 DEF SkipQuery
  <2>3. bot[Who].up => connected[Who]
    BY <1>2 DEF Lockstep
  <2>4. ~(clock'[Who] /\ bot[Who].up) /\ \A p \in Players : clock'[p] => clock[p]
    BY <2>1, <2>2, <2>3
  <2> QED BY <1>1, <1>3, <2>2, <2>4, LosingTouchKeepsLockstep
<1>6. CASE SendFails
  <2> DEFINE e == <<>>
             log == [messages EXCEPT ![Asked] = e]
  <2>1. RunOut /\ Resume(DefaultAction, log)
    BY <1>6 DEF SendFails
  <2>2. IsSeq(e)
    BY EmptyIsSeq
  <2> HIDE DEF e
  <2>3. log = [j \in Seats |-> log[j]] /\ \A j \in Seats : IsSeq(log[j]) /\ (j # Asked => log[j] = messages[j])
    BY <1>3, <2>2
  <2> HIDE DEF log
  <2> QED BY <1>1, <1>4, <2>1, <2>3, LosingTouchKeepsLockstep
<1>7. CASE ReceiveTooLate
  BY <1>1, <1>3, <1>4, <1>7, LosingTouchKeepsLockstep DEF ReceiveTooLate
<1>8. CASE SocketTimeout
  BY <1>1, <1>3, <1>4, <1>8, LosingTouchKeepsLockstep DEF SocketTimeout
<1>9. CASE ReadEOF
  <2>1. clock' = clock /\ ~bot[Who].up /\ Resume(DefaultAction, messages)
    BY <1>9 DEF ReadEOF
  <2> QED BY <1>1, <1>3, <2>1, LosingTouchKeepsLockstep
<1>10. CASE ReadReset
  BY <1>1, <1>3, <1>4, <1>10, LosingTouchKeepsLockstep DEF ReadReset
<1> QED BY <1>5, <1>6, <1>7, <1>8, <1>9, <1>10

\* A deal is introduced to both players, each at its new seat.
LEMMA DealKeepsLockstep ==
  ASSUME Lockstep, Lines, Sane, Sane', StartRound
  PROVE  Lockstep'
<1>1. /\ pc = "paid" /\ pc' = "ask" /\ round_num' = round_num + 1
      /\ players' = [j \in Seats |-> players[1 - j]] /\ round_state' = InitialState /\ served' = 0
      /\ messages' = Introduction(cards')
      /\ UNCHANGED <<bankroll, clock, connected, inbox, bot>>
  BY DEF StartRound
<1>2. messages' = [j \in Seats |-> messages'[j]] /\ \A j \in Seats : IsSeq(messages'[j])
  <2>1. ASSUME NEW x, NEW y, NEW z
        PROVE  IsSeq(<<x, y, z>>)
    <3> DEFINE q == Append(<<x>>, y)
    <3>1. <<x, y, z>> = Append(q, z) /\ IsSeq(q)
      BY ThreeClauses
    <3> HIDE DEF q
    <3> QED BY <3>1, SeqGrows
  <2> QED BY <1>1, <2>1 DEF Introduction
<1>3. ASSUME NEW i \in Seats, InTouch(players[i])'
      PROVE  Abreast(View(i), bot[players[i]].skeleton, i)'
  <2> DEFINE k == 1 - i
             p == players[k]
             sk == bot[p].skeleton
             rank == cards'.bounties[i]
             intro == <<Clause("P", i), Clause("H", 0), Clause("G", rank)>>
  <2>1. k \in Seats /\ p \in Players /\ players'[i] = p /\ clock[p] /\ bot[p].up /\ InTouch(p)
    BY <1>1, <1>3, WhoSitsWhere DEF InTouch
  <2>2. sk \in Skeletons /\ inbox[p] = <<>>
    BY <1>1, <2>1 DEF Lockstep, Sound, Lines, Quiet
  <2>3. served = 2 /\ ~InRound
    BY <1>1 DEF Sane, Typed, Between
  <2>4. Abreast(View(k), sk, k) /\ messages[k] = <<>>
    BY <1>1, <2>1, <2>3 DEF Lockstep, Seats
  <2>5. View(k) = bot[p]
    <3>1. View(k) = FoldOf(sk, bot[p], <<>>)
      BY <2>2, <2>4 DEF View
    <3> QED BY <2>2, <3>1, ReadsNothing
  <2>6. bankroll[p] + Owed(k) = bankroll[p]
    BY <1>1, <2>1 DEF Owed, Sane, Typed, Books
  <2>7. PICK u : Knows(bot[p], sk, k, TRUE, u, bankroll[p], round_num + 1)
    BY <2>3, <2>4, <2>5, <2>6 DEF Abreast
  <2>8. Knows(FoldOf(sk, bot[p], intro), sk, i, FALSE, Shadow(InitialState, 0, rank), bankroll[p], round_num + 1)
    <3> HIDE DEF k, p, sk, rank
    <3> QED BY <2>2, <2>7, ReadsIntroduction
  <2>9. messages'[i] = intro
    BY <1>1 DEF Introduction
  <2> HIDE DEF intro
  <2>10. View(i)' = FoldOf(sk, bot[p], intro) /\ bot'[players'[i]].skeleton = sk
    BY <1>1, <2>1, <2>2, <2>9 DEF View
  <2>11. InRound' /\ round_state'.street = 0
    BY <1>1 DEF InRound, InitialState
  <2>12. /\ Shadow(InitialState, 0, rank) = Shadow(round_state', round_state'.street, cards'.bounties[i])
         /\ bankroll[p] = bankroll'[players'[i]] /\ round_num + 1 = round_num'
    BY <1>1, <2>1, <2>11
  <2> HIDE DEF rank, p, sk
  <2> QED BY <2>8, <2>10, <2>11, <2>12 DEF Abreast
<1>4. \A p \in Players : /\ Sound(bot'[p]) /\ IsSeq(inbox'[p]) /\ (bot'[p].up => connected'[p])
                         /\ Orderly(p)'
  BY <1>1 DEF Lockstep, Orderly
<1>5. \A i \in Seats : ~(i < served')
  BY <1>1 DEF Seats
<1>6. pc' # "wait"
  BY <1>1
<1> QED BY <1>2, <1>3, <1>4, <1>5, <1>6 DEF Lockstep

\* A query: what the bot was still to be told is now the line on its way.
LEMMA SendKeepsLockstep ==
  ASSUME Lockstep, Lines, Sane, Send
  PROVE  Lockstep'
<1> DEFINE line == [clauses |-> messages[Asked], query |-> Query]
           e == <<>>
<1>1. /\ pc = "ask" /\ pc' = "wait" /\ connected[Who] /\ clock[Who]
      /\ inbox' = [inbox EXCEPT ![Who] = Append(@, line)]
      /\ messages' = [messages EXCEPT ![Asked] = e]
      /\ UNCHANGED <<round_num, players, bankroll, clock, connected, round_state, cards, served, last_line, bot>>
  BY DEF Send
<1>2. line.clauses = messages[Asked] /\ IsSeq(e)
  BY EmptyIsSeq
<1>3. /\ Who \in Players /\ Asked \in Seats /\ Asked' = Asked
      /\ \A i \in Seats : players[i] \in Players /\ (players[i] = Who <=> i = Asked)
  BY <1>1, WhoSitsWhere DEF Asked, InRound
<1>4. /\ messages = [j \in Seats |-> messages[j]] /\ \A j \in Seats : IsSeq(messages[j])
      /\ \A p \in Players : Sound(bot[p]) /\ IsSeq(inbox[p]) /\ (bot[p].up => connected[p]) /\ Orderly(p)
  BY DEF Lockstep
<1> HIDE DEF line
<1>5. /\ inbox'[Who] = Append(inbox[Who], line)
      /\ \A p \in Players : p # Who => inbox'[p] = inbox[p]
      /\ messages'[Asked] = e /\ messages' = [j \in Seats |-> messages'[j]]
      /\ \A j \in Seats : j # Asked => messages'[j] = messages[j]
  BY <1>1, <1>3, <1>4 DEF Lines
<1>6. \A j \in Seats : IsSeq(messages'[j])
  BY <1>2, <1>4, <1>5
<1>7. \A p \in Players : IsSeq(inbox'[p])
  <2>1. ASSUME NEW p \in Players
        PROVE  IsSeq(inbox'[p])
    <3>1. IsSeq(inbox[p])
      BY <1>4
    <3>2. IsSeq(Append(inbox[p], line))
      BY <3>1, SeqGrows
    <3> QED BY <1>5, <3>1, <3>2
  <2> QED BY <2>1
<1>8. ASSUME NEW x, NEW sk, NEW i, Abreast(x, sk, i)
      PROVE  Abreast(x, sk, i)'
  <2>1. Owed(i)' = Owed(i)
    BY <1>1 DEF Owed
  <2> QED BY <1>1, <1>8, <2>1 DEF Abreast, InRound
<1>9. ASSUME bot[Who].up
      PROVE  /\ inbox[Who] = <<>> /\ Head(inbox'[Who]) = line /\ Tail(inbox'[Who]) = <<>> /\ inbox'[Who] # <<>>
             /\ Sound(HandlePacket(bot[Who], line.clauses))
             /\ Abreast(HandlePacket(bot[Who], line.clauses), bot[Who].skeleton, Asked)
  <2> DEFINE b == bot[Who]
             sk == b.skeleton
             h == FoldOf(sk, b, messages[Asked])
  <2>1. inbox[Who] = <<>>
    BY <1>1, <1>3, <1>9 DEF Lines, Quiet
  <2>2. Abreast(View(Asked), sk, Asked) /\ View(Asked) = h
    BY <1>1, <1>3, <1>9, <2>1 DEF Lockstep, InTouch, View, Who
  <2>3. sk \in Skeletons
    BY <1>3, <1>4 DEF Sound
  <2>4. Sound(h) /\ InTurn(h)
    <3>1. Abreast(h, sk, Asked)
      BY <2>2
    <3> HIDE DEF h, sk
    <3> QED BY <2>3, <3>1, AbreastIsSound
  <2>5. HandlePacket(b, messages[Asked]) = h
    BY <2>3, <2>4, PacketIsFold
  <2>6. Head(inbox'[Who]) = line /\ Tail(inbox'[Who]) = <<>> /\ inbox'[Who] # <<>>
    BY <1>5, <2>1, OneLine
  <2> QED BY <1>2, <2>1, <2>2, <2>4, <2>5, <2>6
<1>10. ASSUME NEW p \in Players
       PROVE  Orderly(p)'
  <2>1. CASE p # Who
    BY <1>1, <1>4, <1>5, <2>1 DEF Orderly
  <2>2. CASE p = Who /\ bot[p].up
    BY <1>1, <1>9, <2>2, NoQuits DEF Orderly
  <2>3. CASE ~bot[p].up
    BY <1>1, <2>3 DEF Orderly
  <2> QED BY <2>1, <2>2, <2>3
<1>11. ASSUME NEW i \in Seats, InTouch(players[i])'
       PROVE  /\ Abreast(View(i), bot[players[i]].skeleton, i)'
              /\ i < served' => messages'[i] = <<>>
  <2> DEFINE p == players[i]
  <2>1. InTouch(p) /\ players'[i] = p /\ p \in Players
    BY <1>1, <1>3, <1>11 DEF InTouch
  <2>2. Abreast(View(i), bot[p].skeleton, i) /\ (i < served => messages[i] = <<>>)
    BY <1>1, <2>1 DEF Lockstep
  <2>3. CASE i # Asked
    <3>1. p # Who
      BY <1>3, <2>3
    <3>2. View(i)' = View(i)
      BY <1>1, <1>5, <2>1, <2>3, <3>1 DEF View
    <3>3. PICK x : x = View(i)
      OBVIOUS
    <3>4. PICK sk : sk = bot[p].skeleton
      OBVIOUS
    <3>5. Abreast(x, sk, i)'
      BY <1>8, <2>2, <3>3, <3>4
    <3> QED BY <1>1, <1>5, <2>1, <2>2, <2>3, <3>2, <3>3, <3>4, <3>5
  <2>4. CASE i = Asked
    <3>1. p = Who /\ bot[p].up
      BY <1>3, <2>1, <2>4 DEF InTouch
    <3>2. PICK x : x = HandlePacket(bot[Who], line.clauses)
      OBVIOUS
    <3>3. PICK sk : sk = bot[p].skeleton
      OBVIOUS
    <3>4. View(i)' = x
      BY <1>1, <1>9, <2>1, <3>1, <3>2 DEF View
    <3>5. Abreast(x, sk, i)'
      BY <1>8, <1>9, <2>4, <3>1, <3>2, <3>3
    <3> QED BY <1>1, <1>5, <2>1, <2>4, <3>3, <3>4, <3>5
  <2> QED BY <2>3, <2>4
<1>12. pc' = "wait" => messages'[Asked'] = <<>>
  BY <1>3, <1>5
<1> QED BY <1>1, <1>4, <1>5, <1>6, <1>7, <1>10, <1>11, <1>12 DEF Lockstep

\* The end of the match: only Q lines are sent, and processes end.
LEMMA EndKeepsLockstep ==
  ASSUME Lockstep, Lines, Sane, EndMatch \/ Stop \/ Quit
  PROVE  Lockstep'
<1>1. pc' \notin {"ask", "wait", "paid"} /\ UNCHANGED <<messages, connected>>
  BY DEF EndMatch, Stop, Quit
<1>2. CASE EndMatch
  BY <1>1, <1>2 DEF EndMatch, Lockstep, Orderly
<1>3. CASE Stop
  <2> DEFINE p == players[served]
             line == [clauses |-> <<Clause("Q", 0)>>, query |-> <<>>]
  <2>1. p \in Players
    BY <1>3, WhoSitsWhere DEF Stop, Sane, Typed, Seats
  <2>2. UNCHANGED bot /\ inbox' = IF connected[p] THEN [inbox EXCEPT ![p] = Append(@, line)] ELSE inbox
    BY <1>3 DEF Stop
  <2>3. QuitLine(line)
    BY DEF QuitLine
  <2> HIDE DEF p, line
  <2>4. ASSUME NEW q \in Players
        PROVE  IsSeq(inbox'[q]) /\ Orderly(q)'
    <3>1. IsSeq(inbox[q]) /\ Sound(bot[q]) /\ Orderly(q)
      BY DEF Lockstep
    <3>2. CASE inbox'[q] = inbox[q]
      BY <2>2, <3>1, <3>2 DEF Orderly
    <3>3. CASE inbox'[q] = Append(inbox[q], line)
      <4>1. IsSeq(inbox'[q])
        BY <3>1, <3>3, SeqGrows
      <4>2. ASSUME bot[q].up
            PROVE  Orderly(q)'
        <5>1. inbox[q] # <<>> => Sound(HandlePacket(bot[q], Head(inbox[q]).clauses)) /\ OnlyQuits(Tail(inbox[q]))
          BY <3>1, <4>2 DEF Orderly
        <5> QED BY <2>2, <2>3, <3>1, <3>3, <4>2, <5>1, QuitIsOrderly DEF Orderly
      <4>3. ~bot[q].up => Orderly(q)'
        BY <2>2 DEF Orderly
      <4> QED BY <4>1, <4>2, <4>3
    <3>4. inbox'[q] \in {inbox[q], Append(inbox[q], line)}
      BY <2>1, <2>2 DEF Lines
    <3> QED BY <3>2, <3>3, <3>4
  <2> QED BY <1>1, <2>2, <2>4 DEF Lockstep
<1>4. CASE Quit
  <2> DEFINE p == players[served]
  <2>1. bot' = [bot EXCEPT ![p].up = FALSE] /\ UNCHANGED inbox
    BY <1>4 DEF Quit
  <2> HIDE DEF p
  <2>2. ASSUME NEW q \in Players
        PROVE  Sound(bot'[q]) /\ (bot'[q].up => bot'[q] = bot[q])
    <3>1. Sound(bot[q])
      BY DEF Lockstep
    <3>2. \A f \in BOOLEAN : Sound([bot[q] EXCEPT !.up = f]) /\ [bot[q] EXCEPT !.up = f].up = f
      BY <3>1 DEF Sound, IsBot, BotFields
    <3>3. Sound([bot[q] EXCEPT !.up = FALSE]) /\ [bot[q] EXCEPT !.up = FALSE].up = FALSE
      BY <3>2, Zenon
    <3>4. bot'[q] = bot[q] \/ bot'[q] = [bot[q] EXCEPT !.up = FALSE]
      BY <2>1 DEF Lines
    <3> QED BY <3>1, <3>3, <3>4
  <2> QED BY <1>1, <2>1, <2>2 DEF Lockstep, Orderly
<1> QED BY <1>2, <1>3, <1>4

\* A bot may die at any time.
LEMMA CrashKeepsLockstep ==
  ASSUME Lockstep, Lines, Sane, NEW p \in Players, Crash(p)
  PROVE  Lockstep'
<1>1. /\ bot' = [bot EXCEPT ![p].up = FALSE]
      /\ UNCHANGED <<pc, round_num, players, bankroll, clock, connected, round_state, cards, served,
                     messages, last_line, inbox>>
  BY DEF Crash
<1>2. ASSUME NEW q \in Players
      PROVE  Sound(bot'[q]) /\ (bot'[q].up => bot'[q] = bot[q])
  <2>1. Sound(bot[q])
    BY DEF Lockstep
  <2>2. \A f \in BOOLEAN : Sound([bot[q] EXCEPT !.up = f]) /\ [bot[q] EXCEPT !.up = f].up = f
    BY <2>1 DEF Sound, IsBot, BotFields
  <2>3. Sound([bot[q] EXCEPT !.up = FALSE]) /\ [bot[q] EXCEPT !.up = FALSE].up = FALSE
    BY <2>2, Zenon
  <2>4. bot'[q] = bot[q] \/ bot'[q] = [bot[q] EXCEPT !.up = FALSE]
    BY <1>1 DEF Lines
  <2> QED BY <2>1, <2>3, <2>4
<1>3. \A q \in Players : Sound(bot'[q]) /\ IsSeq(inbox'[q]) /\ (bot'[q].up => connected'[q]) /\ Orderly(q)'
  BY <1>1, <1>2 DEF Lockstep, Orderly
<1>4. ASSUME NEW i \in Seats, InTouch(players[i])', pc \in {"ask", "wait", "paid"}
      PROVE  /\ Abreast(View(i), bot[players[i]].skeleton, i)'
             /\ i < served' => messages'[i] = <<>>
  <2>1. bot'[players[i]] = bot[players[i]] /\ InTouch(players[i])
    BY <1>1, <1>2, <1>4, WhoSitsWhere DEF InTouch
  <2>2. Abreast(View(i), bot[players[i]].skeleton, i) /\ (i < served => messages[i] = <<>>)
    BY <1>4, <2>1 DEF Lockstep
  <2> QED BY <1>1, <2>1, <2>2 DEF Abreast, InRound, Owed, View
<1>5. /\ messages' = [j \in Seats |-> messages'[j]] /\ \A j \in Seats : IsSeq(messages'[j])
      /\ pc' = "wait" => messages'[Asked'] = <<>>
  BY <1>1 DEF Lockstep, Asked, InRound
<1> QED BY <1>1, <1>3, <1>4, <1>5 DEF Lockstep

\* The bot reads a line: it then holds what View said it would.
LEMMA HandleKeepsLockstep ==
  ASSUME Lockstep, Lines, Sane, NEW p \in Players, Handle(p)
  PROVE  Lockstep'
<1> DEFINE b == HandlePacket(bot[p], Head(inbox[p]).clauses)
           rest == Tail(inbox[p])
<1>1. /\ bot[p].up /\ inbox[p] # <<>> /\ bot' = [bot EXCEPT ![p] = b] /\ inbox' = [inbox EXCEPT ![p] = rest]
      /\ UNCHANGED <<pc, round_num, players, bankroll, clock, connected, round_state, cards, served,
                     messages, last_line>>
  BY DEF Handle, engine
<1>2. /\ Sound(bot[p]) /\ IsSeq(inbox[p]) /\ connected[p] /\ Sound(b) /\ OnlyQuits(rest)
  BY <1>1 DEF Lockstep, Orderly
<1>3. IsSeq(rest)
  BY <1>1, <1>2, SeqShrinks
<1>4. ASSUME clock[p], pc \in {"ask", "wait", "paid"}
      PROVE  pc = "wait" /\ p = Who /\ rest = <<>>
  <2>1. pc = "wait" /\ p = Who /\ Queried(p)
    BY <1>1, <1>4 DEF Lines, Quiet
  <2>2. PICK clauses : inbox[p] = <<[clauses |-> clauses, query |-> Query]>>
    BY <1>1, <2>1 DEF Queried
  <2> QED BY <2>1, <2>2, OneLine
<1>5. ASSUME b.up, rest # <<>>
      PROVE  Sound(HandlePacket(b, Head(rest).clauses)) /\ OnlyQuits(Tail(rest))
  <2> HIDE DEF b, rest
  <2> QED BY <1>2, <1>3, <1>5, HandlingIsOrderly
<1> HIDE DEF b, rest
<1>6. /\ bot'[p] = b /\ inbox'[p] = rest
      /\ \A q \in Players : q # p => bot'[q] = bot[q] /\ inbox'[q] = inbox[q]
  BY <1>1 DEF Lines
<1>7. ASSUME NEW q \in Players
      PROVE  Sound(bot'[q]) /\ IsSeq(inbox'[q]) /\ (bot'[q].up => connected'[q]) /\ Orderly(q)'
  <2>1. CASE q = p
    BY <1>1, <1>2, <1>3, <1>5, <1>6, <2>1 DEF Orderly
  <2>2. CASE q # p
    BY <1>1, <1>6, <2>2 DEF Lockstep, Orderly
  <2> QED BY <2>1, <2>2
<1>8. ASSUME NEW x, NEW sk, NEW i, Abreast(x, sk, i)
      PROVE  Abreast(x, sk, i)'
  BY <1>1, <1>8 DEF Abreast, InRound, Owed
<1>9. ASSUME NEW i \in Seats, InTouch(players[i])', pc \in {"ask", "wait", "paid"}
      PROVE  /\ Abreast(View(i), bot[players[i]].skeleton, i)'
             /\ i < served' => messages'[i] = <<>>
  <2>1. players'[i] = players[i] /\ players[i] \in Players /\ clock[players[i]]
    BY <1>1, <1>9, WhoSitsWhere DEF InTouch
  <2>2. CASE players[i] # p
    <3>1. InTouch(players[i]) /\ bot'[players[i]] = bot[players[i]] /\ View(i)' = View(i)
      BY <1>1, <1>6, <1>9, <2>1, <2>2 DEF InTouch, View
    <3>2. Abreast(View(i), bot[players[i]].skeleton, i) /\ (i < served => messages[i] = <<>>)
      BY <1>9, <3>1 DEF Lockstep
    <3>3. PICK x : x = View(i)
      OBVIOUS
    <3>4. PICK sk : sk = bot[players[i]].skeleton
      OBVIOUS
    <3>5. Abreast(x, sk, i)'
      BY <1>8, <3>2, <3>3, <3>4
    <3> QED BY <1>1, <2>1, <3>1, <3>2, <3>3, <3>4, <3>5
  <2>3. CASE players[i] = p
    <3>1. pc = "wait" /\ p = Who /\ rest = <<>> /\ i = Asked
      BY <1>4, <1>9, <2>1, <2>3, WhoSitsWhere
    <3>2. messages[i] = <<>> /\ InTouch(p)
      BY <1>1, <2>1, <2>3, <3>1 DEF Lockstep, InTouch
    <3> DEFINE sk == bot[p].skeleton
    <3>3. Abreast(View(i), sk, i) /\ View(i) = b /\ sk \in Skeletons
      BY <1>1, <1>2, <1>9, <2>3, <3>2 DEF Lockstep, View, b, Sound
    <3>4. b.skeleton = sk
      <4>1. Abreast(b, sk, i)
        BY <3>3
      <4> HIDE DEF sk
      <4> QED BY <3>3, <4>1, AbreastIsSound
    <3>5. View(i)' = b
      <4>1. View(i)' = FoldOf(b.skeleton, b, <<>>)
        BY <1>1, <1>6, <2>1, <2>3, <3>1, <3>2 DEF View
      <4> QED BY <3>3, <3>4, <4>1, ReadsNothing
    <3>6. PICK x : x = b
      OBVIOUS
    <3>7. PICK k : k = sk
      OBVIOUS
    <3>8. Abreast(x, k, i)'
      BY <1>8, <3>3, <3>6, <3>7
    <3> QED BY <1>1, <1>6, <2>1, <2>3, <3>2, <3>4, <3>5, <3>6, <3>7, <3>8
  <2> QED BY <2>2, <2>3
<1>10. /\ messages' = [j \in Seats |-> messages'[j]] /\ \A j \in Seats : IsSeq(messages'[j])
       /\ pc' = "wait" => messages'[Asked'] = <<>>
  BY <1>1 DEF Lockstep, Asked, InRound
<1> QED BY <1>1, <1>7, <1>9, <1>10 DEF Lockstep

\* Every step of a match keeps the bots in step.
LEMMA LockstepInductive ==
  ASSUME Lockstep, Lines, Sane, Sane', [Next]_vars
  PROVE  Lockstep'
<1>1. CASE Receive
  BY <1>1, ReceiveKeepsLockstep
<1>2. CASE SkipQuery \/ SendFails \/ ReceiveTooLate \/ SocketTimeout \/ ReadEOF \/ ReadReset
  BY <1>2, GivingUpKeepsLockstep
<1>3. CASE StartRound
  BY <1>3, DealKeepsLockstep
<1>4. CASE Send
  BY <1>4, SendKeepsLockstep
<1>5. CASE EndMatch \/ Stop \/ Quit
  BY <1>5, EndKeepsLockstep
<1>6. ASSUME NEW p \in Players, Handle(p)
      PROVE  Lockstep'
  BY <1>6, HandleKeepsLockstep
<1>7. ASSUME NEW p \in Players, Crash(p)
      PROVE  Lockstep'
  BY <1>7, CrashKeepsLockstep
<1>8. CASE Done \/ UNCHANGED vars
  <2>1. UNCHANGED vars
    BY <1>8 DEF Done
  <2>2. /\ UNCHANGED <<pc, players, clock, connected, served, messages, inbox, bot>> /\ Asked' = Asked
        /\ \A p \in Players : Orderly(p)' = Orderly(p) /\ InTouch(p)' = InTouch(p)
    BY <2>1 DEF vars, Orderly, InTouch, Asked, InRound
  <2>3. \A i \in Seats : View(i)' = View(i) /\ InTouch(players[i])' = InTouch(players[i])
    BY <2>1 DEF vars, View, InTouch
  <2>4. ASSUME NEW x, NEW sk, NEW i, Abreast(x, sk, i)
        PROVE  Abreast(x, sk, i)'
    BY <2>1, <2>4 DEF vars, Abreast, InRound, Owed
  <2>5. ASSUME NEW i \in Seats, pc \in {"ask", "wait", "paid"}, InTouch(players[i])
        PROVE  Abreast(View(i), bot[players[i]].skeleton, i)' /\ (i < served => messages[i] = <<>>)
    <3>1. PICK x, sk : x = View(i) /\ sk = bot[players[i]].skeleton
      OBVIOUS
    <3>2. Abreast(x, sk, i) /\ (i < served => messages[i] = <<>>)
      BY <2>5, <3>1 DEF Lockstep
    <3>3. Abreast(x, sk, i)'
      BY <2>4, <3>2
    <3> QED BY <2>2, <2>3, <3>1, <3>2, <3>3
  <2>6. /\ messages' = [j \in Seats |-> messages'[j]] /\ \A j \in Seats : IsSeq(messages'[j])
        /\ pc' = "wait" => messages'[Asked'] = <<>>
        /\ \A p \in Players : Sound(bot'[p]) /\ IsSeq(inbox'[p]) /\ (bot'[p].up => connected'[p]) /\ Orderly(p)'
    BY <2>2 DEF Lockstep
  <2> QED BY <2>2, <2>3, <2>5, <2>6 DEF Lockstep
<1> QED BY <1>1, <1>2, <1>3, <1>4, <1>5, <1>6, <1>7, <1>8 DEF Next, Engine

\* They are in step when the match begins: the first round has been introduced.
LEMMA LockstepInitially == Init => Lockstep
<1> SUFFICES ASSUME Init PROVE Lockstep
  OBVIOUS
<1>1. /\ pc = "ask" /\ round_num = 1 /\ players = FirstOrder /\ bankroll = [p \in Players |-> 0]
      /\ connected \in [Players -> BOOLEAN] /\ round_state = InitialState /\ served = 0
      /\ messages = Introduction(cards) /\ inbox = [p \in Players |-> <<>>]
  BY DEF Init, RoundsInit
<1>2. PICK built \in Lineups : bot = [p \in Players |-> [BotStart(built[p]) EXCEPT !.up = connected[p]]]
  BY DEF Init
<1>3. ASSUME NEW p \in Players
      PROVE  /\ Sound(bot[p]) /\ bot[p].up = connected[p] /\ bot[p].skeleton \in Skeletons
             /\ bot[p].up => JustStarted(bot[p], bot[p].skeleton)
  <2> DEFINE sk == built[p]
             up == connected[p]
  <2>1. sk \in Skeletons /\ up \in BOOLEAN
    BY <1>1, <1>2, MatchAssumption
  <2>2. bot[p] = [BotStart(sk) EXCEPT !.up = up]
    BY <1>2
  <2> HIDE DEF sk, up
  <2> DEFINE b == bot[p]
  <2> HIDE DEF b
  <2>3. Sound(b) /\ b.up = up /\ b.skeleton = sk /\ (up => JustStarted(b, sk))
    BY <2>1, <2>2, StartKnows, ZenonT(40) DEF b
  <2> QED BY <2>1, <2>3 DEF up, b
<1>4. messages = [j \in Seats |-> messages[j]] /\ \A j \in Seats : IsSeq(messages[j])
  <2>1. ASSUME NEW x, NEW y, NEW z
        PROVE  IsSeq(<<x, y, z>>)
    <3> DEFINE q == Append(<<x>>, y)
    <3>1. <<x, y, z>> = Append(q, z) /\ IsSeq(q)
      BY ThreeClauses
    <3> HIDE DEF q
    <3> QED BY <3>1, SeqGrows
  <2> QED BY <1>1, <2>1 DEF Introduction
<1>5. ASSUME NEW i \in Seats, InTouch(players[i])
      PROVE  Abreast(View(i), bot[players[i]].skeleton, i)
  <2> DEFINE p == players[i]
             sk == bot[p].skeleton
             rank == cards.bounties[i]
             intro == <<Clause("P", i), Clause("H", 0), Clause("G", rank)>>
  <2>1. p \in Players /\ bot[p].up /\ bankroll[p] = 0
    BY <1>1, <1>5, MatchAssumption DEF InTouch
  <2>2. sk \in Skeletons
    BY <1>3, <2>1
  <2>3. PICK rs : Knows(bot[p], sk, 0, TRUE, rs, 0, 1)
    BY <1>3, <2>1 DEF JustStarted
  <2>4. Knows(FoldOf(sk, bot[p], intro), sk, i, FALSE, Shadow(InitialState, 0, rank), 0, 1)
    <3> HIDE DEF p, sk, rank
    <3> QED BY <2>2, <2>3, ReadsIntroduction
  <2>5. messages[i] = intro /\ inbox[p] = <<>>
    BY <1>1, <2>1 DEF Introduction
  <2> HIDE DEF intro
  <2>6. View(i) = FoldOf(sk, bot[p], intro)
    BY <2>5 DEF View
  <2>7. InRound /\ Shadow(InitialState, 0, rank) = Shadow(round_state, round_state.street, rank)
    BY <1>1 DEF InRound, InitialState
  <2> QED BY <1>1, <2>1, <2>4, <2>6, <2>7 DEF Abreast
<1>6. ASSUME NEW p \in Players
      PROVE  Sound(bot[p]) /\ IsSeq(inbox[p]) /\ (bot[p].up => connected[p]) /\ Orderly(p)
  <2> DEFINE e == <<>>
  <2>1. IsSeq(e) /\ inbox[p] = e
    BY <1>1, EmptyIsSeq
  <2> QED BY <1>3, <2>1 DEF Orderly
<1>7. \A i \in Seats : ~(i < served)
  BY <1>1 DEF Seats
<1> QED BY <1>1, <1>4, <1>5, <1>6, <1>7 DEF Lockstep

\* What holds of the engine in every reachable state.
LEMMA EngineIsSane == Spec => []Sane
BY MatchIsTyped, DealsBetweenRounds, MatchPlaysByTheRules, Balance, PayoffsCancel, TypeCorrect, PTL
   DEF Sane, PlaysByTheRules

\* In every reachable state both bots are in step with the engine: a bot that is in
\* touch would hold the engine's round, or the end of the round and its outcome, once
\* it had read what is on its way to it.
THEOREM BotsAreInStep == Spec => []Lockstep
<1>1. Lockstep /\ Lines /\ Sane /\ Sane' /\ [Next]_vars => Lockstep'
  BY LockstepInductive
<1> QED BY <1>1, LockstepInitially, LinesAreKept, EngineIsSane, PTL DEF Spec

\* What the bot that was asked holds once it has read the query.
LEMMA ReaderIsAbreast ==
  ASSUME Lockstep, Lines, Sane, pc = "wait", bot[Who].up, inbox[Who] = <<>>
  PROVE  bot[Who].skeleton \in Skeletons /\ Abreast(bot[Who], bot[Who].skeleton, Asked)
<1>1. Asked \in Seats /\ Who \in Players /\ Who = players[Asked]
  BY WhoSitsWhere DEF Who
<1>2. bot[Who].skeleton \in Skeletons
  BY <1>1 DEF Lockstep, Sound
<1>3. clock[Who] /\ messages[Asked] = <<>>
  BY DEF Lines, Lockstep
<1>4. Abreast(View(Asked), bot[Who].skeleton, Asked)
  BY <1>1, <1>3 DEF Lockstep, InTouch
<1>5. View(Asked) = FoldOf(bot[Who].skeleton, bot[Who], <<>>)
  BY <1>1, <1>3 DEF View
<1> QED BY <1>2, <1>4, <1>5, ReadsNothing

\* No runner, of any of the three skeletons, ever raises an exception on what
\* the engine sends (the branches of run that cast, index or assert).
THEOREM RunnersDoNotFail == Spec => []RunnersNeverFail
<1>1. Lockstep => RunnersNeverFail
  BY DEF Lockstep, Sound, RunnersNeverFail
<1> QED BY <1>1, BotsAreInStep, PTL

\* A bot that has read a query in the middle of a round holds the engine's round:
\* button, street, pips, stacks, cards shown and bounty, as its strategy will read them.
THEOREM BotsHoldTheRound == Spec => []BotsMirrorTheRound
<1>1. ASSUME Lockstep, Lines, Sane
      PROVE  BotsMirrorTheRound
  <2> SUFFICES ASSUME NEW p \in Players, Listening(p), InRound
               PROVE  LET own == bot[p].round_state
                      IN  /\ bot[p].active = Asked
                          /\ own.button = round_state.button /\ own.street = round_state.street
                          /\ own.pips = round_state.pips /\ own.stacks = round_state.stacks
                          /\ own.deck = round_state.street
                          /\ own.bounty = cards.bounties[Asked]
    BY DEF BotsMirrorTheRound
  <2>1. Abreast(bot[p], bot[p].skeleton, Asked)
    BY <1>1, ReaderIsAbreast DEF Listening
  <2>2. /\ bot[p].active = Asked
        /\ bot[p].round_state = Shadow(round_state, round_state.street, cards.bounties[Asked])
    BY <2>1 DEF Abreast, Knows
  <2> QED BY <2>2 DEF Shadow
<1>2. Lockstep /\ Lines /\ Sane => BotsMirrorTheRound
  BY <1>1
<1> QED BY <1>2, BotsAreInStep, LinesAreKept, EngineIsSane, PTL

\* A bot that has read the query at the end of a round has learned the payoffs, the
\* hits of the bounty and its bankroll, and saw a hand unless somebody folded.
THEOREM BotsHoldTheOutcome == Spec => []BotsLearnTheOutcome
<1>1. ASSUME Lockstep, Lines, Sane
      PROVE  BotsLearnTheOutcome
  <2> SUFFICES ASSUME NEW p \in Players, Listening(p), ~InRound
               PROVE  LET own == bot[p].round_state
                      IN  /\ own.deltas = round_state.deltas
                          /\ bot[p].bankroll = bankroll[p] + round_state.deltas[Asked]
                          /\ bot[p].round_num = round_num + 1
                          /\ \A i \in Seats : round_state.deltas[i] > 0 =>
                                own.bounty_hits[i] = round_state.bounty_hits[i]
                          /\ own.previous_state.seen <=> last_line # "folds"
    BY DEF BotsLearnTheOutcome
  <2>1. Abreast(bot[p], bot[p].skeleton, Asked) /\ p = Who /\ pc = "wait"
    BY <1>1, ReaderIsAbreast DEF Listening
  <2>2. PICK u : /\ Learned(u, round_state, last_line = "folds")
                 /\ Knows(bot[p], bot[p].skeleton, Asked, TRUE, u, bankroll[players[Asked]] + Owed(Asked),
                          round_num + 1)
    BY <2>1 DEF Abreast
  <2>3. Owed(Asked) = round_state.deltas[Asked]
    <3>1. Asked = served /\ served \in {0, 1}
      BY <1>1, <2>1 DEF Asked, Sane, Typed, Books
    <3>2. served <= served
      BY <3>1
    <3> QED BY <2>1, <3>1, <3>2 DEF Owed
  <2>4. /\ bot[p].round_state = u /\ bot[p].round_num = round_num + 1
        /\ bot[p].bankroll = bankroll[p] + round_state.deltas[Asked]
    BY <2>1, <2>2, <2>3 DEF Knows, Who
  <2>5. /\ u.deltas = round_state.deltas
        /\ \A i \in Seats : round_state.deltas[i] > 0 => u.bounty_hits[i] = round_state.bounty_hits[i]
        /\ u.previous_state.seen = ~(last_line = "folds")
    BY <2>2 DEF Learned
  <2>6. u.previous_state.seen <=> last_line # "folds"
    BY <2>5
  <2> QED BY <2>4, <2>5, <2>6
<1>2. Lockstep /\ Lines /\ Sane => BotsLearnTheOutcome
  BY <1>1
<1> QED BY <1>2, BotsAreInStep, LinesAreKept, EngineIsSane, PTL

\* An answer is judged by the engine as the rules of the bot that gave it judge it,
\* whichever skeleton the bot is built on: both have the same legal actions and bounds.
THEOREM RulesAreShared == Spec => AnswersAreJudgedAlike
<1>1. ASSUME Lockstep, Lines, Sane, Receive, InRound, bot[Who].up
      PROVE  LET answer == Head(outbox[Who]).answer
             IN  PlayOn(IF ObeysItsRules(Who, answer) THEN answer ELSE DefaultAction, messages)
  <2> DEFINE answer == Head(outbox[Who]).answer
             s == round_state
             u == bot[Who].round_state
  <2>1. pc = "wait" /\ outbox[Who] # <<>> /\ Resume(Accept(answer), messages)
    BY <1>1 DEF Receive
  <2> HIDE DEF answer
  <2>2. inbox[Who] = <<>>
    <3>1. Who \in Players /\ clock[Who]
      BY <1>1, <2>1, WhoSitsWhere DEF Lines
    <3>2. Queried(Who)
      BY <1>1, <2>1, <3>1 DEF Lines
    <3> QED BY <1>1, <2>1, <3>2 DEF Queried
  <2>3. bot[Who].skeleton \in Skeletons /\ u = Shadow(s, s.street, cards.bounties[Asked])
    BY <1>1, <2>1, <2>2, ReaderIsAbreast DEF Abreast, Knows
  <2>4. OwnRules(Who).legal = legal_actions(s) /\ OwnRules(Who).bounds = raise_bounds(s)
    <3>1. Balanced(s)
      BY <1>1, RoundIsBalanced DEF Sane
    <3>2. /\ Py!Tree!legal_actions(u) = legal_actions(s) /\ Py!Tree!raise_bounds(u) = raise_bounds(s)
          /\ Java!Tree!legalActions(u) = legal_actions(s) /\ Java!Tree!raiseBounds(u) = raise_bounds(s)
          /\ Cpp!Tree!legalActions(u) = legal_actions(s) /\ Cpp!Tree!raiseBounds(u) = raise_bounds(s)
      BY <2>3, <3>1, RulesAgree
    <3> QED BY <2>3, <3>2 DEF OwnRules, Skeletons
  <2>5. ObeysItsRules(Who, answer) = Legal(answer)
    BY <1>1, <2>4 DEF ObeysItsRules, Legal
  <2>6. PlayOn(Accept(answer), messages)
    BY <1>1, <2>1 DEF Resume, Pay
  <2> QED BY <2>5, <2>6 DEF Accept, answer
<1>2. Lockstep /\ Lines /\ Sane =>
        [Receive /\ InRound /\ bot[Who].up =>
           LET answer == Head(outbox[Who]).answer
           IN  PlayOn(IF ObeysItsRules(Who, answer) THEN answer ELSE DefaultAction, messages)]_vars
  BY <1>1
<1> QED BY <1>2, BotsAreInStep, LinesAreKept, EngineIsSane, PTL DEF AnswersAreJudgedAlike
=============================================================================
