--------------------------------- MODULE Match ---------------------------------
(***************************************************************************)
(* A whole match: the engine (Game.run, Game.run_round and Player.query of *)
(* engine.py) against two bot processes, which may answer anything, answer *)
(* late, or die, over one socket each.  A bot is built on one of the three *)
(* skeletons: Runner, JavaRunner or CppRunner.                             *)
(*                                                                         *)
(* round_state and cards are those of BettingRound, which the match is     *)
(* shown to implement: the other variables are what it takes to get there. *)
(*                                                                         *)
(* The engine is one thread.  Its steps end where it can be overtaken by a *)
(* bot: before a query is sent and while it waits for the answer.          *)
(***************************************************************************)
EXTENDS BettingRound, Sequences

CONSTANTS
  Players,           \* the two Player objects
  FirstOrder,        \* their order in Game.run: [Seats -> Players]
  Lineups,           \* what they may be built on: functions [Players -> Skeletons]
  NUM_ROUNDS,
  ROUNDS_PER_BOUNTY, \* bounties are drawn anew every so many rounds
  Answers            \* what a bot may answer in a round: actions, legal or not, or garbage

Skeletons == {"python", "java", "cpp"}

\* With one round per bounty no bounty would ever be drawn (n % 1 is never 1), and
\* the first announcement of the placeholder -1 would end the engine.
ASSUME MatchAssumption ==
  /\ FirstOrder \in [Seats -> Players]
  /\ FirstOrder[0] # FirstOrder[1]
  /\ Players = {FirstOrder[0], FirstOrder[1]}
  /\ Lineups \subseteq [Players -> Skeletons]
  /\ NUM_ROUNDS \in Nat \ {0}
  /\ ROUNDS_PER_BOUNTY \in Nat \ {0, 1}

VARIABLES
  pc,            \* where the engine is: see Phases
  round_num,     \* Game.run
  players,       \* Game.run: who sits where, [Seats -> Players]
  bankroll,      \* Player.bankroll
  clock,         \* Player.game_clock > 0
  connected,     \* Player.socketfile is not None
  served,        \* how many players run_round has asked for an ack and paid, or
                 \* Game.run has stopped, in seat order
  messages,      \* Game.player_messages, without the T clause each starts with
  last_line,     \* Game.log[-1]: "folds" if it ends so
  inbox,         \* lines on their way to each bot
  outbox,        \* lines on their way to the engine, each with the query it answers
  bot            \* the bots, records as described in Runner

engine == <<pc, round_num, players, bankroll, clock, connected, round_state, cards,
            served, messages, last_line>>
vars == <<pc, round_num, players, bankroll, clock, connected, round_state, cards,
          served, messages, last_line, inbox, outbox, bot>>

Py == INSTANCE Runner
Java == INSTANCE JavaRunner
Cpp == INSTANCE CppRunner
Clause(t, v) == Py!Clause(t, v)

\* A bot built on a skeleton when it starts, and once it has handled a line.
BotStart(skeleton) ==
  CASE skeleton = "python" -> Py!Start
    [] skeleton = "java" -> Java!Start
    [] skeleton = "cpp" -> Cpp!Start

HandlePacket(b, packet) ==
  CASE b.skeleton = "python" -> Py!HandlePacket(b, packet)
    [] b.skeleton = "java" -> Java!HandlePacket(b, packet)
    [] b.skeleton = "cpp" -> Cpp!HandlePacket(b, packet)

\* ask: query is about to look at the clock; wait: it is in readline; paid: both
\* players were paid for the round; stop: Player.stop is about to write Q; quit:
\* it waits for the process; done: the game log is written.
Phases == {"ask", "wait", "paid", "stop", "quit", "done"}

Asked == IF InRound THEN active(round_state) ELSE served   \* the seat being queried
Who == players[Asked]

OverStreet == 6   \* no street: the round is over

\* Identifies the query, so that an answer can be told from an answer to another.
Query == IF InRound THEN <<round_num, round_state.street, round_state.button>>
                    ELSE <<round_num, OverStreet, served>>

-----------------------------------------------------------------------------
(* What the engine tells the players.                                      *)
ToBoth(log, clause) == [i \in Seats |-> Append(log[i], clause)]

Introduction(deal) ==
  [i \in Seats |-> <<Clause("P", i), Clause("H", 0), Clause("G", deal.bounties[i])>>]

\* Mutant: the turn and the river are not announced.
log_round_state_flop_only(s, log) ==
  IF s.street = 3 /\ s.button = 1 THEN ToBoth(log, Clause("B", s.street)) ELSE log

\* The board is announced when a street opens.
log_round_state(s, log) ==
  IF s.street > 0 /\ s.button = 1 THEN ToBoth(log, Clause("B", s.street)) ELSE log

Code(action) ==
  CASE action.type = "Fold" -> Clause("F", 0)
    [] action.type = "Call" -> Clause("C", 0)
    [] action.type = "Check" -> Clause("K", 0)
    [] action.type = "Raise" -> Clause("R", action.amount)

log_action(action, log) == ToBoth(log, Code(action))

\* Mutant: the hands are shown whether or not somebody folded.
log_terminal_state_always_shows(t, folded, log) ==
  [i \in Seats |-> log[i] \o <<Clause("O", 0), Clause("D", t.deltas[i]),
                              Clause("Y", Pair("0", "0"))>>]

\* The loser's hit is masked; each player reads its own hit first.
hit_chars(t) ==
  [i \in Seats |-> IF t.deltas[1 - i] > 0 THEN "#"
                   ELSE IF t.bounty_hits[i] THEN "1" ELSE "0"]

log_terminal_state(t, folded, log) ==
  [i \in Seats |->
     log[i] \o (IF folded THEN <<>> ELSE <<Clause("O", 0)>>)
            \o <<Clause("D", t.deltas[i]),
                 Clause("Y", Pair(hit_chars(t)[i], hit_chars(t)[1 - i]))>>]

-----------------------------------------------------------------------------
Init ==
  /\ pc = "ask"
  /\ round_num = 1
  /\ players = FirstOrder
  /\ bankroll = [p \in Players |-> 0]
  /\ clock = [p \in Players |-> TRUE]
  /\ connected \in [Players -> BOOLEAN]
  /\ RoundsInit
  /\ served = 0
  /\ messages = Introduction(cards)
  /\ last_line = "other"
  /\ inbox = [p \in Players |-> <<>>]
  /\ outbox = [p \in Players |-> <<>>]
  /\ \E built \in Lineups :
       bot = [p \in Players |-> [BotStart(built[p]) EXCEPT !.up = connected[p]]]

\* Mutant: the bounties stay with the seats when the players change them.
KeepBounties_in_seats(old, new) == new = old

\* players and bounties are reversed together.
KeepBounties(old, new) == \A i \in Seats : new[i] = old[1 - i]

\* Game.run: the players change seats, new bounties are drawn when it is time,
\* and run_round deals.
StartRound ==
  /\ pc = "paid"
  /\ round_num < NUM_ROUNDS
  /\ pc' = "ask"
  /\ round_num' = round_num + 1
  /\ players' = [i \in Seats |-> players[1 - i]]
  /\ cards' \in Deals
  /\ round_num' % ROUNDS_PER_BOUNTY # 1 => KeepBounties(cards.bounties, cards'.bounties)
  /\ round_state' = InitialState
  /\ served' = 0
  /\ messages' = Introduction(cards')
  /\ last_line' = "other"
  /\ UNCHANGED <<bankroll, clock, connected, inbox, outbox, bot>>

EndMatch ==
  /\ pc = "paid"
  /\ round_num = NUM_ROUNDS
  /\ pc' = "stop"
  /\ players' = [i \in Seats |-> players[1 - i]]
  /\ served' = 0
  /\ UNCHANGED <<round_num, bankroll, clock, connected, round_state, cards, messages,
                 last_line, inbox, outbox, bot>>

-----------------------------------------------------------------------------
(* Player.query, and what run_round does with its result.  log is the      *)
(* message log left by the query.                                          *)
DefaultAction == IF InRound /\ "Check" \notin legal_actions(round_state) THEN FoldAction
                                                                        ELSE CheckAction

\* Mutant: seat 1's player is paid what seat 0's player won.
Payment_same == round_state.deltas[0]

Payment == round_state.deltas[Asked]

\* run_round carries on with the action the query came back with.
PlayOn(action, log) ==
  LET s == proceed(round_state, cards, action)
      told == log_action(action, log)
  IN  /\ InRound
      /\ round_state' = s
      /\ last_line' = IF action.type = "Fold" THEN "folds" ELSE "other"
      /\ messages' = IF s.type = "round" THEN log_round_state(s, told)
                                         ELSE log_terminal_state(s, last_line' = "folds", told)
      /\ pc' = "ask"
      /\ UNCHANGED <<bankroll, served>>

\* After the ack, or the lack of one, the player is paid and the next one asked.
Pay(log) ==
  /\ ~InRound
  /\ bankroll' = [bankroll EXCEPT ![Who] = @ + Payment]
  /\ served' = served + 1
  /\ pc' = IF served = 0 THEN "ask" ELSE "paid"
  /\ messages' = log
  /\ UNCHANGED <<round_state, last_line>>

Resume(action, log) == PlayOn(action, log) \/ Pay(log)

\* Mutant: running out of time is logged, the clock is left alone.
RunOut_logged_only == UNCHANGED clock

\* "ran out of time" and "disconnected" both stop the player's clock.
RunOut == clock' = [clock EXCEPT ![Who] = FALSE]

\* Neither a connection nor time left: the bot is not asked and not told.
SkipQuery ==
  /\ pc = "ask"
  /\ ~connected[Who] \/ ~clock[Who]
  /\ Resume(DefaultAction, messages)
  /\ UNCHANGED <<round_num, players, clock, connected, cards, inbox, outbox, bot>>

Send ==
  /\ pc = "ask"
  /\ connected[Who] /\ clock[Who]
  /\ inbox' = [inbox EXCEPT ![Who] = Append(@, [clauses |-> messages[Asked], query |-> Query])]
  /\ messages' = [messages EXCEPT ![Asked] = <<>>]
  /\ pc' = "wait"
  /\ UNCHANGED <<round_num, players, bankroll, clock, connected, round_state, cards, served,
                 last_line, outbox, bot>>

\* The bot is gone and the write raises OSError: the history was already deleted.
SendFails ==
  /\ pc = "ask"
  /\ connected[Who] /\ clock[Who]
  /\ ~bot[Who].up
  /\ RunOut
  /\ Resume(DefaultAction, [messages EXCEPT ![Asked] = <<>>])
  /\ UNCHANGED <<round_num, players, connected, cards, inbox, outbox, bot>>

\* An answer the engine can read and the round allows.
Legal(answer) ==
  IF ~InRound THEN answer.type = "Check"
  ELSE /\ answer.type \in legal_actions(round_state)
       /\ answer.type = "Raise" =>
            answer.amount \in raise_bounds(round_state)[1] .. raise_bounds(round_state)[2]

\* Mutant: an illegal raise is logged and then executed all the same.
Accept_illegal(answer) == IF answer.type \in ActionTypes THEN answer ELSE DefaultAction

Accept(answer) == IF Legal(answer) THEN answer ELSE DefaultAction

\* An answer arrived within the time that was left.
Receive ==
  /\ pc = "wait"
  /\ outbox[Who] # <<>>
  /\ Resume(Accept(Head(outbox[Who]).answer), messages)
  /\ outbox' = [outbox EXCEPT ![Who] = Tail(@)]
  /\ UNCHANGED <<round_num, players, clock, connected, cards, inbox, bot>>

\* An answer arrived, but by then the game clock had run out: it is dropped.
ReceiveTooLate ==
  /\ pc = "wait"
  /\ outbox[Who] # <<>>
  /\ RunOut
  /\ Resume(DefaultAction, messages)
  /\ outbox' = [outbox EXCEPT ![Who] = Tail(@)]
  /\ UNCHANGED <<round_num, players, connected, cards, inbox, bot>>

\* Mutant: the socket has no timeout.
SocketTimeout_never == pc = "never" /\ UNCHANGED vars

\* readline raises socket.timeout after CONNECT_TIMEOUT without a line.
SocketTimeout ==
  /\ pc = "wait"
  /\ outbox[Who] = <<>>
  /\ RunOut
  /\ Resume(DefaultAction, messages)
  /\ UNCHANGED <<round_num, players, connected, cards, inbox, outbox, bot>>

\* The bot closed the connection: readline returns an empty line, clause[0]
\* raises IndexError and the response counts as misformatted.
ReadEOF ==
  /\ pc = "wait"
  /\ outbox[Who] = <<>>
  /\ ~bot[Who].up
  /\ Resume(DefaultAction, messages)
  /\ UNCHANGED <<round_num, players, clock, connected, cards, inbox, outbox, bot>>

\* The connection was reset: readline raises OSError, what was in flight is lost.
ReadReset ==
  /\ pc = "wait"
  /\ ~bot[Who].up
  /\ RunOut
  /\ outbox' = [outbox EXCEPT ![Who] = <<>>]
  /\ Resume(DefaultAction, messages)
  /\ UNCHANGED <<round_num, players, connected, cards, inbox, bot>>

\* Player.stop, in seat order: Q is written,
Stop ==
  /\ pc = "stop"
  /\ inbox' = IF connected[players[served]]
              THEN [inbox EXCEPT ![players[served]] =
                      Append(@, [clauses |-> <<Clause("Q", 0)>>, query |-> <<>>])]
              ELSE inbox
  /\ pc' = "quit"
  /\ UNCHANGED <<round_num, players, bankroll, clock, connected, round_state, cards, served,
                 messages, last_line, outbox, bot>>

\* and the process is awaited, or killed when it does not quit in time.
Quit ==
  /\ pc = "quit"
  /\ bot' = [bot EXCEPT ![players[served]].up = FALSE]
  /\ served' = served + 1
  /\ pc' = IF served = 0 THEN "stop" ELSE "done"
  /\ UNCHANGED <<round_num, players, bankroll, clock, connected, round_state, cards,
                 messages, last_line, inbox, outbox>>

Engine ==
  \/ StartRound \/ EndMatch \/ SkipQuery \/ Send \/ SendFails \/ Receive \/ ReceiveTooLate
  \/ SocketTimeout \/ ReadEOF \/ ReadReset \/ Stop \/ Quit

-----------------------------------------------------------------------------
(* The bots.                                                               *)
\* The runner reads a line, updates its game and answers: an ack after a round,
\* whatever the bot's get_action returns in a round, nothing after Q or a failure.
Handle(p) ==
  /\ bot[p].up
  /\ inbox[p] # <<>>
  /\ LET b == HandlePacket(bot[p], Head(inbox[p]).clauses)
     IN  /\ bot' = [bot EXCEPT ![p] = b]
         /\ IF ~b.up THEN UNCHANGED outbox
            ELSE \E answer \in IF b.round_flag THEN {CheckAction} ELSE Answers :
                   outbox' = [outbox EXCEPT ![p] =
                                Append(@, [answer |-> answer, query |-> Head(inbox[p]).query])]
  /\ inbox' = [inbox EXCEPT ![p] = Tail(@)]
  /\ UNCHANGED engine

\* The process of a bot dies at any time, from an exception of the player say.
Crash(p) ==
  /\ bot[p].up
  /\ bot' = [bot EXCEPT ![p].up = FALSE]
  /\ UNCHANGED <<pc, round_num, players, bankroll, clock, connected, round_state, cards,
                 served, messages, last_line, inbox, outbox>>

Done == pc = "done" /\ UNCHANGED vars

Next ==
  \/ Engine
  \/ \E p \in Players : Handle(p) \/ Crash(p)
  \/ Done

\* The engine is a sequential program whose every wait has a timeout; nothing is
\* assumed of the bots.
Spec == Init /\ [][Next]_vars
FairSpec == Spec /\ WF_vars(Engine)

-----------------------------------------------------------------------------
(* Properties.                                                             *)
\* The engine's books are well typed, and the round it plays is well formed
\* whatever the bots answer: query lets no raise through that proceed would turn
\* into a negative stack.
TypeOK ==
  /\ pc \in Phases
  /\ round_num \in 1 .. NUM_ROUNDS
  /\ players \in [Seats -> Players] /\ players[0] # players[1]
  /\ bankroll \in [Players -> Int]
  /\ clock \in [Players -> BOOLEAN] /\ connected \in [Players -> BOOLEAN]
  /\ served \in 0 .. 2
  /\ RoundTypeOK

\* The clauses a bot receives never make its runner fail: no assertion on whose
\* turn it is, no payoff before the end of a round, no action after it, although
\* queries are skipped, defaulted and overruled.
RunnersNeverFail == \A p \in Players : ~bot[p].failed

\* A bot that has read what it was sent holds the engine's round: street, turn,
\* pips, stacks, board and its own bounty.
Listening(p) == bot[p].up /\ inbox[p] = <<>> /\ pc = "wait" /\ p = Who

BotsMirrorTheRound ==
  \A p \in Players : Listening(p) /\ InRound =>
    LET own == bot[p].round_state
    IN  /\ bot[p].active = Asked
        /\ own.button = round_state.button /\ own.street = round_state.street
        /\ own.pips = round_state.pips /\ own.stacks = round_state.stacks
        /\ own.deck = round_state.street
        /\ own.bounty = cards.bounties[Asked]

\* The same of the end of a round: payoff, bankroll, number of the next round and
\* the winner's hit agree, and the hand of the opponent is known after a showdown
\* and only then.
BotsLearnTheOutcome ==
  \A p \in Players : Listening(p) /\ ~InRound =>
    LET own == bot[p].round_state
    IN  /\ own.deltas = round_state.deltas
        /\ bot[p].bankroll = bankroll[p] + round_state.deltas[Asked]
        /\ bot[p].round_num = round_num + 1
        /\ \A i \in Seats : round_state.deltas[i] > 0 =>
              own.bounty_hits[i] = round_state.bounty_hits[i]
        /\ own.previous_state.seen <=> last_line # "folds"

\* What a bot may do, by the legal actions and raise bounds its skeleton computes.
OwnRules(p) ==
  LET s == bot[p].round_state
      skeleton == bot[p].skeleton
  IN  CASE skeleton = "python" -> [legal |-> Py!Tree!legal_actions(s), bounds |-> Py!Tree!raise_bounds(s)]
        [] skeleton = "java" -> [legal |-> Java!Tree!legalActions(s), bounds |-> Java!Tree!raiseBounds(s)]
        [] skeleton = "cpp" -> [legal |-> Cpp!Tree!legalActions(s), bounds |-> Cpp!Tree!raiseBounds(s)]

ObeysItsRules(p, answer) ==
  /\ answer.type \in OwnRules(p).legal
  /\ answer.type = "Raise" => answer.amount \in OwnRules(p).bounds[1] .. OwnRules(p).bounds[2]

\* Engine and skeletons judge an answer alike: one that reaches the engine in time
\* is executed when the bot's own game tree allows it, and overruled otherwise.
AnswersAreJudgedAlike ==
  [][ Receive /\ InRound /\ bot[Who].up =>
        LET answer == Head(outbox[Who]).answer
        IN  PlayOn(IF ObeysItsRules(Who, answer) THEN answer ELSE DefaultAction, messages) ]_vars

\* The engine never takes the answer to one query for the answer to another, which
\* a line that arrives after its query was given up would be.
AnswersAreCurrent ==
  [][ Receive \/ ReceiveTooLate => Head(outbox[Who]).query = Query ]_vars

\* Chips only change hands: at every step the two bankrolls and what is still to
\* be paid for the round cancel out.
Unpaid == IF InRound \/ pc \in {"paid", "stop", "quit", "done"} THEN 0
          ELSE IF served = 0 THEN round_state.deltas[0] + round_state.deltas[1]
          ELSE round_state.deltas[1]

ChipsChangeHands ==
  bankroll[FirstOrder[0]] + bankroll[FirstOrder[1]] + Unpaid = 0

\* While rounds are played nothing gives a player, in whichever seat, another bounty but
\* the start of a round that has a draw (Game.run).
BountyStaysWithPlayer ==
  [][ pc' \in {"ask", "wait", "paid"} =>
        \A i, j \in Seats :
          players'[i] = players[j] /\ cards'.bounties[i] # cards.bounties[j] =>
            round_num' # round_num /\ round_num' % ROUNDS_PER_BOUNTY = 1 ]_vars

\* The match comes to its end whatever the bots do.
MatchEnds == <>(pc = "done")

\* What the rules allow is all that happens in a match.
PlaysByTheRules == RoundsSpec

-----------------------------------------------------------------------------
(* Statements of the documentation that the code does not keep.            *)

\* engine.py:392 "Bot disconnections or timeouts result in game clock being set
\* to 0".
DisconnectionStopsClock == [][ReadEOF => ~clock'[Who]]_vars

\* engine.py:48 "only winning player bounty hit is revealed (or both if split pot)".
SplitPotRevealsBothHits ==
  ~InRound /\ last_line # "folds" /\ cards.best = 2 =>
    \A i \in Seats : hit_chars(round_state)[i] # "#"
=============================================================================
