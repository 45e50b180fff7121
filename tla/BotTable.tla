------------------------------- MODULE BotTable -------------------------------
(***************************************************************************)
(* What the bots have in common: one of them plays a few rounds of         *)
(* BettingRound against an opponent that does anything legal, and changes  *)
(* its seat after every round.  Each bot is a module of its own; Bots puts *)
(* any one of them at the table.                                           *)
(***************************************************************************)
EXTENDS BettingRound

CONSTANTS
  Unit,          \* the number that stands for 1.0 where a bot computes in floats
  Equities,      \* what a simulation of the hand may return, in units
  MAX_ROUNDS     \* bound: rounds considered

\* An equity is a fraction of simulations; the unit makes pot odds and bonuses exact.
ASSUME BotTableAssumption ==
  /\ Unit \in Nat \ {0} /\ Unit % 10 = 0
  /\ \A pot \in SMALL_BLIND .. 2 * STARTING_STACK :
       Unit % (pot + BIG_BLIND) = 0 /\ (10 * Unit) % pot = 0
  /\ Equities \subseteq 0 .. Unit
  /\ MAX_ROUNDS \in Nat \ {0}

VARIABLES
  seat,          \* active of get_action: where the bot sits
  round_num,     \* Game.run
  up             \* whether the bot's process is running

tableVars == <<round_state, cards, seat, round_num, up>>

Tree == INSTANCE BotRoundState

\* Dictionaries are functions of their keys: d[k] = v, d.setdefault(k, v), and d with the
\* entries of e for the keys it lacks.
Put(d, k, v) == [x \in DOMAIN d \cup {k} |-> IF x = k THEN v ELSE d[x]]
PutNew(d, k, v) == IF k \in DOMAIN d THEN d ELSE Put(d, k, v)
WithDefaults(d, e) == [x \in DOMAIN d \cup DOMAIN e |-> IF x \in DOMAIN d THEN d[x] ELSE e[x]]

TableInit ==
  /\ RoundsInit
  /\ seat \in Seats
  /\ round_num = 1
  /\ up = TRUE

\* The locals get_action begins with: legal_actions, my_cards and board_cards.
legal == Tree!legal_actions(round_state)
my_cards == cards.holes[seat]
board_cards == IF round_state.street = 0 THEN {} ELSE cards.board[round_state.street]

ToAct == InRound /\ active(round_state) = seat
HerosTurn == up /\ ToAct

\* An answer, executed as it is: that it needs no overruling is a property.
Answer(action) == round_state' = proceed(round_state, cards, action)

\* An answer as Player.query lets it through.
DefaultAction == IF "Check" \in legal_actions(round_state) THEN CheckAction ELSE FoldAction

Allowed(action) ==
  /\ action.type \in legal_actions(round_state)
  /\ action.type = "Raise" =>
       action.amount \in raise_bounds(round_state)[1] .. raise_bounds(round_state)[2]

Overruled(action) == IF Allowed(action) THEN action ELSE DefaultAction

\* The engine plays for a bot that is gone.
EngineActs ==
  /\ ToAct /\ ~up
  /\ Answer(DefaultAction)
  /\ UNCHANGED <<cards, seat, round_num, up>>

VillainActs ==
  /\ InRound /\ active(round_state) # seat
  /\ Act
  /\ UNCHANGED <<seat, round_num, up>>

\* The next round, with seats exchanged: survives says whether the bot outlives its
\* own handle_round_over.
NextRound(survives) ==
  /\ round_num < MAX_ROUNDS
  /\ NextDeal
  /\ seat' = 1 - seat
  /\ round_num' = round_num + 1
  /\ up' = (up /\ survives)

Finished == ~InRound /\ round_num = MAX_ROUNDS
=============================================================================
