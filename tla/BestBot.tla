-------------------------------- MODULE BestBot --------------------------------
(***************************************************************************)
(* The strategy of best_bot/player.py, the bot Game.run starts twice.  It  *)
(* chooses by regrets it keeps for every situation (key) it has been in.   *)
(*                                                                         *)
(* Free: the equity that the Monte Carlo simulation returns, the mood of   *)
(* the opponent (opponent_tendencies), and every random choice.  Regrets   *)
(* are exact, in units of 1 / Unit, where the code computes in floats.     *)
(* strategy_sum is left out: only save_cfr_data reads it, which nothing    *)
(* calls (handle_round_over has the call commented out).                   *)
(***************************************************************************)
EXTENDS BotTable

CONSTANT CsvFiles   \* what cfr_data.csv may hold at first, tables as in regret_sum

VARIABLES
  regret_sum,    \* Player.regret_sum: key -> action -> regret
  seen           \* history: the keys met so far

-----------------------------------------------------------------------------
(* What a regret is kept for: the street, the bot's cards and the board.   *)
(* File keys are split from one string when they are read back: the parts  *)
(* are strings then, and such a key is never equal to one made in a game.  *)
key == [street |-> round_state.street, hole |-> my_cards, board |-> board_cards, strings |-> FALSE]

ReadBack(k) == [k EXCEPT !.strings = TRUE]

load_cfr_data(contents) ==
  [k \in {ReadBack(written) : written \in DOMAIN contents} |-> contents[[k EXCEPT !.strings = FALSE]]]

-----------------------------------------------------------------------------
(* get_strategy.                                                           *)
RaiseBonus == Unit \div 5

\* Mutant: no inclination to raise.
Inclined_not(regrets) == regrets

Inclined(regrets) ==
  [a \in DOMAIN regrets |-> IF a = "Raise" THEN regrets[a] + RaiseBonus ELSE regrets[a]]

\* The entry of a known key is extended and inclined in place; an unknown one is
\* looked at through a dictionary of zeros that is thrown away.
Known ==
  LET zeros == [a \in legal |-> 0]
  IN  IF key \in DOMAIN regret_sum THEN WithDefaults(regret_sum[key], zeros) ELSE zeros

Regrets == Inclined(Known)
Stored == IF key \in DOMAIN regret_sum THEN Regrets ELSE Known

\* The legal actions of positive weight.  The sum that weights are divided by is over
\* all actions of the entry; when no regret is positive the legal ones weigh the same.
Weighted ==
  IF \E a \in DOMAIN Regrets : Regrets[a] > 0 THEN {a \in legal : Regrets[a] > 0} ELSE legal

\* random.choices, or the default fold when there is nothing to choose from.
Choices == IF Weighted = {} THEN {"Fold"} ELSE Weighted

-----------------------------------------------------------------------------
(* get_action.                                                             *)
PotSize == 2 * STARTING_STACK - round_state.stacks[0] - round_state.stacks[1]

Regret(action, equity) ==
  CASE action = "Call" -> equity - (Unit \div (PotSize + BIG_BLIND)) * PotSize
    [] action = "Raise" -> equity - 6 * (Unit \div 10)
    [] action \in {"Check", "Fold"} -> -equity

\* Mutant: the size is not kept within the bounds.
dynamic_raise_amount_unbounded(aggression) == (PotSize * min(7 * (Unit \div 2), aggression)) \div Unit

\* A part of the pot, kept within the bounds; int() cuts the fraction off.
dynamic_raise_amount(aggression) ==
  LET bounds == Tree!raise_bounds(round_state)
  IN  max(bounds[1], min((PotSize * min(7 * (Unit \div 2), aggression)) \div Unit, bounds[2]))

\* base_aggression after both looks at the tendencies of the opponent.
Aggressions(equity) == {5 * equity, 4 * equity, 10 * equity, 8 * equity}

Answers(chosen, equity) ==
  IF chosen = "Raise" THEN {RaiseAction(dynamic_raise_amount(g)) : g \in Aggressions(equity)}
  ELSE {a \in {CheckAction, FoldAction, CallAction} : a.type = chosen}

\* For each legal action; an entry is made for a key or an action that has none.
update_regret_sum(equity) ==
  Put(regret_sum, key,
      [a \in DOMAIN Stored |-> Stored[a] + (IF a \in legal THEN Regret(a, equity) ELSE 0)])

get_action(equity) ==
  /\ regret_sum' = update_regret_sum(equity)
  /\ seen' = seen \cup {key}
  /\ \E chosen \in Choices : \E answer \in Answers(chosen, equity) : Answer(answer)

-----------------------------------------------------------------------------
BestInit == regret_sum \in {load_cfr_data(contents) : contents \in CsvFiles} /\ seen = {}

BestActs ==
  /\ HerosTurn
  /\ \E equity \in Equities : get_action(equity)
  /\ UNCHANGED <<cards, seat, round_num, up>>

\* handle_round_over has nothing that could fail.
BestNextRound == NextRound(TRUE) /\ UNCHANGED <<regret_sum, seen>>

-----------------------------------------------------------------------------
(* Properties of the bot while it sits at the table, see Bots.             *)
\* The inclination to raise is a certainty: in a situation that is new to the bot it
\* raises whenever it may (get_strategy with all regrets at zero).
RaisesWhenNew ==
  HerosTurn /\ key \notin seen /\ "Raise" \in legal =>
    InRound' /\ round_state'.pips[seat] > round_state.pips[1 - seat]
=============================================================================
