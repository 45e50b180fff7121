------------------------------- MODULE PickleBot -------------------------------
(***************************************************************************)
(* The strategy of pickle_bot/player.py.  Like BestBot it keeps regrets    *)
(* for situations, but chooses before it updates them, looks at the legal  *)
(* actions only, knows its bounty, and remembers equities.                 *)
(*                                                                         *)
(* Left out: the statistics over the opponent, which nothing updates (the  *)
(* factors of dynamic_raise_amount stay 1.0); strategy_sum, which nothing  *)
(* reads; the pruning of get_strategy, which needs more than a thousand    *)
(* decisions within one round.                                             *)
(***************************************************************************)
EXTENDS BotTable

CONSTANT PickleFiles   \* what cfr_data.pkl may hold at first, tables as in regret_sum

VARIABLES
  regret_sum,    \* Player.regret_sum: key -> action -> regret
  equities       \* the cache of cached_equity: hole cards and board -> equity

key == [street |-> round_state.street, hole |-> my_cards, board |-> board_cards,
        bounty |-> cards.bounties[seat]]

bounty_hit == cards.bounties[seat] \in my_cards \cup board_cards

\* self.regret_sum.get(state_key, {}).get(a, 0)
RegretOf(a) == IF key \in DOMAIN regret_sum /\ a \in DOMAIN regret_sum[key] THEN regret_sum[key][a] ELSE 0

\* get_strategy: the legal actions of positive weight.
Weighted == IF \E a \in legal : RegretOf(a) > 0 THEN {a \in legal : RegretOf(a) > 0} ELSE legal

-----------------------------------------------------------------------------
(* get_action.  The pot is only what was bet on this street.               *)
pot_size == round_state.pips[0] + round_state.pips[1]

\* Mutant: a bounty that was hit adds nothing to the regrets.
fixed_bonus_none == 0

\* 10 / (pot_size + 1e-6): ten millions when nothing was bet, here a thousand, which
\* is still more than the regrets of a round.
fixed_bonus ==
  CASE ~bounty_hit -> 0
    [] bounty_hit /\ pot_size = 0 -> 1000 * Unit
    [] bounty_hit /\ pot_size > 0 -> (10 * Unit) \div pot_size

Regret(action, equity) ==
  LET value == IF bounty_hit THEN (3 * equity) \div 2 ELSE equity
  IN  CASE action = "Raise" -> value - 6 * (Unit \div 10) + fixed_bonus
        [] action = "Call" -> value - (Unit \div (pot_size + BIG_BLIND)) * pot_size + fixed_bonus
        [] action \in {"Check", "Fold"} -> -value

\* Mutant: the size is cut off at the largest raise only.
dynamic_raise_amount_no_minimum(equity) ==
  min((pot_size * min(7 * (Unit \div 2), equity * (IF bounty_hit THEN 7 ELSE 5))) \div Unit,
      Tree!raise_bounds(round_state)[2])

dynamic_raise_amount(equity) ==
  LET bounds == Tree!raise_bounds(round_state)
      aggression == equity * (IF bounty_hit THEN 7 ELSE 5)
  IN  max(bounds[1], min((pot_size * min(7 * (Unit \div 2), aggression)) \div Unit, bounds[2]))

\* calculate_equity: simulated once for the same cards.
situation == [hole |-> my_cards, board |-> board_cards]
EquitiesNow == IF situation \in DOMAIN equities THEN {equities[situation]} ELSE Equities

get_action(equity) ==
  /\ equities' = PutNew(equities, situation, equity)
  /\ regret_sum' = Put(regret_sum, key,
                       WithDefaults([a \in legal |-> RegretOf(a) + Regret(a, equity)],
                                    IF key \in DOMAIN regret_sum THEN regret_sum[key] ELSE <<>>))
  /\ \E chosen \in Weighted :
       Answer(IF chosen = "Raise" THEN RaiseAction(dynamic_raise_amount(equity))
              ELSE CHOOSE a \in {CheckAction, FoldAction, CallAction} : a.type = chosen)

-----------------------------------------------------------------------------
\* load_cfr_data: a pickled table comes back as it was saved, keys included.
PickleInit == regret_sum \in PickleFiles /\ equities = <<>>

PickleActs ==
  /\ HerosTurn
  /\ \E equity \in EquitiesNow : get_action(equity)
  /\ UNCHANGED <<cards, seat, round_num, up>>

\* handle_round_over reads terminal_state.is_split, which no TerminalState has: the
\* bot ends with an AttributeError, before it has saved anything.
PickleNextRound == NextRound(FALSE) /\ UNCHANGED <<regret_sum, equities>>

-----------------------------------------------------------------------------
\* A bot that has hit its bounty and checked answers a bet on the same street with a
\* raise whenever it may: the bonus for an empty pot outweighs all other regrets, and
\* calling has none yet (player.py:158, with the pot counted from zero on every street).
OnlyChecked == key \in DOMAIN regret_sum /\ DOMAIN regret_sum[key] = {"Check", "Raise", "Fold"}

RaisesAfterCheck ==
  HerosTurn /\ bounty_hit /\ OnlyChecked /\ "Raise" \in legal /\ continue_cost(round_state) > 0 =>
    InRound' /\ round_state'.pips[seat] > round_state.pips[1 - seat]
=============================================================================
