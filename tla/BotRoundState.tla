---------------------------- MODULE BotRoundState ----------------------------
(***************************************************************************)
(* The game tree as a bot keeps it: skeleton/states.py, the same file in   *)
(* python_skeleton, best_bot, pickle_bot and player_chatbot.  It is a copy *)
(* of the engine's RoundState that knows one hand, learns the board from   *)
(* the engine and leaves payoffs and hand ranking to it.                   *)
(*                                                                         *)
(*   s  [type |-> "round", button, street, pips, stacks, deck, bounty,     *)
(*      seen]: deck is the number of board cards received, bounty the      *)
(*      bot's own rank, seen whether the opponent's hand is known.         *)
(***************************************************************************)
EXTENDS Integers

CONSTANTS STARTING_STACK, BIG_BLIND, SMALL_BLIND   \* written out in states.py

Both(a, b) == [i \in {0, 1} |-> IF i = 0 THEN a ELSE b]
Least(a, b) == IF a <= b THEN a ELSE b
Most(a, b) == IF a >= b THEN a ELSE b

\* What the runner builds when a hand is announced.
NewRound ==
  [type |-> "round", button |-> 0, street |-> 0,
   pips |-> Both(SMALL_BLIND, BIG_BLIND),
   stacks |-> Both(STARTING_STACK - SMALL_BLIND, STARTING_STACK - BIG_BLIND),
   deck |-> 0, bounty |-> "none", seen |-> FALSE]

TerminalState(deltas, hits, s) ==
  [type |-> "terminal", deltas |-> deltas, bounty_hits |-> hits, previous_state |-> s]

NoHits == Both(FALSE, FALSE)     \* the code's None: not told yet

active(s) == s.button % 2
continue_cost(s) == s.pips[1 - active(s)] - s.pips[active(s)]

legal_actions(s) ==
  LET a == active(s)
      bets_forbidden == s.stacks[0] = 0 \/ s.stacks[1] = 0
      raises_forbidden == continue_cost(s) = s.stacks[a] \/ s.stacks[1 - a] = 0
  IN  CASE continue_cost(s) = 0 /\ bets_forbidden -> {"Check", "Fold"}
        [] continue_cost(s) = 0 /\ ~bets_forbidden -> {"Check", "Raise", "Fold"}
        [] continue_cost(s) # 0 /\ raises_forbidden -> {"Fold", "Call"}
        [] continue_cost(s) # 0 /\ ~raises_forbidden -> {"Fold", "Call", "Raise"}

\* Mutant: the minimum raise forgets the chips needed to call.
raise_bounds_without_call(s) ==
  LET a == active(s)
      cost == continue_cost(s)
      max_contribution == Least(s.stacks[a], s.stacks[1 - a] + cost)
  IN  <<s.pips[a] + Least(max_contribution, Most(cost, BIG_BLIND)), s.pips[a] + max_contribution>>

raise_bounds(s) ==
  LET a == active(s)
      cost == continue_cost(s)
      max_contribution == Least(s.stacks[a], s.stacks[1 - a] + cost)
      min_contribution == Least(max_contribution, cost + Most(cost, BIG_BLIND))
  IN  <<s.pips[a] + min_contribution, s.pips[a] + max_contribution>>

\* At showdown the payoffs are left to the engine.
proceed_street(s) ==
  IF s.street = 5 THEN TerminalState(Both(0, 0), NoHits, s)
  ELSE [s EXCEPT !.button = 1,
                 !.street = IF s.street = 0 THEN 3 ELSE s.street + 1,
                 !.pips = Both(0, 0)]

Contribute(s, chips) ==
  [s EXCEPT !.button = s.button + 1,
            !.stacks[active(s)] = @ - chips,
            !.pips[active(s)] = @ + chips]

\* The hits the code notes here are forgotten when the D clause arrives.
fold(s) ==
  LET delta == IF active(s) = 0 THEN s.stacks[0] - STARTING_STACK ELSE STARTING_STACK - s.stacks[1]
  IN  TerminalState(Both(delta, -delta), NoHits, s)

\* Mutant: a call of the small blind closes the street for the bot.
call_closes_blinds(s) == proceed_street(Contribute(s, continue_cost(s)))

call(s) ==
  IF s.button = 0
  THEN [s EXCEPT !.button = 1,
                 !.pips = Both(BIG_BLIND, BIG_BLIND),
                 !.stacks = Both(STARTING_STACK - BIG_BLIND, STARTING_STACK - BIG_BLIND)]
  ELSE proceed_street(Contribute(s, continue_cost(s)))

\* Mutant: the big blind has no option after a call.
check_without_option(s) ==
  IF s.button > 1 THEN proceed_street(s) ELSE [s EXCEPT !.button = s.button + 1]

check(s) ==
  IF (s.street = 0 /\ s.button > 0) \/ s.button > 1
  THEN proceed_street(s)
  ELSE [s EXCEPT !.button = s.button + 1]

raise_to(s, amount) == Contribute(s, amount - s.pips[active(s)])

proceed(s, code, amount) ==
  CASE code = "F" -> fold(s)
    [] code = "C" -> call(s)
    [] code = "K" -> check(s)
    [] code = "R" -> raise_to(s, amount)
=============================================================================
