----------------------------- MODULE BettingRound -----------------------------
(***************************************************************************)
(* Game.run_round of engine.py seen from the rules: rounds of Bounty       *)
(* Hold'em dealt one after the other, in each of which the active player   *)
(* takes one legal action at a time.  How an answer of a bot becomes a     *)
(* legal action, or a default one, is the business of Match, which is      *)
(* shown to implement this specification.                                  *)
(***************************************************************************)
EXTENDS RoundState

CONSTANT Deals   \* the deals considered, records as described in RoundState

\* A deal has the fields of RoundState's parameter cards, and eval7 ranks one
\* hand above the other or both the same.
ASSUME DealsAssumption ==
  \A c \in Deals :
    /\ c = [holes |-> c.holes, board |-> c.board, bounties |-> c.bounties, best |-> c.best]
    /\ c.best \in {0, 1, 2}

VARIABLES
  round_state,   \* the round state, or the terminal state of the last round
  cards          \* what was shuffled and drawn for this round

roundVars == <<round_state, cards>>

RoundsInit ==
  /\ round_state = InitialState
  /\ cards \in Deals

InRound == round_state.type = "round"

Proceed(action) ==
  /\ round_state' = proceed(round_state, cards, action)
  /\ UNCHANGED cards

Fold ==
  /\ InRound
  /\ Proceed(FoldAction)

Call ==
  /\ InRound
  /\ "Call" \in legal_actions(round_state)
  /\ Proceed(CallAction)

Check ==
  /\ InRound
  /\ "Check" \in legal_actions(round_state)
  /\ Proceed(CheckAction)

Raise(amount) ==
  /\ InRound
  /\ "Raise" \in legal_actions(round_state)
  /\ Proceed(RaiseAction(amount))

RaiseLegally ==
  /\ InRound
  /\ \E amount \in raise_bounds(round_state)[1] .. raise_bounds(round_state)[2] :
       Raise(amount)

Act == Fold \/ Call \/ Check \/ RaiseLegally

\* The next iteration of Game.run deals a new round.
NextDeal ==
  /\ ~InRound
  /\ round_state' = InitialState
  /\ cards' \in Deals

RoundsNext == Act \/ NextDeal

RoundsSpec == RoundsInit /\ [][RoundsNext]_roundVars

-----------------------------------------------------------------------------
(* Properties.                                                             *)
Stakes(s) == [i \in Seats |-> STARTING_STACK - s.stacks[i]]

RoundStates ==
  [type : {"round"}, button : Nat, street : Streets,
   pips : [Seats -> Nat], stacks : [Seats -> Nat]]

TerminalStates ==
  [type : {"terminal"}, deltas : [Seats -> Int], bounty_hits : [Seats -> BOOLEAN],
   previous_state : RoundStates]

\* No player ever has a negative stack or pip, in a round or when it ends:
\* RoundState.proceed subtracts contributions without checking them.
RoundTypeOK ==
  /\ round_state \in RoundStates \cup TerminalStates
  /\ cards \in Deals

\* The player to act can always afford to call, and the bounds given to a
\* player who may raise are a non-empty range of raises above the bet it faces
\* that neither stack falls short of (legal_actions, raise_bounds).
DecisionWellFormed ==
  InRound =>
    LET s == round_state
        a == active(s)
        bounds == raise_bounds(s)
    IN  /\ continue_cost(s) \in 0 .. s.stacks[a]
        /\ "Raise" \in legal_actions(s) =>
             /\ s.pips[1 - a] < bounds[1]
             /\ bounds[1] <= bounds[2]
             /\ bounds[2] <= s.pips[a] + s.stacks[a]
             /\ bounds[2] <= s.pips[1 - a] + s.stacks[1 - a]

\* Cards are only opened, and hands only compared, when both players have the
\* same stack: the assertions of showdown and get_delta never fail, although
\* nothing in proceed_street makes the stacks equal.
EqualStakesWhenStreetCloses ==
  [][ /\ Call \/ Check
      /\ \/ round_state'.type = "terminal"
         \/ round_state'.type = "round" /\ round_state'.street # round_state.street
      => LET closed == IF round_state'.type = "round" THEN round_state'
                                                      ELSE round_state'.previous_state
         IN  closed.stacks[0] = closed.stacks[1] ]_roundVars

\* Whoever wins, by a fold or at showdown, gains at least what the loser put in,
\* whichever bounties were hit; a split pot only pays a player whose bounty was
\* hit while the opponent's was not (get_delta, proceed, showdown).
PayoffsFollowTheOutcome ==
  [][ InRound /\ round_state'.type = "terminal" =>
        LET a == active(round_state)
            winner == IF Fold THEN 1 - a ELSE cards.best
            stake == Stakes(round_state'.previous_state)
            gain == round_state'.deltas
            hit == round_state'.bounty_hits
        IN  /\ winner # 2 => gain[winner] >= stake[1 - winner]
            /\ winner = 2 => \A i \in Seats : gain[i] > 0 => hit[i] /\ ~hit[1 - i] ]_roundVars

\* Without luck of the cards the seats are alike: exchanging the seats of the
\* outcome exchanges the payoffs, up to the chip get_delta rounds away.
Swapped(f) == [i \in Seats |-> f[1 - i]]
MirrorState(s) == [s EXCEPT !.stacks = Swapped(@), !.pips = Swapped(@)]
MirrorCards(c) == [c EXCEPT !.holes = Swapped(@), !.bounties = Swapped(@)]

PayoffsSeatNeutral ==
  ~InRound =>
    LET s == round_state.previous_state
    IN  \A winner \in {0, 1} \cup (IF s.stacks[0] = s.stacks[1] THEN {2} ELSE {}) :
          get_delta(s, cards, winner)
            + get_delta(MirrorState(s), MirrorCards(cards), IF winner = 2 THEN 2 ELSE 1 - winner)
          \in {-1, 0, 1}

\* Every round ends: the players cannot raise, check and deal for ever.
RoundEnds == InRound ~> ~InRound
=============================================================================
