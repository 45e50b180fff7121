---------------------------- MODULE BettingHistory ----------------------------
(***************************************************************************)
(* BettingRound with the betting history the rules of Hold'em speak of and *)
(* the code does not keep: proceed decides from the parity and size of     *)
(* button alone who has acted, and raise_bounds from the cost of calling   *)
(* alone how large the last raise was.  The auxiliary variables only       *)
(* observe: every action is an action of BettingRound.                     *)
(***************************************************************************)
EXTENDS BettingRound

VARIABLES
  acted,     \* seats that acted on this street since the last raise, raiser included
  excess     \* by how much the last bet or raise of this street topped the other pip

history == <<acted, excess>>
hvars == <<round_state, cards, acted, excess>>

HInit ==
  /\ RoundsInit
  /\ acted = {}
  /\ excess = BIG_BLIND

StreetGoesOn == round_state'.type = "round" /\ round_state'.street = round_state.street

HAct ==
  \/ /\ Fold
     /\ UNCHANGED history
  \/ /\ Call \/ Check
     /\ acted' = IF StreetGoesOn THEN acted \cup {active(round_state)} ELSE {}
     /\ excess' = IF StreetGoesOn THEN excess ELSE 0
  \/ /\ RaiseLegally
     /\ acted' = {active(round_state)}
     /\ excess' = round_state'.pips[active(round_state)] - round_state.pips[1 - active(round_state)]

HNextDeal ==
  /\ NextDeal
  /\ acted' = {}
  /\ excess' = BIG_BLIND

HNext == HAct \/ HNextDeal
HSpec == HInit /\ [][HNext]_hvars

\* A query always comes back with an action: run_round never stops waiting
\* inside a round (the socket has a timeout), so the round goes on.
FairHSpec == HSpec /\ WF_hvars(HAct)

-----------------------------------------------------------------------------
\* A street closes exactly when both players have acted since the last raise: the
\* big blind keeps its option after a call of the small blind, a check is always
\* answered, and a call never leaves the street open again.
StreetClosesWhenBothActed ==
  [][ Call \/ Check =>
        (StreetGoesOn <=> acted \cup {active(round_state)} # Seats) ]_hvars

\* Every raise tops the bet by at least the big blind and by at least as much as
\* the raise before it on the street, unless it puts the raiser or the opponent
\* all-in: raise_bounds recovers that from pips and stacks alone.
NoUndersizedRaise ==
  [][ RaiseLegally =>
        LET a == active(round_state)
        IN  \/ excess' >= max(BIG_BLIND, excess)
            \/ round_state'.stacks[a] = 0
            \/ round_state'.pips[a] = round_state'.pips[1 - a] + round_state'.stacks[1 - a] ]_hvars
=============================================================================
