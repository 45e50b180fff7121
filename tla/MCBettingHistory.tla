--------------------------- MODULE MCBettingHistory ---------------------------
(* BettingHistory over the deals of SmallDeals. *)
EXTENDS BettingHistory, SmallDeals
=============================================================================
