------------------------------ MODULE SmallDeals ------------------------------
(* Deals for model checking.  The ranks are chosen so that a bounty is hit *)
(* by the hole cards, by the turn or by the river, by nobody, and by the   *)
(* opponent's hole cards, which must not count.  Suits are left out, so    *)
(* that any outcome of eval7.evaluate goes with any ranks.                 *)
EXTENDS RoundState

Board(turn, river) ==
  [n \in {3, 4, 5} |-> {"2", "3", "4"} \cup (IF n > 3 THEN {turn} ELSE {})
                                       \cup (IF n > 4 THEN {river} ELSE {})]

HitDeals ==
  [holes : {Pair({"A", "9"}, {"Q", "9"}), Pair({"Q", "9"}, {"A", "K"}), Pair({"9", "8"}, {"K", "9"})},
   board : {Board("6", "7"), Board("A", "6"), Board("6", "K"), Board("A", "K")},
   bounties : {Pair("A", "K")},
   best : {0, 1, 2}]
=============================================================================
