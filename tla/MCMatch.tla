-------------------------------- MODULE MCMatch --------------------------------
(* A match of a few short rounds between two bots.  The deals let either   *)
(* player's bounty be hit by its own hand or by the river.                 *)
EXTENDS Match, SmallDeals

MCOrder == Pair("New", "Best")

Built(new, best) == [p \in {"New", "Best"} |-> IF p = "New" THEN new ELSE best]
MCJavaPython == {Built("java", "python")}
MCCppPython == {Built("cpp", "python")}      \* the players of config.py
MCJavaCpp == {Built("java", "cpp")}
MCAgainstPython == MCJavaPython \cup MCCppPython

Simple(own, river, bounties, best) ==
  [holes |-> Pair(own, {"9", "8"}), board |-> Board("6", river), bounties |-> bounties, best |-> best]

MCDeals ==
  {Simple({"A", "9"}, "K", Pair("A", "K"), 0), Simple({"A", "9"}, "A", Pair("K", "A"), 2)}

Garbage == [type |-> "garbage", amount |-> 0]

MCAnswers == {FoldAction, CallAction, CheckAction, RaiseAction(1), RaiseAction(3), Garbage}
MCFewAnswers == {CallAction}
MCRaises == {CallAction, RaiseAction(6), RaiseAction(8), RaiseAction(12)}
=============================================================================
