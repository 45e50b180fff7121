-------------------------------- MODULE MCBots --------------------------------
(* Bots over a deal in which both players hold the same ranks: a bot meets *)
(* its situations again in the next round, from the other seat, and with   *)
(* the other bounty: one is hit before the flop, the other by the river.   *)
EXTENDS Bots, SmallDeals, TLC

MCDeals ==
  [holes : {Pair({"A", "9"}, {"A", "9"})},
   board : {Board("6", "K")}, bounties : {Pair("A", "K")}, best : {0}]

MCEquities == {Unit \div 4, (19 * Unit) \div 20}

\* Nothing, or the lesson of a call that was right with aces on the flop.
Lesson == [a \in {"Fold", "Call"} |-> IF a = "Fold" THEN -Unit ELSE Unit]
MCCsvFiles ==
  {<<>>, [street |-> 3, hole |-> {"A", "9"}, board |-> {"2", "3", "4"}, strings |-> FALSE] :> Lesson}
MCPickleFiles ==
  {<<>>, [street |-> 3, hole |-> {"A", "9"}, board |-> {"2", "3", "4"}, bounty |-> "A"] :> Lesson}

\* Words as they are typed, capitalized, and read as a number.
Word(text, capitalized, number) == [text |-> text, capitalized |-> capitalized, number |-> number]
Plain(text) == Word(text, text, -1000)
Num(n) == Word("number", "Number", n)

MCLines ==
  {<<Plain("Fold")>>, <<Word("call", "Call", -1000)>>, <<Plain("Check")>>, <<Plain("Raise")>>,
   <<Plain("Raise"), Num(4)>>, <<Plain("Raise"), Plain("All")>>,
   <<Plain("Call"), Num(2)>>, <<Plain("Call"), Plain("All")>>,
   <<Plain("I"), Plain("will"), Plain("Fold")>>, <<Word("quit", "Quit", -1000)>>}
=============================================================================
