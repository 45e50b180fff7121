------------------------------- MODULE MCEquity -------------------------------
(* Ten cards, two processes numbered 2 and 3, calls of all kinds, and hands *)
(* of seven cards in which every rank occurs.                              *)
EXTENDS Equity

C(value, suit) == [value |-> value, suit |-> suit]
T(value, suit) == [value |-> value, suit |-> suit, tail |-> 0]
NoCard == [value |-> 0, suit |-> 0, tail |-> 0]

MCCards == {C(14, 0), C(13, 0), C(14, 1), C(13, 1), C(12, 0), C(11, 0), C(10, 0), C(5, 1), C(5, 2), C(12, 2)}

Heroes == <<T(14, 0), T(13, 0)>>
Villains == <<T(14, 1), T(13, 1)>>
Fives == <<T(5, 1), T(5, 2)>>
Pair == Heroes \o Villains
Flop == <<T(12, 0), T(11, 0), T(5, 1)>>
Turn == Append(Flop, T(5, 2))
River == Append(Turn, T(12, 2))

Given(hole, board) == [cards |-> hole, board |-> board, n |-> 2, exact |-> FALSE, input |-> "none", lines |-> <<>>]
File(text) == [Given(<<>>, NoBoard) EXCEPT !.input = "file", !.lines = text]
Line(parts, hole, board) == [parts |-> parts, cards |-> hole, board |-> board]
Blank == Line(0, <<>>, NoBoard)

MCCalls ==
  {Given(Pair, Flop), Given(Pair, Turn), Given(Pair, River),
   Given(Pair, NoBoard), [Given(Pair, NoBoard) EXCEPT !.exact = TRUE], Given(Pair, <<>>),
   Given(Heroes, Turn), Given(Heroes \o <<Unknown, Unknown>>, River),
   Given(<<Unknown, Unknown, Unknown, Unknown>>, River),
   \* refused, or given twice
   [Given(Pair, Flop) EXCEPT !.n = 0], [Given(Pair, Flop) EXCEPT !.input = "missing"],
   Given(Pair, SubSeq(Flop, 1, 2)), Given(Pair, <<Unknown>> \o Flop), Given(<<T(14, 0)>>, Flop),
   Given(Pair \o <<T(10, 0), Unknown>>, Flop), Given(<<T(14, 0), T(14, 0)>>, Flop),
   Given(<<T(14, 0), NoCard>>, Flop),
   Given(<<T(14, 0), [T(14, 0) EXCEPT !.tail = 1]>>, Flop),
   File(<<>>), File(<<Blank, Line(2, Pair, Turn), Line(1, Pair, NoBoard)>>),
   File(<<Line(3, Pair, Turn)>>), File(<<Line(1, Fives \o <<T(5, 1)>>, NoBoard)>>)}

MCEvalDeck == MCCards \ {C(14, 1)}

MCSituations ==
  {[hand1 |-> {C(14, 0), C(13, 0)}, known_board |-> board] :
     board \in {{}, {C(12, 0), C(11, 0), C(5, 1)}, {C(12, 0), C(11, 0), C(5, 1), C(5, 2)},
                {C(12, 0), C(11, 0), C(5, 1), C(5, 2), C(12, 2)}}}

MCDecks ==
  {{C(v, s) : v \in {14, 6, 5, 4, 3, 2}, s \in {0, 1}},
   {C(v, s) : v \in {14, 9, 2}, s \in 0 .. 3},
   {C(v, v % 4) : v \in {14, 12, 11, 9, 8, 7, 5, 3, 2}} \cup {C(9, 2)},
   {C(14, s) : s \in 0 .. 2} \cup {C(8, s) : s \in 1 .. 3} \cup {C(7, 1), C(7, 3), C(12, 0), C(3, 0)},
   {C(v, s) : v \in {14, 13, 12, 11, 10}, s \in {0, 2}}}
=============================================================================
