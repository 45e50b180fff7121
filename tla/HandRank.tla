------------------------------- MODULE HandRank -------------------------------
(***************************************************************************)
(* The ranking of hands in holdem_functions.py: detect_hand, its helpers   *)
(* and compare_hands, as pure operators.                                   *)
(*                                                                         *)
(* A card is [value, suit]: 2 .. 14 and the index of its suit.  Hole cards *)
(* and boards are sets of cards.  A result is the code's tuple with the    *)
(* tuples and lists in it flattened, which compares alike: results of the  *)
(* same category have the same shape.                                      *)
(***************************************************************************)
EXTENDS Integers, Sequences, FiniteSets

LOCAL INSTANCE SequencesExt
LOCAL INSTANCE FiniteSetsExt

Suits == 0 .. 3

\* card_re, as far as a value and a suit go.
IsCard(c) == c.value \in 2 .. 14 /\ c.suit \in Suits

\* preprocess_board: how many cards of each suit the board has, and of the most frequent.
suit_histogram(board) == [s \in Suits |-> Cardinality({c \in board : c.suit = s})]
max_suit(board) == Max({suit_histogram(board)[s] : s \in Suits})

\* The histogram of values is kept from the ace down.
ValuesFalling == [i \in 1 .. 13 |-> 15 - i]
Falling(values) == SelectSeq(ValuesFalling, LAMBDA v : v \in values)
Times(cards, v) == Cardinality({c \in cards : c.value = v})

\* The values of a suit, highest first.
generate_suit_board(flat_board, flush_index) ==
  Falling({c.value : c \in {d \in flat_board : d.suit = flush_index}})

\* preprocess: value and frequency of the values that occur, highest first.
histogram_board(cards) ==
  LET values == Falling({c.value : c \in cards})
  IN  [i \in DOMAIN values |-> <<values[i], Times(cards, values[i])>>]

\* Mutant: five low cards with an ace are no straight.
Straight_no_wheel(values) ==
  LET scan[i \in DOMAIN values, run \in 1 .. 4] ==
        IF values[i + 1] = values[i] - 1
        THEN IF run = 4 THEN values[i] + 3 ELSE scan[i + 1, run + 1]
        ELSE IF i > Len(values) - 5 THEN 0 ELSE scan[i + 1, 1]
  IN  scan[1, 1]

\* The high card of the straight among values that fall, or 0.  The scan gives up when
\* fewer than five values are left, after a look at the ace below the two.
Straight(values) ==
  LET fail == Len(values) - 4
      scan[i \in DOMAIN values, run \in 1 .. 4] ==
        IF values[i + 1] = values[i] - 1
        THEN IF run = 4 THEN values[i] + 3 ELSE scan[i + 1, run + 1]
        ELSE IF i < fail THEN scan[i + 1, 1]
        ELSE IF i = fail /\ values[i + 1] = 5 /\ values[1] = 14 THEN 5 ELSE 0
  IN  scan[1, 1]

detect_straight(histogram) == Straight([i \in DOMAIN histogram |-> histogram[i][1]])

\* The values at which the frequency is one of those given, highest first.
ValuesWith(histogram, frequencies) ==
  LET found == SelectSeq(histogram, LAMBDA elem : elem[2] \in frequencies)
  IN  [i \in DOMAIN found |-> found[i][1]]

detect_highest_quad_kicker(histogram) == ValuesWith(histogram, 1 .. 3)[1]
detect_three_of_a_kind_kickers(histogram) == SubSeq(ValuesWith(histogram, {1, 2, 4}), 1, 2)
detect_highest_kicker(histogram) == ValuesWith(histogram, {1})[1]
detect_pair_kickers(histogram) == SubSeq(ValuesWith(histogram, {1, 3, 4}), 1, 3)
get_high_cards(values) == SubSeq(values, 1, 5)

\* Mutant: a value as frequent as the second one takes its place.
Frequencies_last(histogram) ==
  FoldLeft(LAMBDA m, elem :
             IF elem[2] > m.first THEN [first |-> elem[2], val |-> elem[1], second |-> m.first, other |-> m.val]
             ELSE IF elem[2] >= m.second THEN [m EXCEPT !.second = elem[2], !.other = elem[1]] ELSE m,
           [first |-> 0, val |-> 0, second |-> 0, other |-> 0], histogram)

\* The highest of the most frequent values, and of the second most frequent ones.
Frequencies(histogram) ==
  FoldLeft(LAMBDA m, elem :
             IF elem[2] > m.first THEN [first |-> elem[2], val |-> elem[1], second |-> m.first, other |-> m.val]
             ELSE IF elem[2] > m.second THEN [m EXCEPT !.second = elem[2], !.other = elem[1]] ELSE m,
           [first |-> 0, val |-> 0, second |-> 0, other |-> 0], histogram)

\* Five cards of a suit: no hand without one of these can be better.
FlushIndex(board) == CHOOSE s \in Suits : suit_histogram(board)[s] = max_suit(board)

HasFlush(hole_cards, board) ==
  /\ max_suit(board) >= 3
  /\ max_suit(board) + Cardinality({c \in hole_cards : c.suit = FlushIndex(board)}) >= 5

Flush(suit_board) ==
  LET high == Straight(suit_board)
  IN  CASE high = 14 -> <<9>>
        [] high \in 1 .. 13 -> <<8, high>>
        [] high = 0 -> <<5>> \o get_high_cards(suit_board)

ByFrequency(histogram) ==
  LET m == Frequencies(histogram)
      high == IF Len(histogram) >= 5 THEN detect_straight(histogram) ELSE 0
  IN  CASE m.first = 4 -> <<7, m.val, detect_highest_quad_kicker(histogram)>>
        [] m.first = 3 /\ m.second >= 2 -> <<6, m.val, m.other>>
        [] m.first < 4 /\ ~(m.first = 3 /\ m.second >= 2) /\ high # 0 -> <<4, high>>
        [] m.first = 3 /\ m.second < 2 /\ high = 0 ->
             <<3, m.val>> \o detect_three_of_a_kind_kickers(histogram)
        [] m.first = 2 /\ m.second = 2 /\ high = 0 ->
             <<2, m.val, m.other, detect_highest_kicker(histogram)>>
        [] m.first = 2 /\ m.second < 2 /\ high = 0 -> <<1, m.val>> \o detect_pair_kickers(histogram)
        [] m.first = 1 /\ high = 0 ->
             <<0>> \o get_high_cards([i \in DOMAIN histogram |-> histogram[i][1]])

detect_hand(hole_cards, board) ==
  IF HasFlush(hole_cards, board)
  THEN Flush(generate_suit_board(board \cup hole_cards, FlushIndex(board)))
  ELSE ByFrequency(histogram_board(board \cup hole_cards))

\* Python's order of tuples.
Beats(a, b) == \E i \in DOMAIN a \cap DOMAIN b : a[i] > b[i] /\ \A j \in 1 .. i - 1 : a[j] = b[j]

\* The number of the player with the best result, 0 for a tie.
compare_hands(results) ==
  LET best == {i \in DOMAIN results : \A j \in DOMAIN results : ~Beats(results[j], results[i])}
  IN  IF Cardinality(best) = 1 THEN CHOOSE i \in best : TRUE ELSE 0

-----------------------------------------------------------------------------
(* The rules of poker, for reference: the best five of seven cards.        *)
Values(h) == {c.value : c \in h}

\* The values of five cards, the frequent ones first, then the high ones.
Grouped(h) ==
  LET With(n) == Falling({v \in Values(h) : Times(h, v) = n})
  IN  With(4) \o With(3) \o With(2) \o With(1)

FiveRank(h) ==
  LET values == Grouped(h)
      shape == [i \in DOMAIN values |-> Times(h, values[i])]
      flush == Cardinality({c.suit : c \in h}) = 1
      high == IF Len(values) < 5 THEN 0
              ELSE IF Values(h) = {14, 5, 4, 3, 2} THEN 5
              ELSE IF values[1] - values[5] = 4 THEN values[1] ELSE 0
  IN  CASE flush /\ high = 14 -> <<9>>
        [] flush /\ high \in 1 .. 13 -> <<8, high>>
        [] flush /\ high = 0 -> <<5>> \o values
        [] ~flush /\ high # 0 -> <<4, high>>
        [] ~flush /\ high = 0 ->
             LET category == CASE shape = <<4, 1>> -> 7 [] shape = <<3, 2>> -> 6
                               [] shape = <<3, 1, 1>> -> 3 [] shape = <<2, 2, 1>> -> 2
                               [] shape = <<2, 1, 1, 1>> -> 1 [] shape = <<1, 1, 1, 1, 1>> -> 0
             IN  <<category>> \o values

BestOf(cards) ==
  LET ranks == {FiveRank(h) : h \in kSubset(5, cards)}
  IN  CHOOSE r \in ranks : \A s \in ranks : ~Beats(s, r)

ThreePairs(cards) == Cardinality({v \in Values(cards) : Times(cards, v) = 2}) = 3
=============================================================================
