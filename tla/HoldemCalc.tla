------------------------------ MODULE HoldemCalc ------------------------------
(***************************************************************************)
(* The calculator of best_bot up to the simulation: the checks and the     *)
(* parsing of holdem_argparser.py, the generators of holdem_functions.py   *)
(* and the sequential run_simulation of holdem_calc.py.                    *)
(*                                                                         *)
(* A card is given as a text [value, suit, tail]: the pattern for cards is *)
(* matched against the beginning of the text only, so that "Asx" passes    *)
(* and is the card "As".  Tail 0 is the empty one.                         *)
(***************************************************************************)
EXTENDS HandRank, SequencesExt

CONSTANT Cards   \* the cards generate_deck makes before any is removed

ASSUME CardsAssumption == IsFiniteSet(Cards) /\ \A c \in Cards : IsCard(c)

Unknown == [value |-> 1, suit |-> 0, tail |-> 0]    \* "?"
NoBoard == << [value |-> 0, suit |-> 0, tail |-> 0] >>   \* None

\* A call: cards and board are sequences of texts, n is the number of random boards.
\* With an input file, "file" or "missing", its lines are [parts, cards, board]:
\* parts counts what the bars separate, 0 for a blank line.

-----------------------------------------------------------------------------
(* holdem_argparser.py.  What is refused ends the program by exit().       *)
TextsOf(board) == IF board = NoBoard THEN <<>> ELSE board

error_check_cards(all_cards) ==
  /\ \A i \in DOMAIN all_cards : all_cards[i] = Unknown \/ IsCard(all_cards[i])
  /\ \A i, j \in DOMAIN all_cards : all_cards[i] = all_cards[j] => i = j \/ all_cards[i] = Unknown

error_check_arguments(call) ==
  /\ call.n > 0
  /\ call.input # "missing"
  /\ error_check_cards(call.cards \o TextsOf(call.board))

\* create_hole_cards: two sets of unknown cards are complained about and accepted.
HoleCardsAccepted(cards) ==
  /\ Len(cards) >= 2 /\ Len(cards) % 2 = 0
  /\ \A i \in 1 .. Len(cards) \div 2 : cards[2 * i - 1] = Unknown <=> cards[2 * i] = Unknown

\* parse_cards: an empty board is not looked at, and stays a board.
BoardAccepted(board) ==
  Len(TextsOf(board)) > 0 => Len(board) \in 3 .. 5 /\ \A i \in DOMAIN board : board[i] # Unknown

parse_lib_args(call) ==
  error_check_arguments(call)
  /\ (call.input = "none" => HoleCardsAccepted(call.cards) /\ BoardAccepted(call.board))

parse_file_args(line) ==
  /\ line.parts <= 2
  /\ error_check_cards(line.cards \o TextsOf(line.board))
  /\ HoleCardsAccepted(line.cards) /\ BoardAccepted(line.board)

\* Card(card_string) reads two characters.
Card(text) == [value |-> text.value, suit |-> text.suit]

\* Hole cards are sets, empty for (None, None).
create_hole_cards(cards) ==
  [i \in 1 .. Len(cards) \div 2 |->
     IF cards[2 * i] = Unknown THEN {} ELSE {Card(cards[2 * i - 1]), Card(cards[2 * i])}]

create_cards(board) == {Card(TextsOf(board)[i]) : i \in DOMAIN TextsOf(board)}

-----------------------------------------------------------------------------
(* The generators of holdem_functions.py.                                  *)

\* The same card in two texts: the second deck.remove raises ValueError.
TakenTwice(all_cards) ==
  \E i, j \in DOMAIN all_cards :
    i # j /\ all_cards[i] # Unknown /\ all_cards[j] # Unknown /\ Card(all_cards[i]) = Card(all_cards[j])

generate_deck(hole_cards, board) == Cards \ (board \cup UNION {hole_cards[i] : i \in DOMAIN hole_cards})

generate_hole_cards(deck) == kSubset(2, deck)

\* A simulation of hole cards over the boards that complete the given one.
generate_exhaustive_boards(deck, board_length) == kSubset(5 - board_length, deck)

\* Every sequence random.sample may produce.
generate_random_boards(deck, num, board_length) == [1 .. num -> kSubset(5 - board_length, deck)]

InOrder(S) == FoldSet(LAMBDA x, seq : Append(seq, x), <<>>, S)

\* "exact or given_board is not None"
Exhaustive(call) == call.exact \/ call.board # NoBoard

generate_boards(call, deck) ==
  LET board_length == Cardinality(create_cards(call.board))
  IN  IF Exhaustive(call) THEN {InOrder(generate_exhaustive_boards(deck, board_length))}
      ELSE generate_random_boards(deck, call.n, board_length)

-----------------------------------------------------------------------------
(* find_winner and run_simulation of the sequential calculator.            *)
Results(hole_cards, board) == [i \in DOMAIN hole_cards |-> detect_hand(hole_cards[i], board)]

\* winner_list[0] counts the ties; result_histograms[i][h] how often player i had hand h.
find_winner(hole_cards, given_board, boards) ==
  LET results == [b \in DOMAIN boards |-> Results(hole_cards, given_board \cup boards[b])]
  IN  [winner_list |-> [w \in 0 .. Len(hole_cards) |->
                          Cardinality({b \in DOMAIN boards : compare_hands(results[b]) = w})],
       result_histograms |->
         [i \in DOMAIN hole_cards |->
            [h \in 0 .. 9 |-> Cardinality({b \in DOMAIN boards : results[b][i][1] = h})]]]

HasUnknown(hole_cards) == \E i \in DOMAIN hole_cards : hole_cards[i] = {}

\* hole_cards.index((None, None)) is filled in.
Filled(hole_cards, filler) ==
  LET unknown_index == CHOOSE i \in DOMAIN hole_cards :
                         hole_cards[i] = {} /\ \A j \in 1 .. i - 1 : hole_cards[j] # {}
  IN  [hole_cards EXCEPT ![unknown_index] = filler]

\* winner_list of holdem_calc.run_simulation over all boards, for at most one unknown.
run_simulation(call) ==
  LET hole_cards == create_hole_cards(call.cards)
      board == create_cards(call.board)
      deck == generate_deck(hole_cards, board)
      length == Cardinality(board)
      over(hole, left) == find_winner(hole, board, InOrder(generate_exhaustive_boards(left, length)))
      lists == IF HasUnknown(hole_cards)
               THEN [f \in generate_hole_cards(deck) |->
                       over(Filled(hole_cards, f), deck \ f).winner_list]
               ELSE [f \in {{}} |-> over(hole_cards, deck).winner_list]
  IN  [w \in 0 .. Len(hole_cards) |-> MapThenSumSet(LAMBDA f : lists[f][w], DOMAIN lists)]
=============================================================================
