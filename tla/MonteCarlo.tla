------------------------------ MODULE MonteCarlo ------------------------------
(***************************************************************************)
(* calculate_equity of best_bot/player.py, iteration by iteration: which   *)
(* cards it gives the opponent and the board.  eval7 (external) compares   *)
(* the two hands, with any outcome here.                                   *)
(***************************************************************************)
EXTENDS Integers, FiniteSetsExt

CONSTANTS
  EvalDeck,     \* eval7.Deck()
  Situations,   \* arguments [hand1, known_board], sets of cards
  ITERATIONS    \* iterations

VARIABLES
  situation,   \* the arguments
  opp_hand, remaining_board,   \* of the last iteration
  wins, ties, total

monteVars == <<situation, opp_hand, remaining_board, wins, ties, total>>

MonteInit ==
  /\ situation \in Situations
  /\ opp_hand = {} /\ remaining_board = {}
  /\ wins = 0 /\ ties = 0 /\ total = 0

\* Mutant: the cards on the board stay in the deck.
deck_with_board == EvalDeck \ situation.hand1

deck == EvalDeck \ (situation.hand1 \cup situation.known_board)

remaining_board_count == 5 - Cardinality(situation.known_board)

\* Mutant: a hand that wins is at least a tie.
Tabulate_without_else ==
  \/ wins' = wins + 1 /\ ties' = ties + 1
  \/ ties' = ties + 1 /\ UNCHANGED wins
  \/ UNCHANGED <<wins, ties>>

Tabulate ==
  \/ wins' = wins + 1 /\ UNCHANGED ties
  \/ ties' = ties + 1 /\ UNCHANGED wins
  \/ UNCHANGED <<wins, ties>>

\* peek takes nothing from the deck: both draws are the top of the same shuffled deck,
\* and the shorter one is part of the longer one.
Iterate ==
  /\ total < ITERATIONS
  /\ opp_hand' \in kSubset(2, deck)
  /\ remaining_board' \in
       IF remaining_board_count <= 2 THEN kSubset(remaining_board_count, opp_hand')
       ELSE {opp_hand' \cup rest : rest \in kSubset(remaining_board_count - 2, deck \ opp_hand')}
  /\ Tabulate
  /\ total' = total + 1
  /\ UNCHANGED situation

MonteEnded == total = ITERATIONS

-----------------------------------------------------------------------------
(* Properties.                                                             *)

\* No card of the simulated hands and boards is one the bot sees already, and the board
\* is completed (calculate_equity).
KnownCardsStayOut ==
  total > 0 =>
    /\ (opp_hand \cup remaining_board) \cap (situation.hand1 \cup situation.known_board) = {}
    /\ Cardinality(situation.known_board \cup remaining_board) = 5

\* best_bot/player.py:211 "Peek after opponent's hand": the board is dealt from below the
\* opponent's cards.
NoCardTwice == opp_hand \cap remaining_board = {}
=============================================================================
