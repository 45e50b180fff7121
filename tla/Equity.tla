-------------------------------- MODULE Equity --------------------------------
(***************************************************************************)
(* The computation of chances: the parallel calculator, the simulation of  *)
(* best_bot, and the ranking of hands both calculators rest on, one of     *)
(* them at a time.                                                         *)
(***************************************************************************)
EXTENDS ParallelCalc

CONSTANTS
  EvalDeck, Situations, ITERATIONS,   \* of MonteCarlo
  Decks                     \* sets of cards the ranked hands come from

VARIABLES
  task,        \* "calculate", "simulate", "rank"
  situation, opp_hand, remaining_board, wins, ties, total,   \* of MonteCarlo
  dealt        \* seven cards

Monte == INSTANCE MonteCarlo

\* A deck is finite, and a board is one of a round (get_action, calculate_equity).
ASSUME SimulationAssumption ==
  /\ IsFiniteSet(EvalDeck) /\ ITERATIONS \in Nat
  /\ \A s \in Situations : IsFiniteSet(s.known_board) /\ Cardinality(s.known_board) <= 5

monte_side == <<situation, opp_hand, remaining_board, wins, ties, total>>
vars == <<task, parallelVars, monte_side, dealt>>

Init ==
  /\ task \in {"calculate", "simulate", "rank"}
  /\ IF task = "calculate" THEN ParallelInit ELSE call = CHOOSE c \in Calls : TRUE
  /\ main = "called" /\ lines = <<>> /\ work = <<>>
  /\ worker = [w \in Workers |-> Idle]
  /\ shared = [winner_list |-> <<>>, result_histograms |-> <<>>]
  /\ failed = FALSE /\ combined = <<>>
  /\ IF task = "simulate" THEN Monte!MonteInit ELSE situation = CHOOSE s \in Situations : TRUE
  /\ opp_hand = {} /\ remaining_board = {}
  /\ wins = 0 /\ ties = 0 /\ total = 0
  /\ dealt = {}

Calling == task = "calculate" /\ Call /\ UNCHANGED <<task, monte_side, dealt>>

Collecting == task = "calculate" /\ Collect /\ UNCHANGED <<task, monte_side, dealt>>

Working(w) == task = "calculate" /\ Work(w) /\ UNCHANGED <<task, monte_side, dealt>>

Simulating == task = "simulate" /\ Monte!Iterate /\ UNCHANGED <<task, parallelVars, dealt>>

Ranking ==
  /\ task = "rank" /\ dealt = {}
  /\ \E deck \in Decks : dealt' \in kSubset(7, deck)
  /\ UNCHANGED <<task, parallelVars, monte_side>>

Done ==
  /\ CASE task = "calculate" -> ParallelEnded
       [] task = "simulate" -> Monte!MonteEnded
       [] task = "rank" -> dealt # {}
  /\ UNCHANGED vars

Next == Calling \/ Collecting \/ (\E w \in Workers : Working(w)) \/ Simulating \/ Ranking \/ Done

\* The main process and each process of the pool run on: they wait for nobody but, in
\* map, for the tasks.
Fairness == WF_vars(Collecting) /\ \A w \in Workers : WF_vars(Working(w))

Spec == Init /\ [][Next]_vars /\ Fairness

-----------------------------------------------------------------------------
(* Properties.                                                             *)

\* The calculation, the simulation and the deal are well formed, and an equity is not
\* more than one.
TypeOK ==
  /\ ParallelTypeOK
  /\ wins + ties <= total /\ total <= ITERATIONS
  /\ dealt = {} \/ Cardinality(dealt) = 7

\* A parallel calculation whose processes have started ends, its failing tasks included (pool.map, run_simulation).
CalculationEnds == main = "mapping" ~> ParallelEnded

\* best_bot's simulation deals no card the bot sees, see MonteCarlo.
KnownCardsStayOut == Monte!KnownCardsStayOut

\* However seven cards are divided into hole cards and a board, detect_hand finds the
\* rank of the best five, except with three pairs.
RanksByTheRules ==
  dealt # {} =>
    ThreePairs(dealt)
    \/ LET best == BestOf(dealt)
       IN  \A hole \in kSubset(2, dealt) : detect_hand(hole, dealt \ hole) = best

\* holdem_functions.py:148 "Returns the highest kicker available": two pairs are ranked
\* with the highest of the other cards.
HighestKicker ==
  dealt # {} => \A hole \in kSubset(2, dealt) :
    LET rank == detect_hand(hole, dealt \ hole)
    IN  rank[1] = 2 => \A v \in Values(dealt) \ {rank[2], rank[3]} : v <= rank[4]

\* best_bot/player.py:211 "Peek after opponent's hand", see MonteCarlo.
NoCardTwice == Monte!NoCardTwice
=============================================================================
