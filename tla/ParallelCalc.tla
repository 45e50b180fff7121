----------------------------- MODULE ParallelCalc -----------------------------
(***************************************************************************)
(* parallel_holdem_calc.py: calculate, with the processes of its pool.     *)
(* The processes add to shared arrays.  Access to an element is locked,    *)
(* an addition, which reads the element and then writes it, is not; each   *)
(* process is meant to have a slot of the arrays to itself.                *)
(*                                                                         *)
(* The pool (external): processes are numbered one after the other, take   *)
(* the tasks in their order, and do not die.                               *)
(***************************************************************************)
EXTENDS HoldemCalc

CONSTANTS
  Calls,        \* the arguments of calculate, see HoldemCalc
  MaxPlayers,   \* players of a call at most
  CpuCount,     \* multiprocessing.cpu_count()
  FirstWorker   \* the number in the name of the pool's first process

ASSUME PoolAssumption == CpuCount \in Nat \ {0} /\ FirstWorker \in Nat

VARIABLES
  call,        \* the arguments
  main,        \* "called", "reading" (the input file), "mapping", "combining", "exited", "raised", "returned"
  lines,       \* lines of the input file not yet read
  work,        \* tasks no process has taken
  worker,      \* process -> [busy, fails, due, read]
  shared,      \* [winner_list, result_histograms]: index -> number
  failed,      \* a task ended in an exception
  combined     \* combined_winner_list, empty before it is made

parallelVars == <<call, main, lines, work, worker, shared, failed, combined>>

Workers == FirstWorker .. FirstWorker + CpuCount - 1

num_players == Len(call.cards) \div 2

\* Mutant: two processes have the same slot.
Slot_shared(w) == 0

\* proc_id: the number in the process's name % cpu_count().
Slot(w) == w % CpuCount

\* The length of a process's slot in each array.
Width(array) == IF array = "winner_list" THEN num_players + 1 ELSE 10 * num_players

\* An addition of a call with n players, and the element a process makes it to.
Addition(n) ==
  [array : {"winner_list"}, offset : 0 .. n, by : Nat]
  \cup [array : {"result_histograms"}, offset : 0 .. 10 * n - 1, by : Nat]

Element(w, addition) == Slot(w) * Width(addition.array) + addition.offset

Idle == [busy |-> FALSE, fails |-> FALSE, due |-> <<>>, read |-> -1]

ParallelInit ==
  /\ call \in Calls
  /\ main = "called"
  /\ lines = <<>> /\ work = <<>>
  /\ worker = [w \in Workers |-> Idle]
  /\ shared = [winner_list |-> <<>>, result_histograms |-> <<>>]
  /\ failed = FALSE
  /\ combined = <<>>

-----------------------------------------------------------------------------
(* What the tasks of the pool add to the arrays.                           *)

\* simulation adds one to the winner and to the hand of each player.
simulation(hole_cards, found) ==
  LET winner == CHOOSE i \in 0 .. Len(hole_cards) : found.winner_list[i] = 1
      hand(p) == CHOOSE h \in 0 .. 9 : found.result_histograms[p][h] = 1
  IN  << [array |-> "winner_list", offset |-> winner, by |-> 1] >>
      \o [p \in DOMAIN hole_cards |->
            [array |-> "result_histograms", offset |-> 10 * (p - 1) + hand(p), by |-> 1]]

\* unknown_simulation adds all it has counted for its filler, zeros included.
unknown_simulation(hole_cards, found) ==
  [i \in 1 .. Len(hole_cards) + 1 |->
     [array |-> "winner_list", offset |-> i - 1, by |-> found.winner_list[i - 1]]]
  \o [i \in 1 .. 10 * Len(hole_cards) |->
        [array |-> "result_histograms", offset |-> i - 1,
         by |-> found.result_histograms[1 + ((i - 1) \div 10)][(i - 1) % 10]]]

\* A task for each board.
BoardTask(hole_cards, given_board, board) ==
  [fails |-> FALSE,
   additions |-> {simulation(hole_cards, find_winner(hole_cards, given_board, <<board>>))}]

\* A task for each filler, with the boards it may generate.  A second unknown pair is
\* still None and ends the task in an AttributeError before it adds anything.
FillerTask(problem, hole_cards, given_board, deck, filler) ==
  LET filled == Filled(hole_cards, filler)
  IN  [fails |-> HasUnknown(filled),
       additions |->
         IF HasUnknown(filled) THEN {<<>>}
         ELSE {unknown_simulation(filled, find_winner(filled, given_board, boards)) :
                 boards \in generate_boards(problem, deck \ filler)}]

\* What pool.map may be given for a call.
TaskLists(problem) ==
  LET hole_cards == create_hole_cards(problem.cards)
      board == create_cards(problem.board)
      deck == generate_deck(hole_cards, board)
      fillers == InOrder(generate_hole_cards(deck))
  IN  IF HasUnknown(hole_cards)
      THEN {[i \in DOMAIN fillers |-> FillerTask(problem, hole_cards, board, deck, fillers[i])]}
      ELSE {[i \in DOMAIN boards |-> BoardTask(hole_cards, board, boards[i])] :
              boards \in generate_boards(problem, deck)}

\* run: the cards of a line replace those of the call.
WithLine(c, line) == [c EXCEPT !.cards = line.cards, !.board = line.board]

LinesOf(c) == {c.lines[j] : j \in DOMAIN c.lines}

\* The calls that come to a simulation, as they are or with a line of their file.
Problems ==
  {p \in {c \in Calls : c.input # "file" /\ parse_lib_args(c)}
         \cup UNION {{WithLine(c, line) : line \in {l \in LinesOf(c) : l.parts # 0 /\ parse_file_args(l)}} :
                     c \in {k \in Calls : parse_lib_args(k)}} :
     ~TakenTwice(p.cards \o TextsOf(p.board))}

\* Calls are those of the program, and tasks add within a slot of the arrays: the cards
\* are those of whole players, the winner one of them or nobody, hands of ten kinds.
ASSUME CallsAssumption ==
  /\ MaxPlayers \in Nat
  /\ \A c \in Calls :
       /\ DOMAIN c = {"cards", "board", "n", "exact", "input", "lines"}
       /\ c.n \in Int /\ c.lines \in Seq(LinesOf(c))
  /\ \A p \in Problems :
       /\ Len(p.cards) \div 2 \in 1 .. MaxPlayers
       /\ TaskLists(p) \subseteq
            Seq([fails : BOOLEAN, additions : SUBSET Seq(Addition(Len(p.cards) \div 2))])

-----------------------------------------------------------------------------
(* calculate, run and run_simulation up to pool.map.                       *)
Zeros(array) == [i \in 0 .. CpuCount * Width(array) - 1 |-> 0]

Refuse(outcome) ==
  /\ main' = outcome
  /\ UNCHANGED <<work, worker, shared, failed, combined>>

Simulate ==
  IF TakenTwice(call'.cards \o TextsOf(call'.board)) THEN Refuse("raised")
  ELSE /\ main' = "mapping"
       /\ work' \in TaskLists(call')
       /\ shared' = [winner_list |-> Zeros("winner_list")',
                     result_histograms |-> Zeros("result_histograms")']
       /\ UNCHANGED <<worker, failed, combined>>

Calculate ==
  /\ main = "called"
  /\ UNCHANGED call
  /\ IF ~parse_lib_args(call) THEN Refuse("exited") /\ UNCHANGED lines
     ELSE IF call.input = "file" THEN Refuse("reading") /\ lines' = call.lines
     ELSE Simulate /\ UNCHANGED lines

\* run: a blank line is skipped.
ReadLine ==
  /\ main = "reading" /\ lines # <<>>
  /\ lines' = Tail(lines)
  /\ LET line == Head(lines)
     IN  IF line.parts = 0 THEN Refuse("reading") /\ UNCHANGED call
         ELSE /\ call' = WithLine(call, line)
              /\ IF parse_file_args(line) THEN Simulate ELSE Refuse("exited")

EndOfFile ==
  /\ main = "reading" /\ lines = <<>>
  /\ main' = "returned"
  /\ UNCHANGED <<call, lines, work, worker, shared, failed, combined>>

-----------------------------------------------------------------------------
(* A process of the pool.                                                  *)

Take(w) ==
  /\ main = "mapping" /\ work # <<>>
  /\ ~worker[w].busy
  /\ work' = Tail(work)
  /\ \E due \in Head(work).additions :
       worker' = [worker EXCEPT ![w] =
                    [busy |-> TRUE, fails |-> Head(work).fails, due |-> due, read |-> -1]]
  /\ UNCHANGED <<call, main, lines, shared, failed, combined>>

Read(w) ==
  /\ worker[w].due # <<>> /\ worker[w].read = -1
  /\ LET addition == Head(worker[w].due)
     IN  worker' = [worker EXCEPT ![w].read = shared[addition.array][Element(w, addition)]]
  /\ UNCHANGED <<call, main, lines, work, shared, failed, combined>>

\* Mutant: the result of a simulation replaces what was counted before.
Sum_assigned(w) == Head(worker[w].due).by

Sum(w) == worker[w].read + Head(worker[w].due).by

Write(w) ==
  /\ worker[w].due # <<>> /\ worker[w].read # -1
  /\ LET addition == Head(worker[w].due)
     IN  shared' = [shared EXCEPT ![addition.array][Element(w, addition)] = Sum(w)]
  /\ worker' = [worker EXCEPT ![w].due = Tail(@), ![w].read = -1]
  /\ UNCHANGED <<call, main, lines, work, failed, combined>>

\* Mutant: a task that failed is tried again.
Finish_retried(w) ==
  /\ worker[w].busy /\ worker[w].due = <<>>
  /\ worker' = [worker EXCEPT ![w] = Idle]
  /\ work' = IF worker[w].fails THEN Append(work, [fails |-> TRUE, additions |-> {<<>>}]) ELSE work
  /\ UNCHANGED <<call, main, lines, shared, failed, combined>>

Finish(w) ==
  /\ worker[w].busy /\ worker[w].due = <<>>
  /\ worker' = [worker EXCEPT ![w] = Idle]
  /\ failed' = (failed \/ worker[w].fails)
  /\ UNCHANGED <<call, main, lines, work, shared, combined>>

Work(w) == Take(w) \/ Read(w) \/ Write(w) \/ Finish(w)

-----------------------------------------------------------------------------
(* The end of run_simulation.                                              *)

\* map waits for all tasks and raises the exception of one that failed.
MapReturns ==
  /\ main = "mapping"
  /\ work = <<>> /\ \A w \in Workers : ~worker[w].busy
  /\ main' = IF failed THEN "raised" ELSE "combining"
  /\ UNCHANGED <<call, lines, work, worker, shared, failed, combined>>

\* Mutant: the tie is forgotten in the length of a slot.
Combined_without_ties ==
  [i \in 0 .. num_players |->
     MapThenSumSet(LAMBDA k : shared.winner_list[k],
                   {k \in DOMAIN shared.winner_list : k % num_players = i})]

Combined ==
  [i \in 0 .. num_players |->
     MapThenSumSet(LAMBDA k : shared.winner_list[k],
                   {k \in DOMAIN shared.winner_list : k % (num_players + 1) = i})]

\* The winners are combined; the first element of the histograms has a float for
\* its index, a TypeError.
Combine ==
  /\ main = "combining"
  /\ combined' = Combined
  /\ main' = "raised"
  /\ UNCHANGED <<call, lines, work, worker, shared, failed>>

Call == Calculate \/ ReadLine \/ EndOfFile
Collect == MapReturns \/ Combine

ParallelEnded == main \in {"exited", "raised", "returned"}

ParallelNext == Call \/ Collect \/ \E w \in Workers : Work(w)

ParallelSpec == ParallelInit /\ [][ParallelNext]_parallelVars

-----------------------------------------------------------------------------
(* Properties.                                                             *)

\* A call is well formed, a process that is not busy has nothing to do, and the arrays
\* hold numbers.
ParallelTypeOK ==
  /\ main \in {"called", "reading", "mapping", "combining", "exited", "raised", "returned"}
  /\ \A w \in Workers :
       /\ worker[w].read \in Nat \cup {-1}
       /\ ~worker[w].busy => worker[w] = Idle
       /\ \A i \in DOMAIN worker[w].due : worker[w].due[i].by \in Nat
  /\ \A i \in DOMAIN shared.winner_list : shared.winner_list[i] \in Nat
  /\ \A i \in DOMAIN shared.result_histograms : shared.result_histograms[i] \in Nat

\* Nothing changes between the reading and the writing of an addition, although no lock
\* is held: the processes' slots are apart (simulation, unknown_simulation).
ReadIsCurrent ==
  \A w \in Workers : worker[w].read # -1 =>
    LET addition == Head(worker[w].due)
    IN  shared[addition.array][Element(w, addition)] = worker[w].read

\* The pairs an unknown player may hold, none when all are known.
FillersOf(c) ==
  LET hole_cards == create_hole_cards(c.cards)
  IN  IF HasUnknown(hole_cards) THEN generate_hole_cards(generate_deck(hole_cards, create_cards(c.board)))
      ELSE {{}}

\* How many simulations a list of winners counts.
SimulationsIn(winner_list) == MapThenSumSet(LAMBDA i : winner_list[i], DOMAIN winner_list)

\* The winners the two calculators find are the same, when all boards are looked at; of
\* random boards there are n for every pair an unknown player may hold (run_simulation).
AgreesWithSequential ==
  combined # <<>> =>
    IF Exhaustive(call) THEN combined = run_simulation(call)
    ELSE SimulationsIn(combined) = call.n * Cardinality(FillersOf(call))

-----------------------------------------------------------------------------
(* The tally, seen through the slots of the processes.                     *)

\* One counter for each element of the longest slot.
Counters ==
  {<<"winner_list", i>> : i \in 0 .. MaxPlayers} \cup {<<"result_histograms", i>> : i \in 0 .. 10 * MaxPlayers - 1}

\* The additions process w still has to make; counted from the end, the place of one among
\* them stays the same.
Pieces(w, due) ==
  {[name |-> <<w, Len(due) - j>>, counter |-> <<due[j].array, due[j].offset>>, by |-> due[j].by] :
   j \in DOMAIN due}

Outstanding == UNION {Pieces(w, worker[w].due) : w \in Workers}

\* What is in slot s for counter c, and in all slots together.
CountedIn(s, c) ==
  IF shared.winner_list = <<>> \/ c[2] >= Width(c[1]) THEN 0 ELSE shared[c[1]][s * Width(c[1]) + c[2]]

Plus(a, b) == a + b

Total(numbers) == FoldLeft(Plus, 0, numbers)

Counted == [c \in Counters |-> Total([i \in 1 .. CpuCount |-> CountedIn(i - 1, c)])]

Phase ==
  CASE main \in {"called", "reading"} -> "idle"
    [] main \in {"mapping", "combining"} -> "counting"
    [] main \in {"exited", "raised", "returned"} -> IF combined # <<>> THEN "counted" ELSE "ended"

Count == INSTANCE Tally WITH
  Names <- Workers \X Nat, phase <- Phase, simulations <- Len(work), due <- Outstanding, total <- Counted

\* Every simulation is counted exactly once, and before the counts are combined
\* (run_simulation, simulation, unknown_simulation).
CountsEachOnce == Count!Spec
=============================================================================
