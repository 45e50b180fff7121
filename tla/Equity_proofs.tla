---------------------------- MODULE Equity_proofs ----------------------------
(***************************************************************************)
(* No addition of the parallel calculator is lost, for any number of       *)
(* processes, whatever number the first of them has, and any calls: the    *)
(* processes read and write elements of the shared arrays without a lock   *)
(* over the addition, but never the same ones. The calculator implements   *)
(* the tally. First for the calculator alone, then for its composition     *)
(* with the simulation of best_bot, about which there are theorems of its  *)
(* own, and the ranking of hands.                                          *)
(***************************************************************************)
EXTENDS Equity, FiniteSetTheorems, TLAPS

-----------------------------------------------------------------------------
(* The index arithmetic of the shared arrays.                              *)

\* A slot that comes before another one ends before it (proc_id * width).
LEMMA SlotsDoNotOverlap ==
  ASSUME NEW s \in Nat, NEW t \in Nat, NEW n \in Nat, s < t
  PROVE  s * n + n <= t * n
  <1>1. PICK d \in Nat : t = s + 1 + d
    <2>1. t - s - 1 \in Nat /\ t = s + 1 + (t - s - 1)
      OBVIOUS
    <2>. QED  BY <2>1
  <1>2. t * n = s * n + n + d * n
    BY <1>1
  <1>3. d * n \in Nat
    OBVIOUS
  <1>4. s * n \in Nat /\ t * n \in Nat
    OBVIOUS
  <1>. QED  BY <1>2, <1>3, <1>4

\* Consecutive process numbers have different remainders (int(...) % cpu_count()).
LEMMA SlotsAreApart ==
  ASSUME NEW v \in Workers, NEW w \in Workers, v # w
  PROVE  Slot(v) # Slot(w)
  <1>1. CpuCount \in Nat \ {0} /\ FirstWorker \in Nat
    BY PoolAssumption
  <1>2. \A a \in Nat : a = CpuCount * (a \div CpuCount) + (a % CpuCount)
    BY <1>1
  <1>3. \A a \in Nat : a \div CpuCount \in Nat
    BY <1>1
  <1>4. ASSUME NEW a \in Workers, NEW b \in Workers, a < b, Slot(a) = Slot(b)
        PROVE  FALSE
    <2>1. a \in Nat /\ b \in Nat /\ b - a < CpuCount /\ b - a > 0
      BY <1>1, <1>4 DEF Workers
    <2> DEFINE p == a \div CpuCount
               q == b \div CpuCount
    <2>2. p \in Nat /\ q \in Nat
      BY <1>3, <2>1
    <2>3. a = CpuCount * p + Slot(a) /\ b = CpuCount * q + Slot(b)
      BY <1>2, <2>1 DEF Slot
    <2>4. Slot(a) \in Nat
      BY <1>1, <2>1 DEF Slot
    <2> HIDE DEF p, q
    <2>5. CASE p < q
      <3>1. p * CpuCount + CpuCount <= q * CpuCount
        BY <2>2, <2>5, <1>1, SlotsDoNotOverlap
      <3>2. p * CpuCount = CpuCount * p /\ q * CpuCount = CpuCount * q
        BY <2>2, <1>1
      <3>3. CpuCount * p \in Nat /\ CpuCount * q \in Nat
        BY <2>2, <1>1
      <3>. QED  BY <3>1, <3>2, <3>3, <2>1, <2>3, <2>4, <1>4, <1>1
    <2>6. CASE q <= p
      <3>1. CpuCount * q <= CpuCount * p
        <4>1. CASE q = p
          BY <4>1, <2>2, <1>1
        <4>2. CASE q < p
          <5>1. q * CpuCount + CpuCount <= p * CpuCount
            BY <2>2, <4>2, <1>1, SlotsDoNotOverlap
          <5>2. p * CpuCount = CpuCount * p /\ q * CpuCount = CpuCount * q
            BY <2>2, <1>1
          <5>3. CpuCount * p \in Nat /\ CpuCount * q \in Nat
            BY <2>2, <1>1
          <5>. QED  BY <5>1, <5>2, <5>3, <1>1
        <4>. QED  BY <4>1, <4>2, <2>2, <2>6
      <3>2. CpuCount * p \in Nat /\ CpuCount * q \in Nat
        BY <2>2, <1>1
      <3>. QED  BY <3>1, <3>2, <2>1, <2>3, <2>4, <1>4
    <2>. QED  BY <2>2, <2>5, <2>6
  <1>5. v \in Int /\ w \in Int
    BY <1>1 DEF Workers
  <1>6. CASE v < w
    BY <1>4, <1>6
  <1>7. CASE w < v
    BY <1>4, <1>7
  <1>. QED  BY <1>5, <1>6, <1>7

LEMMA SlotsExist ==
  ASSUME NEW w \in Workers
  PROVE  Slot(w) \in 0 .. CpuCount - 1
  BY PoolAssumption DEF Workers, Slot

-----------------------------------------------------------------------------
(* The invariant.                                                          *)

Task(n) == [fails : BOOLEAN, additions : SUBSET Seq(Addition(n))]

Arrays(n) ==
  [winner_list : [0 .. CpuCount * (n + 1) - 1 -> Nat],
   result_histograms : [0 .. CpuCount * (10 * n) - 1 -> Nat]]

\* Until the pool is started the arguments are those of a call, accepted before its input
\* file is read, and what is left of the file is its own (calculate, run).
CallKnown ==
  /\ main \in {"called", "reading"} => call \in Calls
  /\ main = "reading" => parse_lib_args(call) /\ lines \in Seq(LinesOf(call))

\* While the pool works the arrays are as long as the slots need (run_simulation).
PoolWellFormed ==
  main = "mapping" =>
    /\ num_players \in 1 .. MaxPlayers
    /\ work \in Seq(Task(num_players))
    /\ shared \in Arrays(num_players)
    /\ worker \in [Workers -> [busy : BOOLEAN, fails : BOOLEAN,
                               due : Seq(Addition(num_players)), read : Nat \cup {-1}]]
    /\ \A w \in Workers : worker[w].read # -1 => worker[w].due # <<>>

\* Outside of map the processes rest, and within it one that is not busy has nothing
\* to do (pool.map).
IdleWhenDone ==
  /\ main # "mapping" => worker = [w \in Workers |-> Idle]
  /\ \A w \in Workers : ~worker[w].busy => worker[w] = Idle

\* The arrays hold numbers, after the pool has ended as well.
Counting ==
  /\ main \in {"called", "reading", "mapping", "combining", "exited", "raised", "returned"}
  /\ \A i \in DOMAIN shared.winner_list : shared.winner_list[i] \in Nat
  /\ \A i \in DOMAIN shared.result_histograms : shared.result_histograms[i] \in Nat

IInv == CallKnown /\ PoolWellFormed /\ IdleWhenDone /\ Counting /\ ReadIsCurrent

\* The element a process adds to is one of the array's.
LEMMA ElementsExist ==
  ASSUME NEW w \in Workers, num_players \in Nat \ {0}, NEW a \in Addition(num_players)
  PROVE  Element(w, a) \in 0 .. CpuCount * Width(a.array) - 1
  <1> DEFINE width == Width(a.array)
  <1>1. width \in Nat /\ a.offset \in Nat /\ a.offset < width
    BY DEF Width, Addition
  <1>2. Slot(w) \in Nat /\ CpuCount \in Nat /\ Slot(w) < CpuCount
    BY SlotsExist, PoolAssumption
  <1> HIDE DEF width
  <1>3. Slot(w) * width + width <= CpuCount * width
    BY <1>1, <1>2, SlotsDoNotOverlap
  <1>4. Slot(w) * width \in Nat /\ CpuCount * width \in Nat
    BY <1>1, <1>2
  <1>5. Element(w, a) = Slot(w) * width + a.offset
    BY DEF Element, width
  <1>6. Element(w, a) \in 0 .. CpuCount * width - 1
    BY <1>1, <1>3, <1>4, <1>5
  <1>. QED  BY <1>6 DEF width

\* Two processes never add to the same element.
LEMMA ElementsAreApart ==
  ASSUME NEW v \in Workers, NEW w \in Workers, v # w, num_players \in Nat \ {0},
         NEW a \in Addition(num_players), NEW b \in Addition(num_players), a.array = b.array
  PROVE  Element(v, a) # Element(w, b)
  <1> DEFINE width == Width(a.array)
  <1>1. /\ width \in Nat /\ a.offset \in Nat /\ b.offset \in Nat
        /\ a.offset < width /\ b.offset < width
    BY DEF Width, Addition
  <1>2. Slot(v) \in Nat /\ Slot(w) \in Nat /\ Slot(v) # Slot(w)
    BY SlotsExist, SlotsAreApart, PoolAssumption
  <1> HIDE DEF width
  <1>3. Element(v, a) = Slot(v) * width + a.offset /\ Element(w, b) = Slot(w) * width + b.offset
    BY DEF Element, width
  <1>4. Slot(v) * width \in Nat /\ Slot(w) * width \in Nat
    BY <1>1, <1>2
  <1>5. CASE Slot(v) < Slot(w)
    <2>1. Slot(v) * width + width <= Slot(w) * width
      BY <1>1, <1>2, <1>5, SlotsDoNotOverlap
    <2>. QED  BY <2>1, <1>1, <1>3, <1>4
  <1>6. CASE Slot(w) < Slot(v)
    <2>1. Slot(w) * width + width <= Slot(v) * width
      BY <1>1, <1>2, <1>6, SlotsDoNotOverlap
    <2>. QED  BY <2>1, <1>1, <1>3, <1>4
  <1>. QED  BY <1>2, <1>5, <1>6

-----------------------------------------------------------------------------
(* Every step keeps the invariant.                                         *)

\* The steps of the main process that start the pool, on the cards of the call or of a
\* line (run_simulation up to pool.map).
LEMMA SimulateKeeps ==
  ASSUME IInv, main \in {"called", "reading"}, Simulate,
         ~TakenTwice(call'.cards \o TextsOf(call'.board)) => call' \in Problems
  PROVE  IInv'
  <1>1. worker = [w \in Workers |-> Idle]
    BY DEF IInv, IdleWhenDone
  <1>2. CASE TakenTwice(call'.cards \o TextsOf(call'.board))
    <2>1. main' = "raised" /\ worker' = worker /\ shared' = shared
      BY <1>2 DEF Simulate, Refuse
    <2>2. Counting'
      BY <2>1 DEF IInv, Counting
    <2>. QED
      BY <1>1, <2>1, <2>2 DEF IInv, CallKnown, PoolWellFormed, IdleWhenDone, ReadIsCurrent, Idle
  <1>3. CASE ~TakenTwice(call'.cards \o TextsOf(call'.board))
    <2>1. call' \in Problems
      BY <1>3
    <2>2. /\ main' = "mapping" /\ worker' = worker
          /\ work' \in TaskLists(call')
          /\ shared' = [winner_list |-> [k \in 0 .. CpuCount * Width("winner_list")' - 1 |-> 0],
                        result_histograms |->
                          [k \in 0 .. CpuCount * Width("result_histograms")' - 1 |-> 0]]
      BY <1>3 DEF Simulate, Zeros
    <2>3. num_players' \in 1 .. MaxPlayers /\ TaskLists(call') \subseteq Seq(Task(num_players'))
      BY <2>1, CallsAssumption DEF num_players, Task
    <2>4. work' \in Seq(Task(num_players'))
      BY <2>2, <2>3
    <2>5. shared' \in Arrays(num_players')
      BY <2>2 DEF Arrays, Width
    <2>6. worker' \in [Workers -> [busy : BOOLEAN, fails : BOOLEAN,
                                   due : Seq(Addition(num_players')), read : Nat \cup {-1}]]
      BY <1>1, <2>2 DEF Idle
    <2>7. \A w \in Workers : worker'[w].read = -1
      BY <1>1, <2>2 DEF Idle
    <2>8. \A w \in Workers : worker'[w] = Idle
      BY <1>1, <2>2
    <2>9. Counting'
      BY <2>2, <2>5 DEF Counting, Arrays
    <2>. QED
      BY <2>2, <2>3, <2>4, <2>5, <2>6, <2>7, <2>8, <2>9
      DEF IInv, CallKnown, PoolWellFormed, IdleWhenDone, ReadIsCurrent
  <1>. QED  BY <1>2, <1>3

\* A step that leaves the processes at rest and does not start the pool.
LEMMA RestKeeps ==
  ASSUME IInv, worker' = [w \in Workers |-> Idle], shared' = shared, CallKnown',
         main' \in {"reading", "combining", "exited", "raised", "returned"}
  PROVE  IInv'
  <1>1. Counting'
    BY DEF IInv, Counting
  <1>. QED  BY <1>1 DEF IInv, PoolWellFormed, IdleWhenDone, ReadIsCurrent, Idle

LEMMA CallKeeps ==
  ASSUME IInv, Call
  PROVE  IInv'
  <1>1. CASE Calculate
    <2>1. main = "called" /\ call' = call /\ call \in Calls
      BY <1>1 DEF Calculate, IInv, CallKnown
    <2>2. CASE ~parse_lib_args(call)
      <3>1. main' = "exited" /\ worker' = worker /\ shared' = shared
        BY <1>1, <2>2 DEF Calculate, Refuse
      <3>. QED  BY <2>1, <3>1, RestKeeps DEF IInv, IdleWhenDone, CallKnown
    <2>3. CASE parse_lib_args(call) /\ call.input = "file"
      <3>1. main' = "reading" /\ worker' = worker /\ shared' = shared /\ lines' = call.lines
        BY <1>1, <2>3 DEF Calculate, Refuse
      <3>2. CallKnown'
        <4>1. main' = "reading" /\ call' = call /\ call \in Calls /\ call.lines \in Seq(LinesOf(call))
          BY <2>1, <3>1, CallsAssumption
        <4>. QED  BY <2>3, <3>1, <4>1 DEF CallKnown
      <3>. QED  BY <2>1, <3>1, <3>2, RestKeeps DEF IInv, IdleWhenDone
    <2>4. CASE parse_lib_args(call) /\ call.input # "file"
      <3>1. Simulate
        BY <1>1, <2>4 DEF Calculate
      <3>2. ~TakenTwice(call.cards \o TextsOf(call.board)) => call \in Problems
        BY <2>1, <2>4 DEF Problems
      <3>. QED  BY <2>1, <3>1, <3>2, SimulateKeeps
    <2>. QED  BY <2>2, <2>3, <2>4
  <1>2. CASE ReadLine
    <2>1. /\ main = "reading" /\ lines # <<>> /\ lines' = Tail(lines)
          /\ call \in Calls /\ parse_lib_args(call) /\ lines \in Seq(LinesOf(call))
      BY <1>2 DEF ReadLine, IInv, CallKnown
    <2> DEFINE line == Head(lines)
    <2>2. line \in LinesOf(call)
      BY <2>1
    <2>3. CASE line.parts = 0
      <3>1. main' = "reading" /\ worker' = worker /\ shared' = shared /\ call' = call
        BY <1>2, <2>3 DEF ReadLine, Refuse
      <3>2. CallKnown'
        BY <2>1, <3>1 DEF CallKnown
      <3>. QED  BY <2>1, <3>1, <3>2, RestKeeps DEF IInv, IdleWhenDone
    <2>4. CASE line.parts # 0 /\ ~parse_file_args(line)
      <3>1. main' = "exited" /\ worker' = worker /\ shared' = shared
        BY <1>2, <2>4 DEF ReadLine, Refuse
      <3>. QED  BY <2>1, <3>1, RestKeeps DEF IInv, IdleWhenDone, CallKnown
    <2>5. CASE line.parts # 0 /\ parse_file_args(line)
      <3>1. Simulate /\ call' = WithLine(call, line)
        BY <1>2, <2>5 DEF ReadLine
      <3>2. ~TakenTwice(call'.cards \o TextsOf(call'.board)) => call' \in Problems
        BY <2>1, <2>2, <2>5, <3>1 DEF Problems
      <3>3. CASE TakenTwice(call'.cards \o TextsOf(call'.board))
        <4>1. main' = "raised" /\ worker' = worker /\ shared' = shared
          BY <3>1, <3>3 DEF Simulate, Refuse
        <4>. QED  BY <2>1, <4>1, RestKeeps DEF IInv, IdleWhenDone, CallKnown
      <3>4. CASE ~TakenTwice(call'.cards \o TextsOf(call'.board))
        BY <2>1, <3>1, <3>2, <3>4, SimulateKeeps
      <3>. QED  BY <3>3, <3>4
    <2>. QED  BY <2>3, <2>4, <2>5
  <1>3. CASE EndOfFile
    <2>1. main = "reading" /\ main' = "returned" /\ worker' = worker /\ shared' = shared
      BY <1>3 DEF EndOfFile
    <2>. QED  BY <2>1, RestKeeps DEF IInv, IdleWhenDone, CallKnown
  <1>. QED  BY <1>1, <1>2, <1>3 DEF Call

LEMMA CollectKeeps ==
  ASSUME IInv, Collect
  PROVE  IInv'
  <1>1. CASE MapReturns
    <2>1. main' \in {"raised", "combining"} /\ worker' = worker /\ shared' = shared /\ \A w \in Workers : ~worker[w].busy
      BY <1>1 DEF MapReturns
    <2>2. worker \in [Workers -> [busy : BOOLEAN, fails : BOOLEAN,
                                  due : Seq(Addition(num_players)), read : Nat \cup {-1}]]
      BY <1>1 DEF MapReturns, IInv, PoolWellFormed
    <2>3. \A w \in Workers : worker[w] = Idle
      BY <2>1 DEF IInv, IdleWhenDone
    <2>4. worker = [w \in Workers |-> Idle]
      BY <2>2, <2>3
    <2>. QED  BY <2>1, <2>4, RestKeeps DEF CallKnown
  <1>2. CASE Combine
    <2>1. main = "combining" /\ main' = "raised" /\ worker' = worker /\ shared' = shared
      BY <1>2 DEF Combine
    <2>. QED  BY <2>1, RestKeeps DEF IInv, IdleWhenDone, CallKnown
  <1>. QED  BY <1>1, <1>2 DEF Collect

WorkerState(n) == [busy : BOOLEAN, fails : BOOLEAN, due : Seq(Addition(n)), read : Nat \cup {-1}]

\* ReadIsCurrent of given arguments, where it can be said of the next state as well.
At(n, w, a) == Slot(w) * (IF a.array = "winner_list" THEN n + 1 ELSE 10 * n) + a.offset

Held(n, arrays, state) ==
  \A w \in Workers : state[w].read # -1 =>
    arrays[Head(state[w].due).array][At(n, w, Head(state[w].due))] = state[w].read

LEMMA ReadIsCurrentHeld ==
  /\ ReadIsCurrent <=> Held(num_players, shared, worker)
  /\ ReadIsCurrent' <=> Held(num_players', shared', worker')
  BY DEF ReadIsCurrent, Held, At, Element, Width

\* What a process can rely on while it works: the arguments stay as they are and the
\* arrays have the elements of all slots, each with a process of its own.
LEMMA WorkInMap ==
  ASSUME IInv, NEW w \in Workers, Work(w)
  PROVE  /\ main = "mapping" /\ main' = main /\ call' = call /\ lines' = lines
         /\ num_players' = num_players /\ num_players \in 1 .. MaxPlayers /\ num_players \in Nat \ {0}
         /\ work \in Seq(Task(num_players)) /\ shared \in Arrays(num_players)
         /\ worker \in [Workers -> WorkerState(num_players)]
         /\ \A v \in Workers : worker[v].read # -1 => worker[v].due # <<>>
         /\ Held(num_players, shared, worker)
  <1>1. main = "mapping"
    <2>1. CASE Take(w)
      BY <2>1 DEF Take
    <2>2. CASE worker[w].due # <<>> \/ worker[w].busy
      BY <2>2 DEF IInv, IdleWhenDone, Idle
    <2>. QED  BY <2>1, <2>2 DEF Work, Read, Write, Finish
  <1>2. main' = main /\ call' = call /\ lines' = lines
    BY DEF Work, Take, Read, Write, Finish
  <1>3. num_players' = num_players
    BY <1>2 DEF num_players
  <1>4. num_players \in 1 .. MaxPlayers
    BY <1>1 DEF IInv, PoolWellFormed
  <1>5. num_players \in Nat \ {0}
    BY <1>4, CallsAssumption
  <1>. QED  BY <1>1, <1>2, <1>3, <1>4, <1>5, ReadIsCurrentHeld DEF IInv, PoolWellFormed, WorkerState

LEMMA AtExists ==
  ASSUME NEW w \in Workers, num_players \in Nat \ {0}, NEW a \in Addition(num_players)
  PROVE  At(num_players, w, a) \in 0 .. CpuCount * Width(a.array) - 1
  BY ElementsExist DEF At, Element, Width

LEMMA AtApart ==
  ASSUME NEW v \in Workers, NEW w \in Workers, v # w, num_players \in Nat \ {0},
         NEW a \in Addition(num_players), NEW b \in Addition(num_players), a.array = b.array
  PROVE  At(num_players, v, a) # At(num_players, w, b)
  BY ElementsAreApart DEF At, Element, Width

\* What is left to show for a step of process w that leaves the others alone.
LEMMA WorkKeeps ==
  ASSUME IInv, NEW w \in Workers, Work(w),
         work' \in Seq(Task(num_players)), shared' \in Arrays(num_players),
         NEW next \in WorkerState(num_players),
         worker' = [worker EXCEPT ![w] = next],
         next.read # -1 => next.due # <<>>,
         ~next.busy => next = Idle,
         Held(num_players, shared', worker')
  PROVE  IInv'
  <1>1. worker' \in [Workers -> WorkerState(num_players)]
    BY WorkInMap
  <1>2. worker'[w] = next /\ \A v \in Workers \ {w} : worker'[v] = worker[v]
    BY WorkInMap
  <1>3. CallKnown'
    BY WorkInMap DEF CallKnown
  <1>4. PoolWellFormed'
    BY <1>1, <1>2, WorkInMap DEF PoolWellFormed, WorkerState
  <1>5. IdleWhenDone'
    BY <1>2, WorkInMap DEF IInv, IdleWhenDone
  <1>6. ReadIsCurrent'
    BY WorkInMap, ReadIsCurrentHeld
  <1>7. Counting'
    BY WorkInMap DEF Counting, Arrays
  <1>. QED  BY <1>3, <1>4, <1>5, <1>6, <1>7 DEF IInv

LEMMA TakeKeeps ==
  ASSUME IInv, NEW w \in Workers, Take(w)
  PROVE  IInv'
  <1>1. Work(w)
    BY DEF Work
  <1>2. work # <<>> /\ work' = Tail(work) /\ shared' = shared
    BY DEF Take
  <1>3. PICK due \in Head(work).additions :
          worker' = [worker EXCEPT ![w] = [busy |-> TRUE, fails |-> Head(work).fails, due |-> due, read |-> -1]]
    BY DEF Take
  <1> DEFINE next == [busy |-> TRUE, fails |-> Head(work).fails, due |-> due, read |-> -1]
  <1>4. Head(work) \in Task(num_players) /\ work' \in Seq(Task(num_players))
    BY <1>1, <1>2, WorkInMap
  <1>5. due \in Seq(Addition(num_players)) /\ Head(work).fails \in BOOLEAN
    BY <1>4 DEF Task
  <1>6. next \in WorkerState(num_players)
    BY <1>5 DEF WorkerState
  <1>7. worker'[w] = next /\ \A v \in Workers \ {w} : worker'[v] = worker[v]
    BY <1>1, <1>3, WorkInMap
  <1>8. Held(num_players, shared', worker')
    BY <1>1, <1>2, <1>7, WorkInMap DEF Held
  <1>. QED  BY <1>1, <1>2, <1>3, <1>4, <1>6, <1>8, WorkInMap, WorkKeeps

LEMMA ReadKeeps ==
  ASSUME IInv, NEW w \in Workers, Read(w)
  PROVE  IInv'
  <1>1. Work(w)
    BY DEF Work
  <1> DEFINE a == Head(worker[w].due)
             value == shared[a.array][At(num_players, w, a)]
             next == [worker[w] EXCEPT !.read = value]
  <1>2. worker[w].due # <<>> /\ worker' = [worker EXCEPT ![w] = next] /\ work' = work /\ shared' = shared
    BY DEF Read, Element, At, Width
  <1>3. worker[w] \in WorkerState(num_players)
    BY <1>1, WorkInMap
  <1>4. a \in Addition(num_players)
    BY <1>2, <1>3 DEF WorkerState
  <1>5. value \in Nat
    BY <1>1, <1>4, AtExists, WorkInMap DEF Arrays, Width, Addition
  <1>6. next \in WorkerState(num_players) /\ next.busy = worker[w].busy /\ next.due = worker[w].due /\ next.read = value
    BY <1>3, <1>5 DEF WorkerState
  <1>7. worker'[w] = next /\ \A v \in Workers \ {w} : worker'[v] = worker[v]
    BY <1>1, <1>2, WorkInMap
  <1>8. next.busy
    BY <1>2, <1>6 DEF IInv, IdleWhenDone, Idle
  <1>9. Held(num_players, shared', worker')
    <2> SUFFICES ASSUME NEW v \in Workers, worker'[v].read # -1
                 PROVE  shared'[Head(worker'[v].due).array][At(num_players, v, Head(worker'[v].due))]
                          = worker'[v].read
      BY DEF Held
    <2>1. CASE v = w
      BY <2>1, <1>2, <1>6, <1>7
    <2>2. CASE v # w
      BY <2>2, <1>1, <1>2, <1>7, WorkInMap DEF Held
    <2>. QED  BY <2>1, <2>2
  <1> HIDE DEF next
  <1>. QED  BY <1>1, <1>2, <1>6, <1>8, <1>9, WorkInMap, WorkKeeps

LEMMA WriteKeeps ==
  ASSUME IInv, NEW w \in Workers, Write(w)
  PROVE  IInv'
  <1>1. Work(w)
    BY DEF Work
  <1> DEFINE a == Head(worker[w].due)
             at == At(num_players, w, a)
             rest == [worker[w] EXCEPT !.due = Tail(@)]
             next == [rest EXCEPT !.read = -1]
  <1>2. /\ worker[w].due # <<>> /\ worker[w].read # -1
        /\ worker' = [worker EXCEPT ![w] = next] /\ work' = work
        /\ shared' = [shared EXCEPT ![a.array][at] = Sum(w)]
    BY DEF Write, Element, At, Width
  <1>3. worker[w] \in WorkerState(num_players)
    BY <1>1, WorkInMap
  <1>4. a \in Addition(num_players) /\ Tail(worker[w].due) \in Seq(Addition(num_players))
    BY <1>2, <1>3 DEF WorkerState
  <1>5. Sum(w) \in Nat
    BY <1>2, <1>3, <1>4 DEF Sum, WorkerState, Addition
  <1>6. next \in WorkerState(num_players) /\ next.busy = worker[w].busy /\ next.read = -1
    <2>1. rest \in WorkerState(num_players) /\ rest.busy = worker[w].busy
      BY <1>3, <1>4 DEF WorkerState
    <2> HIDE DEF rest
    <2>. QED  BY <2>1 DEF WorkerState
  <1>7. worker'[w] = next /\ \A v \in Workers \ {w} : worker'[v] = worker[v]
    BY <1>1, <1>2, WorkInMap
  <1>8. next.busy
    BY <1>2, <1>6 DEF IInv, IdleWhenDone, Idle
  <1>9. shared' \in Arrays(num_players)
    BY <1>1, <1>2, <1>5, WorkInMap DEF Arrays
  <1>10. Held(num_players, shared', worker')
    <2> SUFFICES ASSUME NEW v \in Workers, worker'[v].read # -1
                 PROVE  shared'[Head(worker'[v].due).array][At(num_players, v, Head(worker'[v].due))]
                          = worker'[v].read
      BY DEF Held
    <2>1. v # w /\ worker'[v] = worker[v]
      BY <1>6, <1>7
    <2> DEFINE b == Head(worker[v].due)
    <2>2. worker[v].due # <<>> /\ worker[v].due \in Seq(Addition(num_players))
      BY <1>1, <2>1, WorkInMap DEF WorkerState
    <2>3. b \in Addition(num_players)
      BY <2>2
    <2>4. shared[b.array][At(num_players, v, b)] = worker[v].read
      BY <1>1, <2>1, WorkInMap DEF Held
    <2>5. b.array # a.array \/ At(num_players, v, b) # at
      BY <1>1, <1>4, <2>1, <2>3, AtApart, WorkInMap
    <2>6. shared'[b.array][At(num_players, v, b)] = shared[b.array][At(num_players, v, b)]
      <3> HIDE DEF a, b, at
      <3>. QED  BY <1>1, <1>2, <1>4, <2>3, <2>5, WorkInMap DEF Arrays, Addition
    <2>. QED  BY <2>1, <2>4, <2>6
  <1> HIDE DEF next
  <1>. QED  BY <1>1, <1>2, <1>6, <1>8, <1>9, <1>10, WorkInMap, WorkKeeps

LEMMA FinishKeeps ==
  ASSUME IInv, NEW w \in Workers, Finish(w)
  PROVE  IInv'
  <1>1. Work(w)
    BY DEF Work
  <1>2. worker' = [worker EXCEPT ![w] = Idle] /\ work' = work /\ shared' = shared
    BY DEF Finish
  <1>3. Idle \in WorkerState(num_players) /\ Idle.read = -1
    BY DEF Idle, WorkerState
  <1>4. worker'[w] = Idle /\ \A v \in Workers \ {w} : worker'[v] = worker[v]
    BY <1>1, <1>2, WorkInMap
  <1>5. Held(num_players, shared', worker')
    BY <1>1, <1>2, <1>3, <1>4, WorkInMap DEF Held
  <1>. QED  BY <1>1, <1>2, <1>3, <1>5, WorkInMap, WorkKeeps

\* Every step of a calculation keeps the slots apart and the reads current.
LEMMA StepsKeep ==
  ASSUME IInv, [ParallelNext]_parallelVars
  PROVE  IInv'
  <1>1. CASE Call
    BY <1>1, CallKeeps
  <1>2. CASE Collect
    BY <1>2, CollectKeeps
  <1>3. ASSUME NEW w \in Workers, Work(w)
        PROVE  IInv'
    BY <1>3, TakeKeeps, ReadKeeps, WriteKeeps, FinishKeeps DEF Work
  <1>4. CASE UNCHANGED parallelVars
    <2>1. num_players' = num_players
      BY <1>4 DEF parallelVars, num_players
    <2>2. ReadIsCurrent'
      BY <1>4, <2>1, ReadIsCurrentHeld DEF parallelVars, IInv
    <2>3. Counting'
      BY <1>4 DEF parallelVars, IInv, Counting
    <2>. QED
      BY <1>4, <2>1, <2>2, <2>3 DEF parallelVars, IInv, CallKnown, PoolWellFormed, IdleWhenDone
  <1>. QED  BY <1>1, <1>2, <1>3, <1>4 DEF ParallelNext

\* The slots are apart and nothing is read when a calculation begins.
LEMMA BeginsCurrent == ParallelInit => IInv
  BY DEF ParallelInit, IInv, CallKnown, PoolWellFormed, IdleWhenDone, Counting, ReadIsCurrent, Idle

-----------------------------------------------------------------------------
\* Between the reading and the writing of an addition no other process changes the
\* element, for any number of processes and wherever their numbers start.
THEOREM ReadsAreCurrent == ParallelSpec => []ReadIsCurrent
  <1>1. IInv => ReadIsCurrent
    BY DEF IInv
  <1>. QED  BY <1>1, BeginsCurrent, StepsKeep, PTL DEF ParallelSpec

-----------------------------------------------------------------------------
(* Sums over the slots.                                                    *)

Adding == INSTANCE Folding WITH Op <- Plus

\* A total grows element by element.
LEMMA TotalGrows ==
  ASSUME NEW n \in Nat, NEW s, DOMAIN s = 1 .. n
  PROVE  /\ Adding!Prefix(0, s, 0) = 0
         /\ \A k \in 0 .. n - 1 : Adding!Prefix(0, s, k + 1) = Adding!Prefix(0, s, k) + s[k + 1]
         /\ Total(s) = Adding!Prefix(0, s, n)
  <1>1. /\ Adding!Prefix(0, s, 0) = 0
        /\ \A k \in 0 .. n - 1 : Adding!Prefix(0, s, k + 1) = Plus(Adding!Prefix(0, s, k), s[k + 1])
        /\ Adding!Fold(0, s) = Adding!Prefix(0, s, n)
    BY Adding!PrefixStep
  <1>2. Total(s) = Adding!Fold(0, s)
    BY Zenon DEF Total, FoldLeft, MapThenFoldSet, Max, Adding!Fold, Adding!FoldLeft, Adding!MapThenFoldSet,
       Adding!Max
  <1>. QED  BY <1>1, <1>2 DEF Plus

\* A total of numbers is a number, and that of zeros is zero.
LEMMA TotalOfNumbers ==
  ASSUME NEW n \in Nat, NEW s, DOMAIN s = 1 .. n, \A i \in 1 .. n : s[i] \in Nat
  PROVE  Total(s) \in Nat /\ ((\A i \in 1 .. n : s[i] = 0) => Total(s) = 0)
  <1> DEFINE P(k) == Adding!Prefix(0, s, k)
             Z == \A i \in 1 .. n : s[i] = 0
             K == {k \in Nat : k <= n => P(k) \in Nat /\ (Z => P(k) = 0)}
  <1>1. P(0) = 0 /\ (\A k \in 0 .. n - 1 : P(k + 1) = P(k) + s[k + 1]) /\ Total(s) = P(n)
    BY TotalGrows
  <1> HIDE DEF P, Z
  <1>2. K \in SUBSET Nat /\ 0 \in K
    BY <1>1
  <1>3. ASSUME NEW k \in K PROVE k + 1 \in K
    <2>1. CASE k + 1 <= n
      <3>1. k \in 0 .. n - 1 /\ k + 1 \in 1 .. n
        BY <2>1
      <3>2. P(k) \in Nat /\ (Z => P(k) = 0)
        BY <2>1
      <3>3. P(k + 1) = P(k) + s[k + 1] /\ s[k + 1] \in Nat /\ (Z => s[k + 1] = 0)
        BY <1>1, <3>1 DEF Z
      <3>4. P(k + 1) \in Nat /\ (Z => P(k + 1) = 0)
        BY <3>2, <3>3
      <3>. QED  BY <3>4
    <2>. QED  BY <2>1
  <1> HIDE DEF K
  <1>4. K = Nat
    BY <1>2, <1>3, Adding!NatSet
  <1>5. n \in K
    BY <1>4
  <1>6. P(n) \in Nat /\ (Z => P(n) = 0)
    BY <1>5 DEF K
  <1>. QED  BY <1>1, <1>6 DEF Z

\* Numbers that are the same except for one, which has grown.
GrownBy(n, s, t, j, d) ==
  /\ DOMAIN s = 1 .. n /\ DOMAIN t = 1 .. n /\ \A i \in 1 .. n : s[i] \in Nat
  /\ j \in 1 .. n /\ d \in Nat /\ t[j] = s[j] + d
  /\ \A i \in 1 .. n : i # j => t[i] = s[i]

\* A total grows by what one of its elements grows by.
LEMMA TotalChanges ==
  ASSUME NEW n \in Nat, NEW s, NEW t, NEW j, NEW d, GrownBy(n, s, t, j, d)
  PROVE  Total(t) = Total(s) + d
  <1> USE DEF GrownBy
  <1> DEFINE P(k) == Adding!Prefix(0, s, k)
             Q(k) == Adding!Prefix(0, t, k)
             K == {k \in Nat : k <= n => P(k) \in Nat /\ Q(k) = IF k < j THEN P(k) ELSE P(k) + d}
  <1>1. P(0) = 0 /\ (\A k \in 0 .. n - 1 : P(k + 1) = P(k) + s[k + 1]) /\ Total(s) = P(n)
    BY TotalGrows
  <1>2. Q(0) = 0 /\ (\A k \in 0 .. n - 1 : Q(k + 1) = Q(k) + t[k + 1]) /\ Total(t) = Q(n)
    BY TotalGrows
  <1> HIDE DEF P, Q
  <1>3. K \in SUBSET Nat /\ 0 \in K
    BY <1>1, <1>2
  <1>4. ASSUME NEW k \in K PROVE k + 1 \in K
    <2>1. CASE k + 1 <= n
      <3>1. k \in 0 .. n - 1 /\ k + 1 \in 1 .. n
        BY <2>1
      <3>2. P(k) \in Nat /\ Q(k) = IF k < j THEN P(k) ELSE P(k) + d
        BY <2>1
      <3>3. P(k + 1) = P(k) + s[k + 1] /\ s[k + 1] \in Nat
        BY <1>1, <3>1
      <3>4. Q(k + 1) = Q(k) + t[k + 1] /\ t[k + 1] = IF k + 1 = j THEN s[k + 1] + d ELSE s[k + 1]
        BY <1>2, <3>1
      <3>5. P(k + 1) \in Nat /\ Q(k + 1) = IF k + 1 < j THEN P(k + 1) ELSE P(k + 1) + d
        <4>1. CASE k + 1 < j
          BY <3>1, <3>2, <3>3, <3>4, <4>1
        <4>2. CASE k + 1 = j
          BY <3>1, <3>2, <3>3, <3>4, <4>2
        <4>3. CASE ~(k < j)
          BY <3>1, <3>2, <3>3, <3>4, <4>3
        <4>4. k + 1 < j \/ k + 1 = j \/ ~(k < j)
          BY <3>1
        <4>. QED  BY <4>1, <4>2, <4>3, <4>4
      <3>. QED  BY <3>5
    <2>. QED  BY <2>1
  <1> HIDE DEF K
  <1>5. K = Nat
    BY <1>3, <1>4, Adding!NatSet
  <1>6. n \in K
    BY <1>5
  <1>7. P(n) \in Nat /\ Q(n) = IF n < j THEN P(n) ELSE P(n) + d
    BY <1>6 DEF K
  <1>. QED  BY <1>1, <1>2, <1>7

-----------------------------------------------------------------------------
(* The calculator implements the tally.                                    *)

\* Until the pool starts the arrays are empty, until the end nothing is combined, and what
\* is combined is all there is.
Tallying ==
  /\ main \in {"called", "reading"} => shared.winner_list = <<>>
  /\ main \in {"called", "reading", "mapping", "combining"} => combined = <<>>
  /\ main = "combining" => work = <<>> /\ num_players \in 1 .. MaxPlayers

LEMMA TallyingKeeps ==
  ASSUME IInv, Tallying, [ParallelNext]_parallelVars
  PROVE  Tallying'
  <1>1. CASE Call
    BY <1>1 DEF Call, Calculate, ReadLine, EndOfFile, Simulate, Refuse, Tallying
  <1>2. CASE Collect
    <2>1. CASE MapReturns
      <3>1. main = "mapping" /\ num_players \in 1 .. MaxPlayers /\ num_players' = num_players
        BY <2>1 DEF MapReturns, IInv, PoolWellFormed, num_players
      <3>. QED  BY <2>1, <3>1 DEF MapReturns, Tallying
    <2>2. CASE Combine
      BY <2>2 DEF Combine, Tallying
    <2>. QED  BY <1>2, <2>1, <2>2 DEF Collect
  <1>3. ASSUME NEW w \in Workers, Work(w)
        PROVE  Tallying'
    <2>1. main = "mapping" /\ main' = "mapping" /\ combined' = combined
      BY <1>3, WorkInMap, Zenon DEF Work, Take, Read, Write, Finish
    <2>. QED  BY <2>1 DEF Tallying
  <1>4. CASE UNCHANGED parallelVars
    BY <1>4 DEF parallelVars, Tallying, num_players
  <1>. QED  BY <1>1, <1>2, <1>3, <1>4 DEF ParallelNext

\* A counter is the name of an array and a place in its slots.
LEMMA CountersArePlaces ==
  ASSUME NEW c \in Counters
  PROVE  /\ c[1] \in {"winner_list", "result_histograms"} /\ c[2] \in Nat /\ c = <<c[1], c[2]>>
  <1>1. CASE \E i \in 0 .. MaxPlayers : c = <<"winner_list", i>>
    BY <1>1, CallsAssumption
  <1>2. CASE \E i \in 0 .. 10 * MaxPlayers - 1 : c = <<"result_histograms", i>>
    BY <1>2, CallsAssumption
  <1>. QED  BY <1>1, <1>2 DEF Counters

\* Every addition of a call has its counter.
LEMMA AdditionsAreCounted ==
  ASSUME num_players \in 1 .. MaxPlayers, NEW a \in Addition(num_players)
  PROVE  <<a.array, a.offset>> \in Counters /\ a.by \in Nat /\ a.offset \in Nat /\ a.offset < Width(a.array)
  <1>1. MaxPlayers \in Nat
    BY CallsAssumption
  <1>2. CASE a \in [array : {"winner_list"}, offset : 0 .. num_players, by : Nat]
    <2>1. a.array = "winner_list" /\ a.offset \in 0 .. num_players /\ a.by \in Nat
      BY <1>2
    <2>. QED  BY <1>1, <2>1 DEF Counters, Width
  <1>3. CASE a \in [array : {"result_histograms"}, offset : 0 .. 10 * num_players - 1, by : Nat]
    <2>1. a.array = "result_histograms" /\ a.offset \in 0 .. 10 * num_players - 1 /\ a.by \in Nat
      BY <1>3
    <2>. QED  BY <1>1, <2>1 DEF Counters, Width
  <1>. QED  BY <1>2, <1>3 DEF Addition

\* Two places with the same index are in the same slot, at the same distance.
LEMMA PlacesAreApart ==
  ASSUME NEW k \in Nat, NEW l \in Nat, NEW width \in Nat, NEW x \in Nat, NEW y \in Nat,
         x < width, y < width, k * width + x = l * width + y
  PROVE  k = l /\ x = y
  <1>1. k * width \in Nat /\ l * width \in Nat
    OBVIOUS
  <1>2. CASE k < l
    <2>1. k * width + width <= l * width
      BY <1>2, SlotsDoNotOverlap
    <2>. QED  BY <1>1, <2>1
  <1>3. CASE l < k
    <2>1. l * width + width <= k * width
      BY <1>3, SlotsDoNotOverlap
    <2>. QED  BY <1>1, <2>1
  <1>4. CASE k = l
    BY <1>1, <1>4
  <1>. QED  BY <1>2, <1>3, <1>4

\* The counts of given arguments, where they can be said of the next state as well.
WidthOf(n, array) == IF array = "winner_list" THEN n + 1 ELSE 10 * n

CountIn(n, arrays, s, c) ==
  IF arrays.winner_list = <<>> \/ c[2] >= WidthOf(n, c[1]) THEN 0
  ELSE arrays[c[1]][s * WidthOf(n, c[1]) + c[2]]

Counts(n, arrays) == [c \in Counters |-> Total([i \in 1 .. CpuCount |-> CountIn(n, arrays, i - 1, c)])]

LEMMA CountedIs ==
  /\ Counted = Counts(num_players, shared)
  /\ Counted' = Counts(num_players', shared')
  BY DEF Counted, Counts, CountedIn, CountIn, Width, WidthOf

\* Empty arrays and arrays of zeros count nothing.
LEMMA NothingCounted ==
  ASSUME NEW n, NEW arrays, \A s \in 0 .. CpuCount - 1, c \in Counters : CountIn(n, arrays, s, c) = 0
  PROVE  Counts(n, arrays) = [c \in Counters |-> 0]
  <1>1. CpuCount \in Nat
    BY PoolAssumption
  <1> SUFFICES ASSUME NEW c \in Counters
               PROVE  Total([i \in 1 .. CpuCount |-> CountIn(n, arrays, i - 1, c)]) = 0
    BY DEF Counts
  <1> DEFINE s == [i \in 1 .. CpuCount |-> CountIn(n, arrays, i - 1, c)]
  <1>2. DOMAIN s = 1 .. CpuCount /\ \A i \in 1 .. CpuCount : s[i] = 0
    BY <1>1
  <1> HIDE DEF s
  <1>3. Total(s) = 0
    BY <1>1, <1>2, TotalOfNumbers
  <1>. QED  BY <1>3 DEF s

\* In the arrays of a call every count is a number.
LEMMA CountsAreNumbers ==
  ASSUME NEW n \in Nat \ {0}, NEW arrays \in Arrays(n), NEW s \in 0 .. CpuCount - 1, NEW c \in Counters
  PROVE  /\ CountIn(n, arrays, s, c) \in Nat
         /\ c[2] < WidthOf(n, c[1]) =>
              /\ s * WidthOf(n, c[1]) + c[2] \in 0 .. CpuCount * WidthOf(n, c[1]) - 1
              /\ CountIn(n, arrays, s, c) = arrays[c[1]][s * WidthOf(n, c[1]) + c[2]]
  <1> DEFINE width == WidthOf(n, c[1])
             at == s * width + c[2]
  <1>1. c[1] \in {"winner_list", "result_histograms"} /\ c[2] \in Nat
    BY CountersArePlaces
  <1>2. width \in Nat /\ CpuCount \in Nat \ {0} /\ s \in Nat /\ s < CpuCount
    BY PoolAssumption DEF WidthOf
  <1>3. DOMAIN arrays.winner_list = 0 .. CpuCount * (n + 1) - 1
    BY DEF Arrays
  <1>4. arrays.winner_list # <<>>
    <2>1. 0 \in DOMAIN arrays.winner_list
      <3>1. CpuCount * (n + 1) \in Nat \ {0}
        BY <1>2
      <3>. QED  BY <1>3, <3>1
    <2>. QED  BY <2>1
  <1>5. ASSUME c[2] < width
        PROVE  at \in 0 .. CpuCount * width - 1 /\ CountIn(n, arrays, s, c) = arrays[c[1]][at]
    <2> HIDE DEF width
    <2>1. s * width + width <= CpuCount * width
      BY <1>2, SlotsDoNotOverlap
    <2>2. s * width \in Nat /\ CpuCount * width \in Nat
      BY <1>2
    <2>3. at \in 0 .. CpuCount * width - 1
      BY <1>1, <1>2, <1>5, <2>1, <2>2
    <2>4. ~(c[2] >= width)
      BY <1>1, <1>2, <1>5
    <2>5. CountIn(n, arrays, s, c) = arrays[c[1]][at]
      BY <1>4, <2>4 DEF CountIn, width
    <2>. QED  BY <2>3, <2>5
  <1>6. CASE c[2] < width
    <2>1. arrays[c[1]] \in [0 .. CpuCount * width - 1 -> Nat]
      BY <1>1 DEF Arrays, WidthOf
    <2> HIDE DEF at, width
    <2>2. arrays[c[1]][at] \in Nat
      BY <1>5, <1>6, <2>1
    <2>. QED  BY <1>5, <1>6, <2>2 DEF at, width
  <1>7. CASE ~(c[2] < width)
    <2>1. CountIn(n, arrays, s, c) = 0
      BY <1>1, <1>2, <1>7 DEF CountIn
    <2>. QED  BY <1>7, <2>1
  <1>. QED  BY <1>6, <1>7

\* Arrays in which one element has grown, and what that means.
Grown(arrays, array, at, by) == [arrays EXCEPT ![array][at] = @ + by]

GrowsOnly(n, arrays, array, at, by, more) ==
  /\ more \in Arrays(n)
  /\ more[array][at] = arrays[array][at] + by
  /\ \A arr \in {"winner_list", "result_histograms"} :
       \A k \in 0 .. CpuCount * WidthOf(n, arr) - 1 :
         arr # array \/ k # at => more[arr][k] = arrays[arr][k]

LEMMA ArraysGrow ==
  ASSUME NEW n \in Nat \ {0}, NEW arrays \in Arrays(n), NEW array \in {"winner_list", "result_histograms"},
         NEW at \in 0 .. CpuCount * WidthOf(n, array) - 1, NEW by \in Nat
  PROVE  GrowsOnly(n, arrays, array, at, by, Grown(arrays, array, at, by))
  <1> DEFINE more == Grown(arrays, array, at, by)
  <1> DEFINE x == arrays.winner_list
             y == arrays.result_histograms
             X == 0 .. CpuCount * (n + 1) - 1
             Y == 0 .. CpuCount * (10 * n) - 1
  <1>1. x \in [X -> Nat] /\ y \in [Y -> Nat]
    BY DEF Arrays
  <1>2. /\ arrays = [winner_list |-> x, result_histograms |-> y]
        /\ arrays["winner_list"] = x /\ arrays["result_histograms"] = y
    BY DEF Arrays
  <1>3. \A r : r \in [winner_list : [X -> Nat], result_histograms : [Y -> Nat]] => r \in Arrays(n)
    BY DEF Arrays
  <1>4. \A arr \in {"winner_list", "result_histograms"} : \A k :
          k \in 0 .. CpuCount * WidthOf(n, arr) - 1 <=> k \in (IF arr = "winner_list" THEN X ELSE Y)
    BY DEF WidthOf
  <1> DEFINE grown == [arrays[array] EXCEPT ![at] = arrays[array][at] + by]
  <1>5. more = [arrays EXCEPT ![array] = grown]
    BY DEF Grown
  <1> SUFFICES GrowsOnly(n, arrays, array, at, by, more)
    OBVIOUS
  <1> HIDE DEF x, y, X, Y, more
  <1>6. CASE array = "winner_list"
    <2>1. at \in X
      BY <1>4, <1>6
    <2> DEFINE z == [x EXCEPT ![at] = x[at] + by]
    <2>2. z \in [X -> Nat] /\ z[at] = x[at] + by /\ \A k \in X : k # at => z[k] = x[k]
      BY <1>1, <2>1
    <2>3. grown = z
      BY <1>2, <1>6
    <2> HIDE DEF z, grown
    <2>4. more = [winner_list |-> z, result_histograms |-> y]
      BY <1>2, <1>5, <1>6, <2>3
    <2>5. more["winner_list"] = z /\ more["result_histograms"] = y
      BY <2>4
    <2>6. more \in Arrays(n)
      BY <1>1, <1>3, <2>2, <2>4
    <2>. QED  BY <1>2, <1>4, <1>6, <2>2, <2>5, <2>6 DEF GrowsOnly
  <1>7. CASE array = "result_histograms"
    <2>1. at \in Y
      BY <1>4, <1>7
    <2> DEFINE z == [y EXCEPT ![at] = y[at] + by]
    <2>2. z \in [Y -> Nat] /\ z[at] = y[at] + by /\ \A k \in Y : k # at => z[k] = y[k]
      BY <1>1, <2>1
    <2>3. grown = z
      BY <1>2, <1>7
    <2> HIDE DEF z, grown
    <2>4. more = [winner_list |-> x, result_histograms |-> z]
      BY <1>2, <1>5, <1>7, <2>3
    <2>5. more["winner_list"] = x /\ more["result_histograms"] = z
      BY <2>4
    <2>6. more \in Arrays(n)
      BY <1>1, <1>3, <2>2, <2>4
    <2>. QED  BY <1>2, <1>4, <1>7, <2>2, <2>5, <2>6 DEF GrowsOnly
  <1>. QED  BY <1>6, <1>7

\* Counts to which an addition has been made.
OneMore(counts, a) == [counts EXCEPT ![<<a.array, a.offset>>] = @ + a.by]

\* An addition is counted in one slot, for one counter.
LEMMA OneCountGrows ==
  ASSUME num_players \in 1 .. MaxPlayers, num_players \in Nat \ {0}, NEW arrays \in Arrays(num_players),
         NEW w \in Workers, NEW a \in Addition(num_players), NEW more,
         more = Grown(arrays, a.array, At(num_players, w, a), a.by)
  PROVE  Counts(num_players, more) = OneMore(Counts(num_players, arrays), a)
  <1> DEFINE n == num_players
             c0 == <<a.array, a.offset>>
             at == At(n, w, a)
             In(i, c) == CountIn(n, arrays, i, c)
             Now(i, c) == CountIn(n, more, i, c)
  <1>1. c0 \in Counters /\ a.by \in Nat /\ a.offset \in Nat /\ a.offset < WidthOf(n, a.array)
    BY AdditionsAreCounted DEF Width, WidthOf
  <1>2. Slot(w) \in 0 .. CpuCount - 1 /\ CpuCount \in Nat /\ at = Slot(w) * WidthOf(n, a.array) + a.offset
    BY SlotsExist, PoolAssumption DEF At, WidthOf
  <1>3. at \in 0 .. CpuCount * WidthOf(n, a.array) - 1
    BY AtExists DEF Width, WidthOf
  <1>4. a.array \in {"winner_list", "result_histograms"}
    BY DEF Addition
  <1>5. /\ more \in Arrays(n)
        /\ more[a.array][at] = arrays[a.array][at] + a.by
        /\ \A arr \in {"winner_list", "result_histograms"} :
             \A k \in 0 .. CpuCount * WidthOf(n, arr) - 1 :
               arr # a.array \/ k # at => more[arr][k] = arrays[arr][k]
    <2>1. n \in Nat \ {0} /\ arrays \in Arrays(n) /\ more = Grown(arrays, a.array, at, a.by)
      OBVIOUS
    <2> HIDE DEF at, n
    <2>2. GrowsOnly(n, arrays, a.array, at, a.by, Grown(arrays, a.array, at, a.by))
      BY <1>1, <1>3, <1>4, <2>1, ArraysGrow
    <2>. QED  BY <2>1, <2>2 DEF GrowsOnly
  <1>6. ASSUME NEW i \in 0 .. CpuCount - 1, NEW c \in Counters
        PROVE  /\ In(i, c) \in Nat
               /\ Now(i, c) = IF i = Slot(w) /\ c = c0 THEN In(i, c) + a.by ELSE In(i, c)
    <2> DEFINE width == WidthOf(n, c[1])
               k == i * width + c[2]
    <2>1. c[1] \in {"winner_list", "result_histograms"} /\ c[2] \in Nat /\ c = <<c[1], c[2]>>
      BY CountersArePlaces
    <2>2. /\ In(i, c) \in Nat
          /\ c[2] < width => k \in 0 .. CpuCount * width - 1 /\ In(i, c) = arrays[c[1]][k]
      BY CountsAreNumbers
    <2>3. c[2] < width => Now(i, c) = more[c[1]][k]
      BY <1>5, CountsAreNumbers
    <2>4. width \in Nat
      BY DEF WidthOf
    <2>5. CASE ~(c[2] < width)
      <3>1. In(i, c) = 0 /\ Now(i, c) = 0
        BY <2>1, <2>4, <2>5 DEF CountIn
      <3>2. c # c0
        BY <1>1, <2>1, <2>5
      <3>. QED  BY <3>1, <3>2
    <2>6. CASE c[2] < width /\ i = Slot(w) /\ c = c0
      <3>1. c[1] = a.array /\ k = at
        BY <1>2, <2>6
      <3>. QED  BY <1>5, <2>2, <2>3, <2>6, <3>1
    <2>7. CASE c[2] < width /\ ~(i = Slot(w) /\ c = c0)
      <3>1. c[1] # a.array \/ k # at
        <4>1. ASSUME c[1] = a.array, k = at
              PROVE  FALSE
          <5>1. i * width + c[2] = Slot(w) * width + a.offset
            BY <1>2, <4>1
          <5>2. i \in Nat /\ Slot(w) \in Nat /\ a.offset < width
            BY <1>1, <1>2, <4>1
          <5> HIDE DEF width
          <5>3. i = Slot(w) /\ c[2] = a.offset
            BY <1>1, <2>1, <2>4, <2>7, <5>1, <5>2, PlacesAreApart
          <5>. QED  BY <2>1, <2>7, <4>1, <5>3
        <4>. QED  BY <4>1
      <3>2. more[c[1]][k] = arrays[c[1]][k]
        <4> HIDE DEF k, width, at
        <4>. QED  BY <1>5, <2>1, <2>2, <2>7, <3>1 DEF width
      <3>. QED  BY <2>2, <2>3, <2>7, <3>2
    <2>. QED  BY <2>5, <2>6, <2>7
  <1> HIDE DEF In, Now, c0, at
  <1>7. ASSUME NEW c \in Counters
        PROVE  Total([i \in 1 .. CpuCount |-> Now(i - 1, c)])
                 = Total([i \in 1 .. CpuCount |-> In(i - 1, c)]) + (IF c = c0 THEN a.by ELSE 0)
    <2> DEFINE s == [i \in 1 .. CpuCount |-> In(i - 1, c)]
               t == [i \in 1 .. CpuCount |-> Now(i - 1, c)]
               d == IF c = c0 THEN a.by ELSE 0
               j == Slot(w) + 1
    <2>1. DOMAIN s = 1 .. CpuCount /\ DOMAIN t = 1 .. CpuCount /\ j \in 1 .. CpuCount /\ d \in Nat
      BY <1>1, <1>2
    <2>2. \A i \in 1 .. CpuCount : i - 1 \in 0 .. CpuCount - 1 /\ (i - 1 = Slot(w) <=> i = j)
      BY <1>2
    <2>3. \A i \in 1 .. CpuCount : s[i] = In(i - 1, c) /\ t[i] = Now(i - 1, c)
      OBVIOUS
    <2>4. \A i \in 1 .. CpuCount : s[i] \in Nat /\ t[i] = IF i = j THEN s[i] + d ELSE s[i]
      <3> SUFFICES ASSUME NEW i \in 1 .. CpuCount
                   PROVE  s[i] \in Nat /\ t[i] = IF i = j THEN s[i] + d ELSE s[i]
        OBVIOUS
      <3>1. /\ In(i - 1, c) \in Nat
            /\ Now(i - 1, c) = IF i - 1 = Slot(w) /\ c = c0 THEN In(i - 1, c) + a.by ELSE In(i - 1, c)
        BY <1>6, <2>2
      <3>2. s[i] = In(i - 1, c) /\ t[i] = Now(i - 1, c) /\ (i - 1 = Slot(w) <=> i = j)
        BY <2>2, <2>3
      <3> HIDE DEF s, t, j
      <3>. QED  BY <3>1, <3>2
    <2> HIDE DEF s, t, j, d
    <2>5. t[j] = s[j] + d /\ \A i \in 1 .. CpuCount : s[i] \in Nat /\ (i # j => t[i] = s[i])
      BY <2>1, <2>4
    <2>6. Total(t) = Total(s) + d
      <3>1. GrownBy(CpuCount, s, t, j, d)
        BY <2>1, <2>5 DEF GrownBy
      <3>. QED  BY <1>2, <3>1, TotalChanges
    <2>. QED  BY <2>6 DEF s, t, d
  <1>8. \A c \in Counters : Counts(n, more)[c] = Counts(n, arrays)[c] + (IF c = c0 THEN a.by ELSE 0)
    BY <1>7 DEF Counts, In, Now
  <1>9. \A c \in Counters : Counts(n, arrays)[c] \in Nat
    <2> SUFFICES ASSUME NEW c \in Counters
                 PROVE  Total([i \in 1 .. CpuCount |-> In(i - 1, c)]) \in Nat
      BY DEF Counts, In
    <2> DEFINE s == [i \in 1 .. CpuCount |-> In(i - 1, c)]
    <2>1. ASSUME NEW i \in 1 .. CpuCount
          PROVE  s[i] \in Nat
      <3>1. i - 1 \in 0 .. CpuCount - 1
        BY <1>2
      <3>2. In(i - 1, c) \in Nat
        BY <1>6, <3>1
      <3>. QED  BY <3>2
    <2>3. DOMAIN s = 1 .. CpuCount
      OBVIOUS
    <2> HIDE DEF s
    <2>2. Total(s) \in Nat
      BY <1>2, <2>1, <2>3, TotalOfNumbers
    <2>. QED  BY <2>2 DEF s
  <1>10. /\ Counts(n, more) = [c \in Counters |-> Counts(n, more)[c]]
         /\ Counts(n, arrays) = [c \in Counters |-> Counts(n, arrays)[c]]
    BY DEF Counts
  <1> DEFINE old == Counts(n, arrays)
             new == Counts(n, more)
  <1>11. /\ new = [c \in Counters |-> new[c]] /\ old = [c \in Counters |-> old[c]]
         /\ \A c \in Counters : old[c] \in Nat /\ new[c] = old[c] + (IF c = c0 THEN a.by ELSE 0)
    BY <1>8, <1>9, <1>10
  <1> HIDE DEF old, new
  <1>12. \A c \in Counters : new[c] = IF c = c0 THEN old[c] + a.by ELSE old[c]
    BY <1>1, <1>11
  <1>13. new = [old EXCEPT ![c0] = @ + a.by]
    BY <1>1, <1>11, <1>12
  <1>. QED  BY <1>13 DEF old, new, c0, OneMore

\* The additions a process has to make, of given processes.
OutstandingIn(state) == UNION {Pieces(w, state[w].due) : w \in Workers}

FirstPiece(w, due) ==
  [name |-> <<w, Len(due) - 1>>, counter |-> <<Head(due).array, Head(due).offset>>, by |-> Head(due).by]

\* The additions of a process are told apart by their places from the end: when the first is
\* made, the others keep theirs.
LEMMA PiecesLeft ==
  ASSUME NEW S, NEW w, NEW due \in Seq(S), due # <<>>
  PROVE  FirstPiece(w, due) \in Pieces(w, due) /\ Pieces(w, Tail(due)) = Pieces(w, due) \ {FirstPiece(w, due)}
  <1> DEFINE rest == Tail(due)
             of(q, n, j) == [name |-> <<w, n - j>>, counter |-> <<q[j].array, q[j].offset>>, by |-> q[j].by]
             n == Len(due)
  <1>1. n \in Nat \ {0} /\ DOMAIN due = 1 .. n /\ Len(rest) = n - 1 /\ DOMAIN rest = 1 .. n - 1
        /\ Head(due) = due[1] /\ \A j \in 1 .. n - 1 : rest[j] = due[j + 1]
    OBVIOUS
  <1>2. Pieces(w, due) = {of(due, n, j) : j \in 1 .. n} /\ Pieces(w, rest) = {of(rest, n - 1, j) : j \in 1 .. n - 1}
    BY <1>1 DEF Pieces
  <1>3. FirstPiece(w, due) = of(due, n, 1)
    BY <1>1 DEF FirstPiece
  <1>4. \A j \in 1 .. n - 1 : of(rest, n - 1, j) = of(due, n, j + 1)
    <2> SUFFICES ASSUME NEW j \in 1 .. n - 1
                 PROVE  of(rest, n - 1, j) = of(due, n, j + 1)
      OBVIOUS
    <2>1. n - 1 - j = n - (j + 1) /\ rest[j] = due[j + 1]
      BY <1>1
    <2>. QED  BY <2>1
  <1>5. \A j \in 2 .. n : of(due, n, j) # of(due, n, 1)
    <2> SUFFICES ASSUME NEW j \in 2 .. n, of(due, n, j) = of(due, n, 1)
                 PROVE  FALSE
      OBVIOUS
    <2>1. <<w, n - j>> = <<w, n - 1>>
      OBVIOUS
    <2>. QED  BY <1>1, <2>1
  <1>6. \A k \in 1 .. n : k = 1 \/ (k \in 2 .. n /\ k - 1 \in 1 .. n - 1 /\ k = (k - 1) + 1)
    BY <1>1
  <1>7. \A j \in 1 .. n - 1 : j + 1 \in 2 .. n
    BY <1>1
  <1> HIDE DEF of, rest, n
  <1>8. ASSUME NEW x \in Pieces(w, rest)
        PROVE  x \in Pieces(w, due) \ {of(due, n, 1)}
    <2>1. PICK j \in 1 .. n - 1 : x = of(rest, n - 1, j)
      BY <1>2
    <2>2. x = of(due, n, j + 1) /\ j + 1 \in 2 .. n
      BY <1>4, <1>7, <2>1
    <2>3. j + 1 \in 1 .. n
      BY <2>2, <1>1
    <2>. QED  BY <1>2, <1>5, <2>2, <2>3
  <1>9. ASSUME NEW x \in Pieces(w, due), x # of(due, n, 1)
        PROVE  x \in Pieces(w, rest)
    <2>1. PICK k \in 1 .. n : x = of(due, n, k)
      BY <1>2
    <2>2. k - 1 \in 1 .. n - 1 /\ k = (k - 1) + 1
      BY <1>6, <1>9, <2>1
    <2>3. x = of(rest, n - 1, k - 1)
      BY <1>4, <2>1, <2>2
    <2>. QED  BY <1>2, <2>2, <2>3
  <1>10. of(due, n, 1) \in Pieces(w, due)
    BY <1>1, <1>2
  <1>. QED  BY <1>3, <1>8, <1>9, <1>10 DEF rest

\* A piece bears the number of its process.
LEMMA PiecesNameTheirProcess ==
  ASSUME NEW w, NEW due, NEW p \in Pieces(w, due)
  PROVE  p.name[1] = w
  <1>1. PICK j \in DOMAIN due :
          p = [name |-> <<w, Len(due) - j>>, counter |-> <<due[j].array, due[j].offset>>, by |-> due[j].by]
    BY DEF Pieces
  <1>. QED  BY <1>1

\* What is outstanding are additions of the tally.
LEMMA OutstandingAreAdditions ==
  ASSUME num_players \in 1 .. MaxPlayers, NEW state, \A w \in Workers : state[w].due \in Seq(Addition(num_players))
  PROVE  OutstandingIn(state) \subseteq Count!Additions
  <1> SUFFICES ASSUME NEW w \in Workers, NEW p \in Pieces(w, state[w].due)
               PROVE  p \in Count!Additions
    BY DEF OutstandingIn
  <1> DEFINE due == state[w].due
  <1>1. due \in Seq(Addition(num_players))
    OBVIOUS
  <1>2. PICK j \in DOMAIN due :
          p = [name |-> <<w, Len(due) - j>>, counter |-> <<due[j].array, due[j].offset>>, by |-> due[j].by]
    BY DEF Pieces
  <1> HIDE DEF due
  <1>3. Len(due) \in Nat /\ j \in 1 .. Len(due) /\ due[j] \in Addition(num_players)
    BY <1>1
  <1>4. <<due[j].array, due[j].offset>> \in Counters /\ due[j].by \in Nat
    BY <1>3, AdditionsAreCounted
  <1>5. <<w, Len(due) - j>> \in Workers \X Nat
    BY <1>3
  <1>. QED  BY <1>2, <1>4, <1>5 DEF Count!Additions

\* A process that has nothing to do has nothing outstanding.
LEMMA NothingOutstanding ==
  ASSUME \A w \in Workers : worker[w] = Idle
  PROVE  Outstanding = {}
  <1>1. \A w \in Workers : Pieces(w, worker[w].due) = {}
    BY DEF Idle, Pieces
  <1>. QED  BY <1>1 DEF Outstanding

LEMMA OutstandingIs ==
  Outstanding = OutstandingIn(worker) /\ Outstanding' = OutstandingIn(worker')
  BY DEF Outstanding, OutstandingIn

\* What the tally sees of the calculator.
View == <<Phase, Len(work), Outstanding, Counted>>

\* Before the pool starts, and with the arrays as run_simulation makes them, nothing is counted.
LEMMA NothingCountedAtFirst ==
  /\ shared.winner_list = <<>> => Counted = [c \in Counters |-> 0]
  /\ shared'.winner_list = <<>> => Counted' = [c \in Counters |-> 0]
  BY CountedIs, NothingCounted DEF CountIn

LEMMA ZerosCountNothing ==
  ASSUME NEW n \in Nat \ {0}, NEW arrays \in Arrays(n),
         \A array \in {"winner_list", "result_histograms"} :
           \A k \in 0 .. CpuCount * WidthOf(n, array) - 1 : arrays[array][k] = 0
  PROVE  Counts(n, arrays) = [c \in Counters |-> 0]
  <1> SUFFICES ASSUME NEW s \in 0 .. CpuCount - 1, NEW c \in Counters
               PROVE  CountIn(n, arrays, s, c) = 0
    BY NothingCounted
  <1>1. c[1] \in {"winner_list", "result_histograms"} /\ c[2] \in Nat
    BY CountersArePlaces
  <1>2. CASE c[2] < WidthOf(n, c[1])
    <2>1. /\ s * WidthOf(n, c[1]) + c[2] \in 0 .. CpuCount * WidthOf(n, c[1]) - 1
          /\ CountIn(n, arrays, s, c) = arrays[c[1]][s * WidthOf(n, c[1]) + c[2]]
      BY <1>2, CountsAreNumbers
    <2>. QED  BY <1>1, <2>1
  <1>3. CASE ~(c[2] < WidthOf(n, c[1]))
    <2>1. WidthOf(n, c[1]) \in Nat
      BY DEF WidthOf
    <2>2. c[2] >= WidthOf(n, c[1])
      BY <1>1, <1>3, <2>1
    <2>. QED  BY <2>2 DEF CountIn
  <1>. QED  BY <1>2, <1>3

\* run_simulation starts to count, or ends in an exception.
LEMMA SimulateTallies ==
  ASSUME IInv, Tallying, main \in {"called", "reading"}, Simulate,
         ~TakenTwice(call'.cards \o TextsOf(call'.board)) => call' \in Problems
  PROVE  Count!Start \/ Count!End
  <1>1. worker' = worker /\ Phase = "idle" /\ shared.winner_list = <<>> /\ combined = <<>> /\ combined' = combined
    BY DEF Simulate, Refuse, Phase, Tallying
  <1>2. Outstanding' = Outstanding
    BY <1>1, OutstandingIs
  <1>3. Counted = [c \in Counters |-> 0]
    BY <1>1, NothingCountedAtFirst
  <1>4. CASE TakenTwice(call'.cards \o TextsOf(call'.board))
    <2>1. main' = "raised" /\ shared' = shared /\ work' = work
      BY <1>4 DEF Simulate, Refuse
    <2>2. Phase' = "ended"
      BY <1>1, <2>1 DEF Phase
    <2>3. Counted' = Counted
      BY <1>1, <1>3, <2>1, NothingCountedAtFirst
    <2>. QED  BY <1>1, <1>2, <2>1, <2>2, <2>3 DEF Count!End
  <1>5. CASE ~TakenTwice(call'.cards \o TextsOf(call'.board))
    <2>1. call' \in Problems
      BY <1>5
    <2>2. /\ main' = "mapping" /\ work' \in TaskLists(call')
          /\ shared' = [winner_list |-> [k \in 0 .. CpuCount * Width("winner_list")' - 1 |-> 0],
                        result_histograms |-> [k \in 0 .. CpuCount * Width("result_histograms")' - 1 |-> 0]]
      BY <1>5 DEF Simulate, Zeros
    <2>3. num_players' \in 1 .. MaxPlayers /\ TaskLists(call') \subseteq Seq(Task(num_players'))
      BY <2>1, CallsAssumption DEF num_players, Task
    <2>4. num_players' \in Nat \ {0}
      BY <2>3, CallsAssumption
    <2>5. Len(work') \in Nat
      BY <2>2, <2>3
    <2>6. /\ shared' \in Arrays(num_players')
          /\ \A array \in {"winner_list", "result_histograms"} :
               \A k \in 0 .. CpuCount * WidthOf(num_players', array) - 1 : shared'[array][k] = 0
      BY <2>2 DEF Arrays, Width, WidthOf
    <2>7. Counted' = [c \in Counters |-> 0]
      BY <2>4, <2>6, ZerosCountNothing, CountedIs
    <2>8. Phase' = "counting"
      BY <2>2 DEF Phase
    <2>. QED  BY <1>1, <1>2, <1>3, <2>5, <2>7, <2>8 DEF Count!Start
  <1>. QED  BY <1>4, <1>5

\* The pool is not started: nothing is counted, and nothing will be once calculate has ended.
LEMMA RefuseTallies ==
  ASSUME Tallying, main \in {"called", "reading"}, NEW outcome, outcome \in {"reading", "exited", "raised", "returned"},
         Refuse(outcome)
  PROVE  Count!End \/ UNCHANGED View
  <1>1. /\ worker' = worker /\ work' = work /\ shared' = shared /\ combined' = combined /\ main' = outcome
        /\ Phase = "idle" /\ shared.winner_list = <<>> /\ combined = <<>>
    BY DEF Refuse, Phase, Tallying
  <1>2. Outstanding' = Outstanding
    BY <1>1, OutstandingIs
  <1>3. Counted' = Counted
    BY <1>1, NothingCountedAtFirst
  <1>4. CASE outcome = "reading"
    BY <1>1, <1>2, <1>3, <1>4 DEF Phase, View
  <1>5. CASE outcome # "reading"
    <2>1. Phase' = "ended"
      BY <1>1, <1>5 DEF Phase
    <2>. QED  BY <1>1, <1>2, <1>3, <2>1 DEF Count!End
  <1>. QED  BY <1>4, <1>5

LEMMA CallTallies ==
  ASSUME IInv, Tallying, Call
  PROVE  Count!Start \/ Count!End \/ UNCHANGED View
  <1>1. CASE Calculate
    <2>1. main = "called" /\ call' = call /\ call \in Calls
      BY <1>1 DEF Calculate, IInv, CallKnown
    <2>2. CASE ~parse_lib_args(call)
      BY <1>1, <2>1, <2>2, RefuseTallies DEF Calculate
    <2>3. CASE parse_lib_args(call) /\ call.input = "file"
      BY <1>1, <2>1, <2>3, RefuseTallies DEF Calculate
    <2>4. CASE parse_lib_args(call) /\ call.input # "file"
      <3>1. Simulate
        BY <1>1, <2>4 DEF Calculate
      <3>2. ~TakenTwice(call.cards \o TextsOf(call.board)) => call \in Problems
        BY <2>1, <2>4 DEF Problems
      <3>. QED  BY <2>1, <3>1, <3>2, SimulateTallies
    <2>. QED  BY <2>2, <2>3, <2>4
  <1>2. CASE ReadLine
    <2> DEFINE line == Head(lines)
    <2>1. main = "reading" /\ call \in Calls /\ parse_lib_args(call) /\ line \in LinesOf(call)
      BY <1>2 DEF ReadLine, IInv, CallKnown
    <2>2. CASE line.parts = 0 \/ ~parse_file_args(line)
      BY <1>2, <2>1, <2>2, RefuseTallies DEF ReadLine
    <2>3. CASE line.parts # 0 /\ parse_file_args(line)
      <3>1. Simulate /\ call' = WithLine(call, line)
        BY <1>2, <2>3 DEF ReadLine
      <3>2. ~TakenTwice(call'.cards \o TextsOf(call'.board)) => call' \in Problems
        BY <2>1, <2>3, <3>1 DEF Problems
      <3>. QED  BY <2>1, <3>1, <3>2, SimulateTallies
    <2>. QED  BY <2>2, <2>3
  <1>3. CASE EndOfFile
    BY <1>3, RefuseTallies DEF EndOfFile, Refuse
  <1>. QED  BY <1>1, <1>2, <1>3 DEF Call

\* map returns when no addition is outstanding, and its failure leaves nothing combined.
LEMMA CollectTallies ==
  ASSUME IInv, Tallying, Collect
  PROVE  Count!End \/ Count!Finish \/ UNCHANGED View
  <1>1. /\ worker' = worker /\ work' = work /\ shared' = shared /\ num_players' = num_players
        /\ combined = <<>> /\ Phase = "counting"
    BY DEF Collect, MapReturns, Combine, Tallying, Phase, num_players
  <1>2. Outstanding' = Outstanding /\ Counted' = Counted
    BY <1>1, OutstandingIs, CountedIs
  <1>3. CASE MapReturns
    <2>1. combined' = <<>> /\ main' \in {"raised", "combining"}
      BY <1>1, <1>3 DEF MapReturns
    <2>2. CASE main' = "raised"
      BY <1>1, <1>2, <2>1, <2>2 DEF Phase, Count!End
    <2>3. CASE main' = "combining"
      BY <1>1, <1>2, <2>1, <2>3 DEF Phase, View
    <2>. QED  BY <2>1, <2>2, <2>3
  <1>4. CASE Combine
    <2>1. main = "combining" /\ main' = "raised" /\ combined' = Combined /\ work = <<>> /\ num_players \in 1 .. MaxPlayers
      BY <1>4 DEF Combine, Tallying
    <2>2. Combined # <<>>
      <3>1. 0 \in DOMAIN Combined
        BY <2>1, CallsAssumption DEF Combined
      <3>. QED  BY <3>1
    <2>3. Phase' = "counted"
      BY <2>1, <2>2 DEF Phase
    <2>4. Outstanding = {}
      BY <2>1, NothingOutstanding DEF IInv, IdleWhenDone
    <2>5. Len(work) = 0
      BY <2>1
    <2>. QED  BY <1>1, <1>2, <2>3, <2>4, <2>5 DEF Count!Finish
  <1>. QED  BY <1>3, <1>4 DEF Collect

\* A process that takes a task has all its additions to make, and nothing is counted yet.
LEMMA TakeTallies ==
  ASSUME IInv, NEW w \in Workers, Take(w)
  PROVE  Count!Begin
  <1>1. Work(w)
    BY DEF Work
  <1>2. /\ work # <<>> /\ work' = Tail(work) /\ ~worker[w].busy /\ shared' = shared
        /\ main = "mapping" /\ main' = "mapping" /\ num_players' = num_players
    BY <1>1, WorkInMap DEF Take
  <1>3. PICK due \in Head(work).additions :
          worker' = [worker EXCEPT ![w] = [busy |-> TRUE, fails |-> Head(work).fails, due |-> due, read |-> -1]]
    BY DEF Take
  <1>4. worker[w] = Idle
    BY <1>2 DEF IInv, IdleWhenDone
  <1>5. Head(work) \in Task(num_players) /\ Len(work) > 0 /\ Len(work') = Len(work) - 1
    BY <1>1, <1>2, WorkInMap
  <1>6. due \in Seq(Addition(num_players))
    BY <1>5 DEF Task
  <1>7. worker'[w].due = due /\ \A v \in Workers \ {w} : worker'[v] = worker[v]
    BY <1>1, <1>3, WorkInMap
  <1>8. Pieces(w, worker[w].due) = {}
    BY <1>4 DEF Idle, Pieces
  <1>9. Outstanding \subseteq Outstanding'
    BY <1>7, <1>8, OutstandingIs DEF OutstandingIn
  <1>10. \A v \in Workers : worker'[v].due \in Seq(Addition(num_players))
    BY <1>1, <1>6, <1>7, WorkInMap DEF WorkerState
  <1>11. Outstanding' \subseteq Count!Additions
    BY <1>1, <1>10, OutstandingAreAdditions, OutstandingIs, WorkInMap
  <1>12. Counted' = Counted
    BY <1>2, CountedIs
  <1>13. Phase = "counting" /\ Phase' = "counting"
    BY <1>2 DEF Phase
  <1>. QED  BY <1>5, <1>9, <1>11, <1>12, <1>13 DEF Count!Begin

\* To read an element, and to finish a task, change nothing the tally sees.
LEMMA ReadAndFinishTally ==
  ASSUME IInv, NEW w \in Workers, Read(w) \/ Finish(w)
  PROVE  UNCHANGED View
  <1>1. Work(w)
    BY DEF Work
  <1>2. shared' = shared /\ work' = work /\ main' = main /\ combined' = combined /\ num_players' = num_players
    BY <1>1, WorkInMap DEF Read, Finish
  <1>3. \A v \in Workers : worker'[v].due = worker[v].due
    <2>1. CASE Read(w)
      BY <1>1, <2>1, WorkInMap DEF Read, WorkerState
    <2>2. CASE Finish(w)
      BY <1>1, <2>2, WorkInMap DEF Finish, Idle
    <2>. QED  BY <2>1, <2>2
  <1>4. Outstanding' = Outstanding
    BY <1>3, OutstandingIs DEF OutstandingIn
  <1>5. Counted' = Counted
    BY <1>2, CountedIs
  <1>. QED  BY <1>2, <1>4, <1>5 DEF View, Phase

\* To write an element is to make the addition that was outstanding: what is written is what
\* is in the array and the addition, because the read is current.
LEMMA WriteTallies ==
  ASSUME IInv, NEW w \in Workers, Write(w)
  PROVE  Count!Add
  <1>1. Work(w)
    BY DEF Work
  <1> DEFINE due == worker[w].due
             a == Head(due)
             at == At(num_players, w, a)
             piece == FirstPiece(w, due)
  <1>2. /\ due # <<>> /\ worker[w].read # -1 /\ work' = work /\ main' = main /\ num_players' = num_players
        /\ main = "mapping" /\ shared' = [shared EXCEPT ![a.array][at] = Sum(w)]
        /\ num_players \in 1 .. MaxPlayers /\ num_players \in Nat \ {0} /\ shared \in Arrays(num_players)
    BY <1>1, WorkInMap DEF Write, Element, At, Width
  <1>3. due \in Seq(Addition(num_players)) /\ a \in Addition(num_players)
    BY <1>1, <1>2, WorkInMap DEF WorkerState
  <1>4. Sum(w) = shared[a.array][at] + a.by
    BY <1>1, <1>2, WorkInMap DEF Sum, Held
  <1>5. shared' = Grown(shared, a.array, at, a.by)
    BY <1>2, <1>4 DEF Grown
  <1>6. Counts(num_players, shared') = OneMore(Counts(num_players, shared), a)
    <2>1. num_players \in 1 .. MaxPlayers /\ num_players \in Nat \ {0}
      BY <1>2
    <2>2. shared \in Arrays(num_players) /\ a \in Addition(num_players) /\ w \in Workers
      BY <1>2, <1>3
    <2>3. shared' = Grown(shared, a.array, At(num_players, w, a), a.by)
      BY <1>5
    <2> HIDE DEF a
    <2>. QED  BY ONLY <2>1, <2>2, <2>3, OneCountGrows
  <1>7. piece.counter = <<a.array, a.offset>> /\ piece.by = a.by /\ piece.name[1] = w
    BY DEF FirstPiece
  <1>8. worker'[w].due = Tail(due) /\ \A v \in Workers \ {w} : worker'[v] = worker[v]
    BY <1>1, WorkInMap DEF Write, WorkerState
  <1>9. piece \in Pieces(w, due) /\ Pieces(w, Tail(due)) = Pieces(w, due) \ {piece}
    BY <1>2, <1>3, PiecesLeft
  <1>10. \A v \in Workers \ {w} : piece \notin Pieces(v, worker[v].due)
    BY <1>7, PiecesNameTheirProcess
  <1> HIDE DEF piece, due
  <1>11. piece \in Outstanding /\ Outstanding' = Outstanding \ {piece}
    <2>1. \A x : x \in Outstanding' <=> \E v \in Workers : x \in Pieces(v, worker'[v].due)
      BY OutstandingIs DEF OutstandingIn
    <2>2. \A x : x \in Outstanding <=> \E v \in Workers : x \in Pieces(v, worker[v].due)
      BY OutstandingIs DEF OutstandingIn
    <2>3. \A v \in Workers : Pieces(v, worker'[v].due) = Pieces(v, worker[v].due) \ {piece}
      BY <1>8, <1>9, <1>10 DEF due
    <2>4. piece \in Outstanding
      BY <1>9, <2>2 DEF due
    <2>. QED  BY <2>1, <2>2, <2>3, <2>4
  <1>12. Counted' = [Counted EXCEPT ![piece.counter] = @ + piece.by]
    BY <1>2, <1>6, <1>7, CountedIs DEF OneMore
  <1>13. Phase = "counting" /\ Phase' = "counting"
    BY <1>2 DEF Phase
  <1>. QED  BY <1>2, <1>11, <1>12, <1>13 DEF Count!Add

\* Every step of the calculator is a step of the tally, or changes nothing it sees.
LEMMA StepsTally ==
  ASSUME IInv, Tallying, [ParallelNext]_parallelVars
  PROVE  [Count!Next]_View
  <1>1. CASE Call
    BY <1>1, CallTallies DEF Count!Next
  <1>2. CASE Collect
    BY <1>2, CollectTallies DEF Count!Next
  <1>3. ASSUME NEW w \in Workers, Work(w)
        PROVE  [Count!Next]_View
    BY <1>3, TakeTallies, ReadAndFinishTally, WriteTallies DEF Work, Count!Next
  <1>4. CASE UNCHANGED parallelVars
    <2>1. num_players' = num_players
      BY <1>4 DEF parallelVars, num_players
    <2>2. Outstanding' = Outstanding /\ Counted' = Counted
      BY <1>4, <2>1, OutstandingIs, CountedIs DEF parallelVars
    <2>. QED  BY <1>4, <2>2 DEF parallelVars, View, Phase
  <1>. QED  BY <1>1, <1>2, <1>3, <1>4 DEF ParallelNext

-----------------------------------------------------------------------------
(* Sums over sequences and over finite sets.                               *)

\* Numbers of which one is taken out.
Without(n, s, j) == [i \in 1 .. n |-> IF i < j THEN s[i] ELSE s[i + 1]]

Numbers(n, s) == DOMAIN s = 1 .. n /\ \A i \in 1 .. n : s[i] \in Nat

\* A number can be added first, wherever it is.
LEMMA TotalTakesOut ==
  ASSUME NEW n \in Nat, NEW s, Numbers(n + 1, s), NEW j \in 1 .. n + 1
  PROVE  Numbers(n, Without(n, s, j)) /\ Total(s) = s[j] + Total(Without(n, s, j))
  <1> DEFINE t == Without(n, s, j)
  <1>1. DOMAIN t = 1 .. n /\ \A i \in 1 .. n : t[i] = IF i < j THEN s[i] ELSE s[i + 1]
    BY DEF Without
  <1>2. DOMAIN s = 1 .. n + 1 /\ \A i \in 1 .. n + 1 : s[i] \in Nat
    BY DEF Numbers
  <1> HIDE DEF t
  <1>3. Numbers(n, t)
    BY <1>1, <1>2 DEF Numbers
  <1> DEFINE P(k) == Adding!Prefix(0, s, k)
             Q(k) == Adding!Prefix(0, t, k)
             K == {k \in Nat : k <= n => /\ P(k) \in Nat /\ Q(k) \in Nat
                                         /\ IF k < j THEN Q(k) = P(k) ELSE P(k + 1) = s[j] + Q(k)}
  <1>4. P(0) = 0 /\ (\A k \in 0 .. n : P(k + 1) = P(k) + s[k + 1]) /\ Total(s) = P(n + 1)
    <2>1. n + 1 \in Nat /\ (n + 1) - 1 = n
      OBVIOUS
    <2>. QED  BY <1>2, <2>1, TotalGrows
  <1>5. Q(0) = 0 /\ (\A k \in 0 .. n - 1 : Q(k + 1) = Q(k) + t[k + 1]) /\ Total(t) = Q(n)
    BY <1>1, TotalGrows
  <1> HIDE DEF P, Q
  <1>6. K \in SUBSET Nat /\ 0 \in K
    BY <1>4, <1>5
  <1>7. ASSUME NEW k \in K PROVE k + 1 \in K
    <2>1. CASE k + 1 <= n
      <3>1. k \in 0 .. n - 1 /\ k \in 0 .. n /\ k + 1 \in 0 .. n /\ k + 1 \in 1 .. n /\ k + 2 \in 1 .. n + 1
            /\ k + 1 \in 1 .. n + 1 /\ (k + 1) + 1 = k + 2
        BY <2>1
      <3>2. /\ P(k) \in Nat /\ Q(k) \in Nat
            /\ IF k < j THEN Q(k) = P(k) ELSE P(k + 1) = s[j] + Q(k)
        BY <2>1
      <3>3. /\ P(k + 1) = P(k) + s[k + 1] /\ P(k + 2) = P(k + 1) + s[k + 2]
            /\ Q(k + 1) = Q(k) + t[k + 1] /\ t[k + 1] = IF k + 1 < j THEN s[k + 1] ELSE s[k + 2]
        BY <1>1, <1>4, <1>5, <3>1
      <3>4. s[k + 1] \in Nat /\ s[k + 2] \in Nat /\ s[j] \in Nat
        BY <1>2, <3>1
      <3>5. P(k + 1) \in Nat /\ Q(k + 1) \in Nat
        BY <3>2, <3>3, <3>4
      <3>6. IF k + 1 < j THEN Q(k + 1) = P(k + 1) ELSE P(k + 2) = s[j] + Q(k + 1)
        <4>1. CASE k + 1 < j
          BY <3>1, <3>2, <3>3, <4>1
        <4>2. CASE k + 1 = j
          <5>1. k < j /\ ~(k + 1 < j) /\ s[j] = s[k + 1]
            BY <3>1, <4>2
          <5>2. Q(k + 1) = P(k) + s[k + 2]
            BY <3>2, <3>3, <5>1
          <5>. QED  BY <3>2, <3>3, <3>4, <5>1, <5>2
        <4>3. CASE ~(k < j)
          <5>1. ~(k + 1 < j)
            BY <3>1, <4>3
          <5>. QED  BY <3>2, <3>3, <3>4, <3>5, <4>3, <5>1
        <4>4. k + 1 < j \/ k + 1 = j \/ ~(k < j)
          BY <3>1
        <4>. QED  BY <4>1, <4>2, <4>3, <4>4
      <3>. QED  BY <3>1, <3>5, <3>6
    <2>. QED  BY <2>1
  <1> HIDE DEF K
  <1>8. K = Nat
    BY <1>6, <1>7, Adding!NatSet
  <1>9. /\ P(n) \in Nat /\ Q(n) \in Nat
        /\ IF n < j THEN Q(n) = P(n) ELSE P(n + 1) = s[j] + Q(n)
    BY <1>8 DEF K
  <1>10. Total(s) = s[j] + Total(t)
    <2>1. CASE n < j
      <3>1. j = n + 1 /\ n \in 0 .. n
        BY <2>1
      <3>2. Total(s) = P(n) + s[j] /\ s[j] \in Nat
        BY <1>2, <1>4, <3>1
      <3>. QED  BY <1>5, <1>9, <2>1, <3>2
    <2>2. CASE ~(n < j)
      BY <1>4, <1>5, <1>9, <2>2
    <2>. QED  BY <2>1, <2>2
  <1>. QED  BY <1>3, <1>10 DEF t

LEMMA TotalOfTail ==
  ASSUME NEW n \in Nat, NEW s, Numbers(n + 1, s)
  PROVE  /\ Numbers(n, [i \in 1 .. n |-> s[i + 1]])
         /\ Total(s) = s[1] + Total([i \in 1 .. n |-> s[i + 1]])
  <1>1. 1 \in 1 .. n + 1
    OBVIOUS
  <1>2. Without(n, s, 1) = [i \in 1 .. n |-> s[i + 1]]
    BY DEF Without
  <1>3. Numbers(n, Without(n, s, 1)) /\ Total(s) = s[1] + Total(Without(n, s, 1))
    BY <1>1, TotalTakesOut
  <1>. QED  BY <1>2, <1>3

\* Zeros at the end change no total, and the total is that of the elements.
LEMMA TotalOfFirst ==
  ASSUME NEW n \in Nat, NEW m \in Nat, NEW s, Numbers(n, s), NEW t, DOMAIN t = 1 .. n + m,
         \A i \in 1 .. n : t[i] = s[i], \A i \in n + 1 .. n + m : t[i] = 0
  PROVE  Total(t) = Total(s)
  <1> DEFINE P(k) == Adding!Prefix(0, s, k)
             Q(k) == Adding!Prefix(0, t, k)
             K == {k \in Nat : k <= n + m => IF k <= n THEN Q(k) = P(k) ELSE Q(k) = P(n)}
             L == {k \in Nat : k <= n => P(k) \in Nat}
  <1>1. P(0) = 0 /\ (\A k \in 0 .. n - 1 : P(k + 1) = P(k) + s[k + 1]) /\ Total(s) = P(n)
    BY TotalGrows DEF Numbers
  <1>2. Q(0) = 0 /\ (\A k \in 0 .. n + m - 1 : Q(k + 1) = Q(k) + t[k + 1]) /\ Total(t) = Q(n + m)
    BY TotalGrows
  <1>3. \A i \in 1 .. n : s[i] \in Nat
    BY DEF Numbers
  <1> HIDE DEF P, Q
  <1>4. L = Nat
    <2>1. L \in SUBSET Nat /\ 0 \in L
      BY <1>1
    <2>2. ASSUME NEW k \in L PROVE k + 1 \in L
      <3>1. CASE k + 1 <= n
        <4>1. k \in 0 .. n - 1 /\ k + 1 \in 1 .. n
          BY <3>1
        <4>. QED  BY <1>1, <1>3, <3>1, <4>1
      <3>. QED  BY <3>1
    <2> HIDE DEF L
    <2>. QED  BY <2>1, <2>2, Adding!NatSet
  <1>5. K \in SUBSET Nat /\ 0 \in K
    BY <1>1, <1>2
  <1>6. P(n) \in Nat
    BY <1>4
  <1>7. ASSUME NEW k \in K PROVE k + 1 \in K
    <2>1. CASE k + 1 <= n
      <3>1. k \in 0 .. n - 1 /\ k \in 0 .. n + m - 1 /\ k + 1 \in 1 .. n
        BY <2>1
      <3>. QED  BY <1>1, <1>2, <2>1, <3>1
    <2>2. CASE n < k + 1 /\ k + 1 <= n + m
      <3>1. k \in 0 .. n + m - 1 /\ k + 1 \in n + 1 .. n + m
        BY <2>2
      <3>2. Q(k) = P(n)
        <4>1. k <= n => k = n
          BY <2>2
        <4>. QED  BY <2>2, <4>1
      <3>. QED  BY <1>2, <1>6, <2>2, <3>1, <3>2
    <2>. QED  BY <2>1, <2>2
  <1> HIDE DEF K
  <1>8. K = Nat
    BY <1>5, <1>7, Adding!NatSet
  <1>9. n + m \in K
    BY <1>8
  <1>10. Q(n + m) = P(n)
    <2>1. n + m <= n => n + m = n
      OBVIOUS
    <2>. QED  BY <1>9, <2>1 DEF K
  <1>. QED  BY <1>1, <1>2, <1>10

LEMMA TotalOfSame ==
  ASSUME NEW n \in Nat, NEW s, NEW t, Numbers(n, s), DOMAIN t = 1 .. n, \A i \in 1 .. n : t[i] = s[i]
  PROVE  Total(t) = Total(s)
  <1>1. 0 \in Nat /\ n + 0 = n /\ \A i \in n + 1 .. n : FALSE
    OBVIOUS
  <1>. QED  BY <1>1, TotalOfFirst

\* One number among zeros.
LEMMA TotalOfOne ==
  ASSUME NEW n \in Nat, NEW j \in 1 .. n, NEW d \in Nat, NEW t, DOMAIN t = 1 .. n,
         t[j] = d, \A i \in 1 .. n : i # j => t[i] = 0
  PROVE  Total(t) = d
  <1> DEFINE s == [i \in 1 .. n |-> 0]
  <1>1. DOMAIN s = 1 .. n /\ \A i \in 1 .. n : s[i] = 0
    OBVIOUS
  <1> HIDE DEF s
  <1>2. GrownBy(n, s, t, j, d)
    BY <1>1 DEF GrownBy
  <1>3. Total(s) = 0
    BY <1>1, TotalOfNumbers
  <1>4. Total(t) = Total(s) + d
    BY <1>2, TotalChanges
  <1>. QED  BY <1>3, <1>4

\* The same number n times.
LEMMA TotalOfEqual ==
  ASSUME NEW n \in Nat, NEW d \in Nat, NEW t, DOMAIN t = 1 .. n, \A i \in 1 .. n : t[i] = d
  PROVE  Total(t) = n * d
  <1> DEFINE P(k) == Adding!Prefix(0, t, k)
             K == {k \in Nat : k <= n => P(k) = k * d}
  <1>1. P(0) = 0 /\ (\A k \in 0 .. n - 1 : P(k + 1) = P(k) + t[k + 1]) /\ Total(t) = P(n)
    BY TotalGrows
  <1> HIDE DEF P
  <1>2. K \in SUBSET Nat /\ 0 \in K
    <2>1. 0 * d = 0
      OBVIOUS
    <2>. QED  BY <1>1, <2>1
  <1>3. ASSUME NEW k \in K PROVE k + 1 \in K
    <2>1. CASE k + 1 <= n
      <3>1. k \in 0 .. n - 1 /\ k + 1 \in 1 .. n
        BY <2>1
      <3>2. (k + 1) * d = k * d + d /\ k * d \in Nat
        OBVIOUS
      <3>. QED  BY <1>1, <2>1, <3>1, <3>2
    <2>. QED  BY <2>1
  <1> HIDE DEF K
  <1>4. K = Nat
    BY <1>2, <1>3, Adding!NatSet
  <1>5. P(n) = n * d
    BY <1>4 DEF K
  <1>. QED  BY <1>1, <1>5

\* A sequence of all elements of a set, each of them once.
Enumerates(e, n, S) ==
  /\ DOMAIN e = 1 .. n /\ \A i \in 1 .. n : e[i] \in S
  /\ \A i, j \in 1 .. n : e[i] = e[j] => i = j
  /\ \A x \in S : \E i \in 1 .. n : e[i] = x

\* The elements but one.
LEMMA EnumeratesOthers ==
  ASSUME NEW n \in Nat, NEW e, NEW S, Enumerates(e, n + 1, S), NEW j \in 1 .. n + 1
  PROVE  Enumerates(Without(n, e, j), n, S \ {e[j]})
  <1> DEFINE rest == Without(n, e, j)
             up(i) == IF i < j THEN i ELSE i + 1
  <1>1. DOMAIN rest = 1 .. n /\ \A i \in 1 .. n : rest[i] = e[up(i)]
    BY DEF Without
  <1>2. \A i \in 1 .. n : up(i) \in 1 .. n + 1 /\ up(i) # j
    OBVIOUS
  <1>3. \A i, k \in 1 .. n : up(i) = up(k) => i = k
    OBVIOUS
  <1>4. \A k \in 1 .. n + 1 : k # j => \E i \in 1 .. n : up(i) = k
    <2> SUFFICES ASSUME NEW k \in 1 .. n + 1, k # j
                 PROVE  \E i \in 1 .. n : up(i) = k
      OBVIOUS
    <2>1. CASE k < j
      BY <2>1
    <2>2. CASE ~(k < j)
      <3>1. k - 1 \in 1 .. n /\ ~(k - 1 < j) /\ (k - 1) + 1 = k
        BY <2>2
      <3>. QED  BY <3>1
    <2>. QED  BY <2>1, <2>2
  <1> HIDE DEF rest, up
  <1>5. /\ \A i \in 1 .. n + 1 : e[i] \in S
        /\ \A i, k \in 1 .. n + 1 : e[i] = e[k] => i = k
        /\ \A x \in S : \E i \in 1 .. n + 1 : e[i] = x
    BY DEF Enumerates
  <1>6. \A i \in 1 .. n : rest[i] \in S \ {e[j]}
    BY <1>1, <1>2, <1>5
  <1>7. \A i, k \in 1 .. n : rest[i] = rest[k] => i = k
    BY <1>1, <1>2, <1>3, <1>5
  <1>8. \A x \in S \ {e[j]} : \E i \in 1 .. n : rest[i] = x
    BY <1>1, <1>4, <1>5
  <1>. QED  BY <1>1, <1>6, <1>7, <1>8 DEF Enumerates, rest

\* Numbers of a set, in the order of an enumeration.
Listed(f, e, n) == [i \in 1 .. n |-> f[e[i]]]

SumOver(f, S) == MapThenSumSet(LAMBDA x : f[x], S)

\* The values of a sum on the subsets are the totals of their enumerations.
LEMMA SumsAreTotals ==
  ASSUME NEW S, NEW f, \A x \in S : f[x] \in Nat, NEW it, Adding!SetValues(it, 0, f, S), NEW n \in Nat
  PROVE  \A s \in SUBSET S : \A e : Enumerates(e, n, s) => it[s] = Total(Listed(f, e, n))
  <1> DEFINE K == {k \in Nat : \A s \in SUBSET S : \A e :
                     Enumerates(e, k, s) => it[s] \in Nat /\ it[s] = Total(Listed(f, e, k))}
             some(s) == CHOOSE x \in s : TRUE
  <1>1. it = [s \in SUBSET S |-> IF s = {} THEN 0 ELSE Plus(f[some(s)], it[s \ {some(s)}])]
    BY DEF Adding!SetValues
  <1>2. \A s \in SUBSET S : it[s] = IF s = {} THEN 0 ELSE f[some(s)] + it[s \ {some(s)}]
    BY <1>1 DEF Plus
  <1>3. \A s \in SUBSET S : s # {} => some(s) \in s
    OBVIOUS
  <1> HIDE DEF some
  <1>4. 0 \in K
    <2> SUFFICES ASSUME NEW s \in SUBSET S, NEW e, Enumerates(e, 0, s)
                 PROVE  it[s] \in Nat /\ it[s] = Total(Listed(f, e, 0))
      OBVIOUS
    <2>1. s = {}
      BY DEF Enumerates
    <2>2. it[s] = 0
      BY <1>2, <2>1
    <2> DEFINE t == Listed(f, e, 0)
    <2>3. DOMAIN t = 1 .. 0 /\ \A i \in 1 .. 0 : t[i] \in Nat /\ t[i] = 0
      BY DEF Listed
    <2> HIDE DEF t
    <2>4. Total(t) = 0
      BY <2>3, TotalOfNumbers
    <2>. QED  BY <2>2, <2>4 DEF t
  <1>5. ASSUME NEW k \in K PROVE k + 1 \in K
    <2>1. k \in Nat /\ \A s \in SUBSET S : \A e :
            Enumerates(e, k, s) => it[s] \in Nat /\ it[s] = Total(Listed(f, e, k))
      OBVIOUS
    <2> SUFFICES ASSUME NEW s \in SUBSET S, NEW e, Enumerates(e, k + 1, s)
                 PROVE  it[s] \in Nat /\ it[s] = Total(Listed(f, e, k + 1))
      BY <2>1
    <2> HIDE DEF K
    <2>2. /\ DOMAIN e = 1 .. k + 1 /\ \A i \in 1 .. k + 1 : e[i] \in s
          /\ \A x \in s : \E i \in 1 .. k + 1 : e[i] = x
      BY DEF Enumerates
    <2>3. s # {}
      <3>1. 1 \in 1 .. k + 1
        BY <2>1
      <3>. QED  BY <2>2, <3>1
    <2>4. PICK j \in 1 .. k + 1 : e[j] = some(s)
      BY <1>3, <2>2, <2>3
    <2> DEFINE rest == Without(k, e, j)
    <2>5. Enumerates(rest, k, s \ {e[j]})
      BY <2>1, EnumeratesOthers
    <2>6. it[s \ {e[j]}] \in Nat /\ it[s \ {e[j]}] = Total(Listed(f, rest, k))
      <3>1. s \ {e[j]} \in SUBSET S
        OBVIOUS
      <3> HIDE DEF rest
      <3>. QED  BY <2>1, <2>5, <3>1
    <2>7. Listed(f, rest, k) = Without(k, Listed(f, e, k + 1), j)
      <3>1. \A i \in 1 .. k : i \in 1 .. k + 1 /\ i + 1 \in 1 .. k + 1
        BY <2>1
      <3>. QED  BY <3>1 DEF Listed, Without
    <2>8. Numbers(k + 1, Listed(f, e, k + 1)) /\ Listed(f, e, k + 1)[j] = f[e[j]]
      BY <2>2 DEF Numbers, Listed
    <2>9. Total(Listed(f, e, k + 1)) = f[e[j]] + Total(Listed(f, rest, k))
      <3> DEFINE t == Listed(f, e, k + 1)
      <3> HIDE DEF t, rest
      <3>1. Total(t) = t[j] + Total(Without(k, t, j))
        BY <2>1, <2>8, TotalTakesOut DEF t
      <3>. QED  BY <2>7, <2>8, <3>1 DEF t
    <2>10. it[s] = f[e[j]] + it[s \ {e[j]}] /\ f[e[j]] \in Nat
      BY <1>2, <2>2, <2>3, <2>4
    <2> HIDE DEF rest
    <2>. QED  BY <2>6, <2>9, <2>10
  <1>6. K = Nat
    <2>1. K \in SUBSET Nat
      OBVIOUS
    <2> HIDE DEF K
    <2>. QED  BY <1>4, <1>5, <2>1, Adding!NatSet
  <1>. QED  BY <1>6

LEMMA SameFinite == \A S : Adding!IsFiniteSet(S) <=> IsFiniteSet(S)
  BY DEF Adding!IsFiniteSet, IsFiniteSet

\* What MapThenSumSet computes: the total of an enumeration, whatever its order.
LEMMA SumIsTotal ==
  ASSUME NEW S, IsFiniteSet(S), NEW f, \A x \in S : f[x] \in Nat,
         NEW n \in Nat, NEW e, Enumerates(e, n, S)
  PROVE  SumOver(f, S) = Total(Listed(f, e, n))
  <1> DEFINE it == CHOOSE g : Adding!SetValues(g, 0, f, S)
  <1>1. Adding!SetValues(it, 0, f, S)
    BY SameFinite, Adding!SetValuesExist
  <1>2. SumOver(f, S) = it[S]
    BY Zenon DEF SumOver, MapThenSumSet, MapThenFoldSet, Adding!SetValues, Plus
  <1> HIDE DEF it
  <1>3. it[S] = Total(Listed(f, e, n))
    BY <1>1, SumsAreTotals
  <1>. QED  BY <1>2, <1>3

\* The boards and fillers of a call come one after the other, each once (InOrder).
AppendTo(x, seq) == Append(seq, x)

Listing == INSTANCE Folding WITH Op <- AppendTo

LEMMA InOrderEnumerates ==
  ASSUME NEW S, IsFiniteSet(S)
  PROVE  /\ InOrder(S) \in Seq(S) /\ Len(InOrder(S)) = Cardinality(S) /\ Cardinality(S) \in Nat
         /\ Enumerates(InOrder(S), Cardinality(S), S)
  <1> DEFINE some(s) == CHOOSE x \in s : TRUE
             Ordered(g) == g = [s \in SUBSET S |-> IF s = {} THEN <<>> ELSE Append(g[s \ {some(s)}], some(s))]
             it == CHOOSE g : Ordered(g)
             K == {k \in Nat : \A s \in SUBSET S : Cardinality(s) = k =>
                     it[s] \in Seq(S) /\ Len(it[s]) = k /\ Enumerates(it[s], k, s)}
  <1>1. InOrder(S) = it[S]
    BY Zenon DEF InOrder, FoldSet, MapThenFoldSet
  <1>2. \A s \in SUBSET S : s # {} => some(s) \in s
    OBVIOUS
  <1>3. \E g : Ordered(g)
    <2> DEFINE id == [x \in S |-> x]
    <2>1. \A T : Listing!IsFiniteSet(T) <=> IsFiniteSet(T)
      BY DEF Listing!IsFiniteSet, IsFiniteSet
    <2>2. PICK g : Listing!SetValues(g, <<>>, id, S)
      BY <2>1, Listing!SetValuesExist
    <2>3. g = [s \in SUBSET S |-> IF s = {} THEN <<>> ELSE Append(g[s \ {some(s)}], id[some(s)])]
      BY <2>2 DEF Listing!SetValues, AppendTo
    <2>4. \A s \in SUBSET S : s # {} => id[some(s)] = some(s)
      BY <1>2
    <2> HIDE DEF id, some
    <2>. QED  BY <2>3, <2>4
  <1>4. it = [s \in SUBSET S |-> IF s = {} THEN <<>> ELSE Append(it[s \ {some(s)}], some(s))]
    <2>1. Ordered(it)
      BY <1>3, Zenon
    <2> HIDE DEF it
    <2>. QED  BY <2>1
  <1> HIDE DEF it
  <1>5. \A s \in SUBSET S : it[s] = IF s = {} THEN <<>> ELSE Append(it[s \ {some(s)}], some(s))
    <2> HIDE DEF some
    <2>. QED  BY <1>4
  <1> HIDE DEF some
  <1>6. 0 \in K
    <2> SUFFICES ASSUME NEW s \in SUBSET S, Cardinality(s) = 0
                 PROVE  it[s] \in Seq(S) /\ Len(it[s]) = 0 /\ Enumerates(it[s], 0, s)
      OBVIOUS
    <2>1. s = {}
      BY FS_Subset, FS_EmptySet
    <2>2. it[s] = <<>>
      BY <1>5, <2>1
    <2>. QED  BY <2>1, <2>2 DEF Enumerates
  <1>7. ASSUME NEW k \in K PROVE k + 1 \in K
    <2>1. k \in Nat /\ \A s \in SUBSET S : Cardinality(s) = k =>
            it[s] \in Seq(S) /\ Len(it[s]) = k /\ Enumerates(it[s], k, s)
      OBVIOUS
    <2> SUFFICES ASSUME NEW s \in SUBSET S, Cardinality(s) = k + 1
                 PROVE  it[s] \in Seq(S) /\ Len(it[s]) = k + 1 /\ Enumerates(it[s], k + 1, s)
      BY <2>1
    <2> HIDE DEF K
    <2>2. IsFiniteSet(s) /\ s # {}
      <3>1. IsFiniteSet(s)
        BY FS_Subset
      <3>2. Cardinality(s) # 0
        BY <2>1
      <3>. QED  BY <3>1, <3>2, FS_EmptySet
    <2> DEFINE x == some(s)
               t == s \ {x}
               u == it[t]
    <2>3. x \in s /\ t \in SUBSET S
      BY <1>2, <2>2
    <2>4. Cardinality(t) = k
      <3>1. Cardinality(t) = Cardinality(s) - 1
        BY <2>2, <2>3, FS_RemoveElement
      <3>. QED  BY <2>1, <3>1
    <2>5. u \in Seq(S) /\ Len(u) = k /\ Enumerates(u, k, t)
      BY <2>1, <2>3, <2>4
    <2>6. it[s] = Append(u, x)
      BY <1>5, <2>2
    <2>7. x \notin t /\ s = t \cup {x} /\ x \in S
      BY <2>3
    <2> HIDE DEF u, t, x
    <2>8. /\ Append(u, x) \in Seq(S) /\ Len(Append(u, x)) = k + 1
          /\ DOMAIN Append(u, x) = 1 .. k + 1
          /\ Append(u, x)[k + 1] = x /\ \A i \in 1 .. k : Append(u, x)[i] = u[i]
      BY <2>1, <2>5, <2>7
    <2>9. Enumerates(Append(u, x), k + 1, s)
      <3> DEFINE v == Append(u, x)
      <3>1. DOMAIN v = 1 .. k + 1 /\ v[k + 1] = x /\ \A i \in 1 .. k : v[i] = u[i]
        BY <2>8
      <3> HIDE DEF v
      <3>2. \A i \in 1 .. k + 1 : i = k + 1 \/ i \in 1 .. k
        BY <2>1
      <3>3. k + 1 \in 1 .. k + 1 /\ \A i \in 1 .. k : i \in 1 .. k + 1 /\ i # k + 1
        BY <2>1
      <3>4. /\ \A i \in 1 .. k : u[i] \in t
            /\ \A i, j \in 1 .. k : u[i] = u[j] => i = j
            /\ \A y \in t : \E i \in 1 .. k : u[i] = y
        BY <2>5 DEF Enumerates
      <3>5. \A i \in 1 .. k + 1 : v[i] \in s
        BY <2>7, <3>1, <3>2, <3>4
      <3>6. \A i, j \in 1 .. k + 1 : v[i] = v[j] => i = j
        BY <2>7, <3>1, <3>2, <3>4
      <3>7. \A y \in s : \E i \in 1 .. k + 1 : v[i] = y
        BY <2>7, <3>1, <3>3, <3>4
      <3>. QED  BY <3>1, <3>5, <3>6, <3>7 DEF Enumerates, v
    <2>. QED  BY <2>6, <2>8, <2>9
  <1>8. K = Nat
    <2>1. K \in SUBSET Nat
      OBVIOUS
    <2> HIDE DEF K
    <2>. QED  BY <1>6, <1>7, <2>1, Adding!NatSet
  <1>9. Cardinality(S) \in Nat
    BY FS_CardinalityType
  <1>. QED  BY <1>1, <1>8, <1>9

\* How many there are is the sum of ones.
LEMMA CountIsTotal ==
  ASSUME NEW n \in Nat, NEW Q
  PROVE  /\ IsFiniteSet({b \in 1 .. n : b \in Q}) /\ Cardinality({b \in 1 .. n : b \in Q}) \in Nat
         /\ Cardinality({b \in 1 .. n : b \in Q}) = Total([b \in 1 .. n |-> IF b \in Q THEN 1 ELSE 0])
  <1> DEFINE s == [b \in 1 .. n |-> IF b \in Q THEN 1 ELSE 0]
             C(k) == {b \in 1 .. k : b \in Q}
             P(k) == Adding!Prefix(0, s, k)
             K == {k \in Nat : k <= n => Cardinality(C(k)) = P(k)}
  <1>1. \A k \in Nat : IsFiniteSet(C(k)) /\ Cardinality(C(k)) \in Nat
    <2> SUFFICES ASSUME NEW k \in Nat
                 PROVE  IsFiniteSet(C(k)) /\ Cardinality(C(k)) \in Nat
      OBVIOUS
    <2>1. IsFiniteSet(1 .. k) /\ C(k) \in SUBSET (1 .. k)
      BY FS_Interval
    <2> HIDE DEF C
    <2>. QED  BY <2>1, FS_Subset, FS_CardinalityType
  <1>2. P(0) = 0 /\ (\A k \in 0 .. n - 1 : P(k + 1) = P(k) + s[k + 1]) /\ Total(s) = P(n)
    <2>1. DOMAIN s = 1 .. n
      OBVIOUS
    <2> HIDE DEF s
    <2>. QED  BY <2>1, TotalGrows
  <1> HIDE DEF P
  <1>3. C(0) = {}
    OBVIOUS
  <1>4. \A k \in Nat : C(k + 1) = IF k + 1 \in Q THEN C(k) \cup {k + 1} ELSE C(k)
    <2> SUFFICES ASSUME NEW k \in Nat
                 PROVE  C(k + 1) = IF k + 1 \in Q THEN C(k) \cup {k + 1} ELSE C(k)
      OBVIOUS
    <2>1. 1 .. k + 1 = (1 .. k) \cup {k + 1} /\ k + 1 \notin 1 .. k
      OBVIOUS
    <2>. QED  BY <2>1
  <1>5. \A k \in Nat : k + 1 \notin C(k)
    OBVIOUS
  <1> HIDE DEF C
  <1>6. K \in SUBSET Nat /\ 0 \in K
    BY <1>2, <1>3, FS_EmptySet
  <1>7. ASSUME NEW k \in K PROVE k + 1 \in K
    <2>1. CASE k + 1 <= n
      <3>1. k \in Nat /\ k \in 0 .. n - 1 /\ k + 1 \in 1 .. n /\ Cardinality(C(k)) = P(k)
        BY <2>1
      <3>2. s[k + 1] = IF k + 1 \in Q THEN 1 ELSE 0
        BY <3>1
      <3>3. Cardinality(C(k) \cup {k + 1}) = Cardinality(C(k)) + 1
        BY <1>1, <1>5, <3>1, FS_AddElement
      <3>4. Cardinality(C(k + 1)) = Cardinality(C(k)) + s[k + 1]
        <4>1. CASE k + 1 \in Q
          BY <1>4, <3>1, <3>2, <3>3, <4>1
        <4>2. CASE k + 1 \notin Q
          <5>1. C(k + 1) = C(k) /\ s[k + 1] = 0 /\ Cardinality(C(k)) \in Nat
            BY <1>1, <1>4, <3>1, <3>2, <4>2
          <5>. QED  BY <5>1
        <4>. QED  BY <4>1, <4>2
      <3>5. Cardinality(C(k + 1)) = P(k + 1)
        BY <1>2, <3>1, <3>4
      <3>. QED  BY <3>1, <3>5
    <2>. QED  BY <2>1
  <1> HIDE DEF K
  <1>8. K = Nat
    BY <1>6, <1>7, Adding!NatSet
  <1>9. Cardinality(C(n)) = P(n)
    BY <1>8 DEF K
  <1>. QED  BY <1>1, <1>2, <1>9 DEF C

\* Every one of the first N numbers is in one of the classes 0 .. n.
ClassSizes(c, n, N) == [k \in 1 .. n + 1 |-> Cardinality({b \in 1 .. N : c[b] = k - 1})]

LEMMA ClassesMakeAll ==
  ASSUME NEW n \in Nat, NEW N \in Nat, NEW c, \A b \in 1 .. N : c[b] \in 0 .. n
  PROVE  Total(ClassSizes(c, n, N)) = N
  <1> DEFINE C(m, k) == {b \in 1 .. m : c[b] = k - 1}
             s(m) == [k \in 1 .. n + 1 |-> Cardinality(C(m, k))]
             K == {m \in Nat : m <= N => Total(s(m)) = m}
  <1>1. \A m \in Nat : \A k : IsFiniteSet(C(m, k)) /\ Cardinality(C(m, k)) \in Nat
    <2> SUFFICES ASSUME NEW m \in Nat, NEW k
                 PROVE  IsFiniteSet(C(m, k)) /\ Cardinality(C(m, k)) \in Nat
      OBVIOUS
    <2>1. IsFiniteSet(1 .. m) /\ C(m, k) \in SUBSET (1 .. m)
      BY FS_Interval
    <2> HIDE DEF C
    <2>. QED  BY <2>1, FS_Subset, FS_CardinalityType
  <1>2. \A k : C(0, k) = {}
    OBVIOUS
  <1>3. \A m \in Nat : \A k : /\ m + 1 \notin C(m, k)
                             /\ C(m + 1, k) = IF c[m + 1] = k - 1 THEN C(m, k) \cup {m + 1} ELSE C(m, k)
    <2> SUFFICES ASSUME NEW m \in Nat, NEW k
                 PROVE  /\ m + 1 \notin C(m, k)
                        /\ C(m + 1, k) = IF c[m + 1] = k - 1 THEN C(m, k) \cup {m + 1} ELSE C(m, k)
      OBVIOUS
    <2>1. 1 .. m + 1 = (1 .. m) \cup {m + 1} /\ m + 1 \notin 1 .. m
      OBVIOUS
    <2>. QED  BY <2>1
  <1> HIDE DEF C
  <1>4. \A m \in Nat : Numbers(n + 1, s(m))
    BY <1>1 DEF Numbers
  <1>5. 0 \in K
    <2> DEFINE t == s(0)
    <2>1. DOMAIN t = 1 .. n + 1 /\ n + 1 \in Nat /\ \A k \in 1 .. n + 1 : t[k] = 0 /\ t[k] \in Nat
      BY <1>2, FS_EmptySet
    <2> HIDE DEF t
    <2>2. Total(t) = 0
      BY <2>1, TotalOfNumbers
    <2>. QED  BY <2>2 DEF t
  <1>6. ASSUME NEW m \in K PROVE m + 1 \in K
    <2>1. CASE m + 1 <= N
      <3>1. m \in Nat /\ Total(s(m)) = m /\ m + 1 \in 1 .. N
        BY <2>1
      <3> DEFINE j == c[m + 1] + 1
      <3>2. j \in 1 .. n + 1 /\ \A k \in 1 .. n + 1 : c[m + 1] = k - 1 <=> k = j
        <4> DEFINE d == c[m + 1]
        <4>1. d \in 0 .. n
          BY <3>1
        <4> HIDE DEF d
        <4>2. d + 1 \in 1 .. n + 1
          BY <4>1
        <4>3. \A k \in 1 .. n + 1 : d = k - 1 <=> k = d + 1
          BY <4>1
        <4>. QED  BY <4>2, <4>3 DEF d
      <3>3. \A k \in 1 .. n + 1 : Cardinality(C(m + 1, k)) = IF k = j THEN Cardinality(C(m, k)) + 1 ELSE Cardinality(C(m, k))
        <4> SUFFICES ASSUME NEW k \in 1 .. n + 1
                     PROVE  Cardinality(C(m + 1, k)) = IF k = j THEN Cardinality(C(m, k)) + 1 ELSE Cardinality(C(m, k))
          OBVIOUS
        <4>1. Cardinality(C(m, k) \cup {m + 1}) = Cardinality(C(m, k)) + 1
          BY <1>1, <1>3, <3>1, FS_AddElement
        <4>. QED  BY <1>3, <3>1, <3>2, <4>1
      <3> DEFINE t == s(m)
                 u == s(m + 1)
      <3>4. /\ DOMAIN t = 1 .. n + 1 /\ DOMAIN u = 1 .. n + 1
            /\ \A k \in 1 .. n + 1 : t[k] \in Nat /\ u[k] = IF k = j THEN t[k] + 1 ELSE t[k]
        BY <1>1, <3>1, <3>3
      <3> HIDE DEF t, u, j
      <3>5. GrownBy(n + 1, t, u, j, 1)
        BY <3>2, <3>4 DEF GrownBy
      <3>6. Total(u) = Total(t) + 1
        BY <3>5, TotalChanges
      <3>. QED  BY <3>1, <3>6 DEF t, u
    <2>. QED  BY <2>1
  <1> HIDE DEF s
  <1>7. K = Nat
    <2>1. K \in SUBSET Nat
      OBVIOUS
    <2> HIDE DEF K
    <2>. QED  BY <1>5, <1>6, <2>1, Adding!NatSet
  <1>8. Total(s(N)) = N
    BY <1>7
  <1>. QED  BY <1>8 DEF s, C, ClassSizes

-----------------------------------------------------------------------------
(* What the processes count, and what there is to be counted.              *)

\* What an addition adds to the winners of a set.
Worth(a, winners) == IF a.array = "winner_list" /\ a.offset \in winners THEN a.by ELSE 0

Gain(due, winners) == Total([j \in 1 .. Len(due) |-> Worth(due[j], winners)])

\* What the processes still have to add, of given processes.
Gains(state, winners) == Total([i \in 1 .. CpuCount |-> Gain(state[FirstWorker + i - 1].due, winners)])

\* What the tasks will add that no process has taken.
TaskGain(job, winners) == Gain(CHOOSE due \in job.additions : TRUE, winners)

ToCome(tasks, winners) == Total([j \in 1 .. Len(tasks) |-> TaskGain(tasks[j], winners)])

\* What is counted.
CountsOf(counts, n, winners) ==
  Total([k \in 1 .. n + 1 |-> IF k - 1 \in winners THEN counts[<<"winner_list", k - 1>>] ELSE 0])

LEMMA WorthIsNumber ==
  ASSUME NEW n, NEW a \in Addition(n), NEW winners
  PROVE  Worth(a, winners) \in Nat
  BY DEF Worth, Addition

LEMMA GainIsNumber ==
  ASSUME NEW n, NEW due \in Seq(Addition(n)), NEW winners
  PROVE  /\ Gain(due, winners) \in Nat /\ (due = <<>> => Gain(due, winners) = 0)
         /\ due # <<>> => Gain(due, winners) = Worth(Head(due), winners) + Gain(Tail(due), winners)
  <1> DEFINE s == [j \in 1 .. Len(due) |-> Worth(due[j], winners)]
             m == Len(due)
  <1>1. m \in Nat /\ DOMAIN s = 1 .. m /\ \A j \in 1 .. m : s[j] = Worth(due[j], winners) /\ due[j] \in Addition(n)
    OBVIOUS
  <1>2. \A j \in 1 .. m : s[j] \in Nat
    BY <1>1, WorthIsNumber
  <1>3. Gain(due, winners) = Total(s)
    BY DEF Gain
  <1> HIDE DEF s
  <1>4. Total(s) \in Nat /\ (m = 0 => Total(s) = 0)
    BY <1>1, <1>2, TotalOfNumbers
  <1>5. due = <<>> => m = 0
    OBVIOUS
  <1>6. ASSUME due # <<>>
        PROVE  Total(s) = Worth(Head(due), winners) + Gain(Tail(due), winners)
    <2> DEFINE r == m - 1
    <2>1. /\ r \in Nat /\ r + 1 = m /\ Len(Tail(due)) = r /\ Head(due) = due[1]
          /\ \A j \in 1 .. r : Tail(due)[j] = due[j + 1]
          /\ 1 \in 1 .. m /\ \A j \in 1 .. r : j + 1 \in 1 .. m
      BY <1>6
    <2> HIDE DEF r, m
    <2>2. Numbers(r + 1, s)
      BY <1>1, <1>2, <2>1 DEF Numbers
    <2>3. Total(s) = s[1] + Total([j \in 1 .. r |-> s[j + 1]])
      BY <2>1, <2>2, TotalOfTail
    <2>4. [j \in 1 .. r |-> s[j + 1]] = [j \in 1 .. r |-> Worth(Tail(due)[j], winners)]
      BY <1>1, <2>1
    <2>. QED  BY <1>1, <2>1, <2>3, <2>4 DEF Gain
  <1>. QED  BY <1>3, <1>4, <1>5, <1>6

\* A process whose additions change, and the others'.
LEMMA GainsChange ==
  ASSUME NEW winners, NEW state, NEW next, NEW w \in Workers, NEW d \in Nat,
         \A v \in Workers : Gain(state[v].due, winners) \in Nat,
         Gain(next[w].due, winners) = Gain(state[w].due, winners) + d,
         \A v \in Workers : v # w => next[v].due = state[v].due
  PROVE  Gains(next, winners) = Gains(state, winners) + d
  <1> DEFINE s == [i \in 1 .. CpuCount |-> Gain(state[FirstWorker + i - 1].due, winners)]
             t == [i \in 1 .. CpuCount |-> Gain(next[FirstWorker + i - 1].due, winners)]
             j == w - FirstWorker + 1
  <1>1. CpuCount \in Nat /\ j \in 1 .. CpuCount /\ FirstWorker + j - 1 = w
    BY PoolAssumption DEF Workers
  <1>2. \A i \in 1 .. CpuCount : FirstWorker + i - 1 \in Workers /\ (FirstWorker + i - 1 = w => i = j)
    BY PoolAssumption DEF Workers
  <1>3. /\ DOMAIN s = 1 .. CpuCount /\ DOMAIN t = 1 .. CpuCount
        /\ \A i \in 1 .. CpuCount : /\ s[i] = Gain(state[FirstWorker + i - 1].due, winners)
                                    /\ t[i] = Gain(next[FirstWorker + i - 1].due, winners)
    OBVIOUS
  <1> HIDE DEF s, t, j
  <1>4. GrownBy(CpuCount, s, t, j, d)
    <2>1. \A i \in 1 .. CpuCount : s[i] \in Nat /\ (i # j => t[i] = s[i])
      BY <1>2, <1>3
    <2>2. t[j] = s[j] + d
      BY <1>1, <1>3
    <2>. QED  BY <1>1, <1>3, <2>1, <2>2 DEF GrownBy
  <1>5. Total(t) = Total(s) + d
    BY <1>1, <1>4, TotalChanges
  <1>. QED  BY <1>5 DEF Gains, s, t

LEMMA GainsSame ==
  ASSUME NEW winners, NEW state, NEW next, \A v \in Workers : next[v].due = state[v].due
  PROVE  Gains(next, winners) = Gains(state, winners)
  <1>1. \A i \in 1 .. CpuCount : FirstWorker + i - 1 \in Workers
    BY PoolAssumption DEF Workers
  <1>. QED  BY <1>1 DEF Gains

LEMMA GainsAreNumbers ==
  ASSUME NEW winners, NEW state, \A v \in Workers : Gain(state[v].due, winners) \in Nat
  PROVE  /\ Gains(state, winners) \in Nat
         /\ (\A v \in Workers : Gain(state[v].due, winners) = 0) => Gains(state, winners) = 0
  <1> DEFINE s == [i \in 1 .. CpuCount |-> Gain(state[FirstWorker + i - 1].due, winners)]
  <1>1. CpuCount \in Nat /\ \A i \in 1 .. CpuCount : FirstWorker + i - 1 \in Workers
    BY PoolAssumption DEF Workers
  <1>2. DOMAIN s = 1 .. CpuCount /\ \A i \in 1 .. CpuCount : s[i] = Gain(state[FirstWorker + i - 1].due, winners)
    OBVIOUS
  <1> HIDE DEF s
  <1>3. \A i \in 1 .. CpuCount : s[i] \in Nat
    BY <1>1, <1>2
  <1>4. Total(s) \in Nat /\ ((\A i \in 1 .. CpuCount : s[i] = 0) => Total(s) = 0)
    BY <1>1, <1>2, <1>3, TotalOfNumbers
  <1>5. (\A v \in Workers : Gain(state[v].due, winners) = 0) => \A i \in 1 .. CpuCount : s[i] = 0
    BY <1>1, <1>2
  <1>. QED  BY <1>4, <1>5 DEF Gains, s

\* A task whose additions are the same to the winners, however it goes, and there are some.
Fair(job, winners) == job.additions # {} /\ \A due \in job.additions : Gain(due, winners) = TaskGain(job, winners)

LEMMA ToComeIsNumber ==
  ASSUME NEW n, NEW tasks \in Seq(Task(n)), NEW winners, \A j \in DOMAIN tasks : Fair(tasks[j], winners)
  PROVE  /\ ToCome(tasks, winners) \in Nat /\ (tasks = <<>> => ToCome(tasks, winners) = 0)
         /\ tasks # <<>> => /\ TaskGain(Head(tasks), winners) \in Nat
                            /\ ToCome(tasks, winners) = TaskGain(Head(tasks), winners) + ToCome(Tail(tasks), winners)
  <1> DEFINE s == [j \in 1 .. Len(tasks) |-> TaskGain(tasks[j], winners)]
             m == Len(tasks)
  <1>1. m \in Nat /\ DOMAIN s = 1 .. m /\ DOMAIN tasks = 1 .. m
        /\ \A j \in 1 .. m : s[j] = TaskGain(tasks[j], winners) /\ tasks[j] \in Task(n)
    OBVIOUS
  <1>2. \A j \in 1 .. m : s[j] \in Nat
    <2> SUFFICES ASSUME NEW j \in 1 .. m
                 PROVE  TaskGain(tasks[j], winners) \in Nat
      BY <1>1
    <2>1. tasks[j].additions # {} /\ tasks[j].additions \subseteq Seq(Addition(n))
      BY <1>1 DEF Fair, Task
    <2>2. (CHOOSE due \in tasks[j].additions : TRUE) \in Seq(Addition(n))
      BY <2>1
    <2>. QED  BY <2>2, GainIsNumber DEF TaskGain
  <1>3. ToCome(tasks, winners) = Total(s)
    BY DEF ToCome
  <1> HIDE DEF s
  <1>4. Total(s) \in Nat /\ (m = 0 => Total(s) = 0)
    BY <1>1, <1>2, TotalOfNumbers
  <1>5. tasks = <<>> => m = 0
    OBVIOUS
  <1>6. ASSUME tasks # <<>>
        PROVE  /\ TaskGain(Head(tasks), winners) \in Nat
               /\ Total(s) = TaskGain(Head(tasks), winners) + ToCome(Tail(tasks), winners)
    <2> DEFINE r == m - 1
    <2>1. /\ r \in Nat /\ r + 1 = m /\ Len(Tail(tasks)) = r /\ Head(tasks) = tasks[1]
          /\ \A j \in 1 .. r : Tail(tasks)[j] = tasks[j + 1]
          /\ 1 \in 1 .. m /\ \A j \in 1 .. r : j + 1 \in 1 .. m
      BY <1>6
    <2> HIDE DEF r, m
    <2>2. Numbers(r + 1, s)
      BY <1>1, <1>2, <2>1 DEF Numbers
    <2>3. Total(s) = s[1] + Total([j \in 1 .. r |-> s[j + 1]])
      BY <2>1, <2>2, TotalOfTail
    <2>4. [j \in 1 .. r |-> s[j + 1]] = [j \in 1 .. r |-> TaskGain(Tail(tasks)[j], winners)]
      BY <1>1, <2>1
    <2>5. s[1] = TaskGain(Head(tasks), winners) /\ s[1] \in Nat
      BY <1>1, <1>2, <2>1
    <2>. QED  BY <2>1, <2>3, <2>4, <2>5 DEF ToCome
  <1>. QED  BY <1>3, <1>4, <1>5, <1>6

\* To make an addition changes the counts by its worth.
LEMMA CountsOfMore ==
  ASSUME NEW n \in 1 .. MaxPlayers, NEW counts, DOMAIN counts = Counters, \A c \in Counters : counts[c] \in Nat,
         NEW a \in Addition(n), NEW winners
  PROVE  CountsOf(OneMore(counts, a), n, winners) = CountsOf(counts, n, winners) + Worth(a, winners)
  <1> DEFINE more == OneMore(counts, a)
             s == [k \in 1 .. n + 1 |-> IF k - 1 \in winners THEN counts[<<"winner_list", k - 1>>] ELSE 0]
             t == [k \in 1 .. n + 1 |-> IF k - 1 \in winners THEN more[<<"winner_list", k - 1>>] ELSE 0]
  <1>1. n \in Nat /\ n + 1 \in Nat
    BY CallsAssumption
  <1>2. \A k \in 1 .. n + 1 : <<"winner_list", k - 1>> \in Counters
    BY CallsAssumption DEF Counters
  <1>3. \A c \in Counters : more[c] = IF c = <<a.array, a.offset>> THEN counts[c] + a.by ELSE counts[c]
    BY DEF OneMore
  <1>4. /\ DOMAIN s = 1 .. n + 1 /\ DOMAIN t = 1 .. n + 1
        /\ \A k \in 1 .. n + 1 : /\ s[k] = IF k - 1 \in winners THEN counts[<<"winner_list", k - 1>>] ELSE 0
                                 /\ t[k] = IF k - 1 \in winners THEN more[<<"winner_list", k - 1>>] ELSE 0
    OBVIOUS
  <1>5. CountsOf(counts, n, winners) = Total(s) /\ CountsOf(more, n, winners) = Total(t)
    BY DEF CountsOf
  <1> HIDE DEF s, t, more
  <1>6. \A k \in 1 .. n + 1 : s[k] \in Nat
    <2> SUFFICES ASSUME NEW k \in 1 .. n + 1
                 PROVE  s[k] \in Nat
      OBVIOUS
    <2> DEFINE c == <<"winner_list", k - 1>>
    <2>1. c \in Counters /\ s[k] = IF k - 1 \in winners THEN counts[c] ELSE 0
      BY <1>2, <1>4
    <2> HIDE DEF c
    <2>. QED  BY <2>1
  <1>7. Total(s) \in Nat
    BY <1>1, <1>4, <1>6, TotalOfNumbers
  <1>8. CASE a.array = "winner_list" /\ a.offset \in winners
    <2> DEFINE j == a.offset + 1
    <2>1. a.offset \in 0 .. n /\ a.by \in Nat
      BY <1>8 DEF Addition
    <2>2. j \in 1 .. n + 1 /\ \A k \in 1 .. n + 1 : k - 1 = a.offset <=> k = j
      BY <1>1, <2>1
    <2>3. \A k \in 1 .. n + 1 : <<"winner_list", k - 1>> = <<a.array, a.offset>> <=> k = j
      BY <1>8, <2>2
    <2>4. \A k \in 1 .. n + 1 : t[k] = IF k = j THEN s[k] + a.by ELSE s[k]
      BY <1>2, <1>3, <1>4, <1>8, <2>2, <2>3, ZenonT(40)
    <2> HIDE DEF j
    <2>5. GrownBy(n + 1, s, t, j, a.by)
      BY <1>4, <1>6, <2>1, <2>2, <2>4 DEF GrownBy
    <2>6. Total(t) = Total(s) + a.by
      BY <1>1, <2>5, TotalChanges
    <2>. QED  BY <1>5, <1>8, <2>6 DEF Worth, more
  <1>9. CASE ~(a.array = "winner_list" /\ a.offset \in winners)
    <2>1. \A k \in 1 .. n + 1 : t[k] = s[k]
      <3> SUFFICES ASSUME NEW k \in 1 .. n + 1, k - 1 \in winners
                   PROVE  more[<<"winner_list", k - 1>>] = counts[<<"winner_list", k - 1>>]
        BY <1>4
      <3>1. <<"winner_list", k - 1>> # <<a.array, a.offset>>
        BY <1>9
      <3>. QED  BY <1>2, <1>3, <3>1
    <2>2. Total(t) = Total(s)
      BY <1>1, <1>4, <1>6, <2>1, TotalOfSame DEF Numbers
    <2>. QED  BY <1>5, <1>7, <1>9, <2>2 DEF Worth, more
  <1>. QED  BY <1>8, <1>9

-----------------------------------------------------------------------------
(* What the tasks of a call are worth.                                     *)

\* A function on 1 .. n is a sequence of that length.
LEMMA FunctionsAreSequences ==
  ASSUME NEW n \in Nat, NEW s, s = [i \in 1 .. n |-> s[i]]
  PROVE  s \in Seq({s[i] : i \in 1 .. n}) /\ Len(s) = n /\ DOMAIN s = 1 .. n
  <1> DEFINE X == {s[i] : i \in 1 .. n}
  <1>1. s \in [1 .. n -> X]
    OBVIOUS
  <1> HIDE DEF X
  <1>2. s \in Seq(X) /\ Len(s) = n
    BY <1>1
  <1>. QED  BY <1>2 DEF X

\* Two sequences of different things, one after the other.
LEMMA OneAfterTheOther ==
  ASSUME NEW A, NEW s \in Seq(A), NEW B, NEW t \in Seq(B), NEW m, NEW n, Len(s) = m, Len(t) = n
  PROVE  /\ Len(s \o t) = m + n
         /\ \A j \in 1 .. m : (s \o t)[j] = s[j]
         /\ \A j \in m + 1 .. m + n : (s \o t)[j] = t[j - m] /\ j - m \in 1 .. n
  <1> DEFINE C == A \cup B
  <1>1. s \in Seq(C) /\ t \in Seq(C)
    OBVIOUS
  <1>2. m \in Nat /\ n \in Nat
    OBVIOUS
  <1> HIDE DEF C
  <1>3. Len(s \o t) = m + n
    BY <1>1
  <1>4. \A j \in 1 .. m + n : (s \o t)[j] = IF j <= m THEN s[j] ELSE t[j - m]
    BY <1>1
  <1>. QED  BY <1>2, <1>3, <1>4

\* Who wins with a board, 0 for nobody (find_winner).
Winner(hole_cards, board) == compare_hands(Results(hole_cards, board))

LEMMA WinnerIsPlayer ==
  ASSUME NEW n \in Nat, NEW hole, DOMAIN hole = 1 .. n, NEW board
  PROVE  Winner(hole, board) \in 0 .. n
  <1> DEFINE results == Results(hole, board)
             best == {i \in DOMAIN results : \A j \in DOMAIN results : ~Beats(results[j], results[i])}
  <1>1. DOMAIN results = 1 .. n
    BY DEF Results
  <1>2. Winner(hole, board) = IF Cardinality(best) = 1 THEN CHOOSE i \in best : TRUE ELSE 0
    BY DEF Winner, compare_hands
  <1> HIDE DEF results
  <1>3. best \in SUBSET (1 .. n)
    BY <1>1
  <1> DEFINE chosen == CHOOSE i \in best : TRUE
  <1> HIDE DEF best
  <1>4. IsFiniteSet(best)
    <2>1. IsFiniteSet(1 .. n)
      BY FS_Interval
    <2>. QED  BY <1>3, <2>1, FS_Subset
  <1>5. ASSUME Cardinality(best) = 1
        PROVE  chosen \in best
    <2>1. \E x : best = {x}
      BY <1>4, <1>5, FS_Singleton
    <2>. QED  BY <2>1
  <1>6. Winner(hole, board) = IF Cardinality(best) = 1 THEN chosen ELSE 0
    BY <1>2
  <1> HIDE DEF chosen
  <1>7. CASE Cardinality(best) = 1
    <2>1. chosen \in 1 .. n /\ Winner(hole, board) = chosen
      BY <1>3, <1>5, <1>6, <1>7
    <2>. QED  BY <2>1
  <1>8. CASE Cardinality(best) # 1
    BY <1>6, <1>8
  <1>. QED  BY <1>7, <1>8

\* The counts of find_winner, over boards that are numbered.
Wins(hole_cards, given, boards, w) ==
  Cardinality({b \in DOMAIN boards : Winner(hole_cards, given \cup boards[b]) = w})

WinsOf(hole_cards, given, boards, n) == [w \in 0 .. n |-> Wins(hole_cards, given, boards, w)]

LEMMA FoundCounts ==
  ASSUME NEW n \in Nat, NEW hole, hole = [i \in 1 .. n |-> hole[i]], NEW given, NEW boards
  PROVE  find_winner(hole, given, boards).winner_list
           = WinsOf(hole, given, boards, n)
  <1>1. Len(hole) = n
    BY FunctionsAreSequences
  <1>. QED  BY <1>1 DEF find_winner, Winner, Wins, WinsOf

\* What one board adds: one to its winner, if this is one of those counted.
LEMMA BoardIsWorth ==
  ASSUME NEW n \in Nat, NEW hole, hole = [i \in 1 .. n |-> hole[i]], NEW given, NEW board, NEW winners
  PROVE  Gain(simulation(hole, find_winner(hole, given, <<board>>)), winners)
           = IF Winner(hole, given \cup board) \in winners THEN 1 ELSE 0
  <1> DEFINE found == find_winner(hole, given, <<board>>)
             x == Winner(hole, given \cup board)
             due == simulation(hole, found)
             hand(p) == CHOOSE h \in 0 .. 9 : found.result_histograms[p][h] = 1
             hands == [p \in 1 .. n |-> [array |-> "result_histograms", offset |-> 10 * (p - 1) + hand(p), by |-> 1]]
             winner == CHOOSE i \in 0 .. Len(hole) : found.winner_list[i] = 1
  <1>1. Len(hole) = n /\ DOMAIN hole = 1 .. n
    BY FunctionsAreSequences
  <1>2. x \in 0 .. n
    BY <1>1, WinnerIsPlayer
  <1>3. winner = x
    <2> DEFINE boards == <<board>>
               C(w) == {b \in DOMAIN boards : Winner(hole, given \cup boards[b]) = w}
    <2>1. DOMAIN boards = {1} /\ boards[1] = board
      OBVIOUS
    <2> HIDE DEF boards
    <2>2. \A w : C(w) = IF x = w THEN {1} ELSE {}
      BY <2>1
    <2>5. Cardinality({1}) = 1 /\ Cardinality({}) = 0
      BY FS_Singleton, FS_EmptySet
    <2>6. found.winner_list = WinsOf(hole, given, boards, n)
      <3>1. found = find_winner(hole, given, boards)
        BY DEF boards
      <3> HIDE DEF found
      <3>. QED  BY <3>1, FoundCounts
    <2>7. \A w : Wins(hole, given, boards, w) = Cardinality(C(w))
      BY DEF Wins
    <2> HIDE DEF C, found, x
    <2>3. \A w \in 0 .. n : found.winner_list[w] = IF x = w THEN 1 ELSE 0
      BY <2>2, <2>5, <2>6, <2>7 DEF WinsOf
    <2>4. \A w \in 0 .. n : found.winner_list[w] = 1 <=> w = x
      BY <2>3
    <2>. QED  BY <1>1, <1>2, <2>4
  <1>4. due = << [array |-> "winner_list", offset |-> winner, by |-> 1] >> \o hands
    BY <1>1 DEF simulation
  <1>5. hands \in Seq({hands[p] : p \in 1 .. n}) /\ Len(hands) = n
    BY FunctionsAreSequences, ZenonT(40)
  <1>6. \A p \in 1 .. n : hands[p].array = "result_histograms"
    OBVIOUS
  <1> DEFINE one == [array |-> "winner_list", offset |-> x, by |-> 1]
  <1>7. one.array = "winner_list" /\ one.offset = x /\ one.by = 1
    OBVIOUS
  <1>8. due = <<one>> \o hands
    BY <1>3, <1>4
  <1> HIDE DEF due, hands, one, winner
  <1>9. Len(due) = n + 1 /\ due[1] = one /\ \A j \in 1 .. n + 1 : j # 1 => due[j] = hands[j - 1] /\ j - 1 \in 1 .. n
    BY <1>5, <1>8
  <1> DEFINE t == [j \in 1 .. Len(due) |-> Worth(due[j], winners)]
  <1>10. Gain(due, winners) = Total(t) /\ DOMAIN t = 1 .. n + 1
    BY <1>9 DEF Gain
  <1>11. t[1] = IF x \in winners THEN 1 ELSE 0
    BY <1>7, <1>9 DEF Worth
  <1>12. \A j \in 1 .. n + 1 : j # 1 => t[j] = 0
    BY <1>6, <1>9 DEF Worth
  <1> HIDE DEF t, x
  <1>13. 1 \in 1 .. n + 1 /\ n + 1 \in Nat
    OBVIOUS
  <1>14. Total(t) = IF x \in winners THEN 1 ELSE 0
    BY <1>10, <1>11, <1>12, <1>13, TotalOfOne
  <1>. QED  BY <1>10, <1>14 DEF due, x, found

\* A list of counts, from that of the ties on.
InTurn(list, n) == [k \in 1 .. n + 1 |-> list[k - 1]]

\* What a filler adds: all that find_winner has counted of the winners.
LEMMA FillerIsWorth ==
  ASSUME NEW n \in Nat, NEW hole, hole = [i \in 1 .. n |-> hole[i]], NEW found,
         \A w \in 0 .. n : found.winner_list[w] \in Nat
  PROVE  /\ \A w \in 0 .. n : Gain(unknown_simulation(hole, found), {w}) = found.winner_list[w]
         /\ Gain(unknown_simulation(hole, found), 0 .. n) = Total(InTurn(found.winner_list, n))
  <1> DEFINE m == 10 * n
             due == unknown_simulation(hole, found)
             head == [i \in 1 .. n + 1 |-> [array |-> "winner_list", offset |-> i - 1, by |-> found.winner_list[i - 1]]]
             rest == [i \in 1 .. m |->
                        [array |-> "result_histograms", offset |-> i - 1,
                         by |-> found.result_histograms[1 + ((i - 1) \div 10)][(i - 1) % 10]]]
             t(W) == [j \in 1 .. Len(due) |-> Worth(due[j], W)]
  <1>1. Len(hole) = n
    BY FunctionsAreSequences
  <1>2. due = head \o rest
    BY <1>1, Zenon DEF unknown_simulation
  <1>3. head \in Seq({head[p] : p \in 1 .. n + 1}) /\ Len(head) = n + 1
    <2>1. n + 1 \in Nat
      OBVIOUS
    <2>2. head = [p \in 1 .. n + 1 |-> head[p]]
      OBVIOUS
    <2> HIDE DEF head
    <2>. QED  BY <2>1, <2>2, FunctionsAreSequences
  <1>4. rest \in Seq({rest[p] : p \in 1 .. m}) /\ Len(rest) = m
    <2>1. m \in Nat
      OBVIOUS
    <2>2. rest = [p \in 1 .. m |-> rest[p]]
      OBVIOUS
    <2> HIDE DEF m, rest
    <2>. QED  BY <2>1, <2>2, FunctionsAreSequences
  <1>5. \A p \in 1 .. m : rest[p].array = "result_histograms"
    OBVIOUS
  <1>6. \A p \in 1 .. n + 1 : /\ head[p].array = "winner_list" /\ head[p].offset = p - 1
                              /\ head[p].by = found.winner_list[p - 1]
    OBVIOUS
  <1>9. n + 1 \in Nat /\ m \in Nat
    OBVIOUS
  <1> HIDE DEF due, head, rest, m
  <1>7. /\ Len(due) = (n + 1) + m
        /\ \A j \in 1 .. n + 1 : due[j] = head[j]
        /\ \A j \in (n + 1) + 1 .. (n + 1) + m : due[j] = rest[j - (n + 1)] /\ j - (n + 1) \in 1 .. m
    BY <1>2, <1>3, <1>4, OneAfterTheOther, SMTT(40)
  <1>8. \A W : /\ Gain(due, W) = Total(t(W)) /\ DOMAIN t(W) = 1 .. (n + 1) + m
               /\ \A j \in 1 .. n + 1 : t(W)[j] = IF j - 1 \in W THEN found.winner_list[j - 1] ELSE 0
               /\ \A j \in (n + 1) + 1 .. (n + 1) + m : t(W)[j] = 0
    <2> SUFFICES ASSUME NEW W
                 PROVE  /\ Gain(due, W) = Total(t(W)) /\ DOMAIN t(W) = 1 .. (n + 1) + m
                        /\ \A j \in 1 .. n + 1 : t(W)[j] = IF j - 1 \in W THEN found.winner_list[j - 1] ELSE 0
                        /\ \A j \in (n + 1) + 1 .. (n + 1) + m : t(W)[j] = 0
      OBVIOUS
    <2>1. Gain(due, W) = Total(t(W)) /\ DOMAIN t(W) = 1 .. (n + 1) + m
      BY <1>7 DEF Gain
    <2>2. \A j \in 1 .. (n + 1) + m : t(W)[j] = Worth(due[j], W)
      BY <1>7
    <2>3. \A j \in 1 .. n + 1 : Worth(due[j], W) = IF j - 1 \in W THEN found.winner_list[j - 1] ELSE 0
      BY <1>6, <1>7 DEF Worth
    <2>4. \A j \in (n + 1) + 1 .. (n + 1) + m : Worth(due[j], W) = 0
      BY <1>5, <1>7 DEF Worth
    <2> HIDE DEF t
    <2>5. \A j \in 1 .. n + 1 : j \in 1 .. (n + 1) + m
      BY <1>9
    <2>6. \A j \in (n + 1) + 1 .. (n + 1) + m : j \in 1 .. (n + 1) + m
      BY <1>9
    <2>. QED  BY <2>1, <2>2, <2>3, <2>4, <2>5, <2>6
  <1> HIDE DEF t
  <1>10. \A j \in 1 .. n + 1 : j - 1 \in 0 .. n
    OBVIOUS
  <1>11. ASSUME NEW w \in 0 .. n
         PROVE  Gain(due, {w}) = found.winner_list[w]
    <2> DEFINE u == t({w})
    <2>1. /\ DOMAIN u = 1 .. (n + 1) + m
          /\ \A j \in 1 .. n + 1 : u[j] = IF j - 1 = w THEN found.winner_list[w] ELSE 0
          /\ \A j \in (n + 1) + 1 .. (n + 1) + m : u[j] = 0
      BY <1>8
    <2> HIDE DEF u
    <2>2. w + 1 \in 1 .. (n + 1) + m /\ w + 1 \in 1 .. n + 1 /\ (w + 1) - 1 = w
      BY <1>9
    <2>3. \A j \in 1 .. (n + 1) + m : j \in 1 .. n + 1 \/ j \in (n + 1) + 1 .. (n + 1) + m
      BY <1>9
    <2>4. \A j \in 1 .. (n + 1) + m : j # w + 1 => u[j] = 0
      <3>1. \A j \in 1 .. n + 1 : j # w + 1 => j - 1 # w
        OBVIOUS
      <3>. QED  BY <2>1, <2>3, <3>1
    <2>5. u[w + 1] = found.winner_list[w] /\ found.winner_list[w] \in Nat
      BY <2>1, <2>2
    <2>6. Total(u) = found.winner_list[w]
      <3>1. (n + 1) + m \in Nat
        BY <1>9
      <3>. QED  BY <2>1, <2>2, <2>4, <2>5, <3>1, TotalOfOne
    <2>. QED  BY <1>8, <2>6 DEF u
  <1>12. Gain(due, 0 .. n) = Total(InTurn(found.winner_list, n))
    <2> DEFINE s == InTurn(found.winner_list, n)
               u == t(0 .. n)
    <2>1. DOMAIN s = 1 .. n + 1 /\ \A k \in 1 .. n + 1 : s[k] = found.winner_list[k - 1]
      BY DEF InTurn
    <2>2. /\ DOMAIN u = 1 .. (n + 1) + m
          /\ \A j \in 1 .. n + 1 : u[j] = found.winner_list[j - 1]
          /\ \A j \in (n + 1) + 1 .. (n + 1) + m : u[j] = 0
      BY <1>8, <1>10
    <2> HIDE DEF s, u
    <2>3. Numbers(n + 1, s) /\ \A j \in 1 .. n + 1 : u[j] = s[j]
      BY <1>10, <2>1, <2>2 DEF Numbers
    <2>4. Total(u) = Total(s)
      BY <1>9, <2>2, <2>3, TotalOfFirst
    <2>. QED  BY <1>8, <2>4 DEF s, u
  <1>. QED  BY <1>11, <1>12 DEF due

\* The players, the board and the deck of a call.
HoleOf(c) == create_hole_cards(c.cards)

BoardOf(c) == create_cards(c.board)

DeckOf(c) == generate_deck(HoleOf(c), BoardOf(c))

PlayersOf(c) == Len(c.cards) \div 2

\* What is known of a call that comes to a simulation.
LEMMA ProblemIs ==
  ASSUME NEW c \in Problems
  PROVE  /\ PlayersOf(c) \in Nat /\ PlayersOf(c) \in 1 .. MaxPlayers
         /\ HoleOf(c) = [i \in 1 .. PlayersOf(c) |-> HoleOf(c)[i]]
         /\ DOMAIN HoleOf(c) = 1 .. PlayersOf(c) /\ Len(HoleOf(c)) = PlayersOf(c)
         /\ c.n \in Nat /\ IsFiniteSet(DeckOf(c))
         /\ TaskLists(c) \subseteq Seq(Task(PlayersOf(c)))
  <1>1. PlayersOf(c) \in 1 .. MaxPlayers /\ MaxPlayers \in Nat /\ TaskLists(c) \subseteq Seq(Task(PlayersOf(c)))
    BY CallsAssumption DEF PlayersOf, Task
  <1>2. PlayersOf(c) \in Nat
    BY <1>1
  <1>3. HoleOf(c) = [i \in 1 .. PlayersOf(c) |-> HoleOf(c)[i]]
    BY DEF HoleOf, PlayersOf, create_hole_cards
  <1>4. DOMAIN HoleOf(c) = 1 .. PlayersOf(c) /\ Len(HoleOf(c)) = PlayersOf(c)
    BY <1>2, <1>3, FunctionsAreSequences
  <1>5. \A k \in Calls : parse_lib_args(k) => k.n \in Nat
    BY CallsAssumption DEF parse_lib_args, error_check_arguments
  <1>6. \A k \in Calls : \A line : WithLine(k, line).n = k.n
    BY CallsAssumption DEF WithLine
  <1>7. \/ c \in Calls /\ parse_lib_args(c)
        \/ \E k \in Calls : parse_lib_args(k) /\ \E line : c = WithLine(k, line)
    BY DEF Problems
  <1>8. c.n \in Nat
    BY <1>5, <1>6, <1>7
  <1>9. IsFiniteSet(DeckOf(c))
    <2>1. DeckOf(c) \in SUBSET Cards
      BY DEF DeckOf, generate_deck
    <2>. QED  BY <2>1, CardsAssumption, FS_Subset
  <1>. QED  BY <1>1, <1>2, <1>3, <1>4, <1>8, <1>9

LEMMA DrawsAreFinite ==
  ASSUME NEW D, IsFiniteSet(D), NEW k
  PROVE  IsFiniteSet(kSubset(k, D))
  <1>1. kSubset(k, D) \in SUBSET (SUBSET D)
    BY DEF kSubset
  <1>2. IsFiniteSet(SUBSET D)
    BY FS_SUBSET
  <1>. QED  BY <1>1, <1>2, FS_Subset

\* What is done for each pair that an unknown player may hold, or once (run_simulation of
\* the sequential calculator).
ListOf(c, hole_cards, deck) ==
  find_winner(hole_cards, BoardOf(c), InOrder(generate_exhaustive_boards(deck, Cardinality(BoardOf(c))))).winner_list

ListsOf(c) ==
  IF HasUnknown(HoleOf(c))
  THEN [f \in generate_hole_cards(DeckOf(c)) |-> ListOf(c, Filled(HoleOf(c), f), DeckOf(c) \ f)]
  ELSE [f \in {{}} |-> ListOf(c, HoleOf(c), DeckOf(c))]

SumOfAll(lists, D, w) == MapThenSumSet(LAMBDA f : lists[f][w], D)

LEMMA RunIs ==
  ASSUME NEW c
  PROVE  /\ run_simulation(c) = [w \in 0 .. Len(HoleOf(c)) |-> SumOfAll(ListsOf(c), DOMAIN ListsOf(c), w)]
         /\ DOMAIN ListsOf(c) = FillersOf(c)
  <1>1. run_simulation(c) = [w \in 0 .. Len(HoleOf(c)) |-> SumOfAll(ListsOf(c), DOMAIN ListsOf(c), w)]
    BY Zenon DEF run_simulation, SumOfAll, ListsOf, ListOf, HoleOf, BoardOf, DeckOf
  <1>2. DOMAIN ListsOf(c) = FillersOf(c)
    BY DEF ListsOf, FillersOf, HoleOf, BoardOf, DeckOf
  <1>. QED  BY <1>1, <1>2

\* An entry of each list, in the order of an enumeration.
Entries(lists, e, n, w) == [i \in 1 .. n |-> lists[e[i]][w]]

LEMMA SumOfLists ==
  ASSUME NEW D, IsFiniteSet(D), NEW lists, NEW w, \A f \in D : lists[f][w] \in Nat,
         NEW n \in Nat, NEW e, Enumerates(e, n, D)
  PROVE  SumOfAll(lists, D, w) = Total(Entries(lists, e, n, w))
  <1> DEFINE some(s) == CHOOSE x \in s : TRUE
             g == [f \in D |-> lists[f][w]]
             Sums(it) == it = [s \in SUBSET D |-> IF s = {} THEN 0 ELSE Plus(lists[some(s)][w], it[s \ {some(s)}])]
             it0 == CHOOSE it : Sums(it)
  <1>1. SumOfAll(lists, D, w) = it0[D]
    BY Zenon DEF SumOfAll, MapThenSumSet, MapThenFoldSet, Plus
  <1>2. \A s \in SUBSET D : s # {} => some(s) \in D
    OBVIOUS
  <1>3. \A s \in SUBSET D : s # {} => g[some(s)] = lists[some(s)][w]
    BY <1>2
  <1>4. \A it : Adding!SetValues(it, 0, g, D) <=> Sums(it)
    <2>1. \A it : Adding!SetValues(it, 0, g, D) <=>
            it = [s \in SUBSET D |-> IF s = {} THEN 0 ELSE Plus(g[some(s)], it[s \ {some(s)}])]
      BY DEF Adding!SetValues
    <2> HIDE DEF g, some
    <2> SUFFICES ASSUME NEW it
                 PROVE  [s \in SUBSET D |-> IF s = {} THEN 0 ELSE Plus(g[some(s)], it[s \ {some(s)}])]
                          = [s \in SUBSET D |-> IF s = {} THEN 0 ELSE Plus(lists[some(s)][w], it[s \ {some(s)}])]
      BY <2>1, ZenonT(40)
    <2>. QED  BY <1>3
  <1>5. \E it : Adding!SetValues(it, 0, g, D)
    BY SameFinite, Adding!SetValuesExist
  <1>6. Adding!SetValues(it0, 0, g, D)
    <2> HIDE DEF Sums, g
    <2>. QED  BY <1>4, <1>5
  <1>7. \A x \in D : g[x] \in Nat
    OBVIOUS
  <1>8. Listed(g, e, n) = Entries(lists, e, n, w)
    BY DEF Listed, Entries, Enumerates
  <1> HIDE DEF it0, g
  <1>9. it0[D] = Total(Listed(g, e, n))
    BY <1>6, <1>7, SumsAreTotals
  <1>. QED  BY <1>1, <1>8, <1>9

LEMMA SumOfSingle ==
  ASSUME NEW x, NEW lists, NEW w, lists[x][w] \in Nat
  PROVE  SumOfAll(lists, {x}, w) = lists[x][w]
  <1> DEFINE e == [i \in 1 .. 1 |-> x]
             t == Entries(lists, e, 1, w)
  <1>1. DOMAIN e = 1 .. 1 /\ \A i \in 1 .. 1 : e[i] = x /\ i = 1
    OBVIOUS
  <1>2. 1 \in 1 .. 1 /\ 1 \in Nat
    OBVIOUS
  <1> HIDE DEF e
  <1>3. Enumerates(e, 1, {x})
    <2>1. /\ \A i, j \in 1 .. 1 : e[i] = e[j] => i = j
          /\ \A i \in 1 .. 1 : e[i] \in {x}
          /\ \A y \in {x} : \E i \in 1 .. 1 : e[i] = y
      BY <1>1, <1>2
    <2>. QED  BY <1>1, <2>1 DEF Enumerates
  <1>7. IsFiniteSet({x})
    BY FS_Singleton
  <1>4. SumOfAll(lists, {x}, w) = Total(t)
    <2> DEFINE D == {x}
    <2>1. IsFiniteSet(D) /\ Enumerates(e, 1, D) /\ \A f \in D : lists[f][w] \in Nat
      BY <1>3, <1>7
    <2> HIDE DEF D
    <2>2. SumOfAll(lists, D, w) = Total(Entries(lists, e, 1, w))
      BY <1>2, <2>1, SumOfLists
    <2>. QED  BY <2>2 DEF D
  <1>5. DOMAIN t = 1 .. 1 /\ t[1] = lists[x][w] /\ \A i \in 1 .. 1 : i # 1 => t[i] = 0
    BY <1>1, <1>2 DEF Entries
  <1> HIDE DEF t
  <1>6. Total(t) = lists[x][w]
    BY <1>2, <1>5, TotalOfOne, ZenonT(40)
  <1>. QED  BY <1>4, <1>6

\* The winners whose counts are compared: each of them when all boards are looked at.
WatchedOf(c) == IF Exhaustive(c) THEN {{w} : w \in 0 .. PlayersOf(c)} ELSE {0 .. PlayersOf(c)}

\* What the sequential calculator finds of them, or the number of random boards.
Expected(c, winners) ==
  IF Exhaustive(c) THEN run_simulation(c)[CHOOSE w \in winners : TRUE] ELSE c.n * Cardinality(FillersOf(c))

\* There is a task that ends in an exception, or one that cannot be begun.
Hopeless(tasks) == \E j \in DOMAIN tasks : tasks[j].fails \/ tasks[j].additions = {}

AllFair(tasks, winners) == \A j \in DOMAIN tasks : Fair(tasks[j], winners)

\* One for each board that one of some winners wins.
Won(hole_cards, given, boards, N, winners) ==
  [i \in 1 .. N |-> IF Winner(hole_cards, given \cup boards[i]) \in winners THEN 1 ELSE 0]

BoardTasks(hole_cards, given, boards, N) == [i \in 1 .. N |-> BoardTask(hole_cards, given, boards[i])]

\* The tasks of the boards, with all hole cards known, are worth the boards' winners.
LEMMA BoardTasksAreWorth ==
  ASSUME NEW n \in Nat, NEW hole, hole = [i \in 1 .. n |-> hole[i]], NEW given,
         NEW N \in Nat, NEW boards, NEW tasks, tasks = BoardTasks(hole, given, boards, N),
         NEW winners
  PROVE  /\ Len(tasks) = N /\ AllFair(tasks, winners)
         /\ ToCome(tasks, winners) = Total(Won(hole, given, boards, N, winners))
  <1> DEFINE due(i) == simulation(hole, find_winner(hole, given, <<boards[i]>>))
             worth(i) == IF Winner(hole, given \cup boards[i]) \in winners THEN 1 ELSE 0
  <1>1. \A i : Gain(due(i), winners) = worth(i)
    BY BoardIsWorth
  <1>2. \A i \in 1 .. N : tasks[i].additions = {due(i)}
    BY DEF BoardTask, BoardTasks
  <1>3. DOMAIN tasks = 1 .. N /\ Len(tasks) = N
    <2>1. tasks = [i \in 1 .. N |-> tasks[i]]
      BY DEF BoardTasks
    <2>. QED  BY <2>1, FunctionsAreSequences
  <1> HIDE DEF due, worth
  <1>4. \A i \in 1 .. N : TaskGain(tasks[i], winners) = worth(i) /\ Fair(tasks[i], winners)
    BY <1>1, <1>2 DEF TaskGain, Fair
  <1>5. ToCome(tasks, winners) = Total([i \in 1 .. N |-> worth(i)])
    <2>1. [j \in 1 .. N |-> TaskGain(tasks[j], winners)] = [i \in 1 .. N |-> worth(i)]
      BY <1>4
    <2>. QED  BY <1>3, <2>1 DEF ToCome
  <1>. QED  BY <1>3, <1>4, <1>5 DEF AllFair, worth, Won

\* What find_winner counts of numbered boards.
LEMMA WinsAreNumbers ==
  ASSUME NEW n \in Nat, NEW hole, hole = [i \in 1 .. n |-> hole[i]], NEW given,
         NEW N \in Nat, NEW boards, DOMAIN boards = 1 .. N
  PROVE  /\ \A w : Wins(hole, given, boards, w) \in Nat
         /\ \A w : Wins(hole, given, boards, w) = Total(Won(hole, given, boards, N, {w}))
         /\ Total(InTurn(WinsOf(hole, given, boards, n), n)) = N
  <1> DEFINE who(b) == Winner(hole, given \cup boards[b])
             Q(w) == {b \in 1 .. N : who(b) = w}
  <1>1. ASSUME NEW w
        PROVE  /\ Wins(hole, given, boards, w) \in Nat
               /\ Wins(hole, given, boards, w) = Total(Won(hole, given, boards, N, {w}))
    <2>5. Won(hole, given, boards, N, {w}) = [i \in 1 .. N |-> IF who(i) \in {w} THEN 1 ELSE 0]
      BY DEF Won
    <2> HIDE DEF who
    <2>1. {b \in 1 .. N : b \in Q(w)} = Q(w)
      OBVIOUS
    <2>2. Wins(hole, given, boards, w) = Cardinality(Q(w))
      BY DEF Wins, who
    <2>3. [b \in 1 .. N |-> IF b \in Q(w) THEN 1 ELSE 0] = [i \in 1 .. N |-> IF who(i) \in {w} THEN 1 ELSE 0]
      OBVIOUS
    <2> HIDE DEF Q
    <2>4. Cardinality(Q(w)) \in Nat /\ Cardinality(Q(w)) = Total([b \in 1 .. N |-> IF b \in Q(w) THEN 1 ELSE 0])
      BY <2>1, CountIsTotal
    <2>. QED  BY <2>2, <2>3, <2>4, <2>5
  <1>2. Total(InTurn(WinsOf(hole, given, boards, n), n)) = N
    <2> DEFINE c == [b \in 1 .. N |-> who(b)]
    <2>1. DOMAIN hole = 1 .. n
      BY FunctionsAreSequences
    <2>2. \A b \in 1 .. N : c[b] = who(b) /\ c[b] \in 0 .. n
      BY <2>1, WinnerIsPlayer
    <2> HIDE DEF c
    <2>3. Total(ClassSizes(c, n, N)) = N
      BY <2>2, ClassesMakeAll
    <2>4. \A k : Wins(hole, given, boards, k - 1) = Cardinality({b \in 1 .. N : c[b] = k - 1})
      <3> SUFFICES ASSUME NEW k
                   PROVE  {b \in DOMAIN boards : who(b) = k - 1} = {b \in 1 .. N : c[b] = k - 1}
        BY DEF Wins
      <3> HIDE DEF who
      <3>. QED  BY <2>2
    <2>5. InTurn(WinsOf(hole, given, boards, n), n) = ClassSizes(c, n, N)
      BY <2>4 DEF ClassSizes, InTurn, WinsOf
    <2>. QED  BY <2>3, <2>5
  <1>. QED  BY <1>1, <1>2

\* The boards of a call, one after the other.
LEMMA BoardsAreNumbered ==
  ASSUME NEW c \in Problems, NEW deck, IsFiniteSet(deck), NEW boards \in generate_boards(c, deck)
  PROVE  /\ Exhaustive(c) => /\ boards = InOrder(generate_exhaustive_boards(deck, Cardinality(BoardOf(c))))
                             /\ Len(boards) \in Nat /\ DOMAIN boards = 1 .. Len(boards)
         /\ ~Exhaustive(c) => c.n \in Nat /\ DOMAIN boards = 1 .. c.n
  <1>1. CASE Exhaustive(c)
    <2> DEFINE S == generate_exhaustive_boards(deck, Cardinality(BoardOf(c)))
    <2>1. boards = InOrder(S)
      BY <1>1 DEF generate_boards, BoardOf
    <2>2. IsFiniteSet(S)
      BY DrawsAreFinite DEF generate_exhaustive_boards
    <2> HIDE DEF S
    <2>3. InOrder(S) \in Seq(S)
      BY <2>2, InOrderEnumerates
    <2>. QED  BY <1>1, <2>1, <2>3 DEF S
  <1>2. CASE ~Exhaustive(c)
    <2>1. boards \in [1 .. c.n -> kSubset(5 - Cardinality(BoardOf(c)), deck)]
      BY <1>2 DEF generate_boards, generate_random_boards, BoardOf
    <2>. QED  BY <1>2, <2>1, ProblemIs
  <1>. QED  BY <1>1, <1>2

\* With all hole cards known the tasks are worth the winners of the sequential calculator,
\* or one for each random board.
LEMMA KnownTasksAreWorth ==
  ASSUME NEW c \in Problems, ~HasUnknown(HoleOf(c)), NEW tasks \in TaskLists(c), NEW winners \in WatchedOf(c)
  PROVE  AllFair(tasks, winners) /\ ToCome(tasks, winners) = Expected(c, winners)
  <1> DEFINE n == PlayersOf(c)
             hole == HoleOf(c)
             given == BoardOf(c)
             deck == DeckOf(c)
  <1>1. /\ n \in Nat /\ hole = [i \in 1 .. n |-> hole[i]] /\ DOMAIN hole = 1 .. n /\ Len(hole) = n
        /\ c.n \in Nat /\ IsFiniteSet(deck)
    BY ProblemIs
  <1>2. PICK boards \in generate_boards(c, deck) : tasks = [i \in DOMAIN boards |-> BoardTask(hole, given, boards[i])]
    BY DEF TaskLists, HoleOf, BoardOf, DeckOf
  <1>3. FillersOf(c) = {{}} /\ ListsOf(c) = [f \in {{}} |-> ListOf(c, hole, deck)]
    BY DEF FillersOf, ListsOf, HoleOf
  <1> HIDE DEF n, hole, given, deck
  <1>4. CASE Exhaustive(c)
    <2>1. PICK w \in 0 .. n : winners = {w}
      BY <1>4 DEF WatchedOf, n
    <2>2. /\ boards = InOrder(generate_exhaustive_boards(deck, Cardinality(given)))
          /\ Len(boards) \in Nat /\ DOMAIN boards = 1 .. Len(boards)
      BY <1>1, <1>4, BoardsAreNumbered DEF given
    <2> DEFINE N == Len(boards)
    <2>10. N \in Nat /\ DOMAIN boards = 1 .. N /\ tasks = BoardTasks(hole, given, boards, N)
      BY <1>2, <2>2 DEF BoardTasks
    <2> HIDE DEF N
    <2>3. /\ AllFair(tasks, winners)
          /\ ToCome(tasks, winners) = Total(Won(hole, given, boards, N, winners))
      BY ONLY <1>1, <2>10, BoardTasksAreWorth
    <2>4. /\ Wins(hole, given, boards, w) \in Nat
          /\ Wins(hole, given, boards, w) = Total(Won(hole, given, boards, N, {w}))
      BY ONLY <1>1, <2>10, WinsAreNumbers
    <2>5. ListOf(c, hole, deck) = WinsOf(hole, given, boards, n)
      BY <1>1, <2>2, FoundCounts DEF ListOf, given
    <2>6. ListsOf(c)[{}][w] = Wins(hole, given, boards, w) /\ DOMAIN ListsOf(c) = {{}}
      BY <1>3, <2>5 DEF WinsOf
    <2>7. SumOfAll(ListsOf(c), {{}}, w) = Wins(hole, given, boards, w)
      <3> DEFINE lists == ListsOf(c)
                 x == {}
      <3>1. lists[x][w] \in Nat
        BY <2>4, <2>6
      <3> HIDE DEF lists, x
      <3>2. SumOfAll(lists, {x}, w) = lists[x][w]
        BY ONLY <3>1, SumOfSingle
      <3>. QED  BY <2>6, <3>2 DEF lists, x
    <2>8. run_simulation(c)[w] = Wins(hole, given, boards, w)
      BY <1>1, <2>6, <2>7, RunIs DEF hole
    <2>9. Expected(c, winners) = run_simulation(c)[w]
      BY <1>4, <2>1 DEF Expected
    <2>. QED  BY <2>1, <2>3, <2>4, <2>8, <2>9
  <1>5. CASE ~Exhaustive(c)
    <2>1. winners = 0 .. n
      BY <1>5 DEF WatchedOf, n
    <2>2. DOMAIN boards = 1 .. c.n
      BY <1>1, <1>5, BoardsAreNumbered
    <2> DEFINE N == c.n
               t == Won(hole, given, boards, N, winners)
    <2>5. N \in Nat /\ tasks = BoardTasks(hole, given, boards, N)
      BY <1>1, <1>2, <2>2 DEF BoardTasks
    <2> HIDE DEF N
    <2>3. AllFair(tasks, winners) /\ ToCome(tasks, winners) = Total(t)
      <3>1. /\ AllFair(tasks, winners)
            /\ ToCome(tasks, winners) = Total(Won(hole, given, boards, N, winners))
        BY ONLY <1>1, <2>5, BoardTasksAreWorth
      <3>. QED  BY <3>1
    <2>4. DOMAIN t = 1 .. N /\ \A i \in 1 .. N : t[i] = 1
      BY <1>1, <2>1, WinnerIsPlayer DEF Won
    <2> HIDE DEF t
    <2>6. Total(t) = N * 1
      BY <2>4, <2>5, TotalOfEqual
    <2>7. Expected(c, winners) = N * Cardinality({{}})
      BY <1>3, <1>5 DEF Expected, N
    <2>8. Cardinality({{}}) = 1
      BY FS_Singleton
    <2>. QED  BY <2>3, <2>6, <2>7, <2>8
  <1>. QED  BY <1>4, <1>5

\* What the task of a filler is worth: what find_winner counts of a winner, or one for
\* each random board.
FillerWorth(c, filled, deck, winners) ==
  IF Exhaustive(c) THEN ListOf(c, filled, deck)[CHOOSE w \in winners : TRUE] ELSE c.n

LEMMA FillerWorthIs ==
  ASSUME NEW c \in Problems, NEW filled, filled = [i \in 1 .. PlayersOf(c) |-> filled[i]],
         NEW deck, IsFiniteSet(deck), NEW boards \in generate_boards(c, deck), NEW winners \in WatchedOf(c)
  PROVE  /\ Gain(unknown_simulation(filled, find_winner(filled, BoardOf(c), boards)), winners)
              = FillerWorth(c, filled, deck, winners)
         /\ FillerWorth(c, filled, deck, winners) \in Nat
  <1> DEFINE n == PlayersOf(c)
             given == BoardOf(c)
             found == find_winner(filled, given, boards)
  <1>1. n \in Nat /\ c.n \in Nat
    BY ProblemIs
  <1>2. filled = [i \in 1 .. n |-> filled[i]]
    OBVIOUS
  <1>3. /\ Exhaustive(c) => /\ boards = InOrder(generate_exhaustive_boards(deck, Cardinality(given)))
                            /\ Len(boards) \in Nat /\ DOMAIN boards = 1 .. Len(boards)
        /\ ~Exhaustive(c) => c.n \in Nat /\ DOMAIN boards = 1 .. c.n
    BY BoardsAreNumbered
  <1>4. Exhaustive(c) => \E w \in 0 .. n : winners = {w}
    BY DEF WatchedOf
  <1>5. ~Exhaustive(c) => winners = 0 .. n
    BY DEF WatchedOf
  <1> HIDE DEF n
  <1>6. found.winner_list = WinsOf(filled, given, boards, n)
    BY ONLY <1>1, <1>2, FoundCounts DEF found
  <1>7. ASSUME NEW N \in Nat, DOMAIN boards = 1 .. N
        PROVE  /\ \A w : Wins(filled, given, boards, w) \in Nat
               /\ Total(InTurn(WinsOf(filled, given, boards, n), n)) = N
    BY ONLY <1>1, <1>2, <1>7, WinsAreNumbers, SMTT(40)
  <1>8. \A w : Wins(filled, given, boards, w) \in Nat
    BY <1>3, <1>7
  <1>9. \A w \in 0 .. n : found.winner_list[w] \in Nat
    BY <1>6, <1>8 DEF WinsOf
  <1> HIDE DEF found
  <1>10. /\ \A w \in 0 .. n : Gain(unknown_simulation(filled, found), {w}) = found.winner_list[w]
         /\ Gain(unknown_simulation(filled, found), 0 .. n) = Total(InTurn(found.winner_list, n))
    BY ONLY <1>1, <1>2, <1>9, FillerIsWorth
  <1>11. CASE Exhaustive(c)
    <2>1. PICK w \in 0 .. n : winners = {w}
      BY <1>4, <1>11
    <2>2. FillerWorth(c, filled, deck, winners) = ListOf(c, filled, deck)[w]
      BY <1>11, <2>1 DEF FillerWorth
    <2>3. ListOf(c, filled, deck) = found.winner_list
      BY <1>3, <1>11 DEF ListOf, found
    <2>. QED  BY <1>9, <1>10, <2>1, <2>2, <2>3 DEF found
  <1>12. CASE ~Exhaustive(c)
    <2>1. FillerWorth(c, filled, deck, winners) = c.n /\ winners = 0 .. n
      BY <1>5, <1>12 DEF FillerWorth
    <2>2. Total(InTurn(found.winner_list, n)) = c.n
      BY <1>3, <1>6, <1>7, <1>12
    <2>. QED  BY <1>1, <1>10, <2>1, <2>2 DEF found
  <1>. QED  BY <1>11, <1>12

\* A task that neither fails nor lacks boards is worth the same whatever its boards are.
LEMMA FillerTaskIsFair ==
  ASSUME NEW c \in Problems, NEW f, NEW winners \in WatchedOf(c), NEW job,
         job = FillerTask(c, HoleOf(c), BoardOf(c), DeckOf(c), f), ~job.fails, job.additions # {}
  PROVE  /\ Fair(job, winners) /\ FillerWorth(c, Filled(HoleOf(c), f), DeckOf(c) \ f, winners) \in Nat
         /\ TaskGain(job, winners) = FillerWorth(c, Filled(HoleOf(c), f), DeckOf(c) \ f, winners)
  <1> DEFINE n == PlayersOf(c)
             hole == HoleOf(c)
             filled == Filled(hole, f)
             deck == DeckOf(c) \ f
             due(boards) == unknown_simulation(filled, find_winner(filled, BoardOf(c), boards))
             worth == FillerWorth(c, filled, deck, winners)
  <1>1. n \in Nat /\ hole = [i \in 1 .. n |-> hole[i]]
    BY ProblemIs
  <1>2. IsFiniteSet(deck)
    <2>1. deck \in SUBSET DeckOf(c)
      OBVIOUS
    <2>. QED  BY <2>1, ProblemIs, FS_Subset
  <1>3. filled = [i \in 1 .. n |-> filled[i]]
    BY <1>1 DEF Filled
  <1>4. job.additions = {due(boards) : boards \in generate_boards(c, deck)}
    <2>1. ~HasUnknown(filled)
      BY DEF FillerTask
    <2>. QED  BY <2>1 DEF FillerTask
  <1> HIDE DEF hole, filled, deck
  <1>5. \A boards \in generate_boards(c, deck) : Gain(due(boards), winners) = worth /\ worth \in Nat
    BY <1>2, <1>3, FillerWorthIs DEF n
  <1> HIDE DEF due, worth
  <1>6. \A d \in job.additions : Gain(d, winners) = worth /\ worth \in Nat
    BY <1>4, <1>5
  <1>7. TaskGain(job, winners) = worth /\ worth \in Nat /\ Fair(job, winners)
    BY <1>6 DEF TaskGain, Fair
  <1>. QED  BY <1>7 DEF worth, filled, deck, hole

\* With an unknown player the tasks are worth the sums over all fillers.
FillerWorths(c, fillers, N, winners) ==
  [i \in 1 .. N |-> FillerWorth(c, Filled(HoleOf(c), fillers[i]), DeckOf(c) \ fillers[i], winners)]

LEMMA UnknownTasksAreWorth ==
  ASSUME NEW c \in Problems, HasUnknown(HoleOf(c)), NEW tasks \in TaskLists(c), ~Hopeless(tasks),
         NEW winners \in WatchedOf(c)
  PROVE  AllFair(tasks, winners) /\ ToCome(tasks, winners) = Expected(c, winners)
  <1> DEFINE n == PlayersOf(c)
             S == generate_hole_cards(DeckOf(c))
             fillers == InOrder(S)
             N == Cardinality(S)
             hand(i) == FillerTask(c, HoleOf(c), BoardOf(c), DeckOf(c), fillers[i])
             worth(i) == FillerWorth(c, Filled(HoleOf(c), fillers[i]), DeckOf(c) \ fillers[i], winners)
             t == FillerWorths(c, fillers, N, winners)
             lists == ListsOf(c)
  <1>1. n \in Nat /\ c.n \in Nat /\ IsFiniteSet(DeckOf(c)) /\ Len(HoleOf(c)) = n
    BY ProblemIs
  <1>2. IsFiniteSet(S)
    BY <1>1, DrawsAreFinite DEF generate_hole_cards
  <1>3. FillersOf(c) = S /\ DOMAIN lists = S /\ \A f \in S : lists[f] = ListOf(c, Filled(HoleOf(c), f), DeckOf(c) \ f)
    BY DEF FillersOf, ListsOf, HoleOf, BoardOf, DeckOf
  <1>4. tasks = [i \in DOMAIN fillers |-> hand(i)]
    BY DEF TaskLists, HoleOf, BoardOf, DeckOf
  <1> HIDE DEF S
  <1>5. fillers \in Seq(S) /\ Len(fillers) = N /\ N \in Nat /\ Enumerates(fillers, N, S)
    BY <1>2, InOrderEnumerates
  <1>6. DOMAIN fillers = 1 .. N
    BY <1>5
  <1> HIDE DEF fillers, N
  <1>7. DOMAIN tasks = 1 .. N /\ Len(tasks) = N /\ \A i \in 1 .. N : tasks[i] = hand(i)
    <2>1. tasks = [i \in 1 .. N |-> tasks[i]]
      BY <1>4, <1>6
    <2>2. \A i \in 1 .. N : tasks[i] = hand(i)
      BY <1>4, <1>6
    <2> HIDE DEF hand
    <2>. QED  BY <1>5, <2>1, <2>2, FunctionsAreSequences
  <1>8. \A i \in 1 .. N : Fair(tasks[i], winners) /\ TaskGain(tasks[i], winners) = worth(i) /\ worth(i) \in Nat
    <2> SUFFICES ASSUME NEW i \in 1 .. N
                 PROVE  Fair(tasks[i], winners) /\ TaskGain(tasks[i], winners) = worth(i) /\ worth(i) \in Nat
      OBVIOUS
    <2> DEFINE job == tasks[i]
               f == fillers[i]
    <2>1. job = FillerTask(c, HoleOf(c), BoardOf(c), DeckOf(c), f) /\ ~job.fails /\ job.additions # {}
      BY <1>7 DEF Hopeless
    <2> HIDE DEF job, f
    <2>2. /\ Fair(job, winners) /\ FillerWorth(c, Filled(HoleOf(c), f), DeckOf(c) \ f, winners) \in Nat
          /\ TaskGain(job, winners) = FillerWorth(c, Filled(HoleOf(c), f), DeckOf(c) \ f, winners)
      BY <2>1, FillerTaskIsFair
    <2>. QED  BY <2>2 DEF job, f
  <1>9. ToCome(tasks, winners) = Total(t)
    <2>1. [j \in 1 .. N |-> TaskGain(tasks[j], winners)] = t
      BY <1>8 DEF FillerWorths
    <2>. QED  BY <1>7, <2>1 DEF ToCome
  <1>10. AllFair(tasks, winners)
    BY <1>7, <1>8 DEF AllFair
  <1>11. \A i \in 1 .. N : fillers[i] \in S
    BY <1>5 DEF Enumerates
  <1>12. CASE Exhaustive(c)
    <2>1. PICK w \in 0 .. n : winners = {w}
      BY <1>12 DEF WatchedOf
    <2>2. \A i \in 1 .. N : lists[fillers[i]][w] = worth(i)
      BY <1>3, <1>11, <1>12, <2>1 DEF FillerWorth
    <2>3. t = Entries(lists, fillers, N, w)
      BY <2>2 DEF FillerWorths, Entries
    <2>4. \A f \in S : \E i \in 1 .. N : fillers[i] = f
      BY <1>5 DEF Enumerates
    <2>5. \A f \in S : lists[f][w] \in Nat
      <3> HIDE DEF worth, lists
      <3>. QED  BY <1>8, <2>2, <2>4
    <2>6. run_simulation(c)[w] = SumOfAll(lists, S, w)
      BY <1>1, <1>3, RunIs
    <2> HIDE DEF lists
    <2>7. SumOfAll(lists, S, w) = Total(Entries(lists, fillers, N, w))
      BY ONLY <1>2, <1>5, <2>5, SumOfLists
    <2>8. Expected(c, winners) = run_simulation(c)[w]
      BY <1>12, <2>1 DEF Expected
    <2>. QED  BY <1>9, <1>10, <2>3, <2>6, <2>7, <2>8
  <1>13. CASE ~Exhaustive(c)
    <2>1. DOMAIN t = 1 .. N /\ \A i \in 1 .. N : t[i] = c.n
      BY <1>13 DEF FillerWorths, FillerWorth
    <2> HIDE DEF t
    <2>2. Total(t) = N * c.n
      BY <1>1, <1>5, <2>1, TotalOfEqual
    <2>3. Expected(c, winners) = c.n * N
      BY <1>3, <1>13 DEF Expected, N
    <2>4. c.n * N = N * c.n
      BY <1>1, <1>5
    <2>. QED  BY <1>9, <1>10, <2>2, <2>3, <2>4
  <1>. QED  BY <1>12, <1>13

LEMMA TasksAreWorth ==
  ASSUME NEW c \in Problems, NEW tasks \in TaskLists(c), ~Hopeless(tasks), NEW winners \in WatchedOf(c)
  PROVE  AllFair(tasks, winners) /\ ToCome(tasks, winners) = Expected(c, winners)
  BY KnownTasksAreWorth, UnknownTasksAreWorth

-----------------------------------------------------------------------------
(* What is combined is what is counted.                                    *)

\* The indices of one count, one in each slot.
Column(m, N, i) == {k \in 0 .. N * m - 1 : k % m = i}

RowOf(m, N, i) == [s \in 1 .. N |-> (s - 1) * m + i]

LEMMA ColumnIsEnumerated ==
  ASSUME NEW m \in Nat \ {0}, NEW N \in Nat, NEW i \in 0 .. m - 1
  PROVE  Enumerates(RowOf(m, N, i), N, Column(m, N, i)) /\ IsFiniteSet(Column(m, N, i))
  <1> DEFINE e == RowOf(m, N, i)
             S == Column(m, N, i)
  <1>1. DOMAIN e = 1 .. N /\ \A s \in 1 .. N : e[s] = (s - 1) * m + i
    BY DEF RowOf
  <1>2. i \in Nat /\ i < m /\ m \in Nat
    OBVIOUS
  <1>3. ASSUME NEW k \in Nat
        PROVE  k \div m \in Nat /\ k % m \in 0 .. m - 1 /\ k = (k \div m) * m + (k % m)
    <2>1. k \div m \in Nat /\ k % m \in 0 .. m - 1
      OBVIOUS
    <2>2. k = m * (k \div m) + (k % m)
      OBVIOUS
    <2> DEFINE q == k \div m
    <2>3. m * q = q * m
      BY <2>1
    <2>. QED  BY <2>1, <2>2, <2>3
  <1> HIDE DEF e
  <1>4. ASSUME NEW s \in 1 .. N
        PROVE  e[s] \in S
    <2> DEFINE k == e[s]
               r == s - 1
    <2>1. r \in Nat /\ r < N /\ r * m \in Nat /\ N * m \in Nat /\ k = r * m + i
      BY <1>1
    <2>2. r * m + m <= N * m
      BY <1>2, <2>1, SlotsDoNotOverlap
    <2> HIDE DEF k, r
    <2>3. k \in 0 .. N * m - 1 /\ k \in Nat
      BY <1>2, <2>1, <2>2
    <2> DEFINE q == k \div m
               d == k % m
    <2>4. q \in Nat /\ d \in 0 .. m - 1 /\ k = q * m + d
      BY <1>3, <2>3
    <2> HIDE DEF q, d
    <2>5. q \in Nat /\ d \in Nat /\ d < m /\ q * m + d = r * m + i
      BY <1>2, <2>1, <2>4
    <2>6. r \in Nat
      BY <2>1
    <2>7. d = i
      BY ONLY <1>2, <2>5, <2>6, PlacesAreApart
    <2>. QED  BY <2>3, <2>7 DEF Column, k, d
  <1>5. ASSUME NEW s \in 1 .. N, NEW t \in 1 .. N, e[s] = e[t]
        PROVE  s = t
    <2> DEFINE p == s - 1
               q == t - 1
    <2>1. p \in Nat /\ q \in Nat /\ p * m + i = q * m + i
      BY <1>1, <1>5
    <2>2. s = p + 1 /\ t = q + 1
      OBVIOUS
    <2> HIDE DEF p, q
    <2>3. p = q
      BY <1>2, <2>1, PlacesAreApart
    <2>. QED  BY <2>2, <2>3
  <1>6. ASSUME NEW k \in S
        PROVE  \E s \in 1 .. N : e[s] = k
    <2> DEFINE q == k \div m
    <2>1. k \in Nat /\ k < N * m /\ k % m = i
      <3>1. N * m \in Nat
        OBVIOUS
      <3>. QED  BY <3>1 DEF Column
    <2>2. q \in Nat /\ k = q * m + i
      BY <1>3, <2>1
    <2> HIDE DEF q
    <2>3. q < N
      <3>1. CASE N < q
        <4>1. N * m + m <= q * m /\ N * m \in Nat /\ q * m \in Nat
          BY <1>2, <2>2, <3>1, SlotsDoNotOverlap
        <4>. QED  BY <1>2, <2>1, <2>2, <4>1
      <3>2. CASE N = q
        BY <1>2, <2>1, <2>2, <3>2
      <3>. QED  BY <2>2, <3>1, <3>2
    <2>4. q + 1 \in 1 .. N /\ (q + 1) - 1 = q
      BY <2>2, <2>3
    <2>. QED  BY <1>1, <2>2, <2>4
  <1>7. IsFiniteSet(S)
    <2> DEFINE u == N * m - 1
    <2>1. S \in SUBSET (0 .. u) /\ u \in Int
      BY DEF Column
    <2> HIDE DEF u, S
    <2> DEFINE all == 0 .. u
    <2>2. IsFiniteSet(all) /\ S \in SUBSET all
      BY <2>1, FS_Interval
    <2> HIDE DEF all
    <2>. QED  BY <2>2, FS_Subset
  <1>. QED  BY <1>1, <1>4, <1>5, <1>6, <1>7 DEF Enumerates, e

\* The combined winners are the counts of the tally (run_simulation, combine).
LEMMA CombinedIsCounted ==
  ASSUME num_players \in 1 .. MaxPlayers, num_players \in Nat \ {0}, shared \in Arrays(num_players)
  PROVE  /\ Combined = [i \in 0 .. num_players |-> Counted[<<"winner_list", i>>]]
         /\ \A c \in Counters : Counted[c] \in Nat
  <1> DEFINE n == num_players
             m == n + 1
             list == shared.winner_list
             S(i) == {k \in DOMAIN list : k % m = i}
             e(i) == RowOf(m, CpuCount, i)
             In(c) == [s \in 1 .. CpuCount |-> CountIn(n, shared, s - 1, c)]
  <1>1. CpuCount \in Nat /\ m \in Nat \ {0} /\ n \in Nat \ {0} /\ MaxPlayers \in Nat
    BY PoolAssumption, CallsAssumption
  <1>2. DOMAIN list = 0 .. CpuCount * m - 1 /\ \A k \in DOMAIN list : list[k] \in Nat
    BY DEF Arrays
  <1>3. \A c \in Counters : Counted[c] = Total(In(c))
    BY CountedIs DEF Counts
  <1>4. \A c \in Counters : \A s \in 1 .. CpuCount : CountIn(n, shared, s - 1, c) \in Nat
    <2> SUFFICES ASSUME NEW c \in Counters, NEW s \in 1 .. CpuCount
                 PROVE  CountIn(n, shared, s - 1, c) \in Nat
      OBVIOUS
    <2>1. s - 1 \in 0 .. CpuCount - 1
      BY <1>1
    <2>. QED  BY <2>1, CountsAreNumbers
  <1>5. \A c \in Counters : Counted[c] \in Nat
    <2> SUFFICES ASSUME NEW c \in Counters
                 PROVE  Total(In(c)) \in Nat
      BY <1>3
    <2> DEFINE t == In(c)
    <2>1. DOMAIN t = 1 .. CpuCount /\ \A s \in 1 .. CpuCount : t[s] \in Nat
      BY <1>4
    <2> HIDE DEF t
    <2>2. Total(t) \in Nat
      BY <1>1, <2>1, TotalOfNumbers
    <2>. QED  BY <2>2 DEF t
  <1>6. ASSUME NEW i \in 0 .. n
        PROVE  Combined[i] = Counted[<<"winner_list", i>>]
    <2> DEFINE c == <<"winner_list", i>>
               row == e(i)
               col == S(i)
    <2>1. c \in Counters /\ c[1] = "winner_list" /\ c[2] = i /\ WidthOf(n, "winner_list") = m /\ i < m /\ i \in 0 .. m - 1
      BY <1>1 DEF Counters, WidthOf
    <2>2. Combined[i] = SumOver(list, col)
      BY Zenon DEF Combined, SumOver
    <2>3. col = Column(m, CpuCount, i)
      BY <1>2 DEF Column
    <2>4. Enumerates(row, CpuCount, col) /\ IsFiniteSet(col)
      BY <1>1, <2>1, <2>3, ColumnIsEnumerated
    <2>5. \A k \in col : list[k] \in Nat
      BY <1>2
    <2>6. Listed(list, row, CpuCount) = In(c)
      <3> SUFFICES ASSUME NEW s \in 1 .. CpuCount
                   PROVE  list[row[s]] = CountIn(n, shared, s - 1, c)
        BY DEF Listed
      <3>1. s - 1 \in 0 .. CpuCount - 1 /\ row[s] = (s - 1) * m + i
        BY <1>1 DEF RowOf
      <3>2. CountIn(n, shared, s - 1, c) = shared[c[1]][(s - 1) * WidthOf(n, c[1]) + c[2]]
        <4> HIDE DEF c
        <4>. QED  BY <1>1, <2>1, <3>1, CountsAreNumbers
      <3>. QED  BY <2>1, <3>1, <3>2
    <2> HIDE DEF list, row, col, c
    <2>7. SumOver(list, col) = Total(Listed(list, row, CpuCount))
      BY <1>1, <2>4, <2>5, SumIsTotal
    <2>. QED  BY <1>3, <2>1, <2>2, <2>6, <2>7 DEF c
  <1>7. Combined = [i \in 0 .. n |-> Combined[i]]
    BY DEF Combined
  <1>. QED  BY <1>5, <1>6, <1>7

\* What the counts of a winner are, and those of all together.
LEMMA CountsOfOne ==
  ASSUME NEW n \in Nat, NEW counts, NEW w \in 0 .. n, counts[<<"winner_list", w>>] \in Nat
  PROVE  CountsOf(counts, n, {w}) = counts[<<"winner_list", w>>]
  <1> DEFINE t == [k \in 1 .. n + 1 |-> IF k - 1 \in {w} THEN counts[<<"winner_list", k - 1>>] ELSE 0]
  <1>1. DOMAIN t = 1 .. n + 1 /\ w + 1 \in 1 .. n + 1 /\ n + 1 \in Nat
    OBVIOUS
  <1>2. \A k \in 1 .. n + 1 : k # w + 1 => t[k] = 0
    OBVIOUS
  <1>3. t[w + 1] = counts[<<"winner_list", w>>]
    <2>1. (w + 1) - 1 = w
      OBVIOUS
    <2>. QED  BY <1>1, <2>1
  <1> HIDE DEF t
  <1>4. Total(t) = counts[<<"winner_list", w>>]
    BY <1>1, <1>2, <1>3, TotalOfOne
  <1>. QED  BY <1>4 DEF CountsOf, t

LEMMA CountsOfAll ==
  ASSUME NEW n \in Nat, NEW counts, NEW list, list = [i \in 0 .. n |-> counts[<<"winner_list", i>>]],
         \A i \in 0 .. n : counts[<<"winner_list", i>>] \in Nat
  PROVE  SimulationsIn(list) = CountsOf(counts, n, 0 .. n)
  <1> DEFINE e == [k \in 1 .. n + 1 |-> k - 1]
  <1>1. DOMAIN list = 0 .. n /\ \A i \in 0 .. n : list[i] \in Nat /\ list[i] = counts[<<"winner_list", i>>]
    OBVIOUS
  <1>2. Enumerates(e, n + 1, 0 .. n)
    <2>1. DOMAIN e = 1 .. n + 1 /\ \A k \in 1 .. n + 1 : e[k] = k - 1 /\ e[k] \in 0 .. n
      OBVIOUS
    <2> HIDE DEF e
    <2>2. \A k, l \in 1 .. n + 1 : e[k] = e[l] => k = l
      BY <2>1
    <2>3. \A i \in 0 .. n : i + 1 \in 1 .. n + 1 /\ e[i + 1] = i
      BY <2>1
    <2>. QED  BY <2>1, <2>2, <2>3 DEF Enumerates
  <1>3. Listed(list, e, n + 1) = [k \in 1 .. n + 1 |-> IF k - 1 \in 0 .. n THEN counts[<<"winner_list", k - 1>>] ELSE 0]
    BY <1>1 DEF Listed
  <1>4. IsFiniteSet(0 .. n) /\ n + 1 \in Nat
    BY FS_Interval
  <1> HIDE DEF e
  <1>5. SumOver(list, 0 .. n) = Total(Listed(list, e, n + 1))
    <2> DEFINE S == 0 .. n
    <2>1. IsFiniteSet(S) /\ (\A x \in S : list[x] \in Nat) /\ Enumerates(e, n + 1, S)
      BY <1>1, <1>2, <1>4
    <2> HIDE DEF S
    <2>2. SumOver(list, S) = Total(Listed(list, e, n + 1))
      BY <1>4, <2>1, SumIsTotal
    <2>. QED  BY <2>2 DEF S
  <1>6. SimulationsIn(list) = SumOver(list, DOMAIN list)
    BY Zenon DEF SimulationsIn, SumOver
  <1>. QED  BY <1>1, <1>3, <1>5, <1>6 DEF CountsOf

LEMMA CountsOfNumbers ==
  ASSUME num_players \in 1 .. MaxPlayers, shared \in Arrays(num_players), NEW winners
  PROVE  CountsOf(Counted, num_players, winners) \in Nat
  <1> DEFINE n == num_players
             t == [k \in 1 .. n + 1 |-> IF k - 1 \in winners THEN Counted[<<"winner_list", k - 1>>] ELSE 0]
  <1>1. n + 1 \in Nat /\ \A k \in 1 .. n + 1 : <<"winner_list", k - 1>> \in Counters
    BY CallsAssumption DEF Counters
  <1>2. num_players \in Nat \ {0}
    BY CallsAssumption
  <1>3. \A c \in Counters : Counted[c] \in Nat
    BY <1>2, CombinedIsCounted
  <1>4. DOMAIN t = 1 .. n + 1 /\ \A k \in 1 .. n + 1 : t[k] \in Nat
    BY <1>1, <1>3
  <1> HIDE DEF t
  <1>5. Total(t) \in Nat
    BY <1>1, <1>4, TotalOfNumbers
  <1>. QED  BY <1>5 DEF CountsOf, t

-----------------------------------------------------------------------------
(* Nothing is lost between the tasks and the counts.                       *)

\* A task has failed, fails, or is one that fails or cannot be begun: map will raise its
\* exception, or never return.
Doomed(fault, state, tasks) == fault \/ (\E w \in Workers : state[w].fails) \/ Hopeless(tasks)

\* What is counted of the winners, what the processes have still to add and what the tasks
\* will add that no process has taken make what is expected.
Balanced(c, counts, state, tasks, winners) ==
  /\ AllFair(tasks, winners)
  /\ CountsOf(counts, PlayersOf(c), winners) + Gains(state, winners) + ToCome(tasks, winners) = Expected(c, winners)

AccountedFor(c, fault, counts, state, tasks) ==
  Doomed(fault, state, tasks) \/ \A winners \in WatchedOf(c) : Balanced(c, counts, state, tasks, winners)

\* From the start of the pool to the combination of the winners nothing is lost or counted
\* twice, and what is combined is what map has left.
Accounted ==
  /\ main \in {"mapping", "combining"} => AccountedFor(call, failed, Counted, worker, work)
  /\ main = "combining" => ~failed /\ shared \in Arrays(num_players)
  /\ AgreesWithSequential

\* The agreement of given arguments, where it can be said of the next state as well.
AgreesOn(c, found) ==
  found # <<>> =>
    IF Exhaustive(c) THEN found = run_simulation(c)
    ELSE SimulationsIn(found) = c.n * Cardinality(FillersOf(c))

LEMMA AgreementIs ==
  /\ AgreesWithSequential <=> AgreesOn(call, combined)
  /\ AgreesWithSequential' <=> AgreesOn(call', combined')
  BY DEF AgreesWithSequential, AgreesOn

\* Processes at rest have nothing to add.
LEMMA IdleAddNothing ==
  ASSUME NEW state, \A w \in Workers : state[w] = Idle, NEW winners
  PROVE  Gains(state, winners) = 0 /\ ~(\E w \in Workers : state[w].fails)
  <1>1. \A w \in Workers : state[w].due = <<>> /\ ~state[w].fails
    BY DEF Idle
  <1>2. Gain(<<>>, winners) = 0
    <2>1. <<>> \in Seq(Addition(1))
      OBVIOUS
    <2>. QED  BY <2>1, GainIsNumber
  <1>3. \A w \in Workers : Gain(state[w].due, winners) \in Nat /\ Gain(state[w].due, winners) = 0
    BY <1>1, <1>2
  <1>. QED  BY <1>1, <1>3, GainsAreNumbers

LEMMA NothingIsNoCount ==
  ASSUME NEW n \in 1 .. MaxPlayers, NEW counts, counts = [c \in Counters |-> 0], NEW winners
  PROVE  CountsOf(counts, n, winners) = 0
  <1> DEFINE t == [k \in 1 .. n + 1 |-> IF k - 1 \in winners THEN counts[<<"winner_list", k - 1>>] ELSE 0]
  <1>1. n + 1 \in Nat /\ \A k \in 1 .. n + 1 : <<"winner_list", k - 1>> \in Counters
    BY CallsAssumption DEF Counters
  <1>2. DOMAIN t = 1 .. n + 1 /\ \A k \in 1 .. n + 1 : t[k] = 0
    BY <1>1
  <1> HIDE DEF t
  <1>3. Total(t) = 0
    BY <1>1, <1>2, TotalOfNumbers
  <1>. QED  BY <1>3 DEF CountsOf, t

\* The tasks of a pool that starts make what is expected.
LEMMA SimulateAccounts ==
  ASSUME IInv, Tallying, main \in {"called", "reading"}, Simulate,
         ~TakenTwice(call'.cards \o TextsOf(call'.board)) => call' \in Problems
  PROVE  Accounted'
  <1>1. worker' = worker /\ combined' = <<>> /\ \A w \in Workers : worker'[w] = Idle
    BY DEF Simulate, Refuse, Tallying, IInv, IdleWhenDone
  <1>2. AgreesWithSequential'
    BY <1>1, AgreementIs DEF AgreesOn
  <1>3. CASE TakenTwice(call'.cards \o TextsOf(call'.board))
    <2>1. main' = "raised"
      BY <1>3 DEF Simulate, Refuse
    <2>. QED  BY <1>2, <2>1 DEF Accounted
  <1>4. CASE ~TakenTwice(call'.cards \o TextsOf(call'.board))
    <2> DEFINE c == call'
               n == num_players'
    <2>1. c \in Problems
      BY <1>4
    <2>2. /\ main' = "mapping" /\ work' \in TaskLists(c)
          /\ shared' = [winner_list |-> [k \in 0 .. CpuCount * Width("winner_list")' - 1 |-> 0],
                        result_histograms |-> [k \in 0 .. CpuCount * Width("result_histograms")' - 1 |-> 0]]
      BY <1>4 DEF Simulate, Zeros
    <2>3. n \in 1 .. MaxPlayers /\ work' \in Seq(Task(n)) /\ n = PlayersOf(c)
      BY <2>1, <2>2, CallsAssumption DEF num_players, Task, PlayersOf
    <2>4. n \in Nat \ {0}
      BY <2>3, CallsAssumption
    <2>5. /\ shared' \in Arrays(n)
          /\ \A array \in {"winner_list", "result_histograms"} :
               \A k \in 0 .. CpuCount * WidthOf(n, array) - 1 : shared'[array][k] = 0
      BY <2>2 DEF Arrays, Width, WidthOf
    <2>6. Counted' = [k \in Counters |-> 0]
      BY <2>4, <2>5, ZerosCountNothing, CountedIs
    <2> HIDE DEF c, n
    <2>7. ASSUME ~Hopeless(work'), NEW winners \in WatchedOf(c)
          PROVE  Balanced(c, Counted', worker', work', winners)
      <3>1. AllFair(work', winners) /\ ToCome(work', winners) = Expected(c, winners)
        BY <2>1, <2>2, <2>7, TasksAreWorth
      <3>2. ToCome(work', winners) \in Nat
        <4>1. \A j \in DOMAIN work' : Fair(work'[j], winners)
          BY <3>1 DEF AllFair
        <4>. QED  BY <2>3, <4>1, ToComeIsNumber
      <3>3. Gains(worker', winners) = 0
        BY <1>1, IdleAddNothing
      <3>4. CountsOf(Counted', n, winners) = 0
        BY <2>3, <2>6, NothingIsNoCount
      <3>. QED  BY <2>3, <3>1, <3>2, <3>3, <3>4 DEF Balanced
    <2>8. AccountedFor(call', failed', Counted', worker', work')
      BY <2>7 DEF AccountedFor, Doomed, c
    <2>. QED  BY <1>2, <2>2, <2>8 DEF Accounted
  <1>. QED  BY <1>3, <1>4

\* A call that is refused, a file that is read: nothing is combined.
LEMMA RefuseAccounts ==
  ASSUME Tallying, main \in {"called", "reading"}, NEW outcome, outcome \in {"reading", "exited", "raised", "returned"},
         Refuse(outcome)
  PROVE  Accounted'
  <1>1. combined' = <<>> /\ main' = outcome
    BY DEF Refuse, Tallying
  <1>2. AgreesWithSequential'
    BY <1>1, AgreementIs DEF AgreesOn
  <1>. QED  BY <1>1, <1>2 DEF Accounted

LEMMA CallAccounts ==
  ASSUME IInv, Tallying, Call
  PROVE  Accounted'
  <1>1. CASE Calculate
    <2>1. main = "called" /\ call' = call /\ call \in Calls
      BY <1>1 DEF Calculate, IInv, CallKnown
    <2>2. CASE ~parse_lib_args(call)
      BY <1>1, <2>1, <2>2, RefuseAccounts DEF Calculate
    <2>3. CASE parse_lib_args(call) /\ call.input = "file"
      BY <1>1, <2>1, <2>3, RefuseAccounts DEF Calculate
    <2>4. CASE parse_lib_args(call) /\ call.input # "file"
      <3>1. Simulate
        BY <1>1, <2>4 DEF Calculate
      <3>2. ~TakenTwice(call.cards \o TextsOf(call.board)) => call \in Problems
        BY <2>1, <2>4 DEF Problems
      <3>. QED  BY <2>1, <3>1, <3>2, SimulateAccounts
    <2>. QED  BY <2>2, <2>3, <2>4
  <1>2. CASE ReadLine
    <2> DEFINE line == Head(lines)
    <2>1. main = "reading" /\ call \in Calls /\ parse_lib_args(call) /\ line \in LinesOf(call)
      BY <1>2 DEF ReadLine, IInv, CallKnown
    <2>2. CASE line.parts = 0 \/ ~parse_file_args(line)
      BY <1>2, <2>1, <2>2, RefuseAccounts DEF ReadLine
    <2>3. CASE line.parts # 0 /\ parse_file_args(line)
      <3>1. Simulate /\ call' = WithLine(call, line)
        BY <1>2, <2>3 DEF ReadLine
      <3>2. ~TakenTwice(call'.cards \o TextsOf(call'.board)) => call' \in Problems
        BY <2>1, <2>3, <3>1 DEF Problems
      <3>. QED  BY <2>1, <3>1, <3>2, SimulateAccounts
    <2>. QED  BY <2>2, <2>3
  <1>3. CASE EndOfFile
    BY <1>3, RefuseAccounts DEF EndOfFile, Refuse
  <1>. QED  BY <1>1, <1>2, <1>3 DEF Call

\* A process that takes a task has to add what the task was to add.
LEMMA TakeAccounts ==
  ASSUME IInv, Accounted, NEW w \in Workers, Take(w)
  PROVE  AccountedFor(call', failed', Counted', worker', work')
  <1>1. Work(w)
    BY DEF Work
  <1> DEFINE n == num_players
             job == Head(work)
  <1>2. /\ work # <<>> /\ work' = Tail(work) /\ ~worker[w].busy /\ shared' = shared /\ call' = call
        /\ failed' = failed /\ num_players' = num_players /\ main = "mapping"
    BY <1>1, WorkInMap DEF Take
  <1>3. PICK due \in job.additions :
          worker' = [worker EXCEPT ![w] = [busy |-> TRUE, fails |-> job.fails, due |-> due, read |-> -1]]
    BY DEF Take
  <1>4. worker[w] = Idle
    BY <1>2 DEF IInv, IdleWhenDone
  <1>5. /\ worker'[w].due = due /\ worker'[w].fails = job.fails
        /\ \A v \in Workers : v # w => worker'[v] = worker[v]
    BY <1>1, <1>3, WorkInMap
  <1>6. Counted' = Counted
    BY <1>2, CountedIs
  <1>7. work \in Seq(Task(n)) /\ n = PlayersOf(call) /\ \A v \in Workers : worker[v].due \in Seq(Addition(n))
    BY <1>1, WorkInMap DEF num_players, PlayersOf, WorkerState
  <1>8. /\ 1 \in DOMAIN work /\ job = work[1] /\ job \in Task(n)
        /\ \A j \in DOMAIN work' : j + 1 \in DOMAIN work /\ work'[j] = work[j + 1]
        /\ \A j \in DOMAIN work : j = 1 \/ (j - 1 \in DOMAIN work' /\ work'[j - 1] = work[j])
    BY <1>2, <1>7
  <1> HIDE DEF job, n
  <1>9. Doomed(failed, worker, work) => Doomed(failed', worker', work')
    <2>1. \A v \in Workers : worker[v].fails => worker'[v].fails
      BY <1>4, <1>5 DEF Idle
    <2>2. Hopeless(work) => worker'[w].fails \/ Hopeless(work')
      <3> SUFFICES ASSUME NEW j \in DOMAIN work, work[j].fails \/ work[j].additions = {}
                   PROVE  worker'[w].fails \/ Hopeless(work')
        BY DEF Hopeless
      <3>1. CASE j = 1
        BY <1>3, <1>5, <1>8, <3>1
      <3>2. CASE j # 1
        <4>1. j - 1 \in DOMAIN work' /\ work'[j - 1] = work[j]
          BY <1>8, <3>2
        <4>. QED  BY <4>1 DEF Hopeless
      <3>. QED  BY <3>1, <3>2
    <2>. QED  BY <1>2, <2>1, <2>2 DEF Doomed
  <1>10. ASSUME NEW winners \in WatchedOf(call), Balanced(call, Counted, worker, work, winners)
         PROVE  Balanced(call', Counted', worker', work', winners)
    <2>1. \A j \in DOMAIN work : Fair(work[j], winners)
      BY <1>10 DEF Balanced, AllFair
    <2>2. AllFair(work', winners)
      BY <1>8, <2>1 DEF AllFair
    <2>3. /\ ToCome(work, winners) = TaskGain(job, winners) + ToCome(work', winners)
          /\ TaskGain(job, winners) \in Nat
      BY <1>2, <1>7, <2>1, ToComeIsNumber DEF job
    <2>4. ToCome(work', winners) \in Nat
      <3>1. work' \in Seq(Task(n)) /\ \A j \in DOMAIN work' : Fair(work'[j], winners)
        BY <1>2, <1>7, <2>2 DEF AllFair
      <3>. QED  BY <3>1, ToComeIsNumber
    <2>5. Gain(due, winners) = TaskGain(job, winners)
      BY <1>8, <2>1 DEF Fair
    <2>6. \A v \in Workers : Gain(worker[v].due, winners) \in Nat
      BY <1>7, GainIsNumber
    <2>7. Gain(worker[w].due, winners) = 0
      <3>1. worker[w].due = <<>> /\ worker[w].due \in Seq(Addition(n))
        BY <1>4, <1>7 DEF Idle
      <3>. QED  BY <3>1, GainIsNumber
    <2>8. Gain(worker'[w].due, winners) = Gain(worker[w].due, winners) + TaskGain(job, winners)
      BY <1>5, <2>3, <2>5, <2>7
    <2>9. Gains(worker', winners) = Gains(worker, winners) + TaskGain(job, winners)
      BY <1>5, <2>3, <2>6, <2>8, GainsChange
    <2>10. Gains(worker, winners) \in Nat
      BY <2>6, GainsAreNumbers
    <2> DEFINE before == CountsOf(Counted, PlayersOf(call), winners)
    <2>11. before + Gains(worker, winners) + ToCome(work, winners) = Expected(call, winners)
      BY <1>10 DEF Balanced
    <2>12. before \in Nat
      BY <1>1, CountsOfNumbers, WorkInMap DEF PlayersOf, num_players
    <2> HIDE DEF before
    <2>13. before + Gains(worker', winners) + ToCome(work', winners) = Expected(call, winners)
      BY <2>3, <2>4, <2>9, <2>10, <2>11, <2>12
    <2>. QED  BY <1>2, <1>6, <2>2, <2>13 DEF Balanced, before
  <1>11. AccountedFor(call, failed, Counted, worker, work)
    BY <1>2 DEF Accounted
  <1>. QED  BY <1>2, <1>9, <1>10, <1>11 DEF AccountedFor

\* To read an element and to finish a task leave what there is to add.
LEMMA ReadAndFinishAccount ==
  ASSUME IInv, Accounted, NEW w \in Workers, Read(w) \/ Finish(w)
  PROVE  AccountedFor(call', failed', Counted', worker', work')
  <1>1. Work(w)
    BY DEF Work
  <1>2. shared' = shared /\ work' = work /\ call' = call /\ num_players' = num_players /\ main = "mapping"
    BY <1>1, WorkInMap DEF Read, Finish
  <1>3. \A v \in Workers : worker'[v].due = worker[v].due
    <2>1. CASE Read(w)
      BY <1>1, <2>1, WorkInMap DEF Read, WorkerState
    <2>2. CASE Finish(w)
      BY <1>1, <2>2, WorkInMap DEF Finish, Idle
    <2>. QED  BY <2>1, <2>2
  <1>4. Counted' = Counted
    BY <1>2, CountedIs
  <1>5. Doomed(failed, worker, work) => Doomed(failed', worker', work')
    <2>1. CASE Read(w)
      <3>1. failed' = failed /\ \A v \in Workers : worker'[v].fails = worker[v].fails
        BY <1>1, <2>1, WorkInMap DEF Read, WorkerState
      <3>. QED  BY <1>2, <3>1 DEF Doomed
    <2>2. CASE Finish(w)
      <3>1. failed' = (failed \/ worker[w].fails) /\ \A v \in Workers : v # w => worker'[v] = worker[v]
        BY <1>1, <2>2, WorkInMap DEF Finish
      <3>. QED  BY <1>2, <3>1 DEF Doomed
    <2>. QED  BY <2>1, <2>2
  <1>6. \A winners : Gains(worker', winners) = Gains(worker, winners)
    BY <1>3, GainsSame
  <1>7. AccountedFor(call, failed, Counted, worker, work)
    BY <1>2 DEF Accounted
  <1>. QED  BY <1>2, <1>4, <1>5, <1>6, <1>7 DEF AccountedFor, Balanced

\* To write an element is to count what was to be added.
LEMMA WriteAccounts ==
  ASSUME IInv, Accounted, NEW w \in Workers, Write(w)
  PROVE  AccountedFor(call', failed', Counted', worker', work')
  <1>1. Work(w)
    BY DEF Work
  <1> DEFINE n == num_players
             due == worker[w].due
             a == Head(due)
             at == At(n, w, a)
  <1>2. /\ due # <<>> /\ worker[w].read # -1 /\ work' = work /\ call' = call /\ failed' = failed
        /\ main = "mapping" /\ shared' = [shared EXCEPT ![a.array][at] = Sum(w)] /\ num_players' = n
        /\ n \in 1 .. MaxPlayers /\ n \in Nat \ {0} /\ shared \in Arrays(n)
    BY <1>1, WorkInMap DEF Write, Element, At, Width
  <1>3. due \in Seq(Addition(n)) /\ a \in Addition(n)
    BY <1>1, <1>2, WorkInMap DEF WorkerState
  <1>4. Sum(w) = shared[a.array][at] + a.by
    BY <1>1, <1>2, WorkInMap DEF Sum, Held
  <1>5. Counts(n, shared') = OneMore(Counts(n, shared), a)
    <2>1. n \in 1 .. MaxPlayers /\ n \in Nat \ {0}
      BY <1>2
    <2>2. shared \in Arrays(n) /\ a \in Addition(n) /\ w \in Workers
      BY <1>2, <1>3
    <2>3. shared' = Grown(shared, a.array, At(n, w, a), a.by)
      BY <1>2, <1>4 DEF Grown
    <2> HIDE DEF a
    <2>. QED  BY ONLY <2>1, <2>2, <2>3, OneCountGrows DEF n
  <1>6. Counted' = OneMore(Counted, a) /\ n = PlayersOf(call)
    BY <1>2, <1>5, CountedIs DEF PlayersOf, num_players
  <1>7. DOMAIN Counted = Counters /\ \A c \in Counters : Counted[c] \in Nat
    BY <1>2, CombinedIsCounted DEF Counted
  <1>8. /\ worker'[w].due = Tail(due) /\ \A v \in Workers : v # w => worker'[v] = worker[v]
        /\ \A v \in Workers : worker'[v].fails = worker[v].fails
        /\ \A v \in Workers : worker'[v].due \in Seq(Addition(n)) /\ worker[v].due \in Seq(Addition(n))
    BY <1>1, <1>2, WorkInMap DEF Write, WorkerState
  <1>9. Doomed(failed, worker, work) => Doomed(failed', worker', work')
    BY <1>2, <1>8 DEF Doomed
  <1> HIDE DEF n, due, a
  <1>10. ASSUME NEW winners \in WatchedOf(call), Balanced(call, Counted, worker, work, winners)
         PROVE  Balanced(call', Counted', worker', work', winners)
    <2> DEFINE d == Worth(a, winners)
               before == CountsOf(Counted, n, winners)
               after == CountsOf(Counted', n, winners)
    <2>1. d \in Nat
      BY <1>3, WorthIsNumber
    <2>2. after = before + d
      BY <1>2, <1>3, <1>6, <1>7, CountsOfMore
    <2>3. Gain(due, winners) = d + Gain(Tail(due), winners) /\ Gain(due, winners) \in Nat
      BY <1>2, <1>3, GainIsNumber DEF a
    <2>4. \A v \in Workers : Gain(worker'[v].due, winners) \in Nat /\ Gain(worker[v].due, winners) \in Nat
      BY <1>8, GainIsNumber
    <2> HIDE DEF d
    <2>5. Gain(worker[w].due, winners) = Gain(worker'[w].due, winners) + d
      BY <1>8, <2>1, <2>3, <2>4 DEF due
    <2>6. \A v \in Workers : v # w => worker[v].due = worker'[v].due
      BY <1>8
    <2>7. Gains(worker, winners) = Gains(worker', winners) + d
      BY <2>1, <2>4, <2>5, <2>6, GainsChange
    <2>8. Gains(worker', winners) \in Nat
      BY <2>4, GainsAreNumbers
    <2>9. AllFair(work, winners) /\ before + Gains(worker, winners) + ToCome(work, winners) = Expected(call, winners)
      BY <1>6, <1>10 DEF Balanced
    <2>10. before \in Nat
      BY <1>1, <1>6, CountsOfNumbers, WorkInMap DEF n
    <2> HIDE DEF before, after
    <2>11. after + Gains(worker', winners) = before + Gains(worker, winners)
      BY <2>1, <2>2, <2>7, <2>8, <2>10
    <2>. QED  BY <1>2, <1>6, <2>9, <2>11 DEF Balanced, after
  <1>11. AccountedFor(call, failed, Counted, worker, work)
    BY <1>2 DEF Accounted
  <1>. QED  BY <1>2, <1>9, <1>10, <1>11 DEF AccountedFor

\* Only a pool whose tasks have all been made leaves counts to be combined, and these are
\* what is expected.
LEMMA CollectAccounts ==
  ASSUME IInv, Tallying, Accounted, Collect
  PROVE  Accounted'
  <1>1. /\ worker' = worker /\ work' = work /\ shared' = shared /\ call' = call /\ failed' = failed
        /\ num_players' = num_players /\ combined = <<>>
    BY DEF Collect, MapReturns, Combine, Tallying, num_players
  <1>2. Counted' = Counted
    BY <1>1, CountedIs
  <1>3. CASE MapReturns
    <2>1. /\ main = "mapping" /\ combined' = <<>> /\ main' = IF failed THEN "raised" ELSE "combining"
          /\ shared \in Arrays(num_players)
      BY <1>1, <1>3 DEF MapReturns, IInv, PoolWellFormed
    <2>2. AgreesWithSequential'
      BY <2>1, AgreementIs DEF AgreesOn
    <2>3. AccountedFor(call', failed', Counted', worker', work')
      BY <1>1, <1>2, <2>1 DEF Accounted
    <2>. QED  BY <1>1, <2>1, <2>2, <2>3 DEF Accounted
  <1>4. CASE Combine
    <2> DEFINE n == num_players
    <2>1. main = "combining" /\ main' = "raised" /\ combined' = Combined /\ work = <<>> /\ n \in 1 .. MaxPlayers
      BY <1>4 DEF Combine, Tallying
    <2>2. n \in Nat \ {0} /\ n \in Nat /\ n = PlayersOf(call)
      <3>1. n = PlayersOf(call)
        BY DEF PlayersOf, num_players
      <3>2. n \in Nat \ {0}
        BY <2>1, CallsAssumption
      <3>. QED  BY <3>1, <3>2
    <2>3. ~failed /\ shared \in Arrays(n) /\ \A w \in Workers : worker[w] = Idle
      BY <2>1 DEF Accounted, IInv, IdleWhenDone
    <2>4. ~Doomed(failed, worker, work)
      BY <2>1, <2>3, IdleAddNothing DEF Doomed, Hopeless
    <2>5. ASSUME NEW winners \in WatchedOf(call)
          PROVE  CountsOf(Counted, n, winners) = Expected(call, winners)
      <3>1. Balanced(call, Counted, worker, work, winners)
        BY <2>1, <2>4 DEF Accounted, AccountedFor
      <3>2. Gains(worker, winners) = 0
        BY <2>3, IdleAddNothing
      <3>3. ToCome(work, winners) = 0
        <4>1. work \in Seq(Task(n)) /\ \A j \in DOMAIN work : Fair(work[j], winners)
          BY <2>1
        <4>. QED  BY <2>1, <4>1, ToComeIsNumber
      <3>4. CountsOf(Counted, n, winners) \in Nat
        BY <2>1, <2>3, CountsOfNumbers
      <3>. QED  BY <2>2, <3>1, <3>2, <3>3, <3>4 DEF Balanced
    <2>6. /\ combined' = [i \in 0 .. n |-> Counted[<<"winner_list", i>>]]
          /\ \A c \in Counters : Counted[c] \in Nat
      BY <2>1, <2>2, <2>3, CombinedIsCounted
    <2>7. \A i \in 0 .. n : <<"winner_list", i>> \in Counters
      BY <2>1, CallsAssumption DEF Counters
    <2> HIDE DEF n
    <2>8. CASE Exhaustive(call)
      <3>1. ASSUME NEW i \in 0 .. n
            PROVE  Counted[<<"winner_list", i>>] = run_simulation(call)[i]
        <4> DEFINE one == {i}
        <4>1. one \in WatchedOf(call)
          BY <2>2, <2>8 DEF WatchedOf
        <4>2. CountsOf(Counted, n, one) = Counted[<<"winner_list", i>>]
          BY <2>2, <2>6, <2>7, CountsOfOne
        <4>3. Expected(call, one) = run_simulation(call)[i]
          BY <2>8 DEF Expected
        <4> HIDE DEF one
        <4>. QED  BY <2>5, <4>1, <4>2, <4>3
      <3>2. run_simulation(call) = [i \in 0 .. n |-> run_simulation(call)[i]]
        <4>1. Len(HoleOf(call)) = n
          <5>1. HoleOf(call) = [i \in 1 .. n |-> HoleOf(call)[i]]
            BY <2>2 DEF HoleOf, PlayersOf, create_hole_cards
          <5>. QED  BY <2>2, <5>1, FunctionsAreSequences
        <4>. QED  BY <4>1, RunIs
      <3>3. combined' = run_simulation(call)
        BY <2>6, <3>1, <3>2
      <3>4. AgreesWithSequential'
        BY <1>1, <2>8, <3>3, AgreementIs DEF AgreesOn
      <3>. QED  BY <2>1, <3>4 DEF Accounted
    <2>9. CASE ~Exhaustive(call)
      <3> DEFINE all == 0 .. n
      <3>1. all \in WatchedOf(call) /\ Expected(call, all) = call.n * Cardinality(FillersOf(call))
        BY <2>2, <2>9 DEF WatchedOf, Expected
      <3>2. SimulationsIn(combined') = CountsOf(Counted, n, all)
        BY <2>2, <2>6, <2>7, CountsOfAll
      <3> HIDE DEF all
      <3>3. SimulationsIn(combined') = call.n * Cardinality(FillersOf(call))
        BY <2>5, <3>1, <3>2
      <3>4. AgreesWithSequential'
        BY <1>1, <2>9, <3>3, AgreementIs DEF AgreesOn
      <3>. QED  BY <2>1, <3>4 DEF Accounted
    <2>. QED  BY <2>8, <2>9
  <1>. QED  BY <1>3, <1>4 DEF Collect

\* Every step keeps the account.
LEMMA StepsAccount ==
  ASSUME IInv, Tallying, Accounted, [ParallelNext]_parallelVars
  PROVE  Accounted'
  <1>1. CASE Call
    BY <1>1, CallAccounts
  <1>2. CASE Collect
    BY <1>2, CollectAccounts
  <1>3. ASSUME NEW w \in Workers, Work(w)
        PROVE  Accounted'
    <2>1. AccountedFor(call', failed', Counted', worker', work')
      <3>1. CASE Take(w)
        BY <3>1, TakeAccounts
      <3>2. CASE Read(w) \/ Finish(w)
        BY <3>2, ReadAndFinishAccount
      <3>3. CASE Write(w)
        BY <3>3, WriteAccounts
      <3>. QED  BY <1>3, <3>1, <3>2, <3>3 DEF Work
    <2>2. main = "mapping" /\ main' = "mapping" /\ combined' = combined
      BY <1>3, WorkInMap, Zenon DEF Work, Take, Read, Write, Finish
    <2>3. AgreesWithSequential'
      BY <2>2, AgreementIs DEF AgreesOn, Tallying
    <2>. QED  BY <2>1, <2>2, <2>3 DEF Accounted
  <1>4. CASE UNCHANGED parallelVars
    <2>1. num_players' = num_players
      BY <1>4 DEF parallelVars, num_players
    <2>2. Counted' = Counted
      BY <1>4, <2>1, CountedIs DEF parallelVars
    <2>3. AgreesWithSequential'
      BY <1>4, AgreementIs DEF parallelVars, Accounted
    <2>. QED  BY <1>4, <2>1, <2>2, <2>3 DEF parallelVars, Accounted
  <1>. QED  BY <1>1, <1>2, <1>3, <1>4 DEF ParallelNext

-----------------------------------------------------------------------------
(* The composition.                                                        *)

\* While another task is at work no process has read anything, and nothing is combined.
Current ==
  IF task = "calculate" THEN IInv /\ Tallying /\ Accounted
  ELSE Counting /\ combined = <<>> /\ \A w \in Workers : worker[w] = Idle

LEMMA EquityBegins == Init => Current
  <1> SUFFICES ASSUME Init
               PROVE  Current
    OBVIOUS
  <1>1. CASE task = "calculate"
    <2>1. ParallelInit
      BY <1>1 DEF Init
    <2>2. IInv
      BY <2>1, BeginsCurrent
    <2>3. shared.winner_list = <<>> /\ combined = <<>> /\ main = "called"
      BY <2>1 DEF ParallelInit
    <2>4. Accounted
      BY <2>3 DEF Accounted, AgreesWithSequential
    <2>. QED  BY <1>1, <2>2, <2>3, <2>4 DEF Current, Tallying
  <1>2. CASE task # "calculate"
    BY <1>2 DEF Init, Current, Counting
  <1>. QED  BY <1>1, <1>2

\* The other tasks leave the processes alone, and the task stays the same.
LEMMA TasksAreApart ==
  ASSUME [Next]_vars
  PROVE  /\ task' = task
         /\ task = "calculate" => [ParallelNext]_parallelVars
         /\ task # "calculate" => UNCHANGED parallelVars
  <1>1. CASE Calling
    BY <1>1 DEF Calling, ParallelNext
  <1>2. CASE Collecting
    BY <1>2 DEF Collecting, ParallelNext
  <1>3. ASSUME NEW w \in Workers, Working(w)
        PROVE  task' = task /\ task = "calculate" /\ ParallelNext
    BY <1>3 DEF Working, ParallelNext
  <1>4. CASE Simulating \/ Ranking
    BY <1>4 DEF Simulating, Ranking
  <1>5. CASE Done \/ UNCHANGED vars
    BY <1>5 DEF Done, vars
  <1>. QED  BY <1>1, <1>2, <1>3, <1>4, <1>5 DEF Next

LEMMA EquityKeeps ==
  ASSUME Current, [Next]_vars
  PROVE  Current'
  <1>1. CASE task = "calculate"
    BY <1>1, TasksAreApart, StepsKeep, TallyingKeeps, StepsAccount DEF Current
  <1>2. CASE task # "calculate"
    <2>1. task' = task /\ UNCHANGED parallelVars
      BY <1>2, TasksAreApart
    <2>. QED  BY <1>2, <2>1 DEF Current, Counting, parallelVars
  <1>. QED  BY <1>1, <1>2

LEMMA CurrentReads == Current => ReadIsCurrent
  <1>1. CASE task = "calculate"
    BY <1>1 DEF Current, IInv
  <1>2. CASE task # "calculate"
    BY <1>2 DEF Current, ReadIsCurrent, Idle
  <1>. QED  BY <1>1, <1>2

-----------------------------------------------------------------------------
\* In every behaviour that is model-checked, for all values of the constants: no process
\* of the pool overwrites an element another one has read and not yet written.
THEOREM EquityReadsAreCurrent == Spec => []ReadIsCurrent
  BY EquityBegins, EquityKeeps, CurrentReads, PTL DEF Spec

\* The parallel calculator and the sequential one find the same winners when all boards are
\* looked at, and of random boards n for each pair an unknown player may hold are counted, for
\* any deck, any number of processes and any calls (the two run_simulation).
THEOREM CalculatorsAgree == Spec => []AgreesWithSequential
  <1>1. Current => AgreesWithSequential
    BY DEF Current, Accounted, AgreesWithSequential
  <1>. QED  BY <1>1, EquityBegins, EquityKeeps, PTL DEF Spec

\* Every simulation is counted exactly once, by whatever process and in whatever order, and
\* the winners are combined when none is outstanding (run_simulation, simulation,
\* unknown_simulation): the calculator implements the tally.
THEOREM CalculatorImplementsTally == Spec => CountsEachOnce
  <1>1. Init => Count!Init
    <2> SUFFICES ASSUME Init
                 PROVE  Count!Init
      OBVIOUS
    <2>1. /\ main = "called" /\ work = <<>> /\ shared.winner_list = <<>> /\ \A w \in Workers : worker[w] = Idle
      BY DEF Init
    <2>2. Outstanding = {} /\ Counted = [c \in Counters |-> 0]
      BY <2>1, NothingOutstanding, NothingCountedAtFirst
    <2>3. Phase = "idle" /\ Len(work) = 0
      BY <2>1 DEF Phase
    <2>. QED  BY <2>2, <2>3 DEF Count!Init
  <1>2. ASSUME Current, [Next]_vars
        PROVE  [Count!Next]_<<Phase, Len(work), Outstanding, Counted>>
    <2>1. CASE task = "calculate"
      BY <1>2, <2>1, TasksAreApart, StepsTally DEF Current, View
    <2>2. CASE task # "calculate"
      <3>1. UNCHANGED parallelVars
        BY <1>2, <2>2, TasksAreApart
      <3>2. num_players' = num_players
        BY <3>1 DEF parallelVars, num_players
      <3>3. Outstanding' = Outstanding /\ Counted' = Counted
        BY <3>1, <3>2, OutstandingIs, CountedIs DEF parallelVars
      <3>. QED  BY <3>1, <3>3 DEF parallelVars, Phase
    <2>. QED  BY <2>1, <2>2
  <1>. QED  BY <1>1, <1>2, EquityBegins, EquityKeeps, PTL DEF Spec, CountsEachOnce, Count!Spec

-----------------------------------------------------------------------------
(* The simulation of best_bot and the ranked hands.                        *)

\* What the simulation has counted and dealt so far; while another task is at work it has
\* made no iteration.
Simulated ==
  /\ wins \in Nat /\ ties \in Nat /\ total \in Nat
  /\ wins + ties <= total /\ total <= ITERATIONS
  /\ IF task = "simulate" THEN situation \in Situations ELSE total = 0
  /\ Monte!KnownCardsStayOut
  /\ dealt = {} \/ Cardinality(dealt) = 7

\* Sizes and draws are the same within MonteCarlo.
LEMMA SameCardinality ==
  /\ \A S : Monte!Cardinality(S) = Cardinality(S)
  /\ \A k, S : Monte!kSubset(k, S) = kSubset(k, S)
  <1>1. \A S : Monte!Cardinality(S) = Cardinality(S)
    BY DEF Monte!Cardinality, Cardinality
  <1>. QED  BY <1>1 DEF Monte!kSubset, kSubset

\* The size of two sets with nothing in common.
LEMMA SizesAdd ==
  ASSUME NEW S, NEW T, IsFiniteSet(S), IsFiniteSet(T), S \cap T = {}
  PROVE  IsFiniteSet(S \cup T) /\ Cardinality(S \cup T) = Cardinality(S) + Cardinality(T)
  <1>1. Cardinality(S \cap T) = 0
    BY FS_EmptySet
  <1>2. Cardinality(S) \in Nat /\ Cardinality(T) \in Nat
    BY FS_CardinalityType
  <1>3. /\ IsFiniteSet(S \cup T)
        /\ Cardinality(S \cup T) = Cardinality(S) + Cardinality(T) - Cardinality(S \cap T)
    BY FS_Union
  <1>. QED  BY <1>1, <1>2, <1>3

\* What can be drawn from a part of the deck is a finite part of it.
LEMMA Draws ==
  ASSUME NEW k, NEW D, D \subseteq Monte!deck, NEW d \in kSubset(k, D)
  PROVE  /\ d \subseteq D /\ d \subseteq EvalDeck
         /\ d \cap (situation.hand1 \cup situation.known_board) = {}
         /\ IsFiniteSet(d) /\ Cardinality(d) = k
  <1>1. d \subseteq D /\ Cardinality(d) = k
    BY DEF kSubset
  <1>2. d \subseteq EvalDeck /\ d \cap (situation.hand1 \cup situation.known_board) = {}
    BY <1>1 DEF Monte!deck
  <1>3. IsFiniteSet(d)
    BY <1>2, SimulationAssumption, FS_Subset
  <1>. QED  BY <1>1, <1>2, <1>3

\* An iteration completes the board, with none of the cards the bot sees: the draw for the
\* board and the draw for the opponent are the shorter and the longer part of one draw.
LEMMA IterationDeals ==
  ASSUME situation \in Situations, Monte!Iterate
  PROVE  /\ (opp_hand' \cup remaining_board') \cap (situation.hand1 \cup situation.known_board) = {}
         /\ Cardinality(situation.known_board \cup remaining_board') = 5
  <1> DEFINE seen == situation.hand1 \cup situation.known_board
             board == situation.known_board
             n == Monte!remaining_board_count
  <1>1. IsFiniteSet(board) /\ Cardinality(board) \in Nat /\ Cardinality(board) <= 5
    BY SimulationAssumption, FS_CardinalityType
  <1>2. n = 5 - Cardinality(board) /\ n \in Nat
    BY <1>1, SameCardinality DEF Monte!remaining_board_count
  <1>3. opp_hand' \in kSubset(2, Monte!deck)
    BY SameCardinality DEF Monte!Iterate
  <1>4. /\ opp_hand' \subseteq Monte!deck /\ opp_hand' \cap seen = {}
        /\ IsFiniteSet(opp_hand') /\ Cardinality(opp_hand') = 2
    BY <1>3, Draws
  <1>5. /\ remaining_board' \cap seen = {} /\ IsFiniteSet(remaining_board')
        /\ Cardinality(remaining_board') = n
    <2>1. CASE n <= 2
      <3>1. remaining_board' \in kSubset(n, opp_hand')
        BY <2>1, SameCardinality DEF Monte!Iterate
      <3>. QED  BY <1>4, <3>1, Draws
    <2>2. CASE ~(n <= 2)
      <3>1. PICK rest \in kSubset(n - 2, Monte!deck \ opp_hand') : remaining_board' = opp_hand' \cup rest
        BY <2>2, SameCardinality DEF Monte!Iterate
      <3>2. /\ rest \subseteq Monte!deck \ opp_hand' /\ rest \cap seen = {}
            /\ IsFiniteSet(rest) /\ Cardinality(rest) = n - 2
        BY <3>1, Draws
      <3>3. opp_hand' \cap rest = {}
        BY <3>2
      <3>4. IsFiniteSet(opp_hand' \cup rest) /\ Cardinality(opp_hand' \cup rest) = n
        <4>1. IsFiniteSet(opp_hand' \cup rest)
              /\ Cardinality(opp_hand' \cup rest) = Cardinality(opp_hand') + Cardinality(rest)
          BY <1>4, <3>2, <3>3, SizesAdd
        <4>. QED  BY <1>2, <1>4, <3>2, <4>1
      <3>. QED  BY <1>4, <3>1, <3>2, <3>4
    <2>. QED  BY <2>1, <2>2
  <1>6. board \cap remaining_board' = {}
    BY <1>5
  <1>7. Cardinality(board \cup remaining_board') = Cardinality(board) + n
    BY <1>1, <1>2, <1>5, <1>6, SizesAdd
  <1>. QED  BY <1>1, <1>2, <1>4, <1>5, <1>7

LEMMA SimulationBegins == Init => Simulated
  BY SimulationAssumption DEF Init, Simulated, Monte!MonteInit, Monte!KnownCardsStayOut

LEMMA SimulationGoesOn ==
  ASSUME Simulated, [Next]_vars
  PROVE  Simulated'
  <1>1. CASE UNCHANGED <<task, monte_side, dealt>>
    BY <1>1 DEF Simulated, monte_side, Monte!KnownCardsStayOut
  <1>2. CASE Simulating
    <2>1. task = "simulate" /\ Monte!Iterate /\ task' = task /\ dealt' = dealt
      BY <1>2 DEF Simulating
    <2>2. situation \in Situations
      BY <2>1 DEF Simulated
    <2>3. situation' = situation /\ total < ITERATIONS /\ total' = total + 1
      BY <2>1 DEF Monte!Iterate
    <2>4. /\ wins' \in Nat /\ ties' \in Nat /\ total' \in Nat
          /\ wins' + ties' <= total' /\ total' <= ITERATIONS
      BY <2>1, <2>3, SimulationAssumption DEF Monte!Iterate, Monte!Tabulate, Simulated
    <2>5. Monte!KnownCardsStayOut'
      BY <2>1, <2>2, <2>3, IterationDeals, SameCardinality DEF Monte!KnownCardsStayOut
    <2>. QED  BY <2>1, <2>2, <2>3, <2>4, <2>5 DEF Simulated
  <1>3. CASE Ranking
    <2>1. Cardinality(dealt') = 7 /\ UNCHANGED <<task, monte_side>>
      BY <1>3 DEF Ranking, kSubset
    <2>. QED  BY <2>1 DEF Simulated, monte_side, Monte!KnownCardsStayOut
  <1>4. ASSUME NEW w \in Workers, Working(w)
        PROVE  UNCHANGED <<task, monte_side, dealt>>
    BY <1>4 DEF Working
  <1>5. CASE Calling \/ Collecting \/ Done \/ UNCHANGED vars
    <2>1. UNCHANGED <<task, monte_side, dealt>>
      BY <1>5 DEF Calling, Collecting, Done, vars
    <2>. QED  BY <1>1, <2>1
  <1>. QED  BY <1>1, <1>2, <1>3, <1>4, <1>5 DEF Next

\* No card the bot sees is in the simulated hand of its opponent or on the simulated rest of
\* the board, and the board is complete (calculate_equity of best_bot), whatever the deck,
\* the cards seen and the number of iterations.
THEOREM SimulatedCardsAreUnseen == Spec => []KnownCardsStayOut
  <1>1. Simulated => KnownCardsStayOut
    BY DEF Simulated, KnownCardsStayOut
  <1>. QED  BY <1>1, SimulationBegins, SimulationGoesOn, PTL DEF Spec

\* The state of the calculator, of the simulation and of the ranked hands is well formed: in
\* particular what a process has read and what is in the arrays is never negative, and an
\* equity is at most one.
THEOREM EquityTypeCorrect == Spec => []TypeOK
  <1>1. ASSUME Current, Simulated
        PROVE  TypeOK
    <2>1. Counting /\ \A w \in Workers : ~worker[w].busy => worker[w] = Idle
      BY <1>1 DEF Current, IInv, IdleWhenDone
    <2>2. ASSUME NEW w \in Workers
          PROVE  /\ worker[w].read \in Nat \cup {-1}
                 /\ \A i \in DOMAIN worker[w].due : worker[w].due[i].by \in Nat
      <3>1. CASE worker[w] = Idle
        BY <3>1 DEF Idle
      <3>2. CASE worker[w] # Idle
        <4>1. worker[w] \in WorkerState(num_players)
          BY <1>1, <2>2, <3>2 DEF Current, IInv, IdleWhenDone, PoolWellFormed, WorkerState
        <4>. QED  BY <4>1 DEF WorkerState, Addition
      <3>. QED  BY <3>1, <3>2
    <2>3. ParallelTypeOK
      BY <2>1, <2>2 DEF ParallelTypeOK, Counting
    <2>. QED  BY <1>1, <2>3 DEF Simulated, TypeOK
  <1>2. Current /\ Simulated => TypeOK
    BY <1>1
  <1>. QED  BY <1>2, EquityBegins, EquityKeeps, SimulationBegins, SimulationGoesOn, PTL DEF Spec
=============================================================================
