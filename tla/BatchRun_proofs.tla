---------------------------- MODULE BatchRun_proofs ----------------------------
(***************************************************************************)
(* One player process and the scripts that run the engine again and again, *)
(* for every number of lines, size limit, number of runs and results: what *)
(* two threads make of the bot's output, and what compare.py makes of the  *)
(* last lines it reads.                                                    *)
(***************************************************************************)
EXTENDS BatchRun, SequenceTheorems, TLAPS

Adding == INSTANCE Folding WITH Op <- AddSize
Gathering == INSTANCE Folding WITH Op <- AddLines

-----------------------------------------------------------------------------
(* Sequences laid end to end.                                              *)
LEMMA EndToEnd ==
  ASSUME NEW S, NEW s \in Seq(S), NEW t \in Seq(S)
  PROVE  /\ s \o t \in Seq(S)
         /\ Range(s \o t) = Range(s) \cup Range(t)
         /\ IsInjective(s \o t) <=> /\ IsInjective(s) /\ IsInjective(t)
                                    /\ Range(s) \cap Range(t) = {}
<1> DEFINE m == Len(s)
           n == Len(t)
           st == s \o t
<1>1. /\ m \in Nat /\ n \in Nat /\ st \in Seq(S)
      /\ DOMAIN s = 1 .. m /\ DOMAIN t = 1 .. n /\ DOMAIN st = 1 .. m + n
      /\ \A k \in 1 .. m + n : st[k] = IF k <= m THEN s[k] ELSE t[k - m]
  BY ConcatProperties, LenProperties
<1> HIDE DEF m, n, st
<1>2. \A k \in 1 .. m : k \in 1 .. m + n /\ st[k] = s[k]
  BY <1>1
<1>3. \A k \in 1 .. n : m + k \in 1 .. m + n /\ st[m + k] = t[k]
  BY <1>1
<1>4. \A k \in 1 .. m + n : k \in 1 .. m \/ \E j \in 1 .. n : k = m + j
  <2> SUFFICES ASSUME NEW k \in 1 .. m + n, k \notin 1 .. m
               PROVE  \E j \in 1 .. n : k = m + j
    OBVIOUS
  <2>1. k - m \in 1 .. n /\ k = m + (k - m)
    BY <1>1
  <2> QED BY <2>1
<1>5. Range(st) = Range(s) \cup Range(t)
  <2>1. ASSUME NEW x \in Range(st) PROVE x \in Range(s) \cup Range(t)
    <3>1. PICK k \in 1 .. m + n : x = st[k]
      BY <1>1 DEF Range
    <3> QED BY <1>1, <1>2, <1>3, <1>4, <3>1 DEF Range
  <2>2. ASSUME NEW x \in Range(s) PROVE x \in Range(st)
    BY <1>1, <1>2 DEF Range
  <2>3. ASSUME NEW x \in Range(t) PROVE x \in Range(st)
    BY <1>1, <1>3 DEF Range
  <2> QED BY <2>1, <2>2, <2>3
<1>6. ASSUME IsInjective(st)
      PROVE  IsInjective(s) /\ IsInjective(t) /\ Range(s) \cap Range(t) = {}
  <2>1. \A k, j \in 1 .. m + n : st[k] = st[j] => k = j
    BY <1>1, <1>6 DEF IsInjective
  <2>2. IsInjective(s)
    BY <1>1, <1>2, <2>1 DEF IsInjective
  <2>3. ASSUME NEW k \in 1 .. n, NEW j \in 1 .. n, t[k] = t[j] PROVE k = j
    <3>1. m + k = m + j
      BY <1>3, <2>1, <2>3
    <3> QED BY <1>1, <3>1
  <2>4. ASSUME NEW k \in 1 .. m, NEW j \in 1 .. n PROVE s[k] # t[j]
    <3>1. k # m + j
      BY <1>1
    <3> QED BY <1>2, <1>3, <2>1, <3>1
  <2> QED BY <1>1, <2>2, <2>3, <2>4 DEF IsInjective, Range
<1>7. ASSUME IsInjective(s), IsInjective(t), Range(s) \cap Range(t) = {}
      PROVE  IsInjective(st)
  <2>1. \A k \in 1 .. m, j \in 1 .. n : s[k] # t[j]
    BY <1>1, <1>7 DEF Range
  <2>2. ASSUME NEW k \in 1 .. m + n, NEW j \in 1 .. m + n, st[k] = st[j] PROVE k = j
    <3>1. CASE k \in 1 .. m /\ j \in 1 .. m
      BY <1>1, <1>2, <1>7, <2>2, <3>1 DEF IsInjective
    <3>2. ASSUME NEW a \in 1 .. n, NEW b \in 1 .. n, k = m + a, j = m + b PROVE k = j
      BY <1>1, <1>3, <1>7, <2>2, <3>2 DEF IsInjective
    <3>3. ASSUME NEW a \in 1 .. m, NEW b \in 1 .. n PROVE st[a] # st[m + b]
      BY <1>2, <1>3, <2>1
    <3> QED BY <1>4, <2>2, <3>1, <3>2, <3>3
  <2> QED BY <1>1, <2>2 DEF IsInjective
<1> QED BY <1>1, <1>5, <1>6, <1>7 DEF st

LEMMA OneElement ==
  ASSUME NEW S, NEW x \in S
  PROVE  <<x>> \in Seq(S) /\ Range(<<x>>) = {x} /\ IsInjective(<<x>>)
BY DEF Range, IsInjective

LEMMA NoElement ==
  ASSUME NEW S
  PROVE  <<>> \in Seq(S) /\ Range(<<>>) = {} /\ IsInjective(<<>>)
BY DEF Range, IsInjective

\* What is added at the end is new.
LEMMA OneMore ==
  ASSUME NEW S, NEW s \in Seq(S), NEW x \in S
  PROVE  /\ Append(s, x) \in Seq(S)
         /\ Range(Append(s, x)) = Range(s) \cup {x}
         /\ IsInjective(Append(s, x)) <=> IsInjective(s) /\ x \notin Range(s)
<1>1. Append(s, x) = s \o <<x>>
  BY AppendIsConcat
<1>2. <<x>> \in Seq(S) /\ Range(<<x>>) = {x} /\ IsInjective(<<x>>)
  BY OneElement
<1>3. /\ s \o <<x>> \in Seq(S)
      /\ Range(s \o <<x>>) = Range(s) \cup Range(<<x>>)
      /\ IsInjective(s \o <<x>>) <=> /\ IsInjective(s) /\ IsInjective(<<x>>)
                                     /\ Range(s) \cap Range(<<x>>) = {}
  BY <1>2, EndToEnd
<1> QED BY <1>1, <1>2, <1>3

LEMMA FirstAndRest ==
  ASSUME NEW S, NEW s \in Seq(S), s # <<>>
  PROVE  /\ Head(s) \in S /\ Tail(s) \in Seq(S)
         /\ s = <<Head(s)>> \o Tail(s)
<1>1. Head(s) \in S /\ Tail(s) \in Seq(S)
  BY HeadTailProperties
<1> QED BY <1>1, SMT

-----------------------------------------------------------------------------
(* The folds of the log.                                                   *)
LEMMA SizeIsFold ==
  ASSUME NEW outputs
  PROVE  Size(outputs) = Adding!Fold(0, outputs)
BY Zenon DEF Size, FoldLeft, MapThenFoldSet, Max, Adding!Fold, Adding!FoldLeft,
  Adding!MapThenFoldSet, Adding!Max

LEMMA LinesIsFold ==
  ASSUME NEW outputs
  PROVE  BotLines(outputs) = Gathering!Fold(<<>>, outputs)
BY Zenon DEF BotLines, FoldLeft, MapThenFoldSet, Max, Gathering!Fold, Gathering!FoldLeft,
  Gathering!MapThenFoldSet, Gathering!Max

Outputs == Seq(Int)

\* The running count of stop is the size of what was written.
LEMMA SizeAppend ==
  /\ Size(<<>>) = 0
  /\ \A log \in Seq(Outputs) : \A output : Size(Append(log, output)) = AddSize(Size(log), output)
BY SizeIsFold, Adding!FoldEmpty, Adding!FoldAppend

LEMMA BotLinesAppend ==
  /\ BotLines(<<>>) = <<>>
  /\ \A log \in Seq(Outputs) : \A output : BotLines(Append(log, output)) = AddLines(BotLines(log), output)
BY LinesIsFold, Gathering!FoldEmpty, Gathering!FoldAppend

-----------------------------------------------------------------------------
(* Where the lines of the bot are.                                         *)
Line == Nat \ {0}

\* No line is in two of five places, or twice in one.
Apart(q, h, b, c, p) ==
  /\ IsInjective(q) /\ IsInjective(h) /\ IsInjective(b) /\ IsInjective(c) /\ IsInjective(p)
  /\ Range(q) \cap Range(h) = {}
  /\ (Range(q) \cup Range(h)) \cap Range(b) = {}
  /\ (Range(q) \cup Range(h) \cup Range(b)) \cap Range(c) = {}
  /\ (Range(q) \cup Range(h) \cup Range(b) \cup Range(c)) \cap Range(p) = {}

LEMMA FivePlaces ==
  ASSUME NEW S, NEW q \in Seq(S), NEW h \in Seq(S), NEW b \in Seq(S), NEW c \in Seq(S), NEW p \in Seq(S)
  PROVE  /\ q \o h \o b \o c \o p \in Seq(S)
         /\ Range(q \o h \o b \o c \o p) = Range(q) \cup Range(h) \cup Range(b) \cup Range(c) \cup Range(p)
         /\ IsInjective(q \o h \o b \o c \o p) <=> Apart(q, h, b, c, p)
<1>1. /\ q \o h \in Seq(S) /\ Range(q \o h) = Range(q) \cup Range(h)
      /\ IsInjective(q \o h) <=> IsInjective(q) /\ IsInjective(h) /\ Range(q) \cap Range(h) = {}
  BY EndToEnd
<1> DEFINE qh == q \o h
<1> HIDE DEF qh
<1>2. /\ qh \o b \in Seq(S) /\ Range(qh \o b) = Range(qh) \cup Range(b)
      /\ IsInjective(qh \o b) <=> IsInjective(qh) /\ IsInjective(b) /\ Range(qh) \cap Range(b) = {}
  <2>1. qh \in Seq(S)
    BY <1>1 DEF qh
  <2> QED BY <2>1, EndToEnd
<1> DEFINE qhb == qh \o b
<1> HIDE DEF qhb
<1>3. /\ qhb \o c \in Seq(S) /\ Range(qhb \o c) = Range(qhb) \cup Range(c)
      /\ IsInjective(qhb \o c) <=> IsInjective(qhb) /\ IsInjective(c) /\ Range(qhb) \cap Range(c) = {}
  <2>1. qhb \in Seq(S)
    BY <1>2 DEF qhb
  <2> QED BY <2>1, EndToEnd
<1> DEFINE qhbc == qhb \o c
<1> HIDE DEF qhbc
<1>4. /\ qhbc \o p \in Seq(S) /\ Range(qhbc \o p) = Range(qhbc) \cup Range(p)
      /\ IsInjective(qhbc \o p) <=> IsInjective(qhbc) /\ IsInjective(p) /\ Range(qhbc) \cap Range(p) = {}
  <2>1. qhbc \in Seq(S)
    BY <1>3 DEF qhbc
  <2> QED BY <2>1, EndToEnd
<1>5. q \o h \o b \o c \o p = qhbc \o p
  BY DEF qhbc, qhb, qh
<1>6. Range(qh) = Range(q) \cup Range(h) /\ Range(qhb) = Range(qh) \cup Range(b) /\ Range(qhbc) = Range(qhb) \cup Range(c)
  BY <1>1, <1>2, <1>3 DEF qh, qhb, qhbc
<1>7. IsInjective(qhbc \o p) <=> Apart(q, h, b, c, p)
  <2>1. IsInjective(qh) <=> IsInjective(q) /\ IsInjective(h) /\ Range(q) \cap Range(h) = {}
    BY <1>1 DEF qh
  <2>2. IsInjective(qhb) <=> IsInjective(qh) /\ IsInjective(b) /\ Range(qh) \cap Range(b) = {}
    BY <1>2 DEF qhb
  <2>3. IsInjective(qhbc) <=> IsInjective(qhb) /\ IsInjective(c) /\ Range(qhb) \cap Range(c) = {}
    BY <1>3 DEF qhbc
  <2> QED BY <1>4, <1>6, <2>1, <2>2, <2>3 DEF Apart
<1> QED BY <1>4, <1>5, <1>6, <1>7

\* The process, its output and the log as they are at every moment.
Typed ==
  /\ TypeOK
  /\ queue \in Seq(Outputs) /\ BotLines(queue) \in Seq(Line)
  /\ held \in Seq(Line) /\ buffered \in Seq(Line) /\ collected \in Seq(Line) /\ pipe \in Seq(Line)
  /\ position \in Nat /\ seen_length \in Nat
  /\ commands \in BOOLEAN /\ connected \in BOOLEAN

\* Who can be where: before the bot is started there is no output of it, until stop
\* communicate takes none, and the pipe is open from start to end of the reading.
Phased ==
  /\ main = "build" => queue = <<>>
  /\ main \in {"build", "run"} => process = "none"
  /\ main \in {"accept", "communicate", "collected"} => process # "none"
  /\ process = "none" =>
       /\ printed = 0 /\ stdout = "closed"
       /\ BotLines(queue) = <<>> /\ held = <<>> /\ buffered = <<>> /\ pipe = <<>>
  /\ main \in {"build", "run", "accept", "play"} =>
       /\ collected = <<>>
       /\ process # "none" => stdout = "open"
  /\ stdout = "open" => main \in {"accept", "play", "communicate"}

\* The lines printed so far are apart, and complete as long as the pipe is open.
Gathered ==
  /\ Apart(BotLines(queue), held, buffered, collected, pipe)
  /\ Range(Everywhere) \subseteq 1 .. printed
  /\ stdout = "open" => Range(Everywhere) = 1 .. printed
  /\ InOrderUntilStop

\* What stop has written so far left room for one more output.
Written ==
  /\ log_file \in Seq(Outputs)
  /\ main \notin {"log", "done", "raised"} => log_file = <<>>
  /\ main = "log" => Size(log_file) \in 0 .. SIZE_LIMIT - 1
  /\ LogWithinLimit

PlayerInv == Typed /\ Phased /\ Gathered /\ Written

LEMMA LinesAreOutputs ==
  ASSUME NEW s \in Seq(Line)
  PROVE  s \in Outputs /\ IsFromBot(s)
<1>1. s \in [1 .. Len(s) -> Line] /\ Len(s) \in Nat
  BY LenProperties
<1>2. \A k \in 1 .. Len(s) : s[k] \in Int /\ s[k] > 0
  BY <1>1 DEF Line
<1> QED BY <1>1, <1>2 DEF Outputs, IsFromBot

\* What build puts into the queue is not the bot's.
LEMMA BuildPutsNoLine ==
  ASSUME Build, queue = <<>>
  PROVE  queue' \in Seq(Outputs) /\ BotLines(queue') = <<>>
<1> DEFINE built == <<BuildLine>>
           late == <<TimedOutLine>>
<1>1. <<>> \in Seq(Outputs) /\ BotLines(<<>>) = <<>>
  BY BotLinesAppend
<1>2. built \in Outputs /\ late \in Outputs /\ NoOutput \in Outputs
  BY DEF Outputs, BuildLine, TimedOutLine, NoOutput
<1>3. ~IsFromBot(built) /\ ~IsFromBot(late) /\ ~IsFromBot(NoOutput)
  BY DEF IsFromBot, BuildLine, TimedOutLine, NoOutput
<1> HIDE DEF built, late
<1>4. ASSUME NEW x \in Outputs, ~IsFromBot(x)
      PROVE  <<x>> \in Seq(Outputs) /\ BotLines(<<x>>) = <<>>
  <2>1. <<x>> = Append(<<>>, x)
    OBVIOUS
  <2>2. BotLines(<<x>>) = AddLines(BotLines(<<>>), x)
    BY <1>1, <2>1, BotLinesAppend
  <2> QED BY <1>1, <1>4, <2>2, OneElement DEF AddLines
<1>5. ASSUME NEW x \in Outputs, NEW y \in Outputs, ~IsFromBot(x), ~IsFromBot(y)
      PROVE  <<x, y>> \in Seq(Outputs) /\ BotLines(<<x, y>>) = <<>>
  <2>1. <<x>> \in Seq(Outputs) /\ BotLines(<<x>>) = <<>>
    BY <1>4, <1>5
  <2>2. <<x, y>> = Append(<<x>>, y)
    OBVIOUS
  <2>3. BotLines(<<x, y>>) = AddLines(BotLines(<<x>>), y)
    BY <2>1, <2>2, BotLinesAppend
  <2> QED BY <1>5, <2>1, <2>3 DEF AddLines
<1>6. \E outputs \in {<<>>, <<built>>, <<NoOutput, late>>, <<built, late>>} : queue' = <<>> \o outputs
  BY DEF Build, built, late
<1>7. PICK outputs \in {<<>>, <<built>>, <<NoOutput, late>>, <<built, late>>} : queue' = <<>> \o outputs
  BY <1>6
<1>8. outputs \in Seq(Outputs) /\ BotLines(outputs) = <<>>
  BY <1>1, <1>2, <1>3, <1>4, <1>5
<1>9. queue' = outputs
  BY <1>7, <1>8, ConcatEmptySeq
<1> QED BY <1>8, <1>9

\* What the thread and communicate put are lines of the bot.
LEMMA PutsLines ==
  ASSUME NEW q \in Seq(Outputs), BotLines(q) \in Seq(Line), NEW s \in Seq(Line)
  PROVE  /\ Append(q, s) \in Seq(Outputs)
         /\ BotLines(Append(q, s)) = BotLines(q) \o s
         /\ BotLines(Append(q, s)) \in Seq(Line)
<1>1. s \in Outputs /\ IsFromBot(s)
  BY LinesAreOutputs
<1>2. BotLines(Append(q, s)) = AddLines(BotLines(q), s)
  BY BotLinesAppend
<1>3. BotLines(q) \o s \in Seq(Line)
  BY EndToEnd
<1> QED BY <1>1, <1>2, <1>3, AppendProperties DEF AddLines

LEMMA TypedInductive ==
  ASSUME Typed, Phased, [Next]_vars
  PROVE  Typed'
<1>0. printed \in Nat /\ printed \in 0 .. MaxLines
  BY LimitsAssumption DEF Typed, TypeOK
<1>1. CASE Build
  <2>1. queue = <<>> /\ queue' \in Seq(Outputs) /\ BotLines(queue') = <<>>
    BY <1>1, BuildPutsNoLine DEF Build, Phased
  <2>2. position = 0 /\ Len(queue') \in Nat /\ BotLines(queue') \in Seq(Line)
    BY <2>1, LenProperties, NoElement DEF Typed, TypeOK
  <2>3. /\ main' = "run" /\ commands' \in BOOLEAN
        /\ UNCHANGED <<connected, stdout, collected, bot_side, thread_side, log_side>>
    BY <1>1 DEF Build
  <2> QED BY <2>1, <2>2, <2>3 DEF Typed, TypeOK, MainPhases, bot_side, thread_side, log_side
<1>2. CASE Run
  BY <1>2 DEF Run, Typed, TypeOK, Phased, MainPhases, log_side
<1>3. CASE Accept
  BY <1>3 DEF Accept, Typed, TypeOK, Phased, MainPhases, bot_side, thread_side, log_side
<1>4. CASE PrintLine
  <2>1. printed' \in Line /\ printed' \in 0 .. MaxLines
    BY <1>0, <1>4, LimitsAssumption DEF PrintLine, Line
  <2>2. pipe' \in Seq(Line)
    BY <1>4, <2>1, AppendProperties DEF PrintLine, Typed
  <2> QED BY <1>4, <2>1, <2>2 DEF PrintLine, Typed, TypeOK, thread_side, log_side
<1>5. CASE Exit
  BY <1>5 DEF Exit, Typed, TypeOK, thread_side, log_side
<1>6. CASE FillBuffer
  BY <1>6 DEF FillBuffer, Typed, TypeOK, log_side
<1>7. CASE NextLine
  <2>1. held' \in Seq(Line) /\ Len(held') = 1 /\ buffered' \in Seq(Line)
    BY <1>7, FirstAndRest DEF NextLine, Typed
  <2> QED BY <1>7, <2>1 DEF NextLine, Typed, TypeOK, bot_side, log_side
<1>8. CASE PutLine
  <2>1. queue' \in Seq(Outputs) /\ BotLines(queue') \in Seq(Line) /\ Len(queue') = Len(queue) + 1
    BY <1>8, PutsLines, LinesAreOutputs, AppendProperties DEF PutLine, Typed
  <2>2. held' = <<>> /\ held' \in Seq(Line) /\ Len(held') = 0
    BY <1>8 DEF PutLine
  <2>3. Len(queue) \in Nat
    BY LenProperties DEF Typed
  <2> QED BY <1>8, <2>1, <2>2, <2>3 DEF PutLine, Typed, TypeOK, bot_side, log_side
<1>9. CASE EndThread
  BY <1>9 DEF EndThread, Typed, TypeOK, bot_side, log_side
<1>10. CASE Stop
  BY <1>10, LenProperties DEF Stop, Typed, TypeOK, MainPhases, bot_side, thread_side
<1>11. CASE Collect
  BY <1>11, EndToEnd DEF Collect, Typed, TypeOK, thread_side, log_side
<1>12. CASE Collected
  BY <1>12 DEF Collected, Typed, TypeOK, MainPhases, bot_side, thread_side, log_side
<1>13. CASE Kill
  BY <1>13 DEF Kill, Typed, TypeOK, thread_side, log_side
<1>14. CASE PutCollected
  <2>1. queue' \in Seq(Outputs) /\ BotLines(queue') \in Seq(Line) /\ Len(queue') = Len(queue) + 1
    BY <1>14, PutsLines, LinesAreOutputs, AppendProperties DEF PutCollected, Typed
  <2>2. Len(queue) \in Nat
    BY LenProperties DEF Typed
  <2> QED BY <1>14, <2>1, <2>2 DEF PutCollected, Typed, TypeOK, MainPhases, bot_side, thread_side
<1>15. CASE WriteOutput
  BY <1>15 DEF WriteOutput, Typed, TypeOK, MainPhases, bot_side, thread_side
<1>16. CASE EndLog
  BY <1>16 DEF EndLog, Typed, TypeOK, MainPhases, bot_side, thread_side, log_side
<1>17. CASE RaiseMutated
  BY <1>17 DEF RaiseMutated, Typed, TypeOK, MainPhases, bot_side, thread_side, log_side
<1>18. CASE Over \/ UNCHANGED vars
  BY <1>18 DEF Over, Typed, TypeOK, vars
<1> QED BY <1>1, <1>2, <1>3, <1>4, <1>5, <1>6, <1>7, <1>8, <1>9, <1>10, <1>11, <1>12, <1>13,
           <1>14, <1>15, <1>16, <1>17, <1>18 DEF Next, Main, Listener

LEMMA PhasedInductive ==
  ASSUME Typed, Phased, [Next]_vars
  PROVE  Phased'
<1>1. CASE Build
  BY <1>1, BuildPutsNoLine DEF Build, Phased, bot_side, thread_side
<1>2. CASE Run \/ Accept \/ Collected
  BY <1>2 DEF Run, Accept, Collected, Phased, Typed, TypeOK, bot_side, thread_side
<1>3. CASE PrintLine \/ Exit \/ Kill \/ Collect
  BY <1>3 DEF PrintLine, Exit, Kill, Collect, Phased, thread_side
<1>4. CASE FillBuffer \/ NextLine \/ PutLine \/ EndThread
  BY <1>4 DEF FillBuffer, NextLine, PutLine, EndThread, Phased, Typed, TypeOK, bot_side
<1>5. CASE Stop \/ PutCollected
  BY <1>5 DEF Stop, PutCollected, Phased, bot_side, thread_side
<1>6. CASE WriteOutput \/ EndLog \/ RaiseMutated
  BY <1>6 DEF WriteOutput, EndLog, RaiseMutated, Phased, bot_side, thread_side, log_side
<1>7. CASE Over \/ UNCHANGED vars
  BY <1>7 DEF Over, vars, Phased
<1> QED BY <1>1, <1>2, <1>3, <1>4, <1>5, <1>6, <1>7 DEF Next, Main, Listener

\* How the lines may move between the places: none is lost or doubled.
LEMMA Moves ==
  ASSUME NEW q \in Seq(Line), NEW h \in Seq(Line), NEW b \in Seq(Line), NEW c \in Seq(Line),
         NEW p \in Seq(Line), Apart(q, h, b, c, p)
  PROVE  /\ h = <<>> /\ b = <<>> => Apart(q, h, p, c, <<>>)
         /\ h = <<>> /\ b # <<>> => Apart(q, <<Head(b)>>, Tail(b), c, p)
         /\ Apart(q \o h, <<>>, b, c, p)
         /\ Apart(q, h, b, c \o p, <<>>)
         /\ Apart(q \o c, h, b, <<>>, p)
         /\ Apart(q, h, <<>>, c, p)
         /\ \A n \in Line : n \notin Range(q \o h \o b \o c \o p) => Apart(q, h, b, c, Append(p, n))
<1>1. Range(<<>>) = {} /\ IsInjective(<<>>)
  BY NoElement
<1>2. h = <<>> /\ b = <<>> => Apart(q, h, p, c, <<>>)
  BY <1>1 DEF Apart
<1>3. ASSUME h = <<>>, b # <<>>
      PROVE  Apart(q, <<Head(b)>>, Tail(b), c, p)
  <2> DEFINE x == <<Head(b)>>
             y == Tail(b)
  <2>1. x \in Seq(Line) /\ y \in Seq(Line) /\ b = x \o y
    BY <1>3, FirstAndRest
  <2> HIDE DEF x, y
  <2>2. /\ Range(b) = Range(x) \cup Range(y)
        /\ IsInjective(x) /\ IsInjective(y) /\ Range(x) \cap Range(y) = {}
    BY <2>1, EndToEnd DEF Apart
  <2>3. Apart(q, x, y, c, p)
    BY <2>2 DEF Apart
  <2> QED BY <2>3 DEF x, y
<1>4. Apart(q \o h, <<>>, b, c, p)
  <2>1. Range(q \o h) = Range(q) \cup Range(h) /\ IsInjective(q \o h)
    BY EndToEnd DEF Apart
  <2> QED BY <1>1, <2>1 DEF Apart
<1>5. Apart(q, h, b, c \o p, <<>>)
  <2>1. Range(c \o p) = Range(c) \cup Range(p) /\ IsInjective(c \o p)
    BY EndToEnd DEF Apart
  <2> QED BY <1>1, <2>1 DEF Apart
<1>6. Apart(q \o c, h, b, <<>>, p)
  <2>1. Range(q \o c) = Range(q) \cup Range(c) /\ IsInjective(q \o c)
    BY EndToEnd DEF Apart
  <2> QED BY <1>1, <2>1 DEF Apart
<1>7. Apart(q, h, <<>>, c, p)
  BY <1>1 DEF Apart
<1>8. ASSUME NEW n \in Line, n \notin Range(q \o h \o b \o c \o p)
      PROVE  Apart(q, h, b, c, Append(p, n))
  <2>1. Range(Append(p, n)) = Range(p) \cup {n} /\ (IsInjective(Append(p, n)) <=> n \notin Range(p))
    <3>1. IsInjective(p)
      BY DEF Apart
    <3>2. /\ Range(Append(p, n)) = Range(p) \cup {n}
          /\ IsInjective(Append(p, n)) <=> IsInjective(p) /\ n \notin Range(p)
      BY OneMore
    <3> QED BY <3>1, <3>2
  <2>2. n \notin Range(q) \cup Range(h) \cup Range(b) \cup Range(c) \cup Range(p)
    BY <1>8, FivePlaces
  <2> QED BY <2>1, <2>2 DEF Apart
<1> QED BY <1>2, <1>3, <1>4, <1>5, <1>6, <1>7, <1>8

\* The lines that are somewhere.
Known == Range(BotLines(queue)) \cup Range(held) \cup Range(buffered) \cup Range(collected) \cup Range(pipe)

LEMMA KnownIsEverywhere ==
  ASSUME Typed
  PROVE  /\ Range(Everywhere) = Known /\ Everywhere \in Seq(Line)
         /\ Apart(BotLines(queue), held, buffered, collected, pipe) => IsInjective(Everywhere)
BY FivePlaces DEF Typed, Everywhere, Known

\* The first lines in order, and one more.
LEMMA OrderGrows ==
  ASSUME NEW n \in Nat
  PROVE  Append([k \in 1 .. n |-> k], n + 1) = [k \in 1 .. n + 1 |-> k]
OBVIOUS

LEMMA FirstLines == [k \in 1 .. 0 |-> k] = <<>>
OBVIOUS

\* In order: what is next to each other stays so.
LEMMA SameOrder ==
  ASSUME NEW q \in Seq(Line), NEW h \in Seq(Line), NEW b \in Seq(Line), NEW p \in Seq(Line)
  PROVE  /\ q \o <<>> \o <<>> \o <<>> \o p = q \o p
         /\ q \o <<>> \o p \o <<>> \o <<>> = q \o p
         /\ b # <<>> => q \o <<Head(b)>> \o Tail(b) \o <<>> \o p = q \o <<>> \o b \o <<>> \o p
         /\ q \o h \o <<>> \o b \o <<>> \o p = q \o h \o b \o <<>> \o p
         /\ \A n \in Line : q \o h \o b \o <<>> \o Append(p, n) = Append(q \o h \o b \o <<>> \o p, n)
<1>1. \A s \in Seq(Line) : s \o <<>> = s
  BY ConcatEmptySeq
<1>2. q \o h \in Seq(Line) /\ q \o h \o b \in Seq(Line) /\ q \o p \in Seq(Line) /\ q \o b \in Seq(Line)
  BY EndToEnd
<1>3. ASSUME b # <<>>
      PROVE  q \o <<Head(b)>> \o Tail(b) = q \o b
  <2>1. Head(b) \in Line /\ Tail(b) \in Seq(Line) /\ b = <<Head(b)>> \o Tail(b)
    BY <1>3, FirstAndRest
  <2>2. <<Head(b)>> \in Seq(Line)
    BY <2>1
  <2> QED BY <2>1, <2>2, ConcatAssociative
<1>4. ASSUME NEW n \in Line
      PROVE  q \o h \o b \o Append(p, n) = Append(q \o h \o b \o p, n)
  <2> DEFINE r == q \o h \o b
  <2>1. r \in Seq(Line) /\ <<n>> \in Seq(Line)
    BY <1>2, OneElement
  <2> HIDE DEF r
  <2>2. Append(p, n) = p \o <<n>>
    BY AppendIsConcat
  <2>3. r \o p \in Seq(Line)
    BY <2>1, EndToEnd
  <2>4. Append(r \o p, n) = (r \o p) \o <<n>>
    BY <2>3, AppendIsConcat
  <2>5. (r \o p) \o <<n>> = r \o (p \o <<n>>)
    BY <2>1, ConcatAssociative
  <2> QED BY <2>2, <2>4, <2>5 DEF r
<1> QED BY <1>1, <1>2, <1>3, <1>4

\* A step keeps the places as they should be if it keeps them apart, the lines in
\* range and, where it matters, complete and in order.
LEMMA StillGathered ==
  ASSUME Typed', Apart(BotLines(queue), held, buffered, collected, pipe)',
         Known' \subseteq 1 .. printed', stdout' = "open" => Known' = 1 .. printed', InOrderUntilStop'
  PROVE  Gathered'
<1>1. Range(Everywhere)' = Known'
  BY FivePlaces DEF Typed, Everywhere, Known
<1> QED BY <1>1 DEF Gathered

LEMMA GatheredInductive ==
  ASSUME Typed, Typed', Phased, Gathered, [Next]_vars
  PROVE  Gathered'
<1> DEFINE q == BotLines(queue)
           early == main \in {"build", "run", "accept", "play"}
<1>0. /\ q \in Seq(Line) /\ held \in Seq(Line) /\ buffered \in Seq(Line) /\ collected \in Seq(Line)
      /\ pipe \in Seq(Line) /\ printed \in Nat
      /\ Apart(q, held, buffered, collected, pipe)
      /\ Range(Everywhere) = Known /\ Known \subseteq 1 .. printed
      /\ stdout = "open" => Known = 1 .. printed
      /\ early => Everywhere = [k \in 1 .. printed |-> k] /\ collected = <<>>
  <2>1. /\ q \in Seq(Line) /\ held \in Seq(Line) /\ buffered \in Seq(Line) /\ collected \in Seq(Line)
        /\ pipe \in Seq(Line) /\ printed \in Nat
    BY LimitsAssumption DEF Typed, TypeOK
  <2>2. Range(Everywhere) = Known
    BY KnownIsEverywhere
  <2>3. /\ Apart(q, held, buffered, collected, pipe) /\ Known \subseteq 1 .. printed
        /\ stdout = "open" => Known = 1 .. printed
    BY <2>2 DEF Gathered
  <2>4. early => Everywhere = [k \in 1 .. printed |-> k]
    BY DEF Gathered, InOrderUntilStop
  <2>5. early => collected = <<>>
    BY DEF Phased
  <2> QED BY <2>1, <2>2, <2>3, <2>4, <2>5
<1>1. Range(<<>>) = {} /\ IsInjective(<<>>) /\ <<>> \in Seq(Line)
  BY NoElement
<1> DEFINE same == UNCHANGED <<BotLines(queue), held, buffered, collected, pipe, printed>>
<1>2. ASSUME same, stdout' = "open" => stdout = "open", early' => early
      PROVE  Gathered'
  <2>1. Everywhere' = Everywhere /\ Known' = Known
    BY <1>2 DEF Everywhere, Known
  <2> QED BY <1>0, <1>2, <2>1 DEF Gathered, InOrderUntilStop
<1>3. CASE Build
  <2>1. same
    BY <1>3, BuildPutsNoLine DEF Build, Phased, bot_side, thread_side
  <2> QED BY <1>2, <1>3, <2>1 DEF Build
<1>4. CASE Run
  <2>1. same
    BY <1>4 DEF Run
  <2>2. process = "none" /\ early
    BY <1>4 DEF Run, Phased
  <2>3. Known = {} /\ printed = 0
    BY <1>0, <1>1, <2>2 DEF Phased, Known
  <2>4. Known' = Known /\ Everywhere' = Everywhere
    BY <2>1 DEF Known, Everywhere
  <2>5. 1 .. 0 = {}
    OBVIOUS
  <2>6. InOrderUntilStop' /\ Apart(BotLines(queue), held, buffered, collected, pipe)'
    BY <1>0, <2>1, <2>2, <2>4 DEF InOrderUntilStop
  <2> QED BY <2>1, <2>3, <2>4, <2>5, <2>6, StillGathered
<1>5. CASE PrintLine
  <2>1. /\ printed' = printed + 1 /\ pipe' = Append(pipe, printed + 1)
        /\ UNCHANGED <<main, stdout, collected, queue, held, buffered>>
    BY <1>5 DEF PrintLine, thread_side
  <2>2. printed + 1 \in Line /\ printed + 1 \notin Known
    BY <1>0 DEF Line
  <2>3. Apart(BotLines(queue), held, buffered, collected, pipe)'
    BY <1>0, <2>1, <2>2, Moves DEF Everywhere
  <2>4. Known' = Known \cup {printed + 1}
    <3>1. Range(Append(pipe, printed + 1)) = Range(pipe) \cup {printed + 1}
      BY <1>0, <2>2, OneMore
    <3> QED BY <2>1, <3>1 DEF Known
  <2>5. ASSUME early'
        PROVE  Everywhere' = [k \in 1 .. printed' |-> k]
    <3>1. Everywhere' = Append(Everywhere, printed + 1)
      <4>1. \A n \in Line : q \o held \o buffered \o <<>> \o Append(pipe, n)
                             = Append(q \o held \o buffered \o <<>> \o pipe, n)
        BY <1>0, SameOrder
      <4> QED BY <1>0, <2>1, <2>2, <2>5, <4>1 DEF Everywhere
    <3> QED BY <1>0, <2>1, <2>5, <3>1, OrderGrows
  <2>6. 1 .. printed + 1 = (1 .. printed) \cup {printed + 1}
    BY <1>0
  <2>7. InOrderUntilStop'
    BY <2>5 DEF InOrderUntilStop
  <2> QED BY <1>0, <2>1, <2>3, <2>4, <2>6, <2>7, StillGathered
<1>6. CASE FillBuffer
  <2>1. /\ held = <<>> /\ buffered = <<>> /\ buffered' = pipe /\ pipe' = <<>>
        /\ UNCHANGED <<main, stdout, printed, collected, queue, held>>
    BY <1>6 DEF FillBuffer
  <2>2. Apart(BotLines(queue), held, buffered, collected, pipe)'
    BY <1>0, <2>1, Moves
  <2>3. Known' = Known
    BY <1>1, <2>1 DEF Known
  <2>4. InOrderUntilStop'
    <3>1. q \o <<>> \o pipe \o <<>> \o <<>> = q \o <<>> \o <<>> \o <<>> \o pipe
      BY <1>0, SameOrder
    <3>2. early => Everywhere' = Everywhere
      BY <1>0, <2>1, <3>1 DEF Everywhere
    <3> QED BY <1>0, <2>1, <3>2 DEF InOrderUntilStop
  <2> QED BY <1>0, <2>1, <2>2, <2>3, <2>4, StillGathered
<1>7. CASE NextLine
  <2>1. /\ held = <<>> /\ buffered # <<>> /\ held' = <<Head(buffered)>> /\ buffered' = Tail(buffered)
        /\ UNCHANGED <<main, stdout, printed, collected, queue, pipe>>
    BY <1>7 DEF NextLine, bot_side
  <2>2. Apart(BotLines(queue), held, buffered, collected, pipe)'
    BY <1>0, <2>1, Moves
  <2>3. Known' = Known
    <3>1. held' \in Seq(Line) /\ buffered' \in Seq(Line) /\ buffered = held' \o buffered'
      BY <1>0, <2>1, FirstAndRest, OneElement
    <3>2. Range(buffered) = Range(held') \cup Range(buffered')
      BY <3>1, EndToEnd
    <3> QED BY <1>1, <2>1, <3>2 DEF Known
  <2>4. InOrderUntilStop'
    <3>1. q \o <<Head(buffered)>> \o Tail(buffered) \o <<>> \o pipe = q \o <<>> \o buffered \o <<>> \o pipe
      BY <1>0, <2>1, SameOrder
    <3>2. early => Everywhere' = Everywhere
      BY <1>0, <2>1, <3>1 DEF Everywhere
    <3> QED BY <1>0, <2>1, <3>2 DEF InOrderUntilStop
  <2> QED BY <1>0, <2>1, <2>2, <2>3, <2>4, StillGathered
<1>8. CASE PutLine
  <2>1. /\ queue' = Append(queue, held) /\ held' = <<>>
        /\ UNCHANGED <<main, stdout, printed, collected, buffered, pipe>>
    BY <1>8 DEF PutLine, bot_side
  <2>2. BotLines(queue') = q \o held
    BY <1>0, <2>1, PutsLines DEF Typed
  <2>3. Apart(BotLines(queue), held, buffered, collected, pipe)'
    <3>1. Apart(q \o held, <<>>, buffered, collected, pipe)
      BY <1>0, Moves
    <3> QED BY <2>1, <2>2, <3>1
  <2>4. Known' = Known
    <3>1. Range(q \o held) = Range(q) \cup Range(held)
      BY <1>0, EndToEnd
    <3> QED BY <1>1, <2>1, <2>2, <3>1 DEF Known
  <2>5. InOrderUntilStop'
    <3>1. q \o held \o <<>> \o buffered \o <<>> \o pipe = q \o held \o buffered \o <<>> \o pipe
      BY <1>0, SameOrder
    <3>2. early => Everywhere' = Everywhere
      BY <1>0, <2>1, <2>2, <3>1 DEF Everywhere
    <3> QED BY <1>0, <2>1, <3>2 DEF InOrderUntilStop
  <2> QED BY <1>0, <2>1, <2>3, <2>4, <2>5, StillGathered
<1>9. CASE EndThread
  <2>1. /\ held = <<>> /\ buffered' = <<>>
        /\ UNCHANGED <<main, stdout, printed, collected, queue, held, pipe>>
    BY <1>9 DEF EndThread, bot_side
  <2>2. Apart(BotLines(queue), held, buffered, collected, pipe)'
    BY <1>0, <2>1, Moves
  <2>3. Known' \subseteq Known /\ (buffered = <<>> => Known' = Known /\ Everywhere' = Everywhere)
    BY <1>1, <2>1 DEF Known, Everywhere
  <2>4. stdout = "open" \/ early => buffered = <<>>
    BY <1>9 DEF EndThread, Phased
  <2>5. InOrderUntilStop'
    BY <1>0, <2>1, <2>3, <2>4 DEF InOrderUntilStop
  <2> QED BY <1>0, <2>1, <2>2, <2>3, <2>4, <2>5, StillGathered
<1>10. CASE Collect
  <2>1. /\ main = "communicate" /\ collected' = collected \o pipe /\ pipe' = <<>>
        /\ UNCHANGED <<main, stdout, printed, queue, held, buffered>>
    BY <1>10 DEF Collect, thread_side
  <2>2. Apart(BotLines(queue), held, buffered, collected, pipe)'
    BY <1>0, <2>1, Moves
  <2>3. Known' = Known
    <3>1. Range(collected \o pipe) = Range(collected) \cup Range(pipe)
      BY <1>0, EndToEnd
    <3> QED BY <1>1, <2>1, <3>1 DEF Known
  <2>4. InOrderUntilStop'
    BY <2>1 DEF InOrderUntilStop
  <2> QED BY <1>0, <2>1, <2>2, <2>3, <2>4, StillGathered
<1>11. CASE PutCollected
  <2>1. /\ main' = "log" /\ queue' = Append(queue, collected) /\ collected' = <<>>
        /\ UNCHANGED <<stdout, printed, pipe, held, buffered>>
    BY <1>11 DEF PutCollected, bot_side, thread_side
  <2>2. BotLines(queue') = q \o collected
    BY <1>0, <2>1, PutsLines DEF Typed
  <2>3. Apart(BotLines(queue), held, buffered, collected, pipe)'
    <3>1. Apart(q \o collected, held, buffered, <<>>, pipe)
      BY <1>0, Moves
    <3> QED BY <2>1, <2>2, <3>1
  <2>4. Known' = Known
    <3>1. Range(q \o collected) = Range(q) \cup Range(collected)
      BY <1>0, EndToEnd
    <3> QED BY <1>1, <2>1, <2>2, <3>1 DEF Known
  <2>5. InOrderUntilStop'
    BY <2>1 DEF InOrderUntilStop
  <2> QED BY <1>0, <2>1, <2>3, <2>4, <2>5, StillGathered
<1>12. CASE Accept \/ Exit \/ Stop \/ Collected \/ Kill
  BY <1>2, <1>12 DEF Accept, Exit, Stop, Collected, Kill, bot_side, thread_side
<1>13. CASE WriteOutput \/ EndLog \/ RaiseMutated
  BY <1>2, <1>13 DEF WriteOutput, EndLog, RaiseMutated, bot_side, thread_side
<1>14. CASE Over \/ UNCHANGED vars
  BY <1>2, <1>14 DEF Over, vars
<1> QED BY <1>3, <1>4, <1>5, <1>6, <1>7, <1>8, <1>9, <1>10, <1>11, <1>12, <1>13, <1>14
    DEF Next, Main, Listener

-----------------------------------------------------------------------------
(* The log of the player.                                                  *)
LEMMA FrontOfAppend ==
  ASSUME NEW S, NEW s \in Seq(S), NEW x \in S
  PROVE  Front(Append(s, x)) = s /\ Append(s, x) \in Seq(S)
<1> DEFINE t == Append(s, x)
<1>1. t \in Seq(S) /\ Len(t) = Len(s) + 1 /\ \A k \in 1 .. Len(s) : t[k] = s[k]
  BY AppendProperties
<1>2. Len(s) \in Nat
  BY LenProperties
<1> HIDE DEF t
<1>3. Front(t) = SubSeq(t, 1, Len(s))
  BY <1>1, <1>2 DEF Front
<1>4. SubSeq(t, 1, Len(s)) = s
  BY <1>1, <1>2
<1> QED BY <1>1, <1>3, <1>4 DEF t

LEMMA WrittenInductive ==
  ASSUME Typed, Phased, Written, [Next]_vars
  PROVE  Written'
<1>0. SIZE_LIMIT \in Nat \ {0} /\ log_file \in Seq(Outputs)
  BY LimitsAssumption DEF Written
<1>1. CASE WriteOutput
  <2> DEFINE output == queue[position']
  <2>1. output \in Outputs
    <3>1. position' \in 1 .. Len(queue)
      BY <1>1, LenProperties DEF WriteOutput, Typed
    <3> QED BY <3>1, ElementOfSeq DEF Typed
  <2>2. /\ main = "log" /\ Size(log_file) \in 0 .. SIZE_LIMIT - 1
        /\ log_file' = IF output = NoOutput THEN log_file ELSE Append(log_file, output)
        /\ main' = IF output # NoOutput /\ Full(log_file') THEN "done" ELSE main
    BY <1>1 DEF WriteOutput, Written
  <2> HIDE DEF output
  <2>3. CASE output = NoOutput
    BY <2>2, <2>3 DEF Written, LogWithinLimit
  <2>4. CASE output # NoOutput
    <3>1. log_file' \in Seq(Outputs) /\ Front(log_file') = log_file
      BY <1>0, <2>1, <2>2, <2>4, FrontOfAppend
    <3>2. Size(log_file') = Size(log_file) + Len(output)
      BY <1>0, <2>2, <2>4, SizeAppend DEF AddSize
    <3>3. Len(output) \in Nat
      BY <2>1, LenProperties DEF Outputs
    <3>4. main' = "log" => Size(log_file') \in 0 .. SIZE_LIMIT - 1
      BY <1>0, <2>2, <2>4, <3>2, <3>3 DEF Full
    <3>5. LogWithinLimit'
      BY <1>0, <2>2, <3>1 DEF LogWithinLimit
    <3>6. main' \in {"log", "done"}
      BY <2>2
    <3> QED BY <3>1, <3>4, <3>5, <3>6 DEF Written
  <2> QED BY <2>3, <2>4
<1>2. CASE Stop \/ PutCollected
  <2>1. log_file = <<>> /\ log_file' = log_file
    BY <1>2 DEF Stop, PutCollected, Written
  <2>2. Size(log_file') = 0
    BY <2>1, SizeAppend
  <2> QED BY <1>0, <2>1, <2>2 DEF Written, LogWithinLimit
<1>3. ASSUME UNCHANGED <<log_file>>, main' = "log" => main = "log",
             main \in {"log", "done", "raised"} => main' \in {"log", "done", "raised"}
      PROVE  Written'
  BY <1>3 DEF Written, LogWithinLimit
<1>4. CASE Build \/ Run \/ Accept \/ Collect \/ Collected \/ Kill
  BY <1>3, <1>4 DEF Build, Run, Accept, Collect, Collected, Kill, log_side
<1>5. CASE EndLog \/ RaiseMutated
  BY <1>3, <1>5 DEF EndLog, RaiseMutated, log_side
<1>6. CASE Listener \/ PrintLine \/ Exit
  BY <1>3, <1>6 DEF Listener, FillBuffer, NextLine, PutLine, EndThread, PrintLine, Exit, log_side
<1>7. CASE Over \/ UNCHANGED vars
  BY <1>3, <1>7 DEF Over, vars
<1> QED BY <1>1, <1>2, <1>4, <1>5, <1>6, <1>7 DEF Next, Main

-----------------------------------------------------------------------------
(* A process from its start to the end of the engine.                      *)
LEMMA PlayerInvInitially == Init => PlayerInv
<1> SUFFICES ASSUME Init PROVE PlayerInv
  OBVIOUS
<1>1. <<>> \in Seq(Line) /\ <<>> \in Seq(Outputs) /\ Range(<<>>) = {} /\ IsInjective(<<>>)
  BY NoElement
<1>2. BotLines(queue) = <<>>
  BY BotLinesAppend DEF Init
<1>3. Typed
  <2>1. Len(<<>>) = 0 /\ 0 \in 0 .. MaxLines
    BY LimitsAssumption
  <2>2. TypeOK
    BY <2>1 DEF Init, TypeOK, MainPhases
  <2> QED BY <1>1, <1>2, <2>2 DEF Init, Typed
<1>4. Phased
  BY <1>2 DEF Init, Phased
<1>5. Everywhere = <<>>
  <2>1. <<>> \o <<>> \o <<>> \o <<>> \o <<>> = <<>>
    OBVIOUS
  <2> QED BY <1>2, <2>1 DEF Init, Everywhere
<1>6. Gathered
  <2>1. [k \in 1 .. 0 |-> k] = <<>>
    BY FirstLines
  <2> QED BY <1>1, <1>2, <1>5, <2>1 DEF Init, Gathered, Apart, InOrderUntilStop
<1>7. Written
  BY <1>1 DEF Init, Written, LogWithinLimit
<1> QED BY <1>3, <1>4, <1>6, <1>7 DEF PlayerInv

LEMMA PlayerInvInductive ==
  ASSUME PlayerInv, [Next]_vars
  PROVE  PlayerInv'
<1>1. Typed' /\ Phased'
  BY TypedInductive, PhasedInductive DEF PlayerInv
<1>2. Gathered' /\ Written'
  BY <1>1, GatheredInductive, WrittenInductive DEF PlayerInv
<1> QED BY <1>1, <1>2 DEF PlayerInv

\* In a batch the process takes steps of its own or is a new one.
LEMMA ProcessOfABatch ==
  ASSUME [BatchNext]_batchVars
  PROVE  [Next]_vars \/ NewEngine
<1>1. EnginePlays => Next
  BY DEF EnginePlays, Next, Main
<1>2. OthersMove => Next
  BY DEF OthersMove, Next
<1>3. GameOver => Next
  BY DEF GameOver, Next, Main
<1>4. StartEngine => NewEngine
  BY DEF StartEngine
<1>5. EngineEnds \/ ReadLog \/ NoLog \/ Train => UNCHANGED vars
  BY DEF EngineEnds, ReadLog, NoLog, Train
<1>6. BatchOver \/ UNCHANGED batchVars => UNCHANGED vars
  BY DEF BatchOver, batchVars
<1> QED BY <1>1, <1>2, <1>3, <1>4, <1>5, <1>6 DEF BatchNext, BatchSteps

LEMMA NewEngineIsInit == NewEngine => Init'
BY DEF NewEngine, Init

LEMMA ProcessesAreSound == BatchSpec => []PlayerInv
<1>1. BatchInit => PlayerInv
  BY PlayerInvInitially DEF BatchInit
<1>2. (Init => PlayerInv)'
  BY PlayerInvInitially, PTL
<1>3. PlayerInv /\ [BatchNext]_batchVars => PlayerInv'
  BY <1>2, ProcessOfABatch, PlayerInvInductive, NewEngineIsInit
<1> QED BY <1>1, <1>3, PTL DEF BatchSpec

\* The two threads that read the bot's output never take a line twice,
THEOREM NoLineTwice == BatchSpec => []NothingTwice
<1>1. PlayerInv => NothingTwice
  BY KnownIsEverywhere DEF PlayerInv, Gathered, NothingTwice, IsInjective
<1> QED BY <1>1, ProcessesAreSound, PTL

\* none is lost while the pipe is open,
THEOREM NoLineLost == BatchSpec => []NothingLostWhileOpen
<1>1. PlayerInv => NothingLostWhileOpen
  BY DEF PlayerInv, Gathered, NothingLostWhileOpen, Range
<1> QED BY <1>1, ProcessesAreSound, PTL

\* and during the match the log has them in the order they were printed in.
THEOREM LinesInOrder == BatchSpec => []InOrderUntilStop
<1>1. PlayerInv => InOrderUntilStop
  BY DEF PlayerInv, Gathered
<1> QED BY <1>1, ProcessesAreSound, PTL

\* Only the last output can take the log of a player over its limit, whichever
\* outputs were put into the queue and however often the thread changed it.
THEOREM LogIsLimited == BatchSpec => []LogWithinLimit
<1>1. PlayerInv => LogWithinLimit
  BY DEF PlayerInv, Written
<1> QED BY <1>1, ProcessesAreSound, PTL

-----------------------------------------------------------------------------
(* The results of a batch.                                                 *)
Outcome == [new : Int, written : BOOLEAN]
ResultLine == [scores : Seq(Int), run : Nat]

\* The line says what the run it is of has come to, or is the one the batch found.
IsTrue(line) ==
  IF line.run = 0 THEN found = <<line>>
  ELSE outcomes[line.run].written /\ line.scores = <<outcomes[line.run].new, -outcomes[line.run].new>>

\* The line is that of the last run that wrote the game log, if any.
IsLast(line) ==
  /\ line.run <= Len(outcomes) /\ IsTrue(line)
  /\ \A later \in line.run + 1 .. Len(outcomes) : ~outcomes[later].written

Counted ==
  /\ loop \in {"starting", "running", "reading", "ended", "died"}
  /\ script \in {"compare", "train"}
  /\ i \in 1 .. ITERATIONS + 1 /\ (loop \in {"running", "reading", "died"} => i <= ITERATIONS)
  /\ bankroll \in Int
  /\ outcomes \in Seq(Outcome) /\ scores \in Seq(ResultLine)
  /\ Len(outcomes) = IF loop \in {"reading", "died"} THEN i ELSE i - 1
  /\ Len(scores) = IF script = "compare" THEN i - 1 ELSE 0
  /\ gamelog = <<>> \/ \E line \in ResultLine : gamelog = <<line>> /\ IsLast(line)
  /\ StaleOnlyAfterFailure

\* What the property says of the n-th result.
IsSound(n) ==
  /\ scores[n].run \in 0 .. n /\ IsTrue(scores[n])
  /\ \A later \in scores[n].run + 1 .. n : ~outcomes[later].written

LEMMA ResultsAre == StaleOnlyAfterFailure <=> \A n \in DOMAIN scores : IsSound(n)
<1>1. ASSUME NEW n
      PROVE  IsSound(n) <=>
               LET run == scores[n].run
               IN  /\ run \in 0 .. n
                   /\ \A later \in run + 1 .. n : ~outcomes[later].written
                   /\ IF run = 0 THEN found = <<scores[n]>>
                      ELSE outcomes[run].written /\ scores[n].scores = <<outcomes[run].new, -outcomes[run].new>>
  BY Zenon DEF IsSound, IsTrue
<1> QED BY <1>1, Zenon DEF StaleOnlyAfterFailure

\* After an even number of rounds New is first again in the final status.
LEMMA LastLineIsOfThisRun ==
  ASSUME Counted
  PROVE  LastLine \in ResultLine /\ LastLine.run = i /\ LastLine.scores = <<bankroll, -bankroll>>
<1>1. FinalStatus(<<bankroll, -bankroll>>) = <<bankroll, -bankroll>>
  BY BatchAssumption DEF FinalStatus
<1>2. <<bankroll, -bankroll>> \in Seq(Int) /\ i \in Nat \ {0}
  BY BatchAssumption DEF Counted
<1> QED BY <1>1, <1>2 DEF LastLine, ResultLine

LEMMA CountedInductive ==
  ASSUME Counted, [BatchNext]_batchVars
  PROVE  Counted'
<1>0. ITERATIONS \in Nat \ {0} /\ i \in Nat \ {0} /\ Len(outcomes) \in Nat /\ Len(scores) \in Nat
  BY BatchAssumption, LenProperties DEF Counted
<1>a. (StaleOnlyAfterFailure <=> \A n \in DOMAIN scores : IsSound(n))'
  BY ResultsAre, PTL
<1>1. ASSUME UNCHANGED batch_side, bankroll' \in Int
      PROVE  Counted'
  <2>1. StaleOnlyAfterFailure'
    BY <1>1 DEF batch_side, Counted, StaleOnlyAfterFailure
  <2> QED BY <1>1, <2>1 DEF batch_side, Counted, IsLast, IsTrue
<1>2. CASE StartEngine
  <2>1. StaleOnlyAfterFailure'
    BY <1>2 DEF StartEngine, Counted, StaleOnlyAfterFailure
  <2> QED BY <1>0, <1>2, <2>1 DEF StartEngine, Counted, IsLast, IsTrue
<1>3. CASE GameOver
  BY <1>1, <1>3, BatchAssumption DEF GameOver
<1>4. CASE EnginePlays \/ OthersMove
  BY <1>1, <1>4 DEF EnginePlays, OthersMove, Counted
<1>5. CASE EngineEnds
  <2>1. PICK written \in BOOLEAN :
          /\ gamelog' = IF written THEN <<LastLine>> ELSE gamelog
          /\ outcomes' = Append(outcomes, [new |-> bankroll, written |-> written])
    BY <1>5 DEF EngineEnds
  <2> DEFINE last == [new |-> bankroll, written |-> written]
  <2>2. last \in Outcome
    BY DEF Counted, Outcome
  <2>3. loop = "running" /\ loop' = "reading" /\ UNCHANGED <<bankroll, script, i, scores, found>>
    BY <1>5 DEF EngineEnds
  <2>4. Len(outcomes) = i - 1
    BY <2>3 DEF Counted
  <2>5. /\ outcomes' \in Seq(Outcome) /\ Len(outcomes') = i /\ outcomes'[i] = last
        /\ \A n \in 1 .. i - 1 : outcomes'[n] = outcomes[n]
    BY <1>0, <2>1, <2>2, <2>4, AppendProperties DEF Counted
  <2> HIDE DEF last
  <2>6. StaleOnlyAfterFailure'
    <3>1. ASSUME NEW n \in DOMAIN scores PROVE IsSound(n)'
      <4>1. n \in 1 .. i - 1 /\ scores[n].run \in Nat
        <5>1. DOMAIN scores = 1 .. Len(scores) /\ scores[n] \in ResultLine
          BY LenProperties, ElementOfSeq DEF Counted
        <5>2. Len(scores) <= i - 1
          BY <1>0 DEF Counted
        <5> QED BY <1>0, <5>1, <5>2 DEF ResultLine
      <4>2. /\ scores[n].run \in 0 .. n /\ IsTrue(scores[n])
            /\ \A later \in scores[n].run + 1 .. n : ~outcomes[later].written
        BY ResultsAre DEF Counted, IsSound
      <4>3. /\ scores[n].run = 0 \/ scores[n].run \in 1 .. i - 1
            /\ \A later \in scores[n].run + 1 .. n : later \in 1 .. i - 1
        BY <1>0, <4>1, <4>2
      <4>4. IsTrue(scores[n])'
        BY <2>3, <2>5, <4>2, <4>3 DEF IsTrue
      <4> QED BY <2>3, <2>5, <4>2, <4>3, <4>4 DEF IsSound
    <3> QED BY <1>a, <2>3, <3>1
  <2>7. gamelog' = <<>> \/ \E line \in ResultLine : gamelog' = <<line>> /\ IsLast(line)'
    <3>1. CASE written
      <4>1. outcomes'[i] = [new |-> bankroll, written |-> TRUE]
        BY <2>5, <3>1 DEF last
      <4>2. \A later \in i + 1 .. i : FALSE
        BY <1>0
      <4>3. PICK line \in ResultLine : /\ gamelog' = <<line>> /\ line.run = i
                                      /\ line.scores = <<bankroll, -bankroll>>
        BY <2>1, <3>1, LastLineIsOfThisRun
      <4>4. IsLast(line)'
        BY <1>0, <2>5, <4>1, <4>2, <4>3 DEF IsLast, IsTrue
      <4> QED BY <4>3, <4>4
    <3>2. CASE ~written
      <4>1. outcomes'[i].written = FALSE
        BY <2>5, <3>2 DEF last
      <4>2. ASSUME NEW line \in ResultLine, IsLast(line)
            PROVE  IsLast(line)'
        <5>1. line.run \in 0 .. i - 1
          BY <1>0, <2>4, <4>2 DEF IsLast, ResultLine
        <5>2. \A later \in line.run + 1 .. i : ~outcomes'[later].written
          <6> SUFFICES ASSUME NEW later \in line.run + 1 .. i PROVE ~outcomes'[later].written
            OBVIOUS
          <6>1. CASE later = i
            BY <4>1, <6>1
          <6>2. CASE later # i
            BY <1>0, <2>4, <2>5, <4>2, <5>1, <6>2 DEF IsLast
          <6> QED BY <6>1, <6>2
        <5>3. IsTrue(line)'
          <6>1. line.run = 0 \/ line.run \in 1 .. i - 1
            BY <1>0, <5>1
          <6> QED BY <2>3, <2>5, <4>2, <6>1 DEF IsLast, IsTrue
        <5> QED BY <1>0, <2>5, <5>1, <5>2, <5>3 DEF IsLast
      <4> QED BY <2>1, <3>2, <4>2 DEF Counted
    <3> QED BY <3>1, <3>2
  <2> QED BY <1>0, <2>3, <2>5, <2>6, <2>7 DEF Counted
<1>6. CASE ReadLog
  <2>1. PICK line \in ResultLine : gamelog = <<line>> /\ IsLast(line)
    BY <1>6 DEF ReadLog, Counted
  <2>2. gamelog[1] = line
    BY <2>1
  <2>3. /\ scores' = Append(scores, line)
        /\ UNCHANGED <<bankroll, script, gamelog, outcomes, found>>
        /\ i' = i + 1 /\ loop' \in {"ended", "starting"}
        /\ loop = "reading" /\ script = "compare"
    BY <1>6, <2>2 DEF ReadLog, NextIteration
  <2>4. Len(outcomes) = i /\ Len(scores) = i - 1 /\ i <= ITERATIONS
    BY <2>3 DEF Counted
  <2>5. /\ scores' \in Seq(ResultLine) /\ Len(scores') = i /\ scores'[i] = line
        /\ \A n \in 1 .. i - 1 : scores'[n] = scores[n]
    BY <1>0, <2>3, <2>4, AppendProperties DEF Counted
  <2>6. DOMAIN scores = 1 .. i - 1 /\ DOMAIN scores' = 1 .. i
    BY <2>4, <2>5, LenProperties DEF Counted
  <2>7. StaleOnlyAfterFailure'
    <3>1. ASSUME NEW n \in 1 .. i PROVE IsSound(n)'
      <4>1. CASE n = i
        <5>1. scores'[n] = line /\ line.run \in 0 .. i
          BY <1>0, <2>1, <2>4, <2>5, <4>1 DEF IsLast, ResultLine
        <5> QED BY <2>1, <2>3, <2>4, <4>1, <5>1 DEF IsLast, IsTrue, IsSound
      <4>2. CASE n # i
        <5>1. n \in 1 .. i - 1
          BY <1>0, <4>2
        <5>2. scores'[n] = scores[n] /\ n \in DOMAIN scores
          BY <2>5, <2>6, <5>1
        <5>3. IsSound(n)
          BY <5>2, ResultsAre DEF Counted
        <5> QED BY <2>3, <5>2, <5>3 DEF IsSound, IsTrue
      <4> QED BY <4>1, <4>2
    <3> QED BY <1>a, <2>6, <3>1
  <2>8. IsLast(line)'
    BY <2>1, <2>3 DEF IsLast, IsTrue
  <2>9. gamelog' = <<>> \/ \E l \in ResultLine : gamelog' = <<l>> /\ IsLast(l)'
    BY <2>1, <2>3, <2>8
  <2> QED BY <1>0, <2>3, <2>4, <2>5, <2>7, <2>9, BatchAssumption DEF Counted
<1>7. CASE NoLog
  <2>1. StaleOnlyAfterFailure'
    BY <1>7 DEF NoLog, Counted, StaleOnlyAfterFailure
  <2> QED BY <1>7, <2>1 DEF NoLog, Counted, IsLast, IsTrue
<1>8. CASE Train
  <2>1. StaleOnlyAfterFailure'
    BY <1>8 DEF Train, Counted, StaleOnlyAfterFailure
  <2>2. i' = i + 1 /\ loop' \in {"ended", "starting"} /\ i' \in 1 .. ITERATIONS + 1
    BY <1>0, <1>8 DEF Train, NextIteration, Counted
  <2> QED BY <1>0, <1>8, <2>1, <2>2 DEF Train, Counted, IsLast, IsTrue
<1>9. CASE BatchOver \/ UNCHANGED batchVars
  BY <1>1, <1>9 DEF BatchOver, batchVars, Counted
<1> QED
  BY <1>2, <1>3, <1>4, <1>5, <1>6, <1>7, <1>8, <1>9 DEF BatchNext, BatchSteps

LEMMA BatchIsCounted == BatchSpec => []Counted
<1>1. BatchInit => Counted
  <2> SUFFICES ASSUME BatchInit PROVE Counted
    OBVIOUS
  <2>1. StaleOnlyAfterFailure
    BY DEF BatchInit, StaleOnlyAfterFailure
  <2>2. Len(<<>>) = 0 /\ \A later \in 1 .. 0 : FALSE
    OBVIOUS
  <2>3. gamelog = <<>> \/ \E line \in ResultLine : gamelog = <<line>> /\ IsLast(line)
    <3> SUFFICES ASSUME gamelog # <<>>
                 PROVE  \E line \in ResultLine : gamelog = <<line>> /\ IsLast(line)
      OBVIOUS
    <3>1. PICK b \in OldBankrolls : found = <<[scores |-> <<b, -b>>, run |-> 0]>> /\ gamelog = found
      BY DEF BatchInit, LeftBehind
    <3> DEFINE line == [scores |-> <<b, -b>>, run |-> 0]
    <3>2. b \in Int /\ -b \in Int
      BY BatchAssumption
    <3>3. line \in ResultLine /\ line.run = 0
      BY <3>2 DEF ResultLine
    <3>4. found = <<line>> /\ gamelog = <<line>>
      BY <3>1
    <3> HIDE DEF line
    <3>5. outcomes = <<>>
      BY DEF BatchInit
    <3>6. line.run + 1 = 1
      BY <3>3
    <3>7. IsLast(line)
      BY <2>2, <3>3, <3>4, <3>5, <3>6 DEF IsLast, IsTrue
    <3> QED BY <3>3, <3>4, <3>7
  <2> QED BY <2>1, <2>2, <2>3, BatchAssumption DEF BatchInit, Counted
<1>2. Counted /\ [BatchNext]_batchVars => Counted'
  BY CountedInductive
<1> QED BY <1>1, <1>2, PTL DEF BatchSpec

\* compare counts each run's result for the right player, or, when the run has left no
\* log, that of the last run that did, or of the log the batch found when none has.
THEOREM ResultsAreOfTheLastLog == BatchSpec => []StaleOnlyAfterFailure
<1>1. Counted => StaleOnlyAfterFailure
  BY DEF Counted
<1> QED BY <1>1, BatchIsCounted, PTL

\* The loop and the process it runs are well formed.
THEOREM BatchTypeCorrect == BatchSpec => []BatchTypeOK
<1>1. PlayerInv => TypeOK
  BY DEF PlayerInv, Typed
<1>2. Counted => BatchTypeOK \/ ~TypeOK
  <2> SUFFICES ASSUME Counted PROVE BatchTypeOK \/ ~TypeOK
    OBVIOUS
  <2>1. i \in Nat /\ Len(gamelog) <= 1
    <3>1. CASE gamelog = <<>>
      <4>1. Len(gamelog) = 0
        BY <3>1
      <4> QED BY <4>1, BatchAssumption DEF Counted
    <3>2. ASSUME NEW line, gamelog = <<line>>
          PROVE  i \in Nat /\ Len(gamelog) <= 1
      <4>1. Len(gamelog) = 1
        BY <3>2
      <4> QED BY <4>1, BatchAssumption DEF Counted
    <3> QED BY <3>1, <3>2 DEF Counted
  <2>2. Len(outcomes) \in {i - 1, i}
    BY DEF Counted
  <2>3. script = "train" => scores = <<>>
    BY EmptySeq DEF Counted
  <2> QED BY <2>1, <2>2, <2>3 DEF BatchTypeOK, Counted
<1> QED BY <1>1, <1>2, ProcessesAreSound, BatchIsCounted, PTL
=============================================================================
