----------------------------- MODULE PlayerProcess -----------------------------
(***************************************************************************)
(* The life of one bot process under the engine, and what becomes of its   *)
(* output: Player.build, Player.run with its listening thread, and         *)
(* Player.stop.  The engine's main thread, the listening thread and the    *)
(* bot run concurrently; the thread and, at the end, communicate read the  *)
(* same pipe, and the thread may still put lines into bytes_queue while    *)
(* stop walks through it.                                                  *)
(*                                                                         *)
(* A line of output is its number; an output, what one put hands to the    *)
(* queue, is a sequence of lines, or NoOutput for the None of a build that *)
(* timed out silently.  A line stands for one byte of the size limit.      *)
(***************************************************************************)
EXTENDS Integers, FiniteSets, SequencesExt

CONSTANTS
  MaxLines,    \* bound on the lines the bot prints
  SIZE_LIMIT   \* PLAYER_LOG_SIZE_LIMIT

ASSUME LimitsAssumption == MaxLines \in Nat /\ SIZE_LIMIT \in Nat \ {0}

BuildLine == -1      \* what the build command prints
TimedOutLine == -2   \* the error message put after a build that timed out
NoOutput == <<0>>   \* the None of a build that printed nothing before its timeout

VARIABLES
  main,        \* the engine's main thread: see MainPhases
  commands,    \* Player.commands is not None
  connected,   \* Player.socketfile is not None
  process,     \* bot_subprocess: "none", "running", "exited"
  printed,     \* how many lines the bot has printed
  pipe,        \* lines in the stdout pipe
  stdout,      \* proc.stdout: "open", "closed" (by communicate)
  listener,    \* the listening thread: "none", "reading", "ended"
  buffered,    \* lines the thread's reader has taken from the pipe
  held,        \* the line the thread has read and not yet put: <<>> or <<line>>
  collected,   \* lines communicate has taken from the pipe
  queue,       \* bytes_queue.queue
  position,    \* outputs of the queue stop has been through
  seen_length, \* length of the queue when the walk through it began
  log_file     \* outputs written to the player's log

vars == <<main, commands, connected, process, printed, pipe, stdout, listener, buffered,
          held, collected, queue, position, seen_length, log_file>>
bot_side == <<process, printed, pipe>>
thread_side == <<listener, buffered, held>>
log_side == <<position, seen_length, log_file>>

\* raised: the main thread died of an uncaught RuntimeError.
MainPhases == {"build", "run", "accept", "play", "communicate", "collected", "log", "done", "raised"}

Init ==
  /\ main = "build"
  /\ commands = FALSE /\ connected = FALSE
  /\ process = "none" /\ printed = 0
  /\ pipe = <<>> /\ stdout = "closed"
  /\ listener = "none" /\ buffered = <<>> /\ held = <<>>
  /\ collected = <<>>
  /\ queue = <<>> /\ position = 0 /\ seen_length = 0 /\ log_file = <<>>

-----------------------------------------------------------------------------
(* Player.build and Player.run.                                            *)

\* commands.json may be missing or misformatted.  The build command may fail to
\* start (nothing is put), end, or time out; the bot is run in each case.
Build ==
  /\ main = "build"
  /\ main' = "run"
  /\ \/ commands' = FALSE /\ UNCHANGED queue
     \/ /\ commands' = TRUE
        /\ \E outputs \in {<<>>, << <<BuildLine>> >>, <<NoOutput, <<TimedOutLine>> >>,
                           << <<BuildLine>>, <<TimedOutLine>> >>} :
             queue' = queue \o outputs
  /\ UNCHANGED <<connected, stdout, collected, bot_side, thread_side, log_side>>

\* Mutant: a bot that cannot be started is waited for all the same.
Run_without_return ==
  /\ main = "run"
  /\ \/ /\ commands
        /\ process' = "running" /\ stdout' = "open" /\ listener' = "reading"
     \/ UNCHANGED <<process, stdout, listener>>
  /\ main' = "accept"
  /\ UNCHANGED <<commands, connected, printed, pipe, buffered, held, collected, queue, log_side>>

\* The bot is started with a thread listening to it, or cannot be started.
Run ==
  /\ main = "run"
  /\ \/ /\ commands
        /\ process' = "running" /\ stdout' = "open" /\ listener' = "reading"
        /\ main' = "accept"
     \/ /\ main' = "play"
        /\ UNCHANGED <<process, stdout, listener>>
  /\ UNCHANGED <<commands, connected, printed, pipe, buffered, held, collected, queue, log_side>>

\* accept returns, or times out: the process is then left running unconnected.
Accept ==
  /\ main = "accept"
  /\ connected' \in BOOLEAN
  /\ main' = "play"
  /\ UNCHANGED <<commands, stdout, collected, queue, bot_side, thread_side, log_side>>

-----------------------------------------------------------------------------
(* The bot prints and exits when it likes; the kernel drops nothing.       *)
PrintLine ==
  /\ process = "running"
  /\ printed < MaxLines
  /\ printed' = printed + 1
  /\ pipe' = Append(pipe, printed')
  /\ UNCHANGED <<main, commands, connected, process, stdout, collected, queue, thread_side, log_side>>

Exit ==
  /\ process = "running"
  /\ process' = "exited"
  /\ UNCHANGED <<main, commands, connected, printed, pipe, stdout, collected, queue,
                 thread_side, log_side>>

-----------------------------------------------------------------------------
(* The listening thread: for line in out: queue.put(line).                 *)
AtEOF == process = "exited" /\ pipe = <<>>

\* The reader takes all the pipe holds at once, up to its buffer size.
FillBuffer ==
  /\ listener = "reading" /\ stdout = "open"
  /\ held = <<>> /\ buffered = <<>> /\ pipe # <<>>
  /\ buffered' = pipe
  /\ pipe' = <<>>
  /\ UNCHANGED <<main, commands, connected, process, printed, stdout, listener, held,
                 collected, queue, log_side>>

NextLine ==
  /\ listener = "reading" /\ stdout = "open"
  /\ held = <<>> /\ buffered # <<>>
  /\ held' = <<Head(buffered)>>
  /\ buffered' = Tail(buffered)
  /\ UNCHANGED <<main, commands, connected, stdout, listener, collected, queue, bot_side, log_side>>

\* Mutant: the line is put again before the next one is read.
PutLine_twice ==
  /\ listener = "reading"
  /\ held # <<>>
  /\ queue' = queue \o <<held, held>>
  /\ held' = <<>>
  /\ UNCHANGED <<main, commands, connected, stdout, listener, buffered, collected, bot_side, log_side>>

\* Mutant: the queue is bounded and a put that finds it full is given up.
PutLine_dropped ==
  /\ listener = "reading"
  /\ held # <<>>
  /\ queue' = IF Len(queue) < SIZE_LIMIT THEN Append(queue, held) ELSE queue
  /\ held' = <<>>
  /\ UNCHANGED <<main, commands, connected, stdout, listener, buffered, collected, bot_side, log_side>>

\* Mutant: the queue is last in, first out.
PutLine_lifo ==
  /\ listener = "reading"
  /\ held # <<>>
  /\ queue' = <<held>> \o queue
  /\ held' = <<>>
  /\ UNCHANGED <<main, commands, connected, stdout, listener, buffered, collected, bot_side, log_side>>

PutLine ==
  /\ listener = "reading"
  /\ held # <<>>
  /\ queue' = Append(queue, held)
  /\ held' = <<>>
  /\ UNCHANGED <<main, commands, connected, stdout, listener, buffered, collected, bot_side, log_side>>

\* End of file, or the ValueError of reading a file communicate has closed: what
\* was still buffered is lost.
EndThread ==
  /\ listener = "reading"
  /\ held = <<>>
  /\ stdout = "closed" \/ (AtEOF /\ buffered = <<>>)
  /\ listener' = "ended"
  /\ buffered' = <<>>
  /\ UNCHANGED <<main, commands, connected, stdout, held, collected, queue, bot_side, log_side>>

-----------------------------------------------------------------------------
(* Player.stop.                                                            *)

\* The match is over: Q is written, which changes nothing here whether it
\* arrives or not, and the process is awaited if there is one.
Stop ==
  /\ main = "play"
  /\ main' = IF process = "none" THEN "log" ELSE "communicate"
  /\ seen_length' = IF process = "none" THEN Len(queue) ELSE seen_length
  /\ UNCHANGED <<commands, connected, stdout, collected, queue, bot_side, thread_side,
                 position, log_file>>

\* communicate reads the pipe alongside the thread.
Collect ==
  /\ main = "communicate"
  /\ pipe # <<>>
  /\ collected' = collected \o pipe
  /\ pipe' = <<>>
  /\ UNCHANGED <<main, commands, connected, process, printed, stdout, queue, thread_side, log_side>>

\* It returns at end of file, with the file closed.
Collected ==
  /\ main = "communicate"
  /\ AtEOF
  /\ stdout' = "closed"
  /\ main' = "collected"
  /\ UNCHANGED <<commands, connected, collected, queue, bot_side, thread_side, log_side>>

\* Mutant: the process is not killed when communicate times out.
Kill_forgotten == main = "killed" /\ UNCHANGED vars

\* communicate times out: the bot is killed and communicate is called again.
Kill ==
  /\ main = "communicate"
  /\ process = "running"
  /\ process' = "exited"
  /\ UNCHANGED <<main, commands, connected, printed, pipe, stdout, collected, queue,
                 thread_side, log_side>>

PutCollected ==
  /\ main = "collected"
  /\ queue' = Append(queue, collected)
  /\ collected' = <<>>
  /\ seen_length' = Len(queue')
  /\ main' = "log"
  /\ UNCHANGED <<commands, connected, stdout, bot_side, thread_side, position, log_file>>

\* bytes_written: write raises TypeError for a None and nothing is added.
AddSize(bytes_written, output) ==
  IF output = NoOutput THEN bytes_written ELSE bytes_written + Len(output)

Size(outputs) == FoldLeft(AddSize, 0, outputs)

\* Mutant: the size of the log is compared before the output is added.
Full_before(log) == IF log = <<>> THEN FALSE ELSE Size(Front(log)) >= SIZE_LIMIT

Full(log) == Size(log) >= SIZE_LIMIT

\* One turn of the loop over bytes_queue.queue.  The iterator of a deque raises
\* RuntimeError once the deque has changed; stop catches only the TypeError of
\* writing None.
WriteOutput ==
  /\ main = "log"
  /\ Len(queue) = seen_length
  /\ position < seen_length
  /\ position' = position + 1
  /\ log_file' = IF queue[position'] = NoOutput THEN log_file ELSE Append(log_file, queue[position'])
  /\ main' = IF queue[position'] # NoOutput /\ Full(log_file') THEN "done" ELSE main
  /\ UNCHANGED <<commands, connected, stdout, collected, queue, seen_length, bot_side, thread_side>>

EndLog ==
  /\ main = "log"
  /\ Len(queue) = seen_length
  /\ position = seen_length
  /\ main' = "done"
  /\ UNCHANGED <<commands, connected, stdout, collected, queue, bot_side, thread_side, log_side>>

RaiseMutated ==
  /\ main = "log"
  /\ Len(queue) # seen_length
  /\ main' = "raised"
  /\ UNCHANGED <<commands, connected, stdout, collected, queue, bot_side, thread_side, log_side>>

Main ==
  \/ Build \/ Run \/ Accept \/ Stop \/ Collect \/ Collected \/ Kill \/ PutCollected
  \/ WriteOutput \/ EndLog \/ RaiseMutated

Listener == FillBuffer \/ NextLine \/ PutLine \/ EndThread

Over == main \in {"done", "raised"} /\ UNCHANGED vars

Next == Main \/ Listener \/ PrintLine \/ Exit \/ Over

\* The main thread runs on: communicate has a timeout, and after the kill there
\* is nothing left to wait for.  The listening thread and the bot may stall.
Spec == Init /\ [][Next]_vars
FairSpec == Spec /\ WF_vars(Main)

-----------------------------------------------------------------------------
(* Properties.                                                             *)
TypeOK ==
  /\ main \in MainPhases
  /\ process \in {"none", "running", "exited"}
  /\ stdout \in {"open", "closed"}
  /\ listener \in {"none", "reading", "ended"}
  /\ process = "none" => listener = "none" /\ ~connected
  /\ printed \in 0 .. MaxLines
  /\ Len(held) <= 1
  /\ position <= Len(queue)

\* The lines the bot printed among a sequence of outputs, in the order of the log.
IsFromBot(output) == \A k \in DOMAIN output : output[k] > 0
AddLines(lines, output) == IF IsFromBot(output) THEN lines \o output ELSE lines
BotLines(outputs) == FoldLeft(AddLines, <<>>, outputs)

Everywhere == BotLines(queue) \o held \o buffered \o collected \o pipe

\* Until communicate closes the pipe no line of the bot is lost, and at no time
\* does one appear twice, although two threads read the same pipe.
NothingLostWhileOpen ==
  stdout = "open" => {Everywhere[i] : i \in DOMAIN Everywhere} = 1 .. printed

NothingTwice == \A i, j \in DOMAIN Everywhere : Everywhere[i] = Everywhere[j] => i = j

\* During the match the log keeps the order the bot printed in; only the lines
\* communicate competes for may end up before older ones.
InOrderUntilStop ==
  main \in {"build", "run", "accept", "play"} => Everywhere = [i \in 1 .. printed |-> i]

\* The log stays within the limit except for the last output written to it.
LogWithinLimit == log_file # <<>> => Size(Front(log_file)) < SIZE_LIMIT

-----------------------------------------------------------------------------
\* config.py:8 "GAME PROGRESS IS RECORDED HERE": the game log is written after the
\* players are stopped, so that stopping a player must not end the engine.
GameIsRecorded == main # "raised"
=============================================================================
