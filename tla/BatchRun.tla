------------------------------- MODULE BatchRun -------------------------------
(***************************************************************************)
(* compare.py and train.py: the engine is run again and again, and compare *)
(* adds up the results it reads from the last line of the game log.  Each  *)
(* run is the life of one player process in full detail (PlayerProcess);   *)
(* the other player of the engine is only stopped, well or not.            *)
(***************************************************************************)
EXTENDS PlayerProcess

CONSTANTS
  ITERATIONS,   \* how often the loop runs the engine
  NUM_ROUNDS,   \* config.py
  Bankrolls,    \* what the player New may have won
  OldBankrolls  \* the same of a run before the batch

\* config.py has 1000 rounds.
ASSUME BatchAssumption ==
  /\ ITERATIONS \in Nat \ {0} /\ NUM_ROUNDS \in Nat \ {0} /\ NUM_ROUNDS % 2 = 0
  /\ Bankrolls \subseteq Int /\ OldBankrolls \subseteq Int

VARIABLES
  script,     \* "compare" or "train"
  loop,       \* "starting", "running" (the engine), "reading", "ended", "died" (of an exception)
  i,          \* the iteration
  bankroll,   \* what New has won in the present run
  gamelog,    \* gamelog.txt: <<>>, or <<last line>>
  scores,     \* scores['new'] and scores['best'], paired
  wins,
  \* histories: for each run that has ended, New's result and whether the log was written;
  \* gamelog as the batch found it.  A last line remembers the run it comes from, 0 for one
  \* from before the batch.
  outcomes,
  found

batch_side == <<script, loop, i, gamelog, scores, wins, outcomes, found>>
batchVars == <<vars, batch_side, bankroll>>

\* Nothing removes gamelog.txt: it may lie there from a run of engine, train or compare
\* long before.
LeftBehind == {<<>>} \cup {<<[scores |-> <<b, -b>>, run |-> 0]>> : b \in OldBankrolls}

BatchInit ==
  /\ Init
  /\ script \in {"compare", "train"}
  /\ loop = "starting" /\ i = 1
  /\ bankroll = 0
  /\ found \in LeftBehind /\ gamelog = found
  /\ scores = <<>> /\ wins = [new |-> 0, best |-> 0]
  /\ outcomes = <<>>

\* PlayerProcess!Init in the next state.
NewEngine ==
  /\ main' = "build"
  /\ commands' = FALSE /\ connected' = FALSE
  /\ process' = "none" /\ printed' = 0
  /\ pipe' = <<>> /\ stdout' = "closed"
  /\ listener' = "none" /\ buffered' = <<>> /\ held' = <<>>
  /\ collected' = <<>>
  /\ queue' = <<>> /\ position' = 0 /\ seen_length' = 0 /\ log_file' = <<>>

\* subprocess.run: a new engine, or none: then the loop is left.
StartEngine ==
  /\ loop = "starting" /\ i <= ITERATIONS
  /\ NewEngine
  /\ bankroll' = 0
  /\ loop' \in {"running", "ended"}
  /\ UNCHANGED <<script, i, gamelog, scores, wins, outcomes, found>>

\* The rounds are over, with some result, and the players are about to be stopped.
GameOver ==
  /\ loop = "running"
  /\ Stop
  /\ bankroll' \in Bankrolls
  /\ UNCHANGED batch_side

EnginePlays ==
  /\ loop = "running"
  /\ Build \/ Run \/ Accept \/ Collect \/ Collected \/ Kill \/ PutCollected
     \/ WriteOutput \/ EndLog \/ RaiseMutated
  /\ UNCHANGED <<batch_side, bankroll>>

OthersMove ==
  /\ loop = "running"
  /\ Listener \/ PrintLine \/ Exit
  /\ UNCHANGED <<batch_side, bankroll>>

\* Mutant: the players have not changed seats after the last round.
FinalStatus_seated(pair) == IF (NUM_ROUNDS - 1) % 2 = 0 THEN pair ELSE Reverse(pair)

\* STATUS(players), after as many exchanges of the seats as there were rounds.
FinalStatus(pair) == IF NUM_ROUNDS % 2 = 0 THEN pair ELSE Reverse(pair)

LastLine == [scores |-> FinalStatus(<<bankroll, -bankroll>>), run |-> i]

\* The log is written when both players were stopped without an exception.
EngineEnds ==
  /\ loop = "running"
  /\ main \in {"done", "raised"}
  /\ \E written \in {FALSE, main = "done"} :
       /\ gamelog' = IF written THEN <<LastLine>> ELSE gamelog
       /\ outcomes' = Append(outcomes, [new |-> bankroll, written |-> written])
  /\ loop' = "reading"
  /\ UNCHANGED <<vars, bankroll, script, i, scores, wins, found>>

NextIteration ==
  /\ i' = i + 1
  /\ loop' = IF i = ITERATIONS THEN "ended" ELSE "starting"

Winner(score) ==
  IF score[1] > score[2] THEN {"new"} ELSE IF score[1] < score[2] THEN {"best"} ELSE {}

\* The log is read whether this run has written it or not.
ReadLog ==
  /\ loop = "reading" /\ script = "compare" /\ gamelog # <<>>
  /\ LET line == gamelog[1]
     IN  /\ scores' = Append(scores, line)
         /\ wins' = [p \in DOMAIN wins |-> IF p \in Winner(line.scores) THEN wins[p] + 1 ELSE wins[p]]
  /\ NextIteration
  /\ UNCHANGED <<vars, bankroll, script, gamelog, outcomes, found>>

\* FileNotFoundError: no run has ever left a log.
NoLog ==
  /\ loop = "reading" /\ script = "compare" /\ gamelog = <<>>
  /\ loop' = "died"
  /\ UNCHANGED <<vars, bankroll, script, i, gamelog, scores, wins, outcomes, found>>

Train ==
  /\ loop = "reading" /\ script = "train"
  /\ NextIteration
  /\ UNCHANGED <<vars, bankroll, script, gamelog, scores, wins, outcomes, found>>

BatchOver == loop \in {"ended", "died"} /\ UNCHANGED batchVars

BatchSteps == StartEngine \/ GameOver \/ EnginePlays \/ EngineEnds \/ ReadLog \/ NoLog \/ Train

BatchNext == BatchSteps \/ OthersMove \/ BatchOver

\* The loop and the engine's main thread run on, see PlayerProcess; the listening
\* thread and the bot may stall.
BatchSpec == BatchInit /\ [][BatchNext]_batchVars /\ WF_batchVars(BatchSteps)

-----------------------------------------------------------------------------
(* Properties.                                                             *)

\* The loop's state and the player process are well formed.
BatchTypeOK ==
  /\ TypeOK
  /\ loop \in {"starting", "running", "reading", "ended", "died"}
  /\ i \in 1 .. ITERATIONS + 1 /\ Len(gamelog) <= 1
  /\ Len(outcomes) \in {i - 1, i}
  /\ script = "train" => scores = <<>>

\* compare counts the result of each run for the right player, and another result only
\* when the run itself left no log: then it is that of the last run that did, or, when no
\* run of the batch has, of the log the batch found (run_program_thousand_times, Game.run).
StaleOnlyAfterFailure ==
  \A n \in DOMAIN scores :
    LET run == scores[n].run
    IN  /\ run \in 0 .. n
        /\ \A later \in run + 1 .. n : ~outcomes[later].written
        /\ IF run = 0 THEN found = <<scores[n]>>
           ELSE outcomes[run].written /\ scores[n].scores = <<outcomes[run].new, -outcomes[run].new>>

\* Every batch comes to an end, whatever the bots do: stop comes back from dead
\* threads and unconnected bots (Player.stop, run_program_thousand_times).
BatchEnds == <>(loop \in {"ended", "died"})
=============================================================================
