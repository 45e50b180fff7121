--------------------------------- MODULE Bots ---------------------------------
(***************************************************************************)
(* The table with each of the repository's bots at it, one at a time.      *)
(***************************************************************************)
EXTENDS BotTable, Sequences

CONSTANTS CsvFiles, PickleFiles, Lines

Actions == {"Fold", "Call", "Check", "Raise"}

\* A table as a bot keeps it: for every key regrets of some actions.
IsTable(table) ==
  \A k \in DOMAIN table :
    /\ DOMAIN table[k] # {} /\ DOMAIN table[k] \subseteq Actions
    /\ \A a \in DOMAIN table[k] : table[k][a] \in Int

\* The files hold what save_cfr_data of the bots made of such a table; best_bot's keys are
\* those it makes in a game.
ASSUME FilesAssumption ==
  /\ \A contents \in CsvFiles \cup PickleFiles : IsTable(contents)
  /\ \A contents \in CsvFiles : \A k \in DOMAIN contents :
       k = [street |-> k.street, hole |-> k.hole, board |-> k.board, strings |-> FALSE]

VARIABLES
  bot,           \* which bot sits at the table
  regret_sum,    \* of BestBot and PickleBot
  seen,          \* of BestBot
  equities,      \* of PickleBot
  entry          \* of Chatbot

vars == <<tableVars, bot, regret_sum, seen, equities, entry>>
best_side == <<regret_sum, seen>>

Best == INSTANCE BestBot
Pickle == INSTANCE PickleBot
Chat == INSTANCE Chatbot
Sample == INSTANCE SamplePlayer

Init ==
  /\ TableInit
  /\ bot \in {"best", "pickle", "chat", "sample"}
  /\ CASE bot = "best" -> Best!BestInit
       [] bot = "pickle" -> Pickle!PickleInit
       [] bot \in {"chat", "sample"} -> regret_sum = <<>>
  /\ seen = {} /\ equities = <<>>
  /\ Chat!ChatInit

BestPlays ==
  /\ bot = "best"
  /\ Best!BestActs \/ Best!BestNextRound
  /\ UNCHANGED <<bot, equities, entry>>

PicklePlays ==
  /\ bot = "pickle"
  /\ Pickle!PickleActs \/ Pickle!PickleNextRound
  /\ UNCHANGED <<bot, seen, entry>>

ChatPlays ==
  /\ bot = "chat"
  /\ Chat!ChatActs \/ Chat!ChatNextRound
  /\ UNCHANGED <<bot, best_side, equities>>

SamplePlays ==
  /\ bot = "sample"
  /\ Sample!SampleActs \/ Sample!SampleNextRound
  /\ UNCHANGED <<bot, best_side, equities, entry>>

OthersPlay ==
  /\ VillainActs \/ EngineActs
  /\ UNCHANGED <<bot, best_side, equities, entry>>

Done == Finished /\ UNCHANGED vars

Next == BestPlays \/ PicklePlays \/ ChatPlays \/ SamplePlays \/ OthersPlay \/ Done

Spec == Init /\ [][Next]_vars

-----------------------------------------------------------------------------
(* Properties.                                                             *)
\* The round is well formed whoever plays it, the tables map keys to regrets of some
\* actions, and only a bot that can end does.
TypeOK ==
  /\ RoundTypeOK
  /\ seat \in Seats /\ round_num \in 1 .. MAX_ROUNDS
  /\ up \in BOOLEAN /\ (bot \in {"best", "sample"} => up)
  /\ IsTable(regret_sum)

\* best_bot, pickle_bot and the sample player never need to be overruled: their answers,
\* executed as they are, keep to the rules; the chatbot's do so after query has looked at
\* them (get_action with dynamic_raise_amount, and the default fold).
PlaysByTheRules == RoundsSpec

\* best_bot raises for certain in situations it does not know, see BestBot.
RaisesInNewSituations == [][bot = "best" => Best!RaisesWhenNew]_vars

\* pickle_bot check-raises for certain with a bounty that was hit, see PickleBot.
CheckRaisesWithBounty == [][bot = "pickle" => Pickle!RaisesAfterCheck]_vars

\* The chatbot plays the move a person typed last, see Chatbot.
AnswersAsTyped == [][bot = "chat" => Chat!PlaysTheLastLine]_vars
=============================================================================
