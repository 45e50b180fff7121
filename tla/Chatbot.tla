-------------------------------- MODULE Chatbot --------------------------------
(***************************************************************************)
(* player_chatbot/player.py: a person plays, and is asked again until the  *)
(* entry is a move.  Nobody holds it to the legal actions: the engine      *)
(* overrules.                                                              *)
(*                                                                         *)
(* A line is the sequence of its words; a word is a record of its text, of *)
(* str.capitalize of it, and of what int() makes of it.  Left out are the  *)
(* prompts, and the answers of a language model: is_gpt is never set, also *)
(* with USE_GPT, so that no model is asked.                                *)
(***************************************************************************)
EXTENDS BotTable, Sequences

CONSTANT Lines   \* what may be typed

NotANumber == -1000

VARIABLE entry   \* the input loop of get_action

\* prompt: whether the loop parses the line it asks for ("move"), or has still to try
\* int() on the line before, which fails and asks once more ("lost"); act and num: the
\* locals; last: the last line read, a history.
NoEntry == [prompt |-> "move", act |-> "None", num |-> 0, last |-> <<>>]
OneWordMoves == {"Check", "Fold", "Call"}
QuitWords == {"Quit", "quit", "q"}

\* Everything that is not one of the other moves is a fold.
Returned(act, num) ==
  CASE act = "Raise" -> RaiseAction(num)
    [] act = "Check" -> CheckAction
    [] act = "Call" -> CallAction
    [] OTHER -> FoldAction

\* One turn of the loop.  It ends when act holds a move, which is executed or overruled.
Loop(prompt, act, num, line) ==
  LET e == [prompt |-> prompt, act |-> act, num |-> num, last |-> line]
  IN  IF act = "None" THEN entry' = e /\ UNCHANGED round_state
      ELSE entry' = [e EXCEPT !.act = "None"] /\ Answer(Overruled(Returned(act, num)))

-----------------------------------------------------------------------------
(* The person types a line.                                                *)
OneWord(line) ==
  /\ Len(line) = 1 /\ line[1].text \notin QuitWords
  /\ Loop("move", IF line[1].capitalized \in OneWordMoves THEN line[1].capitalized ELSE "None",
          entry.num, line)
  /\ UNCHANGED up

\* Mutant: a move of two words that is no raise is complained about and taken.
TwoWords_taken(line) ==
  /\ Len(line) = 2 /\ line[1].text \notin QuitWords
  /\ Loop("move", IF line[2].number = NotANumber THEN "None" ELSE line[1].capitalized,
          line[2].number, line)
  /\ UNCHANGED up

\* A second line is asked for when neither the word nor the number will do: the one
\* typed in between is lost.
TwoWords(line) ==
  LET raise == line[1].capitalized = "Raise"
      number == line[2].number # NotANumber
  IN  /\ Len(line) = 2 /\ line[1].text \notin QuitWords
      /\ Loop(IF ~raise /\ ~number THEN "lost" ELSE "move",
              IF raise /\ number THEN "Raise" ELSE "None", line[2].number, line)
      /\ UNCHANGED up

MoreWords(line) ==
  /\ Len(line) > 2 /\ line[1].text \notin QuitWords
  /\ Loop("move", "None", entry.num, line)
  /\ UNCHANGED up

Quits(line) ==
  /\ line[1].text \in QuitWords
  /\ up' = FALSE
  /\ UNCHANGED <<round_state, entry>>

PersonTypes(line) ==
  /\ HerosTurn
  /\ \/ entry.prompt = "move" /\ (OneWord(line) \/ TwoWords(line) \/ MoreWords(line) \/ Quits(line))
     \/ entry.prompt = "lost" /\ Loop("move", "None", entry.num, line) /\ UNCHANGED up
  /\ UNCHANGED <<cards, seat, round_num>>

-----------------------------------------------------------------------------
ChatInit == entry = NoEntry

ChatActs == \E line \in Lines : PersonTypes(line)

\* handle_round_over waits for a person to press enter, or to quit.
ChatNextRound ==
  /\ \E continues \in BOOLEAN : NextRound(continues)
  /\ UNCHANGED entry

-----------------------------------------------------------------------------
\* What the help texts of the loop call a move.
IsMove(line) ==
  \/ Len(line) = 1 /\ line[1].capitalized \in OneWordMoves
  \/ Len(line) = 2 /\ line[1].capitalized = "Raise" /\ line[2].number # NotANumber

Move(line) ==
  IF Len(line) = 2 THEN RaiseAction(line[2].number)
  ELSE CHOOSE a \in {CheckAction, FoldAction, CallAction} : a.type = line[1].capitalized

\* However often a person was asked again, what is played is the move typed last, with
\* nothing left over from the lines before it (the loop of get_action, lines 286-313).
PlaysTheLastLine ==
  HerosTurn /\ round_state' # round_state =>
    IsMove(entry'.last) /\ Answer(Overruled(Move(entry'.last)))
=============================================================================
