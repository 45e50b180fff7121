# Verification of the pokerbots engine

TLA+ models, TLC runs and TLAPS proofs for the Bounty Hold'em engine of this
repository, the bots that play on it, the skeletons they are built on, the hand
library they use and the scripts that run matches in batches. `src/...` below is a
path in the repository; `engine.py:405` is line 405 of `src/engine.py`.

## The system

| Component | State | Operations | Interacts through |
|---|---|---|---|
| Game tree, `RoundState` (`engine.py:58-239`) | button, street, pips, stacks, hands, deck, bounties (immutable) | `legal_actions`, `raise_bounds`, `proceed`, `proceed_street`, `showdown`, `get_delta`, `get_bounty_hits` | called by `Game.run_round`, `Player.query` |
| `Player` (`engine.py:242-433`) | game clock, bankroll, process, socket file, byte queue | `build`, `run` (starts a listening thread), `query`, `stop` | a socket and a pipe to the bot process |
| `Game` (`engine.py:436-579`) | game log, the messages pending for each seat | `log_*`, `run_round`, `run` | calls both players in turn |
| Bot skeleton (`*/skeleton/runner.py`, `states.py`) | its copy of the game tree, bankroll, round number | one handler per clause of a packet, `get_action`, ack | reads lines of clauses, answers one line each |
| Java and C++ skeletons | the same | the same, ported | the same protocol |
| `best_bot`, `pickle_bot` | regret tables, opponent statistics, a cache, a data file | load, choose an action, update regrets, simulate equities | called by the runner |
| `player_chatbot`, sample players | the dialogue so far; none | parse what a person types; toss coins | called by the runner |
| Hand library (`holdem_*.py`, `parallel_holdem_calc.py`) | arrays shared by the processes of a pool | check arguments, rank hands, enumerate or sample boards, distribute work and add up | called as a library, processes and shared memory |
| `compare.py`, `train.py` | sums over runs | run the engine, read `gamelog.txt` | process and file |

The engine is one thread per match plus one listening thread per bot. Each bot
is a process. What is hard: answers that are late, illegal or missing and
connections that end, while the bots must keep an exact copy of the game from
messages alone; betting rules decided from a counter and two numbers without
any history; payoffs with bounties, rounding and seats that alternate; two
readers of one pipe and a queue read while another thread writes it; processes that
add to shared arrays with no lock held over an addition; tables of regrets that are
updated by the very decisions they drive; results read from a file that the
program before may not have written.

What makes each component correct:

- **Game tree**: stacks and pips never negative; raise bounds are sensible;
  streets close exactly when both have acted; showdowns have equal stacks;
  payoffs go to the winner, cancel out and do not depend on the seat; rounds end.
- **Query and match**: nothing but legal actions reaches the game tree; no answer
  is taken for another query's; bots and engine agree; books balance; the match ends.
- **Skeletons**: never fail on what the engine sends, mirror the round, learn the
  outcome; what they compute as legal is legal for the engine.
- **Process**: output is logged once, in order, within the limit; `stop` returns and
  does not end the engine.
- **Bots**: answers need no overruling, they decide as their tables say, what is
  played is what was typed.
- **Library**: hands are ranked by the rules of poker, every simulation is counted
  once whatever the processes' speed, the two calculators agree, no card is dealt twice.
- **Batch runners**: a score is that of the run it is credited to; the batch ends.

The full list of hazards, line by line, is in `PROJECT.json`.

## Modules

| Module | Models | Notes |
|---|---|---|
| `RoundState` | `RoundState` of `engine.py` as pure operators | a round state is a record; hands, deck and bounties are the parameter `cards` |
| `BettingRound` | `run_round` as the rules see it: rounds of legal actions | the abstract specification of a match and of a table |
| `BettingHistory` | `BettingRound` with history variables | who has acted, the size of the last raise |
| `BotRoundState`, `Runner` | `skeleton/states.py`, `skeleton/runner.py` | a packet is folded over the runner's locals |
| `JavaRoundState`, `JavaRunner` | `java_skeleton`: `RoundState.java`, `Runner.java` | written from the Java sources |
| `CppRoundState`, `CppRunner` | `cpp_skeleton`: `states.cpp`, `states.h`, `runner.h` | written from the C++ sources |
| `Match` | `Game.run`, `run_round`, `Player.query`, two bots and their sockets | composes `BettingRound` (engine) with a runner for each bot; refines `BettingRound` |
| `PlayerProcess` | `Player.build`, `run`, `stop`, the listening thread, the pipe | independent of the game |
| `BatchRun` | the loops of `compare.py` and `train.py` | every run of the engine is a life of `PlayerProcess` |
| `BotTable` | what the bots have in common: a few rounds of `BettingRound`, seats exchanged | the opponent does anything legal |
| `BestBot`, `PickleBot`, `Chatbot`, `SamplePlayer` | `get_action` and `handle_round_over` of each bot | one bot each |
| `Bots` | any one of them at the table | composes the five; refines `BettingRound` |
| `HandRank` | `detect_hand`, `compare_hands` and their helpers; the reference `BestOf` | pure operators |
| `HoldemCalc` | argument checks, parsing, generators, the sequential calculator | pure operators |
| `Tally` | what a parallel calculation promises | abstract specification |
| `ParallelCalc` | `parallel_holdem_calc.py`: main process, pool, shared arrays | refines `Tally` |
| `MonteCarlo` | `calculate_equity` of `best_bot`, draw by draw | `eval7` compares freely |
| `Equity` | calculator, simulation and ranking, one at a time | composes the last five |
| `SmallDeals`, `MC*` | constants for TLC | |
| `Folding` | the folds of the community modules, over sequences and finite sets, for any operator | lemmas only |
| `BettingRound_proofs`, `BettingHistory_proofs`, `Match_proofs`, `BatchRun_proofs`, `Bots_proofs`, `Equity_proofs` | theorems | each extends the module it is about |
| `Skeletons_proofs` | lemmas about one bot on any skeleton and one packet | between `Match` and `Match_proofs` |

### From code to model: engine and skeletons

`RoundState`. Every method is an operator of the same name. Cards are reduced to
their ranks: bounties look at nothing else. Since suits are left out, any outcome
of `eval7.evaluate` can go with any ranks, and `cards.best` says which it is. `get_delta`
is computed by the code in floats with a ratio of 1.5, whose multiples are exact;
here it is an exact integer over `Scale`, rounded like `math.floor`/`math.ceil`.
`previous_state` is kept in terminal states only. The assertions of equal stacks
are not guards: they are the property `EqualStakesWhenStreetCloses`.

`BettingRound`. One action per kind of action, guarded as `query` guards it;
`NextDeal` is the next iteration of `Game.run`.

`Match`. The engine's program counter stops where a bot can overtake it: before a
query looks at the clock (`ask`) and while it is in `readline` (`wait`). The ways
out of a query are actions of their own: `SkipQuery` (no connection or no clock,
line 396), `Receive` (409-420), `ReceiveTooLate` (409-410), `SocketTimeout` (421),
`ReadReset` and `SendFails` (426), `ReadEOF` (431). Each carries on with what
`run_round` does next in the same step: proceed, log, announce, or pay. A
misformatted answer is a value that is no action. The
game clock is a Boolean, whether any time is left; when it runs out is free. The
text of the log is left out, except whether its last line ends in "folds", which
`log_terminal_state` reads. Pending messages are sequences of clauses `[t, v]`; the
T clause is left out, as it only carries the clock. A bot process handles one
packet per step (`Handle`), answers anything of `Answers` when asked for an action,
and may die at any time (`Crash`). Each answer carries, as an auxiliary field, the
query it belongs to. A bot that never connected starts with `connected` false.
`Lineups` are the pairings of skeletons a run considers; the record of a bot says
which one it is built on.

`Runner`. `O` before the end of the round is a failure in the model where the code
would take one action back in silence; the model is the stricter one, and it never
happens. The bounty hits the bot notes at a fold are left out: `D` resets them.

The skeletons. `BotRoundState`, `JavaRoundState` and `CppRoundState` are three
translations of three implementations that ought to be one, on purpose: each is
written from its own source, and the runs compare them through the engine. What
differs is kept: the Python runner has no round before the first hand
and asserts whose turn it is; the Java and C++ runners begin with a made-up round
and assert nothing; Java fails on a cast or on a board card that was never sent, C++
casts without a check, which the model counts as a failure.

`PlayerProcess`. The steps of the main thread, the listening thread and the bot
interleave freely. The thread's buffered reader takes all the pipe holds at
once; `communicate` reads the same pipe until end of file and closes it, after
which the thread ends with the `ValueError` it ignores, losing what it had buffered.
The thread may still hold one line it has read and put it at any later time, also
while `stop` walks through the queue: that step of the walk raises.
Lines are numbered, one byte each. The branch for `player_chatbot`, whose lines are
printed instead of queued, is left out.

`BatchRun`. `subprocess.run` starts an engine or fails, which ends the loop. Within a
run all steps of `PlayerProcess` interleave; the second player of that engine is
reduced to whether it, too, could be stopped, that is, whether `gamelog.txt` is
written. The log is its last line only, and it stays from one run to the next, as
the file does, which nothing removes: a batch may find one from long before
(`LeftBehind`). `outcomes` is a history of what really happened, `found` of the log at
the beginning.

### From code to model: bots

At the table. The bot and the engine share one game tree; `legal` and the raise bounds
are those of `BotRoundState`, the result of an answer that of `RoundState`, without the
check of `Player.query` in between: that the answers of `best_bot`, `pickle_bot` and the
sample player pass it is the property `PlaysByTheRules`. Only the answers of the chatbot,
which nobody holds to the legal actions, go through `Overruled`. A bot whose process has
ended is played for by the engine.

`BestBot`. A key keeps its three parts; hole cards are ranks, as everywhere. Keys from
the file carry `strings`: splitting the text of a key yields strings, which equal no key
of a game. `seen` is a history of
the keys met. Weights are abstracted to being positive or not, since `random.choices` may
return any action of positive weight. Regrets and equities are integers in units of
1/27720, which all pots of the instance divide, so that sums are exact where the code
adds floats. How the statistics of the opponent scale a raise is free: all four factors
are possible at any time.

`PickleBot`. Its keys contain the bounty and survive pickling; its action is chosen before
the regrets are updated, from the legal actions only; equities are cached by cards. The
bonus of a bounty over an empty pot, ten million in the code, is a thousand, which also
outweighs every sum of regrets an instance reaches. `handle_round_over` fails in every
round, so the bot sits through the first one only.

`Chatbot`. A line is a sequence of words; a word is its text, its capitalised form and
what `int` makes of it. The nested `try` of the input loop becomes a prompt that is
"lost": the line typed there is read, not parsed, and the loop goes round with the
variables of the line before. The replies of a language model are left out because the
program never asks for one: `is_gpt` is set false at `player_chatbot/player.py:90` and
set nowhere else.

### From code to model: hand library

`HandRank`. A hand is a set of cards with value and suit. `detect_hand` and its helpers
follow `holdem_functions.py`; the reference, `FiveRank` and `BestOf`, is written from the
rules of poker and takes the best of all sets of five cards.

`HoldemCalc`. Cards in arguments are texts of a value, a suit and a tail: the pattern that
checks them is matched against the beginning of the text only. What is refused ends the
program; a card given twice under two texts raises `ValueError`. Random boards are every
sequence `random.sample` may produce.

`ParallelCalc`. Each process of the pool takes a task, then makes its additions one by one,
each a `Read` and a `Write`: the lock of an `Array` is held during either, not over both.
The slot of a process is the number in its name modulo the number of processes. The pool
itself is external: it numbers its processes consecutively from any number, hands out the
tasks in order, waits for all and raises what one of them raised. `run` with an
input file goes through its lines. `Combine` combines the winners, then fails on a float index
of the histograms, as the code does under Python 3.

`MonteCarlo`. `peek` removes nothing: the opponent's cards and the rest of the board are
taken from the top of the same shuffled deck, so the shorter draw is a part of the longer.

## Runs

| Run | Bounds | Shows |
|---|---|---|
| `betting` | stacks 7, blinds 1/2, 36 deals | rules of betting and payoffs, on every state of a round; every round ends |
| `match` | Java and Python bots, 1 round, stacks 3, 2 deals, answers legal, illegal and garbled, any crash | refinement of `BettingRound`, bots, termination |
| `raises` | a Java or a C++ bot against a Python bot, 1 round, stacks 12, calls and raises to 6, 8, 12 | engine and skeletons agree through raises and re-raises |
| `rounds` | Java and C++ bots, 3 rounds, stacks 3, bots that call, a draw of bounties every 2 rounds | bounties and bankrolls over rounds and seats |
| `player` | `compare` or `train`, 2 runs of the engine, 3 lines, a limit of 2, results -3 and 3, no log left from before or one of a draw | output, log and stop; whose result is counted; the batch ends |
| `bots` | each of four bots, stacks 5, 2 rounds, one deal, equities 1/4 and 19/20, empty and filled files, ten lines a person may type | answers keep the rules; what the tables and the input loop decide |
| `equity` | ten cards, 2 processes numbered 2 and 3, 2 random boards, 22 calls; 4 situations of 2 iterations; hands from 5 decks | every simulation counted once, agreement of the calculators, ranking |
| `disconnect`, `split_pot`, `recorded`, `kicker`, `peek` | as above | the code does otherwise than a comment says, see Findings |

Why the bounds are enough. With 7 chips and a big blind of 2 there are limps, minimum
raises, re-raises, all-ins for less than a minimum raise and stacks that a call
takes entirely, on every street; larger stacks add longer sequences of the same
cases. The deals hit either, both or no bounty, with hole cards, turn or river, or
have the rank only in the opponent's hand, with each outcome. In `match`,
3 chips leave one raise per round, which is enough for every kind of answer in
every phase; `raises` covers the depth: after a raise to 6 a raise to
8 is below the minimum, and after a limp and a raise the stacks cap it. Three rounds
contain a round that keeps the bounties, one that draws new ones and both seat orders.

In `player`, three lines and a limit of two let the log be cut off within the queue, with
lines in every place at once, and two runs give a run that fails after one that did not,
the reverse, and two failures, each with a log that was there before and without. A draw is
a result no run of the instance has, so that a result of the old log cannot pass for another. In `bots` both players hold the same ranks and the
board is the same in both rounds, so that the second round comes back to the keys of the
first from the other seat; one equity makes every call and raise wrong, the other makes both
right; one bounty is hit before the flop, the other by the river. Five chips give
minimum raises, short all-ins and calls for everything. The lines typed contain every kind
of reply the loop tells apart.

In `equity` two processes with two tasks or more each meet every interleaving of two
additions; the slots are 0 and 1 from the numbers 2 and 3, in this order. The calls have
boards of none, three, four and five cards, none, one and two unknown hands, each refusal of the argument
checks, and files with blank, good and bad lines. The five decks contain every category
of hand, the ace low and high, three pairs, two triples and a flush beside a straight.

`RanksByTheRules` makes one exception, for three pairs, which `kicker` refutes.

`AgreesWithSequential` compares lists of winners when all boards are looked at. Random boards are drawn
independently by the two calculators, so there it compares how many there were: `n`, times the number of pairs an
unknown player may hold.

CHECK_DEADLOCK is on everywhere: finished specifications stutter by an action of
their own (`Done`, `Over`, `BatchOver`).

### Refinements

`PlaysByTheRules` of `Match` and of `Bots` is the specification of `BettingRound`, whose
variables the two share. `CountsEachOnce` is the specification of `Tally` under a mapping: the count of a
winner or of a hand is the sum over the slots of all processes, what is outstanding are the
additions the processes still hold, and the phase comes from the main process. Two additions that
look the same are told apart by their process and their place from the end of what it has to do, which
stays the same while those before it are made. A lost update, an addition to the wrong element, a task
done twice or a slot of the wrong length is a step `Tally` does not have.

### Fairness

`RoundEnds` assumes that the active player acts (`WF(HAct)`): a query always
returns, since `readline` has a timeout and every exception yields a default.
`MatchEnds` assumes only weak fairness of the engine, a sequential program that
waits nowhere without a timeout; nothing is assumed of the bots. `BatchEnds`
assumes weak fairness of the loop together with the engine's main thread (`BatchSteps`), again with nothing
about the bot or the listening thread: `stop` waits for a killed process at most.
`CalculationEnds` assumes it of the main process once it waits for the pool and of each
process, none of which waits for another.

### Findings

1. `disconnect`: an orderly closed connection reads as an empty line, counts as
   misformatted and leaves the clock running, against the docstring of `query`
   (`engine.py:392`).
2. `split_pot`: in a split pot with one hit the other hit is masked, against
   `engine.py:48`.
3. `recorded`: `stop` may raise `RuntimeError: deque mutated during iteration`; the
   game log is never written (`engine.py:361`).
4. `kicker`: with three pairs the kicker is looked for among single cards only, so that
   it may be lower than the third pair, against `holdem_functions.py:148`.
5. `peek`: the simulated board contains cards of the simulated opponent before the
   river, always at least one, against `best_bot/player.py:211`.

Also seen, not stated as a run:

- The direction in which a payoff is rounded follows the parity of the number of
  actions, not the position, as `engine.py:117` has it.
- The rules given to a person (`player_chatbot/player.py:41`) count a bounty in the
  opponent's hand; the engine does not (`engine.py:75`).
- What `best_bot` loads from its file it never finds again: the parts of a key that was
  read are strings (`best_bot/player.py:72`). The keys of a file carry a mark in the model,
  and that nothing is found behind it would be a property of the mark, so that none is stated.
- The default fold of `best_bot` (`best_bot/player.py:276`) may give up a free check: where
  the opponent was all-in on a flop, calling may be the only action with a positive regret,
  and a bot that comes back to that flop with a free check folds. TLC finds such a behaviour at
  the table of `bots`. The same hole cards and board are rare in play.
- A line a person types after a bad number is never parsed (`player_chatbot/player.py:286`).
- `pickle_bot` ends with an `AttributeError` at its first `handle_round_over`, before
  anything is saved; `best_bot` logs "Data saved" (`best_bot/player.py:313`) while the
  call that saves is commented out.
- No parallel simulation returns under Python 3: the float index raises `TypeError`
  (`parallel_holdem_calc.py:71`). Two unknown hands are complained about and accepted
  (`holdem_argparser.py:137`); each task then fails. "Asx" is accepted for a card.
- `run_program_thousand_times` of `compare.py` runs 24 times. With an odd number of
  rounds the last line of the log would name the players in exchanged order and the scores be credited
  wrongly; `BatchAssumption` excludes it, `config.py` has 1000.
- `config.py`'s player names and paths are not used by `Game.run`, which builds `best_bot`
  twice; `except socket.timeout` of `Player.run` is unreachable after `except OSError`; the
  runner's `if not packet` never holds, so that end of file ends it with an `IndexError`;
  with `ROUNDS_PER_BOUNTY = 1` no bounty is ever drawn (excluded by `MatchAssumption`).

## Proofs

Every theorem holds for all values of the constants that satisfy the named assumptions.
TLC evaluates each assumption on the instance of a run.

| Assumption | What it says | Why the code justifies it |
|---|---|---|
| `BlindsAssumption` | 0 < small blind <= big blind <= stack | `config.py`: 1, 2, 400 |
| `BountyAssumption` | a ratio of at least one, a constant that is not negative | 1.5 and 10 |
| `DealsAssumption` | a deal has its four fields, a comparison has three outcomes | what `Game.run` and `eval7` yield |
| `MatchAssumption` | two players, at least one round, more than one round per draw of bounties | 25 in `config.py`; with 1 no bounty is ever drawn |
| `LimitsAssumption` | any number of lines, a positive limit of the log | `PLAYER_LOG_SIZE_LIMIT` |
| `BatchAssumption` | at least one run, an even number of rounds, integer results | 1000 rounds; an odd number exchanges the names in the last line |
| `BotTableAssumption` | the unit of a regret is positive and divisible by the pots | scaling that makes the floats of the code exact integers |
| `FilesAssumption` | a file holds a table of numbers per action | what the two save routines write |
| `CardsAssumption` | a finite deck, its cards have a value and a suit | `generate_deck` has 52 |
| `PoolAssumption` | at least one process | the pool of `parallel_holdem_calc.py` |
| `CallsAssumption` | a call has the arguments of the calculator, with an integer number of boards and lines as the file has them; at most `MaxPlayers` players; tasks add within a slot | `holdem_argparser.py`, and what `run_simulation` and `simulate` compute |
| `SimulationAssumption` | a finite deck, boards of at most five cards | `calculate_equity` is given the board of a round |

### Betting

`BettingRound_proofs`. Neither `RoundTypeOK` nor `DecisionWellFormed` is inductive:
that a call never costs more than a stack needs to know how stacks and pips hang
together. `RoundInv` says so. In a round, stack plus pip is the same for
both players and at most the starting stack, that is, both have put in the same on earlier
streets; the player to act never faces a negative cost; and `button` is 0 only in
the initial state, which is what makes the call of the small blind, the one line that
sets stacks and pips to constants, keep the balance. `Balance` shows it inductive, one step per action and per kind of state
`proceed` returns; `TypeCorrect`, `DecisionsAreWellFormed` and `ShowdownsAreEven` follow
from it.

`PayoffsFollow` and `SeatsAreAlike` are about the arithmetic of `get_delta`. Both
divide by `Scale` and round in a direction that depends on the parity of `button`; the
lemmas `RoundedOrder` (rounding keeps an order with whole chips) and `RoundedOpposite` (opposite numbers
round to numbers that add up to -1, 0 or 1) carry what is plain for the exact payoff over to the rounded
one. `ShowdownsAreEven` is what makes the stake of a split pot the same seen from either seat.

`BettingHistory_proofs`. `Observed` relates the history to what the code looks at
instead: who faces a bet faces the last raise, and only the raiser has acted since; who faces
none can close the street exactly when the other player has acted. With `RoundInv` it is inductive
(`HistoryIsObserved`), and `StreetsCloseRight` and `RaisesAreLarge` are read off it: the parity and size of a counter and the
difference of two pips tell all of the history the rules need.

### Match

`Match_proofs`. `Between` says that the engine deals only after a round has ended,
that is, that the phases in which it does imply a terminal state. With it every
engine step is a step of `BettingRound` or leaves its variables alone, which is
`MatchPlaysByTheRules`: the heart is that `Accept` yields a legal action whatever the
bot answered. `EveryDecisionIsWellFormed` carries the invariants of
`BettingRound` over, and `MatchIsZeroSum` adds the books: payments in seat order,
with what is still to be paid as a part of the invariant. `MatchTypeCorrect` and
`BountiesFollowPlayers` need the seats: the two players are always those of the match, in either order. The
latter goes through every step of the engine and the bots: only `StartRound` moves players or bounties while
rounds are played (`SeatsInARound`), and it exchanges both.

`AnswersMatchQueries` is about two queues. `Lines` is its invariant: whoever has a clock and
a connection has nothing in flight in either direction unless he is being asked; who is asked
has exactly one line in flight, the question or its answer, with the number of the present query (`Queried`); who
has lost his clock may have anything in flight and is never asked again. It says why a late
answer does no harm: every way to give a query up either stops the clock or finds the bot gone.

### Bots in step

That a bot holds the same round as the engine is not inductive: it holds only when the bot
has read everything, and what it will read is partly in its inbox and partly in the log of
messages the engine has not sent. `Lockstep` is about the bot as it will be. `View(i)` is
what the bot in seat i holds once its packet under way, and then the messages pending for it, have
been handled; `Abreast` says what that is: in a round the engine's own, seen from its seat
(`Shadow`: button, street, pips, stacks, the cards of the board and its bounty), with its bankroll
and round number; afterwards the end of the round, with payoffs, hits, opponent's hand and
the bankroll that includes what is still to be paid (`Owed`). Every bot that still has a clock and
runs is abreast at all times. Of the others only that they do not fail: a bot the engine gave up
has nothing more to read than quit lines or what it was asked last (`Orderly`).

`Skeletons_proofs` has what one packet does. Its first part shows, for each of the
three skeletons, that `proceed` and `proceed_street` of its game tree take the shadow of a
balanced round to the shadow of the engine's next round, or to a terminal state where
the engine has one: 12 lemmas, because the three are translations of three sources. The second part
is one lemma per clause (P, H, G, F/C/K/R, B, O, D, Y), stated for any of the skeletons; the
casts of the Java and C++ runners are discharged there, as each clause finds the kind of state it
casts to. The third part makes a packet a fold over its clauses (`PacketIsFold`, with `Folding`), so
that a clause the engine logs next is one more step. `ReadsIntroduction`, `ReadsAction`
and `ReadsOutcome` put the clauses of a deal, an action and a result together. `RulesAgree` states that
`legal_actions` and `raise_bounds` of all three trees are those of the engine on a shadow.

`Match_proofs` does the rest. `LockstepInductive` has one case for each action of `Match`: a query
that ends logs, for both seats, the clauses of what happened (`ResumeKeepsLockstep`); to send moves
a log into an inbox, and a bot to handle it takes it out, both of which leave `View` as it was;
a deal begins a log anew. It uses `Lines`: there is never a second line under way to a bot that is
asked. From `BotsAreInStep` follow the three invariants of the run `match`, `RunnersDoNotFail`,
`BotsHoldTheRound` and `BotsHoldTheOutcome`, and the action property `RulesAreShared`. They hold for any
stacks, blinds, deals, number of rounds and lineup of skeletons, and whatever clocks and crashes do; TLC
checks small stacks and two bots at a time.

### Process and batches

`BatchRun_proofs`. The invariant of the process, `PlayerInv`, has four parts: the types
(`Typed`), what the phases of the main thread say about pipe and thread (`Phased`), that the lines
printed are those in the queue, the hands of the thread, its buffer, what `communicate` collected and the pipe, laid
end to end without repetition, and in order until `communicate` joins in (`Gathered`), and what has been written to the
log (`Written`). `NoLineTwice`, `NoLineLost`, `LinesInOrder` and `LogIsLimited` follow. They are proved for
`BatchSpec`, in which each run of the engine is a new life of the process: `NewEngine` leads
to an initial state of `PlayerProcess`, and steps of the loop leave its state alone.
`Counted` relates the scores of `compare.py` to the history of runs that `outcomes` keeps and to `found`: the log is
that of the last run that wrote one, or the one found (`IsLast`), and every score was such a log when it was
read (`IsSound`). From it `ResultsAreOfTheLastLog` and `BatchTypeCorrect`.

The log and the queue are folded by the code, so these proofs need induction over
sequences of any length. `Folding` provides it without the library's induction theorems, whose
operator parameters the provers cannot instantiate: it has an operator as a CONSTANT, proves that
`FoldLeft` has a value on every sequence (natural numbers are well founded, `WFMin`) and that
appending an element is one more step (`FoldAppend`), and is instantiated with the operator of the fold.
A fold over a finite set has a value too (`SetValuesExist`), which takes out one element that `CHOOSE` names.

### Bots

`Bots_proofs`. The modules of the bots are instances over the variables of the table; `BestSame`, `PickleSame`,
`SampleSame` and `ChatSame` say that the rules they see are those of the engine. `TableInv` has `RoundInv`
and the tables of regrets; `BestInv` says that a key in the table was either read from the file, as strings,
or met in play. `BotsPlayByTheRules` is the refinement of `BettingRound`: a raise that
the code cuts to its bounds is legal, a draw by weights is among the legal actions, and what a
person types is overruled otherwise. `NewSituationsAreRaised`
and `LastLineIsPlayed` state the other properties of the run `bots` but one.

### Library

`Equity_proofs`. `ReadsAreCurrent`, about the calculator alone: for any number of processes and any calls, no
element changes between the read and the write of an addition, so that no count is lost.
The argument is arithmetic. Consecutive numbers have different remainders, so slots are
different (`Slot`); an addition stays within the width of its slot, so that elements of two
processes are never the same; and the widths depend on the number of players, so that the call
must not change while a process is busy. The inductive invariant has four parts for this:
the call is one of the problems considered (`CallKnown`), what processes hold are
additions within their slots (`PoolWellFormed`), processes are idle whenever the main process may
change the call or the arrays (`IdleWhenDone`), and the property itself. `CallsAssumption` states
what is used of the arguments: the cards of a call are those of whole players and the tasks that
are computed for it add within a slot. TLC evaluates it for the calls of the instance, which is where
the ranking and the generators, defined with folds over data, enter. The arrays are
32-bit integers in the code; the largest count a call can reach, all boards of all
fillers of two hands (1225 x 1712304), stays below 2^31, so the model has no overflow.
`EquityReadsAreCurrent` carries the theorem over to the composition that the run `equity` checks:
the other tasks leave the processes alone.

`CalculatorImplementsTally` is the refinement of `Tally`, for arrays of any width and any number of
processes and players. To take a task is a `Begin`, to write an element an `Add`; to read one or to finish a task changes
nothing the tally sees. The heart is `WriteTallies`. That the value written is what is in the
array *now* plus the addition is `ReadIsCurrent`; that exactly one count grows by it is `OneCountGrows`,
where a place of a slot belongs to one counter and one slot (`PlacesAreApart`) and a sum over
slots grows by what one of its elements grows by (`TotalChanges`, by induction over the sum with
`Folding`); that one addition less is outstanding is `PiecesLeft`. `Finish`, with nothing outstanding, is the only step after which
something is combined, because `map` waits for idle processes; a call that is refused or a
task that fails ends with nothing combined (`Tallying`).

`CalculatorsAgree` says what the counts are worth: whenever the winners are combined, looking at all boards has given
exactly the list of winners the sequential calculator gives, and of random boards `n` have been counted for every
pair an unknown player may hold, since `run_simulation` generates boards anew for each. It holds for any
deck, calls, players and processes, and not in the run's 22 calls only. It takes three parts.

- Sums. The code counts with folds over sequences, sets and concatenated lists. All are brought to one form, a sum
  over the positions of a sequence, from which any position can be taken out (`TotalTakesOut`); a sum over a set is
  such a sum whatever its order (`SumIsTotal`), as is a count of the elements with a property (`CountIsTotal`), and
  the counts of the classes of a partition make the whole (`ClassesMakeAll`).
- What a task is worth. A board's task adds one to its winner's counter and nothing to others (`BoardIsWorth`); the task
  of a filler adds for each of its boards (`FillerIsWorth`), whichever random boards it drew; all tasks of a call
  together are worth what the sequential calculator counts (`TasksAreWorth`). Combining the slots
  yields, winner by winner, the sum of their elements (`CombinedIsCounted`).
- Nothing is lost in between. The inductive invariant `Accounted` says that from `map` on, for each winner (for random
  boards: for all winners together), what is counted, what processes have still to add and what tasks nobody
  has taken will add make what is expected. The property alone is not inductive because it speaks of the end only. `Accounted`
  makes one exception, a call that is `Doomed`: a task failed, will fail, or cannot be begun, so that
  `map` raises the exception or never returns and nothing is combined. `TakeAccounts`, `WriteAccounts`
  and `CollectAccounts` are its steps that move something: from a task to a process, from a process into the arrays, and
  from the arrays to the result, which needs that nothing is outstanding. A write adds to the value that is in the array now,
  which is `ReadIsCurrent` again.

The theorem compares the two calculators; what they share, `find_winner` and `detect_hand`, is the same operator
in both, and whether it is right is the question of `RanksByTheRules`.

`SimulatedCardsAreUnseen` is about `calculate_equity` of `best_bot`: in every iteration the opponent's hand and the
rest of the board contain no card the bot sees, and the board is complete. The rest of the board is drawn
from the top of the deck the opponent's hand was drawn from, so that one contains the other (`IterationDeals`); sizes
of sets are where `SimulationAssumption` is used. `EquityTypeCorrect` has the types of all three tasks.

### Only model-checked

- Liveness (`RoundEnds`, `MatchEnds`, `BatchEnds`, `CalculationEnds`), which the prover does not do.
- `RanksByTheRules`: it compares what `detect_hand` computes with folds over the cards of a hand to the best of its
  five-card subsets, over the hands of the instance's decks.
- `CheckRaisesWithBounty` does not hold for all constants: a bonus outweighs the regrets of an
  instance, not those of any file, and with a big blind of nine or more neither those of play.

## Not modelled

- `eval7` and shuffling (any outcome, any cards instead), real time, the text of logs and
  prompts, printed results, the command line of the calculator (`argparse`), build tools,
  data files and the one-shot scripts over them: input and output only.
- Process groups: a bot is one process. A grandchild that keeps the pipe open would let
  the second `communicate` wait for ever (`engine.py:357`).
- Of the bots: `strategy_sum` (nothing that is called reads it), the statistics over the opponent
  (free factors in `best_bot`, never updated in `pickle_bot`), the pruning of `pickle_bot`, which
  needs more than a thousand decisions in a round, and the replies of a language model,
  which are never asked for.
- The second copies of the library and of the Python skeleton, which are the same code, and the sample
  players of the other two skeletons, which toss the same coins.
- The T clause, and the branch of `Player.run` that prints the lines of `player_chatbot`.

## What could be added

1. Proofs: `RanksByTheRules` category by category, for any seven cards.
2. Larger tables: stacks of several raises for the bots, three rounds for keys met twice.
