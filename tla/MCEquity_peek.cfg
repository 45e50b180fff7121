CONSTANTS
  Cards <- MCCards
  Calls <- MCCalls
  MaxPlayers = 2
  CpuCount = 2
  FirstWorker = 2
  EvalDeck <- MCEvalDeck
  Situations <- MCSituations
  ITERATIONS = 2
  Decks <- MCDecks
SPECIFICATION Spec
INVARIANTS
  NoCardTwice
