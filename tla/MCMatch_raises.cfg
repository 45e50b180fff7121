CONSTANTS
  STARTING_STACK = 12
  BIG_BLIND = 2
  SMALL_BLIND = 1
  RATIO_NUM = 3
  RATIO_DEN = 2
  BOUNTY_CONSTANT = 1
  Players = {"New", "Best"}
  FirstOrder <- MCOrder
  Lineups <- MCAgainstPython
  NUM_ROUNDS = 1
  ROUNDS_PER_BOUNTY = 2
  Deals <- MCDeals
  Answers <- MCRaises
SPECIFICATION Spec
INVARIANTS
  BotsMirrorTheRound
PROPERTIES
  AnswersAreJudgedAlike
