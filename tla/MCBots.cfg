CONSTANTS
  STARTING_STACK = 5
  BIG_BLIND = 2
  SMALL_BLIND = 1
  RATIO_NUM = 3
  RATIO_DEN = 2
  BOUNTY_CONSTANT = 1
  Deals <- MCDeals
  Unit = 27720
  Equities <- MCEquities
  CsvFiles <- MCCsvFiles
  PickleFiles <- MCPickleFiles
  Lines <- MCLines
  MAX_ROUNDS = 2
SPECIFICATION Spec
INVARIANTS
  TypeOK
PROPERTIES
  PlaysByTheRules
  RaisesInNewSituations
  CheckRaisesWithBounty
  AnswersAsTyped
