CONSTANTS
  STARTING_STACK = 7
  BIG_BLIND = 2
  SMALL_BLIND = 1
  RATIO_NUM = 3
  RATIO_DEN = 2
  BOUNTY_CONSTANT = 1
  Deals <- HitDeals
SPECIFICATION FairHSpec
INVARIANTS
  RoundTypeOK
  DecisionWellFormed
  PayoffsSeatNeutral
PROPERTIES
  EqualStakesWhenStreetCloses
  PayoffsFollowTheOutcome
  StreetClosesWhenBothActed
  NoUndersizedRaise
  RoundEnds
