CONSTANTS
  MaxLines = 3
  SIZE_LIMIT = 2
  ITERATIONS = 2
  NUM_ROUNDS = 2
  Bankrolls <- MCBankrolls
  OldBankrolls <- MCOldBankrolls
SPECIFICATION BatchSpec
INVARIANTS
  BatchTypeOK
  NothingLostWhileOpen
  NothingTwice
  InOrderUntilStop
  LogWithinLimit
  StaleOnlyAfterFailure
PROPERTIES
  BatchEnds
