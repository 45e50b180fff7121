CONSTANTS
  MaxLines = 4
  SIZE_LIMIT = 3
SPECIFICATION Spec
INVARIANTS
  GameIsRecorded
