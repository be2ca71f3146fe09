\* Programs on arenas of several sizes.
SPECIFICATION Spec
CONSTANTS
  Sizes = {150, 160, 171}
  Programs <- MCPrograms
  ScanOperands = TRUE
  PENDING_ALLOCS = 3
  NumHalf = 64
  USE_SETJMP = TRUE
CHECK_DEADLOCK FALSE
INVARIANTS FreeListOK Answers
PROPERTIES IsArena Ends
