\* Two programs, three lines between them, reads of up to two lines.
SPECIFICATION Spec
CONSTANTS
  a = a
  b = b
  Names <- MCNames
  Lines <- MCLines
  Chunk = 2
  MaxRuns = 2
  MaxLines = 3
CHECK_DEADLOCK FALSE
INVARIANTS OutputInOrder NothingLeftBehind
PROPERTIES EndsWithProgram
