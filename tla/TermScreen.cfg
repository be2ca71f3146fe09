\* A screen of two rows and two or three columns.
SPECIFICATION Spec
CONSTANTS
  RowSizes = {2}
  ColSizes = {2, 3}
  TabStop = 2
  Args = {0, 1, 3}
  MaxRun = 4
  MaxLines = 3
  MaxLen = 3
  MaxOff = 1
\* A terminal whose parser failed is silent.
CHECK_DEADLOCK FALSE
INVARIANTS TermTypeOK SawCrIsLast
PROPERTIES KeepsFrame StaysOnScreen FailsOnlyOffScreen PrintsInOrder
