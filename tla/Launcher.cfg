\* Command lines, arguments and places of the executable.
SPECIFICATION Spec
CONSTANTS
  Lines <- MCLines
  Arguments <- MCArguments
  Exes <- MCExes
  MaxPath = 7
CHECK_DEADLOCK FALSE
INVARIANTS ParsesAsDocumented StartsItsScript
