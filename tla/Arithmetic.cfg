SPECIFICATION Spec
CONSTANTS
  Width = 4
  Programs <- MCPrograms
  Inputs <- MCInputs
INVARIANTS ValueKept StopsAtExtremes
CHECK_DEADLOCK FALSE
