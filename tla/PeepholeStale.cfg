\* Any order of three accesses.
SPECIFICATION Spec
INVARIANTS LastUpdateKnown
CHECK_DEADLOCK FALSE
CONSTANTS
  Width = 5
  Steps = 60
  OnlyHandled = FALSE
  MaxConstTimes = 4
  BaseTimes = 2
  Inputs <- MCInputs
  Candidates <- MCForwarding
