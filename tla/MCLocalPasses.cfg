\* Programs of main and a pure function; words of 5 bits.
SPECIFICATION Spec
INVARIANTS ProgramKept EdgesKept SingleAssignment
CHECK_DEADLOCK FALSE
CONSTANTS
  Width = 5
  Steps = 60
  OnlyHandled = TRUE
  MaxConstTimes = 4
  BaseTimes = 2
  Inputs <- MCInputs
  Candidates <- MCCandidates
