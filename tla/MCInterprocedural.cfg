\* Programs of main and two functions; words of 4 bits.
SPECIFICATION Spec
INVARIANTS ProgramKept EdgesKept PurityHolds
CHECK_DEADLOCK FALSE
CONSTANTS
  Width = 4
  Steps = 60
  Inputs <- MCInputs
  Candidates <- MCCandidates
