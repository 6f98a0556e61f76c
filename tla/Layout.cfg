\* Every reducible graph of five blocks of at most two successors, up to their names.
SPECIFICATION Spec
CONSTANTS
  Block = {b1, b2, b3, b4, b5}
  Entry = b1
  MaxSearched = 4
  MaxIntervals = 4
  Length = 1
  MaxUse = 2
SYMMETRY Symmetry
INVARIANTS LoopsAreNatural InnermostBase LegalOrder IntervalIsLiveness
PROPERTY SearchSpec
CHECK_DEADLOCK FALSE
