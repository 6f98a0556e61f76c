\* Five allocatable registers, as RegAlloc uses, and a pool of two.
CONSTANTS
  Reg = {0, 1, 2, 3, 4}
  Pool = {22, 23}
  PoolFloor = 10
SPECIFICATION FairSpec
INVARIANTS TypeOK MovesDelivered NeverTwice
PROPERTIES CopySpec Terminates
