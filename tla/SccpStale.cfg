SPECIFICATION Spec
CONSTANTS
  Names = {1, 2, 3, 4, 5, 6, 7}
  Modulus = 4
  Fuel = 24
  MaxIter = 10
  Functions0 <- MCStale
INVARIANT ConstantsHold
CHECK_DEADLOCK FALSE
