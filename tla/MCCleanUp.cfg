SPECIFICATION Spec
CONSTANTS
  Names = {1, 2, 3}
  Modulus = 2
  Fuel = 10
  MaxIter = 10
  Functions0 <- MCFunctions
INVARIANTS ConstantsHold BehaviourKept ListsMirrored NoExit
PROPERTY OnlyDown
CHECK_DEADLOCK FALSE
