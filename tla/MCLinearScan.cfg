SPECIFICATION MCSpec
CONSTANTS
  Val = {1, 2, 3}
  Reg = {0, 1}
  ArgReg <- MCArgReg
  Horizon <- MCHorizon
  BlockStart <- MCBlockStart
  Shape <- MCShape
  Length <- MCLength112
  MaxUse = 2
INVARIANTS OneValuePerRegister EveryPlaceKnown MovesFollowValues OutputMovesSpareInputs
CHECK_DEADLOCK FALSE
