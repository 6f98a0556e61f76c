\* Words on both sides of what fits an immediate: -32 and 6; -5, 1 and 6.
CONSTANTS
  Width = 6
  ImmBits = 3
  IntRegs = {"a", "b"}
  FloatRegs = {"fa"}
  InputBits = {32, 6}
  ConstantBits = {59, 1, 6}
  FloatConstants = {2}
  Allocas = {1, 4, 5}
  MaxLen = 2
  Ported = TRUE
SPECIFICATION Spec
INVARIANTS CodeComputes BranchFollows
CHECK_DEADLOCK FALSE
