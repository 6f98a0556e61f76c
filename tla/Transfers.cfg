CONSTANTS
  IntReg = {r0, r1}
  FloatReg = {f0, f1}
  IntSlot = {s0, s1}
  FloatSlot = {d0}
  IntConst = {c}
  FloatConst = {k}
  TempLhs = r11
  TempRhs = r12
  TempFloat = f30
  SlotsApart = TRUE
  Val = {"v", "w"}
  Place = {"p", "q", "s"}
  Block = {"b", "c"}
  Kind = {"jump", "int", "float"}
  Reload = TRUE
  IntRegs = {0, 1}
  FloatRegs = {0}
  NInt = 2
  NFloat = 1
  Lhs = 7
  Rhs = 8
  Frame = 2
  Slots = {2}
  MaxArgs = 4
  Results = {"void", "int"}
SPECIFICATION TransferSpec
INVARIANTS DataflowOrder AllDelivered BothEdgesDeliver ArgumentsArrive CallerResumes
CHECK_DEADLOCK FALSE
