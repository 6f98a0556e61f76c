------------------------------- MODULE InstSel -------------------------------
(***************************************************************************)
(* Instruction selection: gen_bb of codegen_new/codegen.cc and what it     *)
(* calls for every instruction of a block but calls, returns and the       *)
(* copies between places (CallFrame, BlockEdge, ParallelMov).              *)
(*                                                                         *)
(* What is emitted for an instruction runs on the Machine at once.  A      *)
(* value of the IR is known by the register it lives in: means[r] is what  *)
(* it is, and an instruction that gets register r ends the life of what    *)
(* was there, which may be one of its operands.  The register allocator is *)
(* thus any that gives the values alive different registers.               *)
(***************************************************************************)
EXTENDS Words, Sequences, FiniteSets

(***************************************************************************)
(* The instructions Instgen writes (codegen_new/instgen.cc), as what they  *)
(* do to a LoongArch machine m that runs them at once: m.int and m.float   *)
(* are the registers, m.fcc the condition flag, m.mem the memory.          *)
(* Integer registers are twice as wide as a word; a .w instruction works   *)
(* on the low half and extends the sign.  The assembler refuses an         *)
(* immediate that does not fit and an instruction of another machine.      *)
(*                                                                         *)
(* A float is a whole number here, whose bits read as an integer are       *)
(* another number.                                                         *)
(***************************************************************************)
CONSTANT ImmBits    \* 12: the bits of an immediate

ASSUME ImmBitsAssumption == ImmBits \in 1 .. Width - 1

Zero == "zero"
Sp == "sp"

Signed(imm) == imm \in -(2 ^ (ImmBits - 1)) .. 2 ^ (ImmBits - 1) - 1
Unsigned12(imm) == imm \in 0 .. 2 ^ ImmBits - 1

Bits(number) == Wrap(number + 2 ^ (Width - 2))
Number(bits) == Wrap(bits - 2 ^ (Width - 2))

Wide(n) == LET half == 2 ^ (2 * Width - 1) IN ((n + half) % (2 * half)) - half
WideBit(n, i) == (n \div 2 ^ i) % 2
BitOr(a, b) ==
  LET upTo[i \in 0 .. 2 * Width] ==
        IF i = 0 THEN 0 ELSE upTo[i - 1] + (IF 1 \in {WideBit(a, i - 1), WideBit(b, i - 1)} THEN 2 ^ (i - 1) ELSE 0)
  IN  IF 0 \in {a, b} THEN a + b ELSE Wide(upTo[2 * Width])
Truth(p) == IF p THEN 1 ELSE 0

-----------------------------------------------------------------------------
Refuse(m) == [m EXCEPT !.refused = TRUE]
Put(m, r, n) == [m EXCEPT !.int[r] = n]
PutFloat(m, r, bits) == [m EXCEPT !.float[r] = bits]
IsFloat(m, r) == r \in DOMAIN m.float

\* Three registers.  A division the machine leaves open gives 0.
Result(op, x, y) ==
  LET a == Wrap(x)  b == Wrap(y)
      divides == x = a /\ y = b /\ b # 0 /\ ~ Undefined("sdiv", a, b)
  IN  CASE op = "add.d"   -> Wide(x + y)
        [] op = "sub.d"   -> Wide(x - y)
        [] op = "sub.w"   -> Wrap(x - y)
        [] op = "mul.w"   -> Wrap(a * b)
        [] op = "div.w"   -> IF divides THEN Quotient(a, b) ELSE 0
        [] op = "mod.w"   -> IF divides THEN Remainder(a, b) ELSE 0
        [] op = "slt"     -> Truth(x < y)
        [] op = "or"      -> BitOr(x, y)
        [] op = "maskeqz" -> IF y = 0 THEN 0 ELSE x
        [] op = "masknez" -> IF y # 0 THEN 0 ELSE x
Three(m, op, d, a, b) == Put(m, d, Result(op, m.int[a], m.int[b]))

FloatResult(op, x, y) ==
  LET a == Number(x)  b == Number(y)
  IN  Bits(CASE op = "fadd" -> Wrap(a + b) [] op = "fsub" -> Wrap(a - b) [] op = "fmul" -> Wrap(a * b)
             [] op = "fdiv" -> IF b = 0 \/ Undefined("sdiv", a, b) THEN 0 ELSE Quotient(a, b))
FloatThree(m, op, d, a, b) == PutFloat(m, d, FloatResult(op, m.float[a], m.float[b]))

\* Two registers and an immediate.
AddiD(m, d, a, imm) ==
  IF d = a /\ imm = 0 THEN m ELSE IF Signed(imm) THEN Put(m, d, Wide(m.int[a] + imm)) ELSE Refuse(m)
Ori(m, d, a, imm) == IF Unsigned12(imm) THEN Put(m, d, BitOr(m.int[a], imm)) ELSE Refuse(m)
Xori1(m, d, a) == Put(m, d, IF WideBit(m.int[a], 0) = 0 THEN m.int[a] + 1 ELSE m.int[a] - 1)
Andi(m, d, a, imm) ==
  IF Unsigned12(imm) THEN Put(m, d, BitAnd(Wrap(m.int[a]), imm)) ELSE Refuse(m)
Lu12i(m, d, imm) == Put(m, d, Wrap(imm * 2 ^ ImmBits))
ShiftW(m, op, d, a, n) == Put(m, d, Eval(op, Wrap(m.int[a]), n))

\* Instgen::mov, of a register and of an integer.
Or(m, d, a) == IF d = a THEN m ELSE Three(m, "or", d, a, Zero)
LiSigned(m, d, imm) ==              \* faulty: the low bits carry a sign
  IF Signed(imm) THEN AddiD(m, d, Zero, imm)
  ELSE LET up == Lu12i(m, d, imm \div 2 ^ ImmBits)
           low == imm % 2 ^ ImmBits
       IN  AddiD(up, d, d, IF Signed(low) THEN low ELSE low - 2 ^ ImmBits)
Li(m, d, imm) ==
  CASE Signed(imm) -> AddiD(m, d, Zero, imm)
    [] ~ Signed(imm) /\ Unsigned12(imm) -> Ori(m, d, Zero, imm)
    [] OTHER -> Ori(Lu12i(m, d, imm \div 2 ^ ImmBits), d, d, imm % 2 ^ ImmBits)

\* reg_mov: the instruction depends on the two classes.
RegMov(m, d, a) ==
  CASE d = a -> m
    [] d # a /\ IsFloat(m, d) /\ IsFloat(m, a) -> PutFloat(m, d, m.float[a])
    [] d # a /\ IsFloat(m, d) /\ ~ IsFloat(m, a) -> PutFloat(m, d, Wrap(m.int[a]))
    [] d # a /\ ~ IsFloat(m, d) /\ IsFloat(m, a) -> Put(m, d, m.float[a])
    [] OTHER -> Or(m, d, a)

FfintSW(m, d, a) == PutFloat(m, d, Bits(m.float[a]))
FtintrzWS(m, d, a) == PutFloat(m, d, Number(m.float[a]))
Fcmp(m, holds) == [m EXCEPT !.fcc = holds]

\* ld.w and fld.s, st.w and fst.s: register d and the word at register a plus an offset.
Loaded(m, d, address) ==
  IF IsFloat(m, d) THEN PutFloat(m, d, m.mem[address]) ELSE Put(m, d, m.mem[address])
StoredAt(m, d, address) ==
  [m EXCEPT !.mem[address] = IF IsFloat(m, d) THEN m.float[d] ELSE Wrap(m.int[d])]
LdW(m, d, a, imm) == IF Signed(imm) THEN Loaded(m, d, m.int[a] + imm) ELSE Refuse(m)
StW(m, d, a, imm) == IF Signed(imm) THEN StoredAt(m, d, m.int[a] + imm) ELSE Refuse(m)
LdxW(m, d, a, b) == Loaded(m, d, m.int[a] + m.int[b])
StxW(m, d, a, b) == StoredAt(m, d, m.int[a] + m.int[b])

\* Instgen::shift, of the index of an array.
Shift(m, d, a, n) == Put(m, d, Wide(m.int[a] * 2 ^ n))

-----------------------------------------------------------------------------
CONSTANTS
  IntRegs, FloatRegs,  \* what the allocator hands out
  InputBits,           \* the words the registers hold at first, unsigned
  ConstantBits,        \* the constants of the program, too
  FloatConstants,      \* their bits
  Allocas,             \* sp_offset: where the arrays of the frame start
  MaxLen,              \* instructions of the block
  Ported               \* only those whose code is LoongArch's? (see Emits)

ASSUME SelectionAssumption ==
  /\ InputBits \cup ConstantBits \cup FloatConstants \subseteq 0 .. 2 ^ Width - 1
  /\ Allocas \subseteq Words \cap Nat
  /\ MaxLen \in Nat /\ Ported \in BOOLEAN

TempLhs == "temp_lhs"
TempRhs == "temp_rhs"
TempOut == "temp_out"
TempFloatLhs == "temp_float_lhs"
TempFloatRhs == "temp_float_rhs"
Temps == {TempLhs, TempRhs, TempOut}
FloatTemps == {TempFloatLhs, TempFloatRhs}

SpOffset == 2              \* sp is the address 2: two words of a global array are below
Memory == 0 .. 2 ^ (Width - 1) - 1

Inputs == {Wrap(n) : n \in InputBits}
Constants == {Wrap(n) : n \in ConstantBits}

VARIABLES
  m,       \* the machine
  means,   \* what the value in a register is, Undef if there is none
  cells,   \* what the memory of the program is
  cond,    \* the comparison right before, and the register of its own it may have
  went,    \* the branch at the end: the way it goes and the way it should go
  pos

vars == <<m, means, cells, cond, went, pos>>

\* A value without a meaning: dead, or undefined in the source language.
Undef == MaxInt + 1
NoCond == [op |-> "none", isFloat |-> FALSE, saved |-> {}, holds |-> FALSE]
NotYet == <<>>

Init ==
  /\ \E ints \in [IntRegs -> Inputs], floats \in [FloatRegs -> Inputs] :
       /\ means = [r \in IntRegs \cup FloatRegs |-> IF r \in IntRegs THEN ints[r] ELSE floats[r]]
       /\ m = [int |-> [r \in IntRegs \cup Temps \cup {Zero, Sp} |->
                          CASE r \in IntRegs -> ints[r] [] r = Sp -> SpOffset [] OTHER -> 0],
               float |-> [r \in FloatRegs \cup FloatTemps |-> IF r \in FloatRegs THEN floats[r] ELSE 0],
               fcc |-> FALSE, mem |-> [a \in Memory |-> a], refused |-> FALSE]
  /\ cells = m.mem
  /\ cond = NoCond /\ went = NotYet /\ pos = 1

-----------------------------------------------------------------------------
\* Operands: a register, a constant, the address of an array.
Reg(r) == <<"reg", r>>
Const(n) == <<"const", n>>
Alloca(n) == <<"alloca", n>>
Global == <<"global", 0>>
IsConst(o) == o[1] = "const"
InReg(o) == o[1] = "reg"
Registers == {Reg(r) : r \in IntRegs}
Ints == Registers \cup {Const(n) : n \in Constants}
Floats == {Reg(r) : r \in FloatRegs} \cup {Const(n) : n \in FloatConstants}
Pairs(S) == {p \in S \X S : ~ (IsConst(p[1]) /\ IsConst(p[2]))}   \* others are folded
Arrays == {Alloca(n) : n \in Allocas} \cup {Global}

ValueOf(o) ==
  CASE InReg(o) -> means[o[2]] [] IsConst(o) -> o[2]
    [] o[1] = "alloca" -> SpOffset + o[2] [] OTHER -> o[2]

\* An overflow of a sum has no meaning, nor have the cases of Words.
Meaning(op, x, y) ==
  IF \/ Undef \in {x, y} \/ Undefined(op, x, y) \/ (op \in {"sdiv", "srem"} /\ y = 0)
     \/ (op = "add" /\ x + y \notin Words)
     \/ (op = "sub" /\ x - y \notin Words)
  THEN Undef ELSE Eval(op, x, y)
Holds(op, x, y) ==
  CASE op = "LT" -> x < y  [] op = "LE" -> x <= y [] op = "GT" -> x > y
    [] op = "GE" -> x >= y [] op = "EQ" -> x = y  [] op = "NE" -> x # y
CmpOps == {"LT", "LE", "GT", "GE", "EQ", "NE"}

\* encode_arm_immediate decides whether an offset from sp is added at once; the bits
\* that ARM has fewer of are two here.
RotateLeft(n, i) == ((n * 2 ^ i) % 2 ^ Width) + ((n * 2 ^ i) \div 2 ^ Width)
encode_arm_immediate(n) == \E i \in {j \in 0 .. Width - 1 : j % 2 = 0} : RotateLeft(n, i) < 4

\* Codegen::move(Reg, Value*).  A float constant comes through temp_rhs_reg.
MoveTo(mm, r, o) ==
  CASE IsConst(o) /\ ~ IsFloat(mm, r) -> Li(mm, r, o[2])
    [] IsConst(o) /\ IsFloat(mm, r) -> RegMov(Li(mm, TempRhs, o[2]), r, TempRhs)
    [] InReg(o) -> RegMov(mm, r, o[2])
    [] o[1] = "alloca" ->
         IF encode_arm_immediate(o[2]) THEN AddiD(mm, r, Sp, o[2])
         ELSE Three(Li(mm, r, o[2]), "add.d", r, r, Sp)
    [] o[1] = "global" -> Put(mm, r, o[2])

\* The operand's own register, or a temporary that it is moved to.
Where(o, temp) == IF InReg(o) THEN o[2] ELSE temp
Move(o, temp) == MoveTo(m, Where(o, temp), o)
MoveBoth(a, b, temp1, temp2) == MoveTo(Move(a, temp1), Where(b, temp2), b)

-----------------------------------------------------------------------------
\* What one instruction does to the state: the machine, the value it defines in
\* register d, and the comparison the next instruction may use.
Emit(mm) == m' = mm
Defines(d, value) == means' = [means EXCEPT ![d] = value]

\* gen_binary.  Shifts and masks by a constant are immediate.
Immediate(op, mm, d, a, n) == IF op = "and" THEN Andi(mm, d, a, n) ELSE ShiftW(mm, op, d, a, n)
OpCode == [add |-> "add.d", sub |-> "sub.d", mul |-> "mul.w", sdiv |-> "div.w", srem |-> "mod.w"]

GenImmediate(op, a, n, d) ==
  /\ Emit(Immediate(op, Move(a, TempLhs), d, Where(a, TempLhs), n))
  /\ Defines(d, Meaning(op, ValueOf(a), n))
  /\ cond' = NoCond /\ UNCHANGED <<cells, went>>

ThreeSwapped(mm, op, d, a, b) ==    \* faulty: the operands the other way round
  Three(mm, OpCode[op], d, Where(b, TempRhs), Where(a, TempLhs))
Binary(mm, op, d, a, b) == Three(mm, OpCode[op], d, Where(a, TempLhs), Where(b, TempRhs))
\* Without the op2 shift, which LowerIR's fused operations alone set (Ported), and for the
\* operators of OpCode: any other one, as rsub or a shift by a register, exits.
GenBinary(op, a, b, d) ==
  /\ Emit(Binary(MoveBoth(a, b, TempLhs, TempRhs), op, d, a, b))
  /\ Defines(d, Meaning(op, ValueOf(a), ValueOf(b)))
  /\ cond' = NoCond /\ UNCHANGED <<cells, went>>

GenFloat(op, a, b, d) ==
  /\ Emit(FloatThree(MoveBoth(a, b, TempFloatLhs, TempFloatRhs), op, d, Where(a, TempFloatLhs), Where(b, TempFloatRhs)))
  /\ Defines(d, IF Undef \in {ValueOf(a), ValueOf(b)} THEN Undef ELSE FloatResult(op, ValueOf(a), ValueOf(b)))
  /\ cond' = NoCond /\ UNCHANGED <<cells, went>>

\* gen_ternary: mla and mls are ARM's.
GenTernary(a, b, c, d) ==
  /\ Emit(Refuse(MoveTo(MoveBoth(a, b, TempLhs, TempRhs), Where(c, TempOut), c)))
  /\ Defines(d, Meaning("add", Meaning("mul", ValueOf(a), ValueOf(b)), ValueOf(c)))
  /\ cond' = NoCond /\ UNCHANGED <<cells, went>>

-----------------------------------------------------------------------------
\* gen_cmp leaves in temp_rhs_reg a number, and whether it is zero tells the result.
\* regalloc.cc gives a comparison a register of its own (saved) unless a branch or a
\* zext right behind it is all that uses it, but nothing is ever written there.  So
\* while Ported the register has no value, and only a select right behind the
\* comparison uses it.
Compare(mm, op, l, r) ==
  CASE op \in {"LT", "GE"} -> Three(mm, "slt", TempRhs, l, r)
    [] op \in {"GT", "LE"} -> Three(mm, "slt", TempRhs, r, l)
    [] op \in {"EQ", "NE"} -> Three(mm, "sub.w", TempRhs, l, r)
NonZeroHoldsGE(op) == op \in {"LT", "GE", "NE"}     \* faulty: slt l, r stands for l >= r
NonZeroHolds(op) == op \in {"LT", "GT", "NE"}

Known(a, b) == Undef \notin {ValueOf(a), ValueOf(b)}
Compares(op, isFloat, saved, holds) ==
  cond' = [op |-> op, isFloat |-> isFloat, saved |-> saved, holds |-> holds]
Saves(saved, value) == means' = [r \in DOMAIN means |-> IF r \in saved THEN value ELSE means[r]]

GenCmp(op, a, b, saved) ==
  /\ Known(a, b)
  /\ Emit(Compare(MoveBoth(a, b, TempLhs, TempRhs), op, Where(a, TempLhs), Where(b, TempRhs)))
  /\ LET holds == Holds(op, ValueOf(a), ValueOf(b))
     IN  /\ Saves(saved, IF Ported THEN Undef ELSE Truth(holds))
         /\ Compares(op, FALSE, saved, holds)
  /\ UNCHANGED <<cells, went>>

\* gen_cmp_move and gen_fcmp_move put the result in a register; all but one of the
\* latter's instructions are ARM's, and a difference is not 0 or 1.
CmpMove(op, d) == IF NonZeroHolds(op) THEN Or(m, d, TempRhs) ELSE Xori1(m, d, TempRhs)
FcmpMove(mm, op, d) == IF op = "LT" THEN Li(mm, d, Truth(mm.fcc)) ELSE Refuse(mm)

\* gen_fcmp: a register of its own is written at once.
FlagOf(op, x, y) ==
  CASE op \in {"LT", "GE"} -> x < y [] op \in {"GT", "LE"} -> y < x [] op \in {"EQ", "NE"} -> x # y
GenFcmp(op, a, b, saved) ==
  /\ Known(a, b)
  /\ LET x == Number(ValueOf(a))  y == Number(ValueOf(b))
         moved == MoveBoth(a, b, TempFloatLhs, TempFloatRhs)
         mm == Fcmp(moved, FlagOf(op, Number(moved.float[Where(a, TempFloatLhs)]),
                                      Number(moved.float[Where(b, TempFloatRhs)])))
     IN  /\ Emit(IF saved = {} THEN mm ELSE FcmpMove(mm, op, CHOOSE r \in saved : TRUE))
         /\ Saves(saved, Truth(Holds(op, x, y)))
         /\ Compares(op, TRUE, saved, Holds(op, x, y))
  /\ UNCHANGED <<cells, went>>

\* gen_zext of the comparison in front of it.
Widens == IF cond.isFloat THEN cond.op = "LT" ELSE cond.op \notin {"EQ", "NE"}
GenZext(d) ==
  /\ cond # NoCond /\ cond.saved = {} /\ (Ported => Widens)
  /\ Emit(IF cond.isFloat THEN FcmpMove(m, cond.op, d) ELSE CmpMove(cond.op, d))
  /\ Defines(d, Truth(cond.holds))
  /\ cond' = NoCond /\ UNCHANGED <<cells, went>>

\* gen_select takes what temp_rhs_reg holds for the condition, after the operands
\* have been moved, a constant on the right to temp_rhs_reg.
Selectable(b) == ~ cond.isFloat /\ NonZeroHolds(cond.op) /\ ~ IsConst(b)
Masked(mm, d, l, r) ==
  LET kept == Three(mm, "maskeqz", TempLhs, l, TempRhs)
  IN  Three(Three(kept, "masknez", d, r, TempRhs), "or", d, d, TempLhs)
GenSelect(a, b, d) ==
  /\ cond # NoCond /\ cond.saved # {} /\ (Ported => Selectable(b))
  /\ Emit(Masked(MoveBoth(a, b, TempLhs, TempRhs), d, Where(a, TempLhs), Where(b, TempRhs)))
  /\ Defines(d, IF cond.holds THEN ValueOf(a) ELSE ValueOf(b))
  /\ cond' = NoCond /\ UNCHANGED <<cells, went>>

\* gen_br: on the comparison in front of it, on a value in a register, on a constant.
GenBrCond ==
  /\ cond # NoCond /\ cond.saved = {}
  /\ went' = <<IF cond.isFloat THEN m.fcc = NonZeroHolds(cond.op)
               ELSE (m.int[TempRhs] # 0) = NonZeroHolds(cond.op), cond.holds>>
  /\ cond' = NoCond /\ UNCHANGED <<m, means, cells>>
GenBr(o) ==
  /\ ValueOf(o) \in {0, 1}
  /\ LET mm == IF IsConst(o) THEN Li(m, TempRhs, o[2]) ELSE Or(m, TempRhs, o[2])
     IN  Emit(mm) /\ went' = <<mm.int[TempRhs] # 0, ValueOf(o) = 1>>
  /\ cond' = NoCond /\ UNCHANGED <<means, cells>>

-----------------------------------------------------------------------------
\* inttoptr, ptrtoint, mov and a zext of a value in a register are moves.
GenMove(o, d) ==
  /\ Emit(MoveTo(m, d, o))
  /\ Defines(d, ValueOf(o))
  /\ cond' = NoCond /\ UNCHANGED <<cells, went>>

GenFptosi(o, d) ==
  /\ LET r == Where(o, TempFloatLhs)
     IN  Emit(RegMov(FtintrzWS(MoveTo(m, r, o), TempFloatRhs, r), d, TempFloatRhs))
  /\ Defines(d, IF ValueOf(o) = Undef THEN Undef ELSE Number(ValueOf(o)))
  /\ cond' = NoCond /\ UNCHANGED <<cells, went>>

\* An integer constant comes to a float register through temp_lhs_reg; a comparison
\* would have a register of its own, since only br and zext use it right away.
Converted(o, d) == IF IsConst(o) THEN RegMov(Li(m, TempLhs, o[2]), d, TempLhs) ELSE MoveTo(m, d, o)
GenSitofp(o, d) ==
  /\ Emit(FfintSW(Converted(o, d), d, d))
  /\ Defines(d, IF ValueOf(o) = Undef THEN Undef ELSE Bits(ValueOf(o)))
  /\ cond' = NoCond /\ UNCHANGED <<cells, went>>

-----------------------------------------------------------------------------
\* load and store: the word at a base, plus an offset shifted left by n.  Imm and Ind
\* access it with an immediate and with a register for an offset.
NoOffset == <<"none", 0>>
OffsetOf(off) == IF off = NoOffset THEN 0 ELSE ValueOf(off)
AddressOf(base, off, n) ==
  IF Undef \in {ValueOf(base), OffsetOf(off)} THEN Undef ELSE ValueOf(base) + OffsetOf(off) * 2 ^ n

\* From a base in a register the shift is forgotten.
AtRegister(mm, r, p, off, Imm(_, _, _, _), Ind(_, _, _, _)) ==
  IF InReg(off) THEN Ind(mm, r, p, off[2]) ELSE Imm(mm, r, p, off[2])
AtAlloca(mm, r, a, off, n, Imm(_, _, _, _)) ==
  LET index == IF n > 0 THEN TempRhs ELSE off[2]
      scaled == IF n > 0 THEN Shift(mm, TempRhs, off[2], n) ELSE mm
  IN  IF InReg(off) THEN Imm(Three(scaled, "add.d", TempRhs, Sp, index), r, TempRhs, a)
      ELSE Imm(mm, r, Sp, a + off[2])
Access(mm, r, base, off, n, Imm(_, _, _, _), Ind(_, _, _, _)) ==
  CASE InReg(base) -> AtRegister(mm, r, base[2], off, Imm, Ind)
    [] base[1] = "alloca" -> AtAlloca(mm, r, base[2], off, n, Imm)
    [] base[1] = "global" -> Imm(MoveTo(mm, TempRhs, base), r, TempRhs, 0)

Addressable(base, off, n, isFloat) ==
  /\ AddressOf(base, off, n) \in Memory
  /\ base = Global => off = NoOffset /\ ~ isFloat
  /\ InReg(off) => ~ isFloat
  /\ n > 0 => InReg(off) /\ (Ported => ~ InReg(base))

GenStore(v, base, off, n, isFloat) ==
  /\ Addressable(base, off, n, isFloat) /\ ValueOf(v) # Undef
  /\ LET r == Where(v, IF isFloat THEN TempFloatLhs ELSE TempLhs)
     IN  Emit(Access(MoveTo(m, r, v), r, base, off, n, StW, StxW))
  /\ cells' = [cells EXCEPT ![AddressOf(base, off, n)] = ValueOf(v)]
  /\ cond' = NoCond /\ UNCHANGED <<means, went>>

GenLoad(d, base, off, n, isFloat) ==
  /\ Addressable(base, off, n, isFloat)
  /\ Emit(Access(m, d, base, off, n, LdW, LdxW))
  /\ Defines(d, cells[AddressOf(base, off, n)])
  /\ cond' = NoCond /\ UNCHANGED <<cells, went>>

-----------------------------------------------------------------------------
Places(S) == {{}} \cup {{r} : r \in S}
Offsets == {NoOffset} \cup Ints

NextBinary ==
  \E d \in IntRegs :
    \/ \E a \in Registers, op \in {"shl", "lshr", "ashr"}, n \in Constants \cap 0 .. Width - 1 : GenImmediate(op, a, n, d)
    \/ \E a \in Registers, n \in Constants : GenImmediate("and", a, n, d)
    \/ \E op \in DOMAIN OpCode, p \in Pairs(Ints) \cup (Registers \X Arrays) : GenBinary(op, p[1], p[2], d)
    \/ \E a, b, c \in Registers : GenTernary(a, b, c, d)
    \/ \E p \in Pairs(Ints) : GenSelect(p[1], p[2], d)
NextFloat ==
  \E p \in Pairs(Floats) :
    \/ \E d \in FloatRegs, op \in {"fadd", "fsub", "fmul", "fdiv"} : GenFloat(op, p[1], p[2], d)
    \/ \E op \in CmpOps, saved \in Places(IntRegs) : GenFcmp(op, p[1], p[2], saved)
NextMemory ==
  \E base \in Arrays \cup Registers, off \in Offsets, n \in {0, 1} :
    \/ \E v \in Ints : GenStore(v, base, off, n, FALSE)
    \/ \E v \in Floats : GenStore(v, base, off, n, TRUE)
    \/ \E d \in IntRegs : GenLoad(d, base, off, n, FALSE)
    \/ \E d \in FloatRegs : GenLoad(d, base, off, n, TRUE)
NextCast ==
  \/ \E d \in IntRegs : (\E o \in Ints \cup Arrays : GenMove(o, d)) \/ \E o \in Floats : GenFptosi(o, d)
  \/ \E d \in FloatRegs : (\E o \in Floats : GenMove(o, d)) \/ \E o \in Ints : GenSitofp(o, d)
Next ==
  /\ pos <= MaxLen /\ went = NotYet /\ ~ m.refused
  /\ pos' = pos + 1
  /\ \/ NextBinary \/ NextFloat \/ NextMemory \/ NextCast
     \/ \E op \in CmpOps, p \in Pairs(Ints), saved \in Places(IntRegs) : GenCmp(op, p[1], p[2], saved)
     \/ \E d \in IntRegs : GenZext(d)
     \/ GenBrCond
     \/ \E o \in Ints : GenBr(o)
Spec == Init /\ [][Next]_vars

-----------------------------------------------------------------------------
\* The code keeps every value of the program in the register it was given and memory
\* as the program left it, unless the assembler refuses it: no temporary, no operand
\* that shares a register with the result and no width gets in between.
CodeComputes ==
  ~ m.refused =>
    /\ \A r \in IntRegs : means[r] # Undef => m.int[r] = means[r]
    /\ \A r \in FloatRegs : means[r] # Undef => m.float[r] = means[r]
    /\ m.mem = cells

\* A branch goes where the comparison in front of it says.
BranchFollows == went # NotYet => went[1] = went[2]
=============================================================================
