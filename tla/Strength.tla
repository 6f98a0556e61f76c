------------------------------ MODULE Strength ------------------------------
(***************************************************************************)
(* Weaker operations: products by a constant next to a power of two        *)
(* (Optimize/MulWeaken.hh), operations that change nothing                 *)
(* (Optimize/UselessOperationEli.hh), what SCCP and DeadCode do to a       *)
(* single block (constants are folded and unused results deleted), and the *)
(* fusions of Optimize/LowerIR.cc: a product that is added or subtracted,  *)
(* a shift by a constant that feeds a sum or a difference.                 *)
(***************************************************************************)
EXTENDS Straight

VARIABLE stopped

Current == code[at]
Go(insts, i) == code' = insts /\ at' = i /\ UNCHANGED stopped

\* MulWeaken: which operand is the constant, and the first of 0, -1, 1 that leaves
\* a power of two; c & (c - 1) is 0 for MinInt, too.
ConstSide == IF IsConst(Current.args[1]) THEN 1 ELSE 2
Factor == Current.args[ConstSide][2]
Other == Current.args[3 - ConstSide]
IsPower(c) == BitAnd(c, Wrap(c - 1)) = 0
Subs(c) == SelectSeq(<<0, -1, 1>>, LAMBDA sub : IsPower(Wrap(c - sub)))
Weakens ==
  /\ at \in DOMAIN code /\ Current.op = "mul"
  /\ IsConst(Current.args[1]) \/ IsConst(Current.args[2])
  /\ Factor > 0 /\ Subs(Factor) # <<>>

Log(c) == CHOOSE p \in 0 .. Width : 2 ^ p = c
Weakened(x, c, sub, n) ==
  LET shl == Inst(n, "shl", <<x, Const(Log(c - sub))>>)
  IN  CASE sub = 0  -> <<shl>>
        [] sub = 1  -> <<shl, Inst(n + 1, "add", <<Name(n), x>>)>>
        [] sub = -1 -> <<shl, Inst(n + 1, "sub", <<Name(n), x>>)>>

\* A product by 1 is its other operand.
MulByOne ==
  /\ Weakens /\ Factor = 1
  /\ Go(ReplaceUses(code, Name(Current.name), Other), at + 1)

MulWeaken ==
  /\ Weakens /\ Factor # 1 /\ Wrap(Factor - Subs(Factor)[1]) > 0
  /\ LET new == Weakened(Other, Factor, Subs(Factor)[1], Fresh(code))
     IN  Go(ReplaceUses(InsertBefore(code, at, new), Name(Current.name), Name(Last(new).name)), at + Len(new) + 1)

\* MaxInt + 1: the shift that looks for the exponent never comes to 0.
LogOfOverflow ==
  /\ Weakens /\ Wrap(Factor - Subs(Factor)[1]) < 0
  /\ stopped' = "hangs" /\ UNCHANGED <<code, at>>

KeepProduct ==
  /\ at \in DOMAIN code /\ ~ Weakens
  /\ Go(code, at + 1)

NextWeaken == MulByOne \/ MulWeaken \/ LogOfOverflow \/ KeepProduct

-----------------------------------------------------------------------------
\* UselessOperationEli: the value an operation has anyhow, in a sequence, or none.
\* An `and` with 0 counts among the shifts, which change nothing by 0.
Useless(inst) ==
  LET a == inst.args[1]  b == inst.args[2]
      first(s) == IF s = <<>> THEN <<>> ELSE <<s[1]>>
      If(c, v) == IF c THEN <<v>> ELSE <<>>
  IN  IF ~ IsBinary(inst) THEN <<>>
      ELSE first(CASE inst.op = "add" -> If(IsZero(a), b) \o If(IsZero(b), a)
                   [] inst.op = "sub" -> If(IsZero(b), a)
                   [] inst.op = "mul" -> If(a = Const(1), b) \o If(b = Const(1), a)
                                         \o If(IsZero(a) \/ IsZero(b), Const(0))
                   [] inst.op = "sdiv" -> If(b = Const(1), a) \o If(IsZero(a), Const(0))
                   [] inst.op \in {"shl", "lshr", "ashr", "and"} -> If(IsZero(b), a)
                   [] OTHER -> <<>>)

EliminateUseless ==
  /\ at \in DOMAIN code /\ Useless(Current) # <<>>
  /\ Go(RemoveAt(ReplaceUses(code, Name(Current.name), Useless(Current)[1]), at), at)

KeepUseful ==
  /\ at \in DOMAIN code /\ Useless(Current) = <<>>
  /\ Go(code, at + 1)

NextUseless == EliminateUseless \/ KeepUseful

-----------------------------------------------------------------------------
\* SCCP and DeadCode for one block (see Sccp and DeadCode): instructions with
\* constant operands are folded in order, unused ones deleted from the end.
Foldable(inst) == IsBinary(inst) /\ IsConst(inst.args[1]) /\ IsConst(inst.args[2])
Fold ==
  /\ at \in DOMAIN code /\ Foldable(Current) /\ ~ Undefined(Current.op, Current.args[1][2], Current.args[2][2])
  /\ Go(RemoveAt(ReplaceUses(code, Name(Current.name),
                             Const(Eval(Current.op, Current.args[1][2], Current.args[2][2]))), at), at)
KeepUnfolded ==
  /\ at \in DOMAIN code
  /\ Foldable(Current) => Undefined(Current.op, Current.args[1][2], Current.args[2][2])
  /\ Go(code, at + 1)
NextFold == Fold \/ KeepUnfolded

Unused(insts, i) == \A j \in i + 1 .. Len(insts) : Name(insts[i].name) \notin ToSet(insts[j].args)
Sweep ==
  /\ at = 1
  /\ Go(FoldRight(LAMBDA inst, kept : IF inst.op # "ret" /\ Unused(<<inst>> \o kept, 1) THEN kept
                                      ELSE <<inst>> \o kept, code, <<>>), Len(code) + 1)

-----------------------------------------------------------------------------
\* LowerIR, within a block: the fused instruction stands in front of the old one, which
\* nothing uses any more.

\* In front of instruction i: the fused instruction, which takes over its uses.
Fused(i, new) == ReplaceUses(InsertBefore(code, i, <<new>>), Name(code[i].name), Name(new.name))

\* fuse_mul_add.  A sum with two products takes the first.
Product(o) == DefIs(code, o, "mul")
Factors(o) == Def(code, o).args
MulAdd(inst) ==
  LET a == inst.args[1]  b == inst.args[2]  n == Fresh(code)
  IN  CASE inst.op = "add" /\ Product(a) -> <<Inst(n, "muladd", Factors(a) \o <<b>>)>>
        [] inst.op = "add" /\ ~ Product(a) /\ Product(b) -> <<Inst(n, "muladd", Factors(b) \o <<a>>)>>
        [] inst.op = "sub" /\ Product(b) -> <<Inst(n, "mulsub", Factors(b) \o <<a>>)>>
        [] OTHER -> <<>>

FuseMulAdd ==
  /\ at \in DOMAIN code /\ MulAdd(code[at]) # <<>>
  /\ Go(Fused(at, MulAdd(code[at])[1]), at + 2)
KeepUnfused ==
  /\ at \in DOMAIN code /\ MulAdd(code[at]) = <<>>
  /\ Go(code, at + 1)
NextMulAdd == FuseMulAdd \/ KeepUnfused

\* fuse_const_shift: for each kind of shift the second operand of a sum first,
\* for a difference its second operand first; of the shift on the left of a
\* difference comes a difference the other way round.
ConstShift(o, op) == DefIs(code, o, op) /\ IsConst(Def(code, o).args[2])
AnyShift(o) == \E op \in {"shl", "ashr", "lshr"} : ConstShift(o, op)
Through(op, n, a, o) ==
  LET sh == Def(code, o) IN Shifted(Inst(n, op, <<a, sh.args[1]>>), sh.op, sh.args[2][2])
SubShift(inst) ==
  IF AnyShift(inst.args[2]) THEN <<Through("sub", Fresh(code), inst.args[1], inst.args[2])>>
  ELSE IF AnyShift(inst.args[1]) THEN <<Through("rsub", Fresh(code), inst.args[2], inst.args[1])>> ELSE <<>>
AddShift(inst) ==
  LET a == inst.args[1]  b == inst.args[2]  n == Fresh(code)
      found == SelectSeq(<< <<"shl", b, a>>, <<"shl", a, b>>, <<"ashr", b, a>>, <<"ashr", a, b>>,
                            <<"lshr", b, a>>, <<"lshr", a, b>> >>, LAMBDA c : ConstShift(c[2], c[1]))
  IN  IF found = <<>> THEN <<>> ELSE <<Through("add", n, found[1][3], found[1][2])>>
ConstShiftOf(inst) == CASE inst.op = "add" -> AddShift(inst) [] inst.op = "sub" -> SubShift(inst) [] OTHER -> <<>>

FuseConstShift ==
  /\ at \in DOMAIN code /\ ConstShiftOf(code[at]) # <<>>
  /\ Go(Fused(at, ConstShiftOf(code[at])[1]), at + 2)
KeepUnshifted ==
  /\ at \in DOMAIN code /\ ConstShiftOf(code[at]) = <<>>
  /\ Go(code, at + 1)
NextConstShift == FuseConstShift \/ KeepUnshifted
=============================================================================
