-------------------------- MODULE DivisionInvariant --------------------------
(***************************************************************************)
(* Divisions and remainders by a constant (Optimize/DivisionInvariant.hh): *)
(* those by a power of two become shifts.  The multiplier for the others   *)
(* is computed, its assertions included, but not used yet.                 *)
(***************************************************************************)
EXTENDS Straight

VARIABLE stopped   \* "no", or "hangs"

\* mylog2, rounded up: it does not return for MinInt, which stays negative.
mylog2Down(d) == Max({k \in 0 .. Width : 2 ^ k <= d})      \* faulty: rounded down
mylog2(d) == Min({k \in 0 .. Width : d <= 2 ^ k})

\* choose_multiplier, with words of twice the width: the quotients are halved as
\* long as halving keeps them apart.
Wide(n) == n % 2 ^ (2 * Width)
Halve(n, times) == n \div 2 ^ times
Multiplier(d, prec) ==
  LET l == mylog2(d)
      mlow == Wide(2 ^ (Width + l)) \div d
      mhigh == Wide(2 ^ (Width + l) + 2 ^ (Width + l - prec)) \div d
      stop == {s \in 0 .. l : s = 0 \/ Halve(mlow, l - s + 1) >= Halve(mhigh, l - s + 1)}
  IN  [l |-> l, shpost |-> Max(stop), mhigh |-> Halve(mhigh, l - Max(stop))]
Asserted(d, prec, m) ==
  LET scale == 2 ^ (Width + m.shpost)
  IN  /\ m.l = 0 \/ 2 ^ (m.l - 1) < d
      /\ d <= 2 ^ m.l
      /\ m.shpost \in 0 .. m.l
      /\ m.shpost = 0 \/ Width + m.shpost <= m.l + prec
      /\ scale < Wide(m.mhigh * d) /\ Wide(m.mhigh * d) <= Wide(scale + scale \div 2 ^ prec)

Power(d) == Magnitude(d) = 2 ^ mylog2(Magnitude(d))

\* x / 2^l or x / -2^l: what is shifted out of a negative x is added first.
UnbiasedQuotient(x, d, n) ==                         \* faulty: rounds down
  <<Inst(n, "ashr", <<x, Const(mylog2(Magnitude(d)))>>)>>
QuotientByPower(x, d, n) ==
  LET l == mylog2(Magnitude(d))
  IN  <<Inst(n, "ashr", <<x, Const(l - 1)>>),
        Inst(n + 1, "lshr", <<Name(n), Const(Width - l)>>),
        Inst(n + 2, "add", <<x, Name(n + 1)>>),
        Inst(n + 3, "ashr", <<Name(n + 2), Const(l)>>)>>
      \o (IF d < 0 THEN <<Inst(n + 4, "sub", <<Const(0), Name(n + 3)>>)>> ELSE <<>>)

RemainderByPower(x, d, n) ==
  <<Inst(n, "ashr", <<x, Const(Width - 1)>>),
    Inst(n + 1, "lshr", <<Name(n), Const(Width - mylog2(Magnitude(d)))>>),
    Inst(n + 2, "add", <<x, Name(n + 1)>>),
    Inst(n + 3, "and", <<Name(n + 2), Const(-Magnitude(d))>>),
    Inst(n + 4, "sub", <<x, Name(n + 3)>>)>>

\* The instruction at the iterator gives way to new, whose last one has its value.
Becomes(insts, i, new) ==
  ReplaceUses(Spliced(insts, i, new), Name(insts[i].name), Name(Last(new).name))

-----------------------------------------------------------------------------
Current == code[at]
ByConstant(op) == at \in DOMAIN code /\ Current.op = op /\ IsConst(Current.args[2])
Divisor == Current.args[2][2]
Go(insts, i) == code' = insts /\ at' = i /\ UNCHANGED stopped

\* divide_by_invariant
KeepDivision ==
  /\ ByConstant("sdiv") /\ Divisor # MinInt
  /\ Divisor # 0 => ~ Power(Divisor)
  /\ Go(code, at + 1)

DivideByOne ==
  /\ ByConstant("sdiv") /\ Magnitude(Divisor) = 1
  /\ LET x == Current.args[1]
         neg == <<Inst(Fresh(code), "sub", <<Const(0), x>>)>>
     IN  IF Divisor = 1 THEN Go(RemoveAt(ReplaceUses(code, Name(Current.name), x), at), at)
         ELSE Go(Becomes(code, at, neg), at + 1)

DivideByPower ==
  /\ ByConstant("sdiv") /\ Divisor \notin {-1, 0, 1, MinInt} /\ Power(Divisor)
  /\ LET new == QuotientByPower(Current.args[1], Divisor, Fresh(code))
     IN  Go(Becomes(code, at, new), at + Len(new))

\* replace_srem; the instruction behind a remainder that is replaced is passed over.
KeepRemainder ==
  /\ at \in DOMAIN code /\ Current.op = "srem"
  /\ IsConst(Current.args[2]) => Divisor \notin {-1, 1, MinInt} /\ (Divisor = 0 \/ ~ Power(Divisor))
  /\ Go(code, at + 1)

RemainderByOne ==
  /\ ByConstant("srem") /\ Magnitude(Divisor) = 1
  /\ Go(ReplaceUses(code, Name(Current.name), Const(0)), at + 1)

RemainderToShift ==
  /\ ByConstant("srem") /\ Divisor \notin {-1, 0, 1, MinInt} /\ Power(Divisor)
  /\ LET new == RemainderByPower(Current.args[1], Divisor, Fresh(code))
     IN  Go(Becomes(code, at, new), at + Len(new) + 1)

\* abs(MinInt) is MinInt.
LogOfMinInt ==
  /\ ByConstant("sdiv") \/ ByConstant("srem")
  /\ Divisor = MinInt
  /\ stopped' = "hangs" /\ UNCHANGED <<code, at>>

KeepOther ==
  /\ at \in DOMAIN code
  /\ Current.op # "srem" /\ ~ ByConstant("sdiv")
  /\ Go(code, at + 1)

Next ==
  \/ KeepDivision \/ DivideByOne \/ DivideByPower
  \/ KeepRemainder \/ RemainderByOne \/ RemainderToShift
  \/ LogOfMinInt \/ KeepOther

\* The divisor at the iterator, of which choose_multiplier is asked, passes its
\* assertions.
AssertionsHold ==
  (ByConstant("sdiv") /\ Divisor \notin {0, MinInt}) \/ (ByConstant("srem") /\ Divisor \notin {-1, 0, 1, MinInt})
  => Asserted(Magnitude(Divisor), Width - 1, Multiplier(Magnitude(Divisor), Width - 1))
=============================================================================
