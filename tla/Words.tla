-------------------------------- MODULE Words --------------------------------
(***************************************************************************)
(* Two's complement words of Width bits, signed, with the operations of    *)
(* the IR on them: ConstFold::eval (Optimize/ConstFold.hh), which is also  *)
(* what the machine does where it traps on nothing.                        *)
(***************************************************************************)
EXTENDS Integers

CONSTANT Width
WordsAssumption == Width \in Nat /\ Width > 1
ASSUME WordsAssumption

MinInt == -(2 ^ (Width - 1))
MaxInt == 2 ^ (Width - 1) - 1
Words == MinInt .. MaxInt

\* The word that is n modulo 2^Width, and the word w read as unsigned.
Wrap(n) == ((n - MinInt) % 2 ^ Width) + MinInt
Unsigned(w) == w % 2 ^ Width
Magnitude(w) == IF w < 0 THEN -w ELSE w

\* Division that rounds to zero.
Quotient(a, b) ==
  LET q == Magnitude(a) \div Magnitude(b) IN IF (a < 0) = (b < 0) THEN q ELSE -q
Remainder(a, b) == a - b * Quotient(a, b)

Shl(a, n)  == Wrap(a * 2 ^ n)
Lshr(a, n) == Wrap(Unsigned(a) \div 2 ^ n)
Ashr(a, n) == a \div 2 ^ n

Bit(w, i) == (Unsigned(w) \div 2 ^ i) % 2
BitAnd(a, b) ==
  LET upTo[i \in 0 .. Width] == IF i = 0 THEN 0 ELSE upTo[i - 1] + Bit(a, i - 1) * Bit(b, i - 1) * 2 ^ (i - 1)
  IN  Wrap(upTo[Width])

\* A shift by the width or more, and MinInt / -1, have no meaning.
Undefined(op, a, b) ==
  \/ op \in {"shl", "lshr", "ashr"} /\ b \notin 0 .. Width - 1
  \/ op \in {"sdiv", "srem"} /\ a = MinInt /\ b = -1

\* Where it has one; a division by zero is folded to 0.
Eval(op, a, b) ==
  CASE op = "add"  -> Wrap(a + b)
    [] op = "sub"  -> Wrap(a - b)
    [] op = "mul"  -> Wrap(a * b)
    [] op = "sdiv" -> IF b = 0 THEN 0 ELSE Quotient(a, b)
    [] op = "srem" -> IF b = 0 THEN 0 ELSE Remainder(a, b)
    [] op = "shl"  -> Shl(a, b)
    [] op = "lshr" -> Lshr(a, b)
    [] op = "ashr" -> Ashr(a, b)
    [] op = "and"  -> BitAnd(a, b)
=============================================================================
