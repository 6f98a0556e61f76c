------------------------------ MODULE Arithmetic ------------------------------
(***************************************************************************)
(* The passes over integer arithmetic in the order compiler.cc runs them,  *)
(* on the instructions of one block.                                       *)
(***************************************************************************)
EXTENDS Words, SequencesExt

CONSTANTS
  Programs,   \* the blocks the passes are given
  Inputs      \* the words of the arguments they are run with: a set of functions

VARIABLES
  original,
  pass, code, at,
  nodes,      \* AlgebraicSimplification's forest
  stopped     \* "no" or "hangs"
vars == <<original, pass, code, at, nodes, stopped>>

S == INSTANCE Straight
D == INSTANCE DivisionInvariant
A == INSTANCE Algebraic
W == INSTANCE Strength

Passes == << "division", "algebraic", "dead code", "fold", "dead code",
             "algebraic", "dead code", "algebraic", "dead code",
             "weaken", "useless", "fold", "dead code", "mul add", "const shift", "dead code" >>

Init ==
  /\ original \in Programs /\ code = original
  /\ pass = 1 /\ at = 1 /\ nodes = <<>> /\ stopped = "no"

Running(p) == pass \in DOMAIN Passes /\ Passes[pass] = p /\ at <= Len(code) /\ stopped = "no"
Keep(v) == UNCHANGED <<original, pass, v>>

DivisionInvariant == Running("division") /\ D!Next /\ Keep(nodes)
AlgebraicSimplification == Running("algebraic") /\ A!Next /\ Keep(stopped)
MulWeaken == Running("weaken") /\ W!NextWeaken /\ Keep(nodes)
UselessOperationEli == Running("useless") /\ W!NextUseless /\ Keep(nodes)
SCCP == Running("fold") /\ W!NextFold /\ Keep(nodes)
DeadCode == Running("dead code") /\ W!Sweep /\ Keep(nodes)
FuseMulAdd == Running("mul add") /\ W!NextMulAdd /\ Keep(nodes)
FuseConstShift == Running("const shift") /\ W!NextConstShift /\ Keep(nodes)

Ended == pass \in DOMAIN Passes /\ at > Len(code)
NextPass ==
  /\ Ended
  /\ pass' = pass + 1 /\ at' = 1 /\ nodes' = <<>>
  /\ UNCHANGED <<original, code, stopped>>

Next ==
  \/ DivisionInvariant \/ AlgebraicSimplification \/ MulWeaken \/ UselessOperationEli
  \/ SCCP \/ DeadCode \/ FuseMulAdd \/ FuseConstShift \/ NextPass
Spec == Init /\ [][Next]_vars

-----------------------------------------------------------------------------
\* Wherever the block had a value it has the same value after every pass, for all
\* words the arguments may hold: no pass divides, shifts, reassociates or fuses
\* its way to another one, at the ends of the range included.
ValueKept ==
  Ended => \A args \in Inputs : LET was == S!Outcome(original, args)
                                IN  was # S!Undef => S!Outcome(code, args) = was

\* The assertions of choose_multiplier hold for every divisor, and only the ends of
\* the range keep a pass from coming to its end: a division by MinInt, whose
\* magnitude is negative, and a product by MaxInt, which is next to no power - be
\* it written in the program or the sum of collected coefficients.
StopsAtExtremes ==
  /\ Running("division") => D!AssertionsHold
  /\ stopped = "hangs" => IF code[at].op = "mul" THEN S!Const(MaxInt) \in ToSet(code[at].args)
                         ELSE code[at].args[2] = S!Const(MinInt)

-----------------------------------------------------------------------------
(***************************************************************************)
(* The instances TLC checks.                                               *)
(***************************************************************************)
X == S!Name(-1)
Y == S!Name(-2)
K(c) == S!Const(c)
Ret(o) == S!Inst(0, "ret", <<o>>)

MCInputs == {[n \in {-1, -2} |-> IF n = -1 THEN x ELSE y] : x \in Words, y \in {MinInt, -1, 3}}

\* A value, and one made of it: by every operation with every constant.
One == {S!Inst(1, op, args) : op \in {"sdiv", "srem", "mul"}, args \in {<<X, K(c)>> : c \in Words}}
Then == {S!Inst(2, op, args) : op \in {"add", "sub", "srem", "sdiv"},
                               args \in {<<X, S!Name(1)>>, <<S!Name(1), X>>, <<S!Name(1), K(2)>>, <<Y, S!Name(1)>>}}
ByConstants == {<<i, j, Ret(S!Name(2))>> : i \in One, j \in Then}

\* Sums, differences and products of what has been computed before.
Linear ==
  LET first == {S!Inst(1, op, args) : op \in {"add", "sub", "mul"}, args \in {<<X, Y>>, <<X, K(3)>>, <<K(-2), X>>}}
      second == {S!Inst(2, op, <<S!Name(1), o>>) : op \in {"add", "sub", "mul"}, o \in {X, Y, K(-3)}}
      third == {S!Inst(3, op, args) : op \in {"add", "sub", "mul"},
                  args \in {<<S!Name(1), S!Name(2)>>, <<X, S!Name(2)>>, <<S!Name(2), K(2)>>, <<K(1), S!Name(2)>>,
                            <<S!Name(2), S!Name(2)>>}}
  IN  {<<i, j, k, Ret(S!Name(3))>> : i \in first, j \in second, k \in third}

MCPrograms == ByConstants \cup Linear
===============================================================================
