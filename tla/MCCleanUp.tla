------------------------------ MODULE MCCleanUp ------------------------------
EXTENDS CleanUp

F == INSTANCE Flow

\* Where the terminators of the blocks 1, 2 ... lead; the last block returns.
Shapes == {
  << <<2, 3>>, <<4>>, <<4>>, <<>> >>,            \* a choice
  << <<2>>, <<3, 4>>, <<2>>, <<>> >>,            \* a loop, tested first
  << <<2>>, <<3>>, <<2, 4>>, <<>> >>,            \* a loop, tested last
  << <<2>>, <<3, 4>>, <<2, 4>>, <<>> >>,         \* a loop with a break
  << <<2, 4>>, <<3>>, <<3, 4>>, <<>> >>,         \* a guarded loop of one block
  << <<2, 3>>, <<3>>, <<4, 5>>, <<5>>, <<>> >>   \* two choices in a row
  }

N(shape) == Len(shape)
FlowOf(shape) == UNION {{<<b, t>> : t \in ToSet(shape[b])} : b \in 1 .. N(shape)}
PredsOf(shape, b) == SelectSeq([c \in 1 .. N(shape) |-> c], LAMBDA c : b \in ToSet(shape[c]))
Dominance == [shape \in Shapes |->
  {d \in (1 .. N(shape)) \X (1 .. N(shape)) : F!Dominates(FlowOf(shape), 1, d[1], d[2])}]
Dom(shape, a, b) == <<a, b>> \in Dominance[shape]

\* The phi 1 in block j, the value 2 computed in block k, the value 3 read in
\* the entry, a call in block o (0: none).
PhiName == Name(1)
ValName == Name(2)
Input == Name(3)
Visible(shape, j, k, b) ==
  {Input, Const(1)} \cup {n \in {PhiName} : Dom(shape, j, b)} \cup {n \in {ValName} : Dom(shape, k, b)}
Best(shape, j, b) == IF Dom(shape, j, b) THEN PhiName ELSE Arg

Joins(shape) == {b \in 1 .. N(shape) : Len(PredsOf(shape, b)) > 1}
\* A phi lacks the pair of a predecessor from which the variable comes unset.
Unset == <<"unset">>
PhiArgs(shape, j, k) ==
  LET preds == PredsOf(shape, j)
      can(p) == {Const(0), Const(1), Unset} \cup {n \in {ValName} : Dom(shape, k, p)}
                \cup {n \in {PhiName} : Dom(shape, j, p)}
  IN  {g \in [DOMAIN preds -> {Const(0), Const(1), ValName, PhiName, Unset}] :
         /\ \A i \in DOMAIN preds : g[i] \in can(preds[i])
         /\ \E i \in DOMAIN preds : g[i] # Unset}
PhiOf(args, preds) ==
  LET set == SelectSeq([i \in DOMAIN args |-> i], LAMBDA i : args[i] # Unset)
  IN  Phi(1, Map(set, LAMBDA i : args[i]), Map(set, LAMBDA i : preds[i]))

Values(shape, j, k) ==
  LET p == Best(shape, j, k)
  IN  {Inst(2, "add", <<p, Const(1)>>, <<>>), Inst(2, "zext", <<p>>, <<>>)}

\* What the branches test: of two branches, at least one the value read.
Conds(shape, j, k) ==
  {c \in [{b \in 1 .. N(shape) : Len(shape[b]) = 2} -> {Input, PhiName, ValName, Const(1)}] :
     /\ \A b \in DOMAIN c : c[b] \in Visible(shape, j, k, b)
     /\ Cardinality(DOMAIN c) > 1 => Input \in Range(c)}

If(b, seq) == IF b THEN seq ELSE <<>>
Function(shape, j, args, k, val, o, conds, used) ==
  LET term(b) == CASE Len(shape[b]) = 0 -> Ret(Best(shape, j, b))
                   [] Len(shape[b]) = 1 -> Br(shape[b][1])
                   [] Len(shape[b]) = 2 -> CondBr(conds[b], shape[b][1], shape[b][2])
  IN  [order |-> [b \in 1 .. N(shape) |-> b],
       code |-> [b \in 1 .. N(shape) |->
                   If(b = 1, <<Inst(3, "input", <<>>, <<>>)>>)
                   \o If(b = j, <<PhiOf(args, PredsOf(shape, j))>>) \o If(b = k, <<val>>)
                   \o If(b = o, <<Inst(0, "out", <<Best(shape, j, b)>>, <<>>)>>) \o <<term(b)>>],
       pre |-> [b \in 1 .. N(shape) |-> PredsOf(shape, b)],
       succ |-> [b \in 1 .. N(shape) |-> Reverse(shape[b])],
       used |-> used]

\* A value that is not used is one only.
Relevant(val, args, conds) == ValName \in Range(args) \cup Range(conds) \/ val.op = "zext"

MCFunctions ==
  UNION {UNION {UNION {
    {Function(shape, j, x.args, k, x.val, x.o, x.conds, x.o = 0) :
       x \in {y \in [args : PhiArgs(shape, j, k), val : Values(shape, j, k), o : {0, k},
                      conds : Conds(shape, j, k)] : Relevant(y.val, y.args, y.conds)}} :
    k \in 1 .. N(shape)} : j \in Joins(shape)} : shape \in Shapes}

-----------------------------------------------------------------------------
\*  int p = 0;
\*  if (a) { if (..) out(0); if (..) out(0); p = 1; }
\*  int i = 0;
\*  while (1) { int t = p + i, end = t == 2; if (t == 0) break; i++; if (end) break; }
\*  return i;
Stale ==
  LET eq(n, x, c) == Inst(n, "eq", <<x, Const(c)>>, <<>>)
      add(n, x, y) == Inst(n, "add", <<x, y>>, <<>>)
      out == Inst(0, "out", <<Const(0)>>, <<>>)
      p == Name(1)  i == Name(2)  t == Name(3)  first == Name(4)  end == Name(5)  next == Name(6)  test == Name(7)
  IN  [order |-> <<1, 2, 3, 4, 5, 6, 7, 8, 9, 10>>,
       code |-> << <<eq(7, Arg, 1), CondBr(test, 2, 7)>>,
                   <<CondBr(test, 3, 4)>>, <<out, Br(4)>>, <<CondBr(test, 5, 6)>>, <<out, Br(6)>>, <<Br(7)>>,
                   <<Phi(1, <<Const(0), Const(1)>>, <<1, 6>>), Br(8)>>,
                   <<Phi(2, <<Const(0), next>>, <<7, 9>>), add(3, p, i), eq(4, t, 0), eq(5, t, 2),
                     CondBr(first, 10, 9)>>,
                   <<add(6, i, Const(1)), CondBr(end, 10, 8)>>,
                   <<Ret(i)>> >>,
       pre |-> << <<>>, <<1>>, <<2>>, <<2, 3>>, <<4>>, <<4, 5>>, <<1, 6>>, <<7, 9>>, <<8>>, <<8, 9>> >>,
       succ |-> << <<7, 2>>, <<4, 3>>, <<4>>, <<6, 5>>, <<6>>, <<7>>, <<8>>, <<9, 10>>, <<8, 10>>, <<>> >>,
       used |-> TRUE]
MCStale == {Stale}
=============================================================================
