------------------------------- MODULE Program -------------------------------
(***************************************************************************)
(* Whole programs: functions that call each other, globals, and memory.    *)
(* A program p is a record                                                 *)
(*   list       the functions of the module, in order                      *)
(*   fns[f]     the function f (module Ir)                                 *)
(*   globals[g] the initial contents of global g, <<>> once it is gone     *)
(* A call has its callee as first operand; "input" and "out" are the       *)
(* functions of the runtime.  What a pass has to preserve is what the      *)
(* program writes and what main returns, whatever it reads.                *)
(***************************************************************************)
EXTENDS Ir, Words

CONSTANTS
  Inputs,    \* the first words the program may read
  Steps      \* an execution is followed for so many instructions

Param(i)  == <<"param", i>>
Fn(f)     == <<"function", f>>
Global(g) == <<"global", g>>
Poison    == MaxInt + 1           \* the value of what was never set

Call(n, f, args) == Inst(n, "call", <<Fn(f)>> \o args, <<>>)
IsCall(inst) == inst.op = "call"
Callee(inst) == inst.args[1][2]
Comparisons == {"eq", "ne", "lt", "le", "gt", "ge"}
Arithmetic == {"add", "sub", "mul"}

NamesOf(f) == {InstAt(f, p).name : p \in Places(f)}
NextName(f) == 1 + Max(NamesOf(f))
NextBlock(f) == 1 + Len(f.code)

\* f with room for blocks of the code given, numbered after the others.
WithBlocks(f, codes) ==
  LET lists == Map(codes, LAMBDA c : <<>>)
  IN  [f EXCEPT !.code = @ \o codes, !.pre = @ \o lists, !.succ = @ \o lists]

\* The function of these blocks, with the edges BranchInst enters.
Listed(code) ==
  LET bare == [order |-> [i \in DOMAIN code |-> i], code |-> code,
               pre |-> Map(code, LAMBDA insts : <<>>), succ |-> Map(code, LAMBDA insts : <<>>),
               params |-> 0, pointers |-> FALSE]
      edges(g, b) == FoldLeft(LAMBDA k, t : AddEdge(k, b, t), g, Reverse(Terminator(g, b).blocks))
  IN  FoldLeft(edges, bare, bare.order)

Defining(f, n) == CHOOSE p \in Places(f) : InstAt(f, p).name = n
Users(f, o) == {p \in Places(f) : o \in ToSet(InstAt(f, p).args)}

\* The calls of g in the program: <<caller, block, index>>.
CallsOf(p, g) ==
  UNION {{<<f, q[1], q[2]>> : q \in {r \in Places(p.fns[f]) :
            IsCall(InstAt(p.fns[f], r)) /\ Callee(InstAt(p.fns[f], r)) = g}} : f \in ToSet(p.list)}

-----------------------------------------------------------------------------
\* Executing.  A state holds the frames, innermost last, the memory (a
\* sequence of objects, the globals first), what was written and how many
\* words were read.

Frame(fn, at, args) == [fn |-> fn, at |-> at, from |-> 0, i |-> 1, env |-> <<>>, args |-> args]
\* An address is a number that is no word; offsets are small.
Span == 64
Pointer(obj, off) == Poison + Span * obj + Span \div 2 + off
Object(v) == (v - Poison) \div Span
Offset(v) == ((v - Poison) % Span) - Span \div 2
Compare(op, x, y) ==
  CASE op = "eq" -> x = y  [] op = "ne" -> x # y [] op = "lt" -> x < y
    [] op = "le" -> x <= y [] op = "gt" -> x > y [] op = "ge" -> x >= y
Compute(op, x, y) ==
  IF Poison \in {x, y} THEN Poison
  ELSE IF op \in Comparisons THEN IF Compare(op, x, y) THEN 1 ELSE 0 ELSE Eval(op, x, y)

ValueIn(o, fr) ==
  CASE o[1] = "const"  -> o[2]
    [] o[1] = "param"  -> fr.args[o[2]]
    [] o[1] = "global" -> Pointer(o[2], 0)
    [] o[1] = "name"   -> IF o[2] \in DOMAIN fr.env THEN fr.env[o[2]] ELSE Poison

\* Control comes to block t: its phis are set all at once.
Entered(f, fr, t) ==
  LET phis == SelectSeq(f.code[t], IsPhi)
      at(phi) == SelectInSeq(phi.blocks, LAMBDA b : b = fr.at)
      val == [i \in DOMAIN phis |-> IF at(phis[i]) = 0 THEN Poison ELSE ValueIn(phis[i].args[at(phis[i])], fr)]
      set == [n \in {phis[i].name : i \in DOMAIN phis} |-> val[CHOOSE i \in DOMAIN phis : phis[i].name = n]]
  IN  [fr EXCEPT !.from = fr.at, !.at = t, !.i = 1 + Len(phis), !.env = set @@ @]

\* One instruction.
Step(p, a, s) ==
  LET depth == Len(s.frames)
      fr == s.frames[depth]
      f == p.fns[fr.fn]
      inst == f.code[fr.at][fr.i]
      val(i) == ValueIn(inst.args[i], fr)
      next(g) == [s EXCEPT !.frames[depth] = g]
      on(t) == [t EXCEPT !.frames[depth].i = @ + 1]
      set(v) == next([fr EXCEPT !.i = @ + 1, !.env = (inst.name :> v) @@ @])
      stop(why) == [s EXCEPT !.end = why]
      bad(q) == q <= Poison \/ Offset(q) + 1 \notin DOMAIN s.mem[Object(q)]
      goto(t) == IF t \in Blocks(f) THEN next(Entered(f, fr, t)) ELSE stop("lost")
      returned == IF inst.args = <<>> THEN Poison ELSE val(1)
      back == [s EXCEPT !.frames = Front(@)]
      caller == Last(back.frames)
      site == p.fns[caller.fn].code[caller.at][caller.i]
  IN  CASE inst.op \in Arithmetic \cup Comparisons -> set(Compute(inst.op, val(1), val(2)))
        [] inst.op = "zext" -> set(val(1))
        [] inst.op = "alloca" ->
             [set(Pointer(Len(s.mem) + 1, 0)) EXCEPT !.mem = Append(@, [i \in 1 .. inst.args[1][2] |-> Poison])]
        [] inst.op = "gep" ->
             set(IF val(2) = Poison THEN Poison ELSE val(1) + val(2))
        [] inst.op = "load" -> LET q == val(1) IN
             IF bad(q) THEN stop("undefined") ELSE set(s.mem[Object(q)][Offset(q) + 1])
        [] inst.op = "store" -> LET q == val(2) IN
             IF bad(q) THEN stop("undefined") ELSE on([s EXCEPT !.mem[Object(q)][Offset(q) + 1] = val(1)])
        [] IsCall(inst) /\ Callee(inst) = "input" -> [set(Wrap(a + s.reads)) EXCEPT !.reads = @ + 1]
        [] IsCall(inst) /\ Callee(inst) = "out" -> on([s EXCEPT !.seen = Append(@, val(2))])
        [] IsCall(inst) /\ Callee(inst) \in ToSet(p.list) ->
             LET g == Callee(inst) IN
             [s EXCEPT !.frames = Append(@, Frame(g, Entry(p.fns[g]),
                                                  [i \in 1 .. Len(inst.args) - 1 |-> val(i + 1)]))]
        [] inst.op = "ret" /\ depth = 1 -> [s EXCEPT !.end = "returned", !.seen = Append(@, returned)]
        [] inst.op = "ret" /\ depth > 1 ->
             [back EXCEPT !.frames[depth - 1].i = @ + 1, !.frames[depth - 1].env = (site.name :> returned) @@ @]
        [] IsJump(inst) -> goto(inst.blocks[1])
        [] IsCondBr(inst) -> IF val(1) = Poison THEN stop("undefined")
                             ELSE goto(inst.blocks[IF val(1) # 0 THEN 1 ELSE 2])
        [] OTHER -> stop("lost")

RECURSIVE Run(_, _, _, _)
Run(p, a, s, n) == IF n = 0 \/ s.end # "running" THEN s ELSE Run(p, a, Step(p, a, s), n - 1)

Start(p, f, args) ==
  [frames |-> <<Frame(f, Entry(p.fns[f]), args)>>, mem |-> p.globals, seen |-> <<>>, reads |-> 0, end |-> "running"]
Outcome(p, a, n) == Run(p, a, Start(p, "main", <<>>), n)
Outcomes(p) == [a \in Inputs |-> Outcome(p, a, Steps)]

-----------------------------------------------------------------------------
\* As far as the old program has a meaning the new one does the same; either may
\* be cut off before it ends.
Agree(x, y) == x = Poison \/ x = y
Behaves(old, new) ==
  \/ old.end = "undefined"
  \/ /\ \A i \in DOMAIN old.seen \cap DOMAIN new.seen : Agree(old.seen[i], new.seen[i])
     /\ old.end = "returned" => new.end = "returned" /\ Len(old.seen) = Len(new.seen)
     /\ old.end = "running" => new.end = "running" \/ Len(old.seen) < Len(new.seen)
Keeps(outcomes, p) == \A a \in Inputs : Behaves(outcomes[a], Outcome(p, a, 2 * Steps))

Mirrored(p) == \A f \in ToSet(p.list) : EdgesMirrored(p.fns[f])
=============================================================================
