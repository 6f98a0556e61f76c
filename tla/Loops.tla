------------------------------- MODULE Loops -------------------------------
(***************************************************************************)
(* The passes on loops.  A loop is named by its base h.                    *)
(*                                                                         *)
(* LoopInvMotion (Optimize/LoopInvMotion.cc, .hh): what does not change in *)
(* a loop goes before the loop, block by block in no order, for the blocks *)
(* every iteration passes.                                                 *)
(*                                                                         *)
(* LoopInfo (Optimize/LoopInfo.cc, .hh) and LoopUnrolling                  *)
(* (Optimize/LoopUnrolling.cc), on loops of the form LoopInfo.hh draws:    *)
(*   before: if (cond) goto pre else after     latch: if (cond) goto base  *)
(*   pre: goto base                                   else exit            *)
(*   base: the body, goto latch                exit: goto after            *)
(***************************************************************************)
EXTENDS Redundancy

Loop(f, h) == NaturalLoop(Edges(f), Entry(f), h)
Loops(f) == Headers(Edges(f), Entry(f))

\* The last of the predecessors inside, and outside; 0 where there is none.
LastOf(s) == IF s = <<>> THEN 0 ELSE Last(s)
LoopEnd(f, h, blocks) == LastOf(SelectSeq(f.pre[h], LAMBDA b : b \in blocks))
LoopPre(f, h, blocks) == LastOf(SelectSeq(f.pre[h], LAMBDA b : b \notin blocks))

\* What is known of the loop with base h: a record l.
LoopAt(f, h, blocks) ==
  [base |-> h, blocks |-> blocks, end |-> LoopEnd(f, h, blocks), pre |-> LoopPre(f, h, blocks)]
LoopOf(f, h) == LoopAt(f, h, Loop(f, h))

PlacesIn(f, blocks) == {q \in Places(f) : q[1] \in blocks}

\* change_values: loads, phis, calls of what is not pure, and all that use them.
Changes(pure, inst) == inst.op \in {"load", "phi"} \/ (IsCall(inst) /\ Callee(inst) \notin pure)
Uses(inst, names) == \E n \in names : Name(n) \in ToSet(inst.args)
Variant(f, pure, l) ==
  LET insts == {InstAt(f, q) : q \in PlacesIn(f, l.blocks)}
      named(which) == {x.name : x \in which} \ {0}
  IN  Grown(named({x \in insts : Changes(pure, x)}), Cardinality(insts), LAMBDA names : named({x \in insts : Uses(x, names)}))
Invariant(pure, variant, inst) == ~ Changes(pure, inst) /\ ~ Uses(inst, variant)

StrictlyDominates(f, a, b) == a # b /\ Dominates(Edges(f), Entry(f), a, b)

\* is_store_movable, of the store at s: no other store of the loop may write
\* there, and what may read there comes after it.
StoreAlone(f, l, s) ==              \* faulty: whoever reads
  \A q \in PlacesIn(f, l.blocks) \ {s} : InstAt(f, q).op = "store" =>
    Alias(f, Address(InstAt(f, s)), Address(InstAt(f, q))) = "no"
IsStoreMovable(f, l, s) ==
  \A q \in PlacesIn(f, l.blocks) \ {s} : InstAt(f, q).op \in {"load", "store"} =>
    \/ Alias(f, Address(InstAt(f, s)), Address(InstAt(f, q))) = "no"
    \/ /\ InstAt(f, q).op = "load"
       /\ IF q[1] = s[1] THEN q[2] > s[2] ELSE StrictlyDominates(f, s[1], q[1])

Moves(f, pure, variant, l, s) ==
  LET inst == InstAt(f, s) IN
  /\ inst.op \notin {"ret", "br", "load", "phi"}
  /\ inst.op = "store" => IsStoreMovable(f, l, s)
  /\ Invariant(pure, variant, inst)

\* One block of the loop: an instruction that moves goes before the terminator.
Passed(f, l, b) == Dominates(Edges(f), Entry(f), b, l.end)
Hoisted(f, pure, l, b) ==
  LET variant == Variant(f, pure, l)
      step(s, k) ==
        IF Moves(s.f, pure, variant, l, <<b, s.i>>)
        THEN [s EXCEPT !.f.code = [@ EXCEPT ![l.pre] = Front(@) \o <<s.f.code[b][s.i], Last(@)>>, ![b] = RemoveAt(@, s.i)]]
        ELSE [s EXCEPT !.i = @ + 1]
  IN  FoldLeft(step, [f |-> f, i |-> 1], f.code[b]).f

\* The loops that have no loop inside among those left.
Innermost(f, left) == {h \in left : ~ \E k \in left \ {h} : k \in Loop(f, h)}

-----------------------------------------------------------------------------
\* What the pass gets right.  The loop is entered from one place.  A chain of
\* invariants lies in one block, since the blocks come in no order.  And a store
\* that moves is one every execution that comes to the loop begins with, with no
\* call that may see the memory.
Moved(f, pure, l) ==
  LET variant == Variant(f, pure, l)
      passed == {b \in l.blocks : Passed(f, l, b)}
  IN  {q \in PlacesIn(f, passed) : Moves(f, pure, variant, l, q)}
ChainsInBlock(f, moved) ==
  \A q, r \in moved : Name(InstAt(f, q).name) \in ToSet(InstAt(f, r).args) => q[1] = r[1]
StoresFirst(f, pure, l, moved) ==
  \A q \in moved : InstAt(f, q).op = "store" =>
    /\ q[1] = l.base /\ IsJump(Terminator(f, l.pre))
    /\ \A r \in PlacesIn(f, l.blocks) : IsCall(InstAt(f, r)) => Callee(InstAt(f, r)) \in {"input", "out"} \cup pure
Fit(f, pure, l, moved) ==
  /\ Cardinality(ToSet(f.pre[l.base]) \ l.blocks) = 1
  /\ ChainsInBlock(f, moved) /\ StoresFirst(f, pure, l, moved)
MovableIn(f, pure, l) == Fit(f, pure, l, Moved(f, pure, l))
Movable(f, pure) == \A h \in Loops(f) : MovableIn(f, pure, LoopOf(f, h))

-----------------------------------------------------------------------------
CONSTANTS
  MaxConstTimes,   \* max_const_new_times: a shorter loop is written out
  BaseTimes        \* unroll_base_times

\* find_pre_header_and_end; 0 where there is none.
Preheader(f, l) == IF l.pre # 0 /\ IsJump(Terminator(f, l.pre)) THEN l.pre ELSE 0
ExitOf(f, l) ==
  LET succ == f.succ[l.end] IN
  IF Len(succ) # 2 THEN 0 ELSE IF succ[1] \in l.blocks THEN succ[2] ELSE succ[1]

\* find_latch: the blocks of the condition, from the last one up.
LatchBlocks(f, l, exit) ==
  LET up(b) == f.pre[b][1]
      goesUp(b) == /\ Len(f.pre[b]) = 1 /\ Len(f.succ[up(b)]) = 2
                   /\ (IF f.succ[up(b)][1] = b THEN f.succ[up(b)][2] ELSE f.succ[up(b)][1]) = exit
  IN  FoldLeft(LAMBDA s, b : IF goesUp(Last(s)) THEN Append(s, up(Last(s))) ELSE s, <<l.end>>, f.order)
WithLatch(f, l, exit, condition) ==
  l @@ [preheader |-> Preheader(f, l), exit |-> exit, condition |-> condition, latch |-> Last(condition)]
WithExit(f, l, exit) == WithLatch(f, l, exit, LatchBlocks(f, l, exit))
LoopInfoAt(f, l) == WithExit(f, l, ExitOf(f, l))
LoopInfo(f, h) == LoopInfoAt(f, LoopOf(f, h))
HasBreak(f, l) ==
  \E b \in l.blocks \ ToSet(l.condition) : ~ (Targets(f, b) \subseteq l.blocks)

\* is_loop_invariant: an instruction of the loop is when all its operands are, and
\* a phi when they come from outside.
Inside(f, l, o) == o[1] = "name" /\ Defining(f, o[2])[1] \in l.blocks
RECURSIVE IsInvariant(_, _, _)
IsInvariant(f, l, o) ==
  Inside(f, l, o) =>
    LET inst == InstAt(f, Defining(f, o[2])) IN
    \A i \in DOMAIN inst.args : IF IsPhi(inst) THEN ~ Inside(f, l, inst.args[i]) ELSE IsInvariant(f, l, inst.args[i])

\* find_basic_IV: a phi of two values, the one from inside being the phi plus or
\* minus an invariant.  The compare of that value in the latch gives the bound.
Bounds(f, l, changed) ==
  {q \in Users(f, changed) : l.latch = l.end /\ q[1] = l.latch /\ InstAt(f, q).op \in Comparisons}
None == <<"none">>
BoundOf(f, l, changed, q) ==
  LET cmp == InstAt(f, q)
      other == IF cmp.args[1] = changed THEN cmp.args[2] ELSE cmp.args[1]
  IN  IF IsInvariant(f, l, other) /\ ~ HasBreak(f, l) THEN <<other, cmp.op>> ELSE <<None, "eq">>
BasicIVs(f, l) ==
  UNION {LET phi == InstAt(f, q)
             in == SelectInSeq(phi.blocks, LAMBDA b : b \in l.blocks)
             changed == phi.args[in]
             inst == InstAt(f, Defining(f, changed[2]))
             at == SelectInSeq(inst.args, LAMBDA o : o = Name(phi.name))
         IN  IF /\ Len(phi.args) = 2 /\ in # 0 /\ phi.blocks[3 - in] \notin l.blocks
                /\ changed[1] = "name" /\ inst.op \in {"add", "sub"} /\ at # 0 /\ IsInvariant(f, l, inst.args[3 - at])
             THEN {[initial |-> phi.args[3 - in], by |-> inst.op, step |-> inst.args[3 - at], final |-> x[1], predicate |-> x[2]] :
                     x \in IF Bounds(f, l, changed) = {} THEN {<<None, "eq">>}
                           ELSE {BoundOf(f, l, changed, r) : r \in Bounds(f, l, changed)}}
             ELSE {} :
         q \in {r \in Places(f) : r[1] = l.base /\ IsPhi(InstAt(f, r))}}

-----------------------------------------------------------------------------
\* Copying.

PhisOf(f, b) == SelectSeq(f.code[b], IsPhi)
Calculated(f, b) == SelectSeq(f.code[b], LAMBDA inst : ~ IsPhi(inst) /\ inst.op # "br")
Mapped(map, o) == IF o[1] = "name" /\ o[2] \in DOMAIN map THEN map[o[2]] ELSE o
PhiValue(phi, b) == phi.args[SelectInSeq(phi.blocks, LAMBDA c : c = b)]

\* utils::clone_instructions, of a body whose phis stand for what map says.
CopyNames(insts, n) ==
  [k \in {insts[i].name : i \in DOMAIN insts} \ {0} |-> Name(n + SelectInSeq(insts, LAMBDA inst : inst.name = k))]
Copied(insts, map, n) ==
  LET names == CopyNames(insts, n) @@ map
  IN  Map(insts, LAMBDA inst : [inst EXCEPT !.name = IF @ = 0 THEN 0 ELSE names[@][2],
                                            !.args = Map(@, LAMBDA o : Mapped(names, o))])

\* The body so many times over: the code, and the names of the last copy.  A phi
\* stands, from the second copy on, for what the latch gives it in the copy before;
\* what the body does not compute counts as its first instruction.
InCopy(insts, names, o) == IF o[2] \in DOMAIN names THEN names[o[2]] ELSE names[insts[1].name]
Repeated(f, l, times, first) ==
  LET insts == Calculated(f, l.base)
      ofLatch == {phi \in ToSet(PhisOf(f, l.base)) : PhiValue(phi, l.latch)[1] = "name"}
      copy(s, k) ==
        LET names == CopyNames(insts, s.next)
        IN  [code |-> s.code \o Copied(insts, s.map, s.next),
             next |-> s.next + Len(insts),
             names |-> names,
             map |-> [n \in {phi.name : phi \in ofLatch} |->
                        InCopy(insts, names, PhiValue(CHOOSE phi \in ofLatch : phi.name = n, l.latch))]]
  IN  FoldLeft(copy, [code |-> <<>>, next |-> NextName(f), names |-> <<>>, map |-> first], [k \in 1 .. times |-> k])
InPlace(f, names) == FoldLeft(LAMBDA g, n : ReplaceUses(g, Name(n), names[n]), f, SetToSeq(DOMAIN names))

\* unroll_base_block.
BaseOf(f, l, all) ==
  InPlace([f EXCEPT !.code[l.base] = PhisOf(f, l.base) \o all.code \o <<Br(l.latch)>>], all.names)
UnrollBase(f, l) == BaseOf(f, l, Repeated(f, l, BaseTimes, <<>>))

\* unroll_pre_block: the first iterations, or all of them, go to the preheader.
PreValues(f, l) ==
  LET value(n) == PhiValue(CHOOSE phi \in ToSet(PhisOf(f, l.base)) : phi.name = n, l.preheader)
  IN  [n \in {phi.name : phi \in ToSet(PhisOf(f, l.base))} |-> value(n)]
BypassedOnly(f, pre, exit) == [f EXCEPT !.code[pre] = Append(@, Br(exit))]   \* faulty: a branch without its edge
Bypassed(f, pre, exit) == AddEdge([f EXCEPT !.code[pre] = Append(@, Br(exit))], pre, exit)
Straightened(f, l, all) ==
  LET renamed == InPlace([f EXCEPT !.code[l.preheader] = Front(@) \o all.code], all.names)
      told == MapPhis(renamed, l.exit, LAMBDA phi : [phi EXCEPT !.blocks = ReplaceAll(@, l.latch, l.preheader)])
  IN  Bypassed(RemoveBlock(RemoveBlock(told, l.base), l.latch), l.preheader, l.exit)
Begun(f, l, all) ==
  LET start(phi) == [phi EXCEPT !.args[SelectInSeq(phi.blocks, LAMBDA c : c = l.preheader)] = all.map[phi.name]]
  IN  MapPhis([f EXCEPT !.code[l.preheader] = Front(@) \o all.code \o <<Br(l.base)>>], l.base, start)
WrittenOut(f, l, times) == Straightened(f, l, Repeated(f, l, times, PreValues(f, l)))
UnrollPre(f, l, times) == Begun(f, l, Repeated(f, l, times, PreValues(f, l)))

\* How often a loop with these bounds runs, as the pass counts.
TimesUpTo(iv) ==                    \* faulty: as if the bound were not reached
  LET up == Quotient(iv.final[2] - iv.initial[2], iv.step[2])
  IN  CASE iv.predicate \in {"lt", "le"} -> up [] iv.predicate \in {"gt", "ge"} -> -up [] OTHER -> 0
Times(iv) ==
  LET up == Quotient(iv.final[2] - iv.initial[2], iv.step[2]) IN
  CASE iv.predicate = "lt" -> up
    [] iv.predicate = "le" -> up + 1
    [] iv.predicate = "gt" -> -up
    [] iv.predicate = "ge" -> -up + 1
    [] OTHER -> 0

-----------------------------------------------------------------------------
\* clone_and_new_loop: the loop runs BaseTimes iterations at a time while that many
\* are left, and a copy of it does the rest.

Before(f, l) == f.pre[l.preheader][1]
After(f, l) == f.succ[l.exit][1]
Shape(f, l) == <<Before(f, l), l.preheader, l.base, l.latch, l.exit, After(f, l)>>
CompareAt(f, b) == Len(f.code[b]) - 1
Clonable(f, l, iv) ==
  /\ iv.predicate \in {"lt", "le", "gt", "ge"} /\ iv.final # None
  /\ Len(f.code[Before(f, l)]) > 1 /\ f.code[Before(f, l)][CompareAt(f, Before(f, l))].op \in Comparisons
  /\ Head(f.code[l.latch]).op \in Comparisons

\* The six blocks, their names and edges after those that exist.  A phi keeps the
\* pairs of blocks that lead to it at that time.
NewBlockOf(f, shape, b) == LET i == SelectInSeq(shape, LAMBDA c : c = b) IN IF i = 0 THEN b ELSE Len(f.code) + i
NamesIn(f, blocks) == {InstAt(f, q).name : q \in {r \in Places(f) : r[1] \in blocks}} \ {0}
NewNames(f, l) == [n \in NamesIn(f, ToSet(Shape(f, l))) |-> Name(NextName(f) + n)]
Clone(f, shape, names, inst) ==
  [inst EXCEPT !.name = IF @ = 0 THEN 0 ELSE names[@][2],
               !.args = Map(@, LAMBDA o : Mapped(names, o)),
               !.blocks = Map(@, LAMBDA b : NewBlockOf(f, shape, b))]
WithClones(f, l) ==
  LET shape == Shape(f, l)
      names == NewNames(f, l)
      blocks == Map(shape, LAMBDA b : NewBlockOf(f, shape, b))
      wide == WithBlocks([f EXCEPT !.order = @ \o blocks],
                         Map(shape, LAMBDA b : Map(f.code[b], LAMBDA inst : Clone(f, shape, names, inst))))
      linked == FoldLeft(LAMBDA g, b : FoldLeft(LAMBDA k, t : AddEdge(k, b, t), g, Reverse(Terminator(g, b).blocks)), wide, blocks)
  IN  FoldLeft(LAMBDA g, b : MapPhis(g, b, LAMBDA phi : KeepPairs(phi, LAMBDA c : c \in ToSet(g.pre[b]))), linked, blocks)

\* after ends in a jump to the new before; its successors follow the new after, with
\* the values of the copy.
Relinked(f, g, l) ==
  LET after == After(f, l)  shape == Shape(f, l)  names == NewNames(f, l)
      copy(b) == NewBlockOf(f, shape, b)
      moved(phi) == [phi EXCEPT !.args = [i \in DOMAIN @ |-> IF phi.blocks[i] \in ToSet(shape) \ {after} THEN @[i]
                                                             ELSE Mapped(names, @[i])],
                                !.blocks = ReplaceAll(@, after, copy(after))]
  IN  JumpTo(FoldLeft(LAMBDA k, t : MapPhis(k, t, moved), DropEdges(g, after), f.succ[after]), after, copy(Before(f, l)))

\* The unrolled loop stops where fewer than BaseTimes iterations are left.
Margin(iv) == LET size == BaseTimes * iv.step[2] IN IF iv.predicate \in {"lt", "le"} THEN size ELSE -size
Tightened(f, g, l, iv) ==
  LET before == Before(f, l)
      n == NextName(g)
      compare == g.code[before][CompareAt(g, before)]
      less == Inst(n, "sub", <<compare.args[2], Const(Margin(iv))>>, <<>>)
      tight(inst) == IF inst.op \in Comparisons THEN [inst EXCEPT !.args[2] = Name(n)] ELSE inst
  IN  [g EXCEPT !.code[before] = SubSeq(@, 1, Len(@) - 2) \o <<less, tight(compare), Last(@)>>,
                !.code[l.latch] = Map(@, tight)]

\* What after computed, and its phis, is now taken from the copy; the copied loop
\* starts from after's phis, the i-th from the i-th.
HandedOver(f, g, l) ==
  LET after == After(f, l)
      all == NewNames(f, l)
      first == NewBlockOf(f, Shape(f, l), l.preheader)
      names == [n \in NamesIn(f, {after}) |-> all[n]]
      taken == [InPlace(g, names) EXCEPT !.code[after] = SelectSeq(@, LAMBDA inst : IsPhi(inst) \/ inst.op = "br")]
      index(phi) == SelectInSeq(PhisOf(f, l.base), LAMBDA old : all[old.name][2] = phi.name)
      start(phi) == [phi EXCEPT !.args = [i \in DOMAIN @ |-> IF phi.blocks[i] = first
                                                              THEN Name(PhisOf(f, after)[index(phi)].name) ELSE @[i]]]
  IN  MapPhis(taken, NewBlockOf(f, Shape(f, l), l.base), start)

CloneLoop(f, l, iv) ==
  IF ~ Clonable(f, l, iv) THEN f
  ELSE UnrollBase(HandedOver(f, Tightened(f, Relinked(f, WithClones(f, l), l), l, iv), l), l)

\* LoopUnrolling::run, of one loop with the induction variable it takes.
UnrollLoop(f, l, iv) ==
  CASE iv.step[1] # "const" -> f
    [] iv.initial[1] = "const" /\ iv.final[1] = "const" ->
         IF Times(iv) <= 0 THEN f
         ELSE IF Times(iv) < MaxConstTimes THEN WrittenOut(f, l, Times(iv))
         ELSE UnrollBase(UnrollPre(f, l, Times(iv) % BaseTimes), l)
    [] OTHER -> CloneLoop(f, l, iv)

\* The loops it takes: of at most two blocks, none inside, with an induction variable.
Unrollable(f, l) ==
  /\ Cardinality(l.blocks) <= 2 /\ BasicIVs(f, l) # {}
  /\ \A k \in Loops(f) \ {l.base} : k \notin l.blocks
  /\ Len(f.code[l.base]) <= 10

-----------------------------------------------------------------------------
\* What the pass gets right.  Every loop has a preheader and an exit (LoopInfo
\* prints their names).  What the next iteration starts from is computed in the
\* body, and of the loop only that is used after it.
Drawn(l) == l.preheader # 0 /\ l.exit # 0
Closed(f, l) ==
  /\ \A i \in DOMAIN PhisOf(f, l.base) :
       \E inst \in ToSet(Calculated(f, l.base)) : Name(inst.name) = PhiValue(PhisOf(f, l.base)[i], l.latch)
  /\ LET own == NamesIn(f, l.blocks) \ {inst.name : inst \in ToSet(Calculated(f, l.base))}
     IN  \A q \in Places(f) : Uses(InstAt(f, q), own) => q[1] \in l.blocks

\* The count is that of the iterations: the variable goes to its bound, and where it
\* may not reach it, comes to it.
Towards(iv) ==
  /\ iv.step[2] > 0
  /\ iv.predicate \in {"lt", "le"} => iv.by = "add"
  /\ iv.predicate \in {"gt", "ge"} => iv.by = "sub"
Counted(iv) ==
  iv.step[1] = "const" /\ iv.initial[1] = "const" /\ iv.final[1] = "const" /\ Times(iv) > 0 =>
    Towards(iv) /\ (iv.predicate \in {"lt", "gt"} => Remainder(iv.final[2] - iv.initial[2], iv.step[2]) = 0)

\* Before the loop, and after it, nothing happens that can not happen twice or
\* later; both compares have the bound on the right; and after joins what the loop
\* computes, in the order of its phis.
Repeatable(f, l, iv) ==
  LET before == f.code[Before(f, l)]  after == PhisOf(f, After(f, l))
      bound(inst) == inst.args[2] = iv.final
  IN  iv.step[1] = "const" /\ ~ (iv.initial[1] = "const" /\ iv.final[1] = "const") /\ Clonable(f, l, iv) =>
        /\ Towards(iv) /\ ~ Inside(f, l, iv.final)
        /\ \A i \in DOMAIN before : before[i].op \in Arithmetic \cup Comparisons \cup {"br"}
        /\ bound(before[CompareAt(f, Before(f, l))]) /\ bound(Head(f.code[l.latch]))
        /\ Len(PhisOf(f, l.base)) <= Len(after)
        /\ \A i \in DOMAIN PhisOf(f, l.base) : PhiValue(after[i], l.exit) = PhiValue(PhisOf(f, l.base)[i], l.latch)
CountableIn(f, l) ==
  Drawn(l) /\ (Unrollable(f, l) =>
    Closed(f, l) /\ \A iv \in BasicIVs(f, l) : Counted(iv) /\ Repeatable(f, l, iv))
Countable(f) == \A h \in Loops(f) : CountableIn(f, LoopInfo(f, h))
=============================================================================
