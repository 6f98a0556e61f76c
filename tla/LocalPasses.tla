----------------------------- MODULE LocalPasses -----------------------------
(***************************************************************************)
(* The passes on the code of main, in the order of compiler.cc: loops are  *)
(* unrolled, common expressions merged, loads and stores forwarded, and    *)
(* invariants moved.  A run may start with any of them, since each can be  *)
(* switched off; the passes between them are those of other modules.       *)
(***************************************************************************)
EXTENDS Loops

CONSTANTS
  Candidates,     \* Candidates[s]: the programs pass s may start from
  OnlyHandled     \* whether they meet the conditions of the pass

VARIABLES prog,     \* the module
          stage,    \* the pass
          todo,     \* what it still has to look at
          walk,     \* the last walk of Peephole; the loop whose invariants are moved,
            \* with its blocks to come
          promised  \* what the program did before the passes

vars == <<prog, stage, todo, walk, promised>>

main == prog.fns.main
InMain(f) == prog' = [prog EXCEPT !.fns.main = f]
Nowhere == [h |-> 0, blocks |-> {}]
Idle == walk = Nowhere
IndexIn(s, x) == SelectInSeq(s, LAMBDA y : y = x)

\* What a pass begins with.
Work(s, f) ==
  CASE s \in {"unroll", "motion"} -> Loops(f)
    [] s = "merge" -> {1, 2, 3}
    [] s = "forward" -> Blocks(f)
    [] OTHER -> {}
Handled(s, p) ==
  OnlyHandled => CASE s = "unroll" -> Countable(p.fns.main)
                   [] s = "merge" -> TRUE
                   [] s = "forward" -> Ordered(p.fns.main)
                   [] s = "motion" -> Movable(p.fns.main, Pure(p))
                   [] OTHER -> TRUE

Init ==
  /\ stage \in DOMAIN Candidates
  /\ prog \in Candidates[stage] /\ Handled(stage, prog)
  /\ todo = Work(stage, main)
  /\ walk = Nowhere
  /\ promised = Outcomes(prog)

\* The next pass, where it is handled.
Then == [unroll |-> "merge", merge |-> "forward", forward |-> "motion", motion |-> "done", done |-> "done"]
NextPass ==
  /\ stage # "done" /\ todo = {} /\ (stage = "motion" => Idle)
  /\ Handled(Then[stage], prog)
  /\ stage' = Then[stage] /\ todo' = Work(Then[stage], main) /\ walk' = Nowhere
  /\ UNCHANGED <<prog, promised>>

\* LoopUnrolling: one loop, with any of its induction variables.  The code runs LoopInfo
\* once, before the first loop, which is the same where a program has only one.
Unroll ==
  /\ stage = "unroll"
  /\ \E h \in todo :
       /\ todo' = todo \ {h}
       /\ \E l \in {LoopInfo(main, h)} :
            \/ Unrollable(main, l) /\ \E iv \in BasicIVs(main, l) : InMain(UnrollLoop(main, l, iv))
            \/ ~ Unrollable(main, l) /\ UNCHANGED prog
  /\ UNCHANGED <<stage, walk, promised>>

\* LocalCommonExpression: one of its three looks.
Merge ==
  /\ stage = "merge" /\ todo # {}
  /\ LET k == Min(todo) IN
     /\ InMain(CASE k = 1 -> EachBlock(main, Pure(prog)) [] k = 2 -> EachChain(main, Pure(prog)) [] k = 3 -> EachTree(main, Pure(prog)))
     /\ todo' = todo \ {k}
  /\ UNCHANGED <<stage, walk, promised>>

\* Peephole: one block, in their order.
Forward ==
  /\ stage = "forward" /\ todo # {}
  /\ LET b == CHOOSE c \in todo : \A d \in todo : IndexIn(main.order, c) <= IndexIn(main.order, d) IN
     /\ \E w \in RunPeephole(main, b) : InMain(w.f) /\ walk' = w
     /\ todo' = todo \ {b}
  /\ UNCHANGED <<stage, promised>>

\* LoopInvMotion: the loops from within, the blocks of each in no order.
Begin ==
  /\ stage = "motion" /\ Idle
  /\ \E h \in Innermost(main, todo) :
       todo' = todo \ {h} /\ walk' = IF LoopOf(main, h).pre = 0 THEN Nowhere ELSE [h |-> h, blocks |-> Loop(main, h)]
  /\ UNCHANGED <<prog, stage, promised>>
Hoist ==
  /\ stage = "motion" /\ ~ Idle /\ walk.blocks # {}
  /\ \E b \in walk.blocks :
       /\ \E l \in {LoopOf(main, walk.h)} :
            InMain(IF Passed(main, l, b) THEN Hoisted(main, Pure(prog), l, b) ELSE main)
       /\ walk' = [walk EXCEPT !.blocks = @ \ {b}]
  /\ UNCHANGED <<stage, todo, promised>>
End == stage = "motion" /\ ~ Idle /\ walk.blocks = {} /\ walk' = Nowhere /\ UNCHANGED <<prog, stage, todo, promised>>

Next == Unroll \/ Merge \/ Forward \/ Begin \/ Hoist \/ End \/ NextPass

Spec == Init /\ [][Next]_vars
-----------------------------------------------------------------------------
\* No pass changes what the program writes and returns.
ProgramKept == Keeps(promised, prog)

\* The lists of predecessors and successors follow the terminators.
EdgesKept == Mirrored(prog)

\* Single assignment: every value that is used is set, once, on every path to the
\* use; a phi uses its values at the end of the predecessors.
Sets(f, n, b, i) ==
  \E q \in Places(f) : /\ InstAt(f, q).name = n
                       /\ IF q[1] = b THEN q[2] < i ELSE Dominates(Edges(f), Entry(f), q[1], b)
UsesSet ==
  \A q \in Places(main) :
    LET inst == InstAt(main, q) IN
    \A j \in DOMAIN inst.args : inst.args[j][1] = "name" =>
      IF IsPhi(inst) THEN Sets(main, inst.args[j][2], inst.blocks[j], Len(main.code[inst.blocks[j]]) + 1)
      ELSE Sets(main, inst.args[j][2], q[1], q[2])
NamesOnce ==
  LET named == {q \in Places(main) : InstAt(main, q).name # 0}
  IN  Cardinality({InstAt(main, q).name : q \in named}) = Cardinality(named)
SingleAssignment == UsesSet /\ NamesOnce

\* Peephole.cc, line 18: ptr2val has the update of an address in the block.  Where
\* the block is walked, that is what the last store since the last call put there.
LastStores(w) ==
  LET code == w.f.code[w.b]
      last(i) == \A j \in i + 1 .. Len(code) :
                   ~ IsCall(code[j]) /\ (code[j].op = "store" => Alias(w.f, Address(code[i]), Address(code[j])) = "no")
  IN  {code[i] : i \in {k \in DOMAIN code : code[k].op = "store" /\ last(k)}}
LastUpdateKnown ==
  stage = "forward" /\ ~ Idle =>
    \A store \in LastStores(walk), e \in walk.vals : Alias(walk.f, Address(store), e[1]) = "must" => e[2] = store.args[1]
===============================================================================
