------------------------------ MODULE DeadCode ------------------------------
(***************************************************************************)
(* Dead code elimination (DeadCode.hh): DeadCode keeps all branches, ADCE  *)
(* only those a useful instruction depends on, and has the others jump to  *)
(* the nearest useful post-dominator.  Both mark and sweep until nothing   *)
(* is swept any more.                                                      *)
(***************************************************************************)
EXTENDS Ssa

CONSTANTS MaxIter   \* ADCE gives up after so many iterations

VARIABLES stage, f, iter

G == INSTANCE Flow

\* try_rewrite_ret
WithoutResult(g) ==
  IF g.used THEN g
  ELSE Rewritten(g, LAMBDA inst : IF inst.op = "ret" THEN Ret(Const(0)) ELSE inst)

\* is_critical; calls other than those of "out" are of pure functions.
Critical(inst, aggressive) == inst.op \in {"out", "ret"} \/ (~ aggressive /\ inst.op = "br")

Definitions(g, inst) ==
  {p \in Places(g) : InstAt(g, p).name # 0 /\ Name(InstAt(g, p).name) \in ToSet(inst.args)}
TermPlace(g, b) == <<b, Len(g.code[b])>>

-----------------------------------------------------------------------------
\* The post-dominators ADCE asks for.
ReturnBlock(g) == CHOOSE b \in Blocks(g) : Terminator(g, b).op = "ret"
PostDom(g, c, b) == G!Dominates(G!Reversed(Edges(g)), ReturnBlock(g), c, b)
IPostDom(g, b) ==
  CHOOSE c \in Blocks(g) \ {b} :
    /\ PostDom(g, c, b)
    /\ \A d \in Blocks(g) \ {b} : PostDom(g, d, b) => PostDom(g, d, c)
ControlsIt(g, b) ==
  {c \in Blocks(g) : /\ \E t \in Targets(g, c) : PostDom(g, b, t)
                     /\ b = c \/ ~ PostDom(g, b, c)}

\* PostDominators::visit_function deletes what does not lead to the return.
Leads(g) == G!Reach(G!Reversed(Edges(g)), {ReturnBlock(g)})
Pruned(g) == FoldLeft(LAMBDA h, b : IF b \in Leads(g) THEN h ELSE RemoveBlock(h, b), g, g.order)

-----------------------------------------------------------------------------
\* mark: the work list ends with the least set that is closed under what an
\* instruction needs: the definitions of its operands; and for ADCE the
\* terminators of the blocks a phi has values from, and the branches its block
\* depends on.
\* Faulty: the blocks a phi has values from are forgotten.
NeedsNoPreds(g, p, aggressive) ==
  Definitions(g, InstAt(g, p))
  \cup (IF aggressive THEN {TermPlace(g, c) : c \in ControlsIt(g, p[1])} ELSE {})

Needs(g, p, aggressive) ==
  LET inst == InstAt(g, p)
      branches == {TermPlace(g, c) : c \in ControlsIt(g, p[1])}
  IN  Definitions(g, inst)
      \cup (IF ~ aggressive THEN {}
            ELSE branches \cup (IF IsPhi(inst) THEN {TermPlace(g, c) : c \in ToSet(inst.blocks)} ELSE {}))

Marked(g, aggressive) ==
  LET needs == [p \in Places(g) |-> Needs(g, p, aggressive)]
      m[n \in 0 .. Cardinality(Places(g))] ==
        IF n = 0 THEN {p \in Places(g) : Critical(InstAt(g, p), aggressive)}
        ELSE LET prev == m[n - 1] IN prev \cup UNION {needs[p] : p \in prev}
  IN  m[Cardinality(Places(g))]

Active(marked) == {p[1] : p \in marked}

\* sweep
Swept(g, b, marked) ==
  [g EXCEPT !.code[b] =
     LET kept == SelectSeq([i \in DOMAIN g.code[b] |-> i],
                           LAMBDA i : <<b, i>> \in marked \/ i = Len(g.code[b]))
     IN  Map(kept, LAMBDA i : g.code[b][i])]

LiveTarget(g, b, marked) ==
  LET up[n \in 0 .. Cardinality(Blocks(g))] ==
        IF n = 0 THEN IPostDom(g, b)
        ELSE LET c == up[n - 1] IN IF c \in Active(marked) THEN c ELSE IPostDom(g, c)
  IN  up[Cardinality(Blocks(g))]

\* What is redirected is decided by g, h is the function on the way.
Redirected(g, h, b, marked) ==
  IF Terminator(g, b).op # "br" \/ TermPlace(g, b) \in marked THEN h
  ELSE JumpTo(DropEdges(h, b), b, LiveTarget(g, b, marked))

Eliminated(g, aggressive) ==
  LET marked == Marked(g, aggressive)
  IN  FoldLeft(LAMBDA h, b : Redirected(g, Swept(h, b, marked), b, marked), g, g.order)

Size(g) == Cardinality(Places(g))

-----------------------------------------------------------------------------
Iterate(aggressive, from, to) ==
  /\ stage = from
  /\ LET g == IF aggressive THEN WithoutResult(Pruned(f)) ELSE WithoutResult(f)
         h == Eliminated(g, aggressive)
     IN  /\ f' = h
         /\ iter' = iter + 1
         /\ stage' = IF aggressive /\ iter' > MaxIter THEN "dce exit"
                     ELSE IF Size(h) = Size(g) THEN to ELSE from

DeadCodeIteration == Iterate(FALSE, "dead code", "dead code done")
AdceIteration == Iterate(TRUE, "adce", "adce done")

Next == DeadCodeIteration \/ AdceIteration
=============================================================================
