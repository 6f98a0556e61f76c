----------------------------- MODULE SimplifyCFG -----------------------------
(***************************************************************************)
(* Simplification of the control flow (SimplifyCFG.hh): removes blocks     *)
(* that are not reached, empty blocks, blocks with one way in, and phis    *)
(* with one value, in rounds until a round changes nothing.                *)
(***************************************************************************)
EXTENDS Ssa

VARIABLES stage, f,
          pro,       \* the rest of the postorder of the round
          changed

G == INSTANCE Flow

Phis(g, b) == SelectSeq(g.code[b], IsPhi)
PhiNamed(g, b, n) == CHOOSE inst \in ToSet(g.code[b]) : inst.name = n

\* rewrite_true_br
TrueBrRewritten(g, b) ==
  LET br == Terminator(g, b)
  IN  IF IsCondBr(br) /\ br.args[1] = Const(1) THEN JumpTo(DropEdges(g, b), b, br.blocks[1]) ELSE g

\* fix_wrong_phi
PhisFixed(g, b) ==
  MapPhis(g, b, LAMBDA phi : KeepPairs(phi, LAMBDA c : c \in ToSet(g.pre[b])))

-----------------------------------------------------------------------------
Reached(g) == G!Reach(Edges(g), {Entry(g)})

\* has_constant_value: what a phi can be besides itself.
Others(phi) == ToSet(phi.args) \ {Name(phi.name)}

\* remove_bb_in_phis for a successor t of b
ForgottenIn(g, t, b) ==
  FoldLeft(LAMBDA h, old :
             LET phi == PhiNamed(h, t, old.name)
             IN  IF Len(phi.args) > 1 /\ Cardinality(Others(phi)) = 1
                 THEN PhiReplaced(h, phi, CHOOSE o \in Others(phi) : TRUE) ELSE h,
           MapPhis(g, t, LAMBDA phi : RemovePhiBlock(phi, b)), Phis(g, t))
Unreached(g, b) == RemoveBlock(FoldLeft(LAMBDA h, t : ForgottenIn(h, t, b), g, g.succ[b]), b)

\* get_pro
Postorder(g) ==
  LET Walks == [pro : Seq(Blocks(g)), visited : SUBSET Blocks(g)]
      walk[w \in Walks, b \in Blocks(g)] ==
        IF b \in w.visited THEN w
        ELSE LET after == FoldLeft(LAMBDA v, t : walk[v, t], [w EXCEPT !.visited = @ \cup {b}],
                                   Terminator(g, b).blocks)
             IN  [after EXCEPT !.pro = Append(@, b)]
  IN  walk[[pro |-> <<>>, visited |-> {}], Entry(g)].pro

-----------------------------------------------------------------------------
\* elim_single_phi, for the whole function.
Single(g, b, phi) ==
  Len(g.pre[b]) = 1 /\ phi.blocks # <<>> /\ phi.blocks[1] = g.pre[b][1]
SinglesInNone(g, b) == g   \* faulty
SinglesIn(g, b) ==
  FoldLeft(LAMBDA h, old : LET phi == PhiNamed(h, b, old.name)
                           IN  IF Single(h, b, phi) THEN PhiReplaced(h, phi, phi.args[1]) ELSE h,
           g, Phis(g, b))
WithoutSingles(g) == FoldLeft(SinglesIn, g, g.order)

\* What it asserts never to meet.
IllegalUndef(g) ==
  \E b \in Blocks(g) : \E phi \in ToSet(Phis(g, b)) : Single(g, b, phi) /\ phi.args[1] = Name(phi.name)

\* merge_double_br
Merged(g, b) ==
  LET br == Terminator(g, b)
  IN  IF IsCondBr(br) /\ br.blocks[1] = br.blocks[2]
      THEN JumpTo(DropEdge(g, b, br.blocks[1]), b, br.blocks[1]) ELSE g

\* try_replace_empty_jump: b only jumps to t, and no way into b leads to t by
\* itself.  The phis of t get a pair for each of these ways.
CanBypass(g, b) ==
  /\ IsJump(Head(g.code[b]))
  /\ g.pre[b] # <<>>
  /\ \A p \in ToSet(g.pre[b]) :
       IsCondBr(Terminator(g, p)) => Head(g.code[b]).blocks[1] \notin Targets(g, p)

\* Faulty: the pair of the block stays.
PairsForToo(phi, b, preds) ==
  LET i == SelectInSeq(phi.blocks, LAMBDA c : c = b)
  IN  IF i = 0 THEN phi
      ELSE [phi EXCEPT !.args = @ \o [k \in DOMAIN preds |-> phi.args[i]], !.blocks = @ \o preds]

PairsFor(phi, b, preds) ==
  LET i == SelectInSeq(phi.blocks, LAMBDA c : c = b)
  IN  IF i = 0 THEN phi
      ELSE LET p == RemovePhiBlock(phi, b)
           IN  [p EXCEPT !.args = @ \o [k \in DOMAIN preds |-> phi.args[i]], !.blocks = @ \o preds]

Bypassed(g, b) ==
  LET t == Head(g.code[b]).blocks[1]
      redirect(h, p) == AddEdge(DropEdge([h EXCEPT !.succ[p] = Remove(@, b)], p, t), p, t)
      paired == MapPhis(g, t, LAMBDA phi : PairsFor(phi, b, g.pre[b]))
      unlisted == [ReplaceBlock(paired, b, t) EXCEPT !.pre[t] = Remove(@, b)]
  IN  FoldLeft(redirect, unlisted, g.pre[b])

\* try_combine: b is appended to the block that jumps to it and is the only one.
CanCombine(g, b) ==
  Len(g.pre[b]) = 1 /\ LET br == Terminator(g, g.pre[b][1]) IN IsJump(br) /\ br.blocks[1] = b

Combined(g, b) ==
  LET p == g.pre[b][1]
      moved == [g EXCEPT !.code[p] = Front(@) \o g.code[b], !.succ[p] = <<>>, !.order = Remove(@, b)]
      linked == FoldLeft(LAMBDA h, t : AddEdge([h EXCEPT !.pre[t] = Remove(@, b)], p, t), moved, g.succ[b])
  IN  ReplaceBlock([linked EXCEPT !.pre[b] = <<>>, !.succ[b] = <<>>], b, p)

-----------------------------------------------------------------------------
Init == pro = <<>> /\ changed = FALSE

Begin ==
  /\ stage = "cfg"
  /\ f' = LET g == FoldLeft(TrueBrRewritten, f, f.order) IN FoldLeft(PhisFixed, g, g.order)
  /\ stage' = "cfg round"
  /\ UNCHANGED <<pro, changed>>

\* remove_unreachable_blocks, which exits when the return is not reached.
RemoveUnreachable ==
  /\ stage = "cfg round"
  /\ LET dead == Blocks(f) \ Reached(f)
     IN  /\ changed' = (dead # {})
         /\ IF \E b \in dead : Terminator(f, b).op = "ret"
            THEN stage' = "cfg exit" /\ UNCHANGED <<f, pro>>
            ELSE /\ stage' = "cfg simplify"
                 /\ \E order \in SetToSeqs(dead) : f' = FoldLeft(Unreached, f, order)
                 /\ pro' = Postorder(f)

\* simplify_once, for one block.  A block that jumps to itself is replaced by
\* itself, for ever.
Simplify ==
  /\ stage = "cfg simplify"
  /\ pro # <<>>
  /\ LET b == Head(pro)
         merged == Merged(f, b)
         bypass == CanBypass(merged, b)
         tried == IF bypass THEN Bypassed(merged, b) ELSE merged
         bypassed == WithoutSingles(tried)
         combine == CanCombine(bypassed, b)
     IN  IF Terminator(f, b).op # "br" THEN UNCHANGED <<stage, f, changed>>
         ELSE IF bypass /\ Terminator(merged, b).blocks = <<b>>
         THEN stage' = "cfg hang" /\ UNCHANGED <<f, changed>>
         ELSE IF IllegalUndef(tried) \/ (combine /\ IsPhi(Head(bypassed.code[b])))
         THEN stage' = "cfg exit" /\ UNCHANGED <<f, changed>>
         ELSE /\ f' = IF combine THEN Combined(bypassed, b) ELSE bypassed
              /\ changed' = (changed \/ merged # f \/ bypass \/ combine)
              /\ UNCHANGED stage
  /\ pro' = Tail(pro)

EndRound ==
  /\ stage = "cfg simplify"
  /\ pro = <<>>
  /\ f' = WithoutSingles(f)
  /\ stage' = IF IllegalUndef(f) THEN "cfg exit" ELSE IF changed THEN "cfg round" ELSE "cfg done"
  /\ UNCHANGED <<pro, changed>>

Next == Begin \/ RemoveUnreachable \/ Simplify \/ EndRound
=============================================================================
