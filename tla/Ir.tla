---------------------------------- MODULE Ir ----------------------------------
(***************************************************************************)
(* The IR the passes edit (MIR_new): a function is a list of blocks, each  *)
(* with its instructions and the lists of its predecessors and successors, *)
(* which are kept beside the terminators.                                  *)
(*                                                                         *)
(* A function f is a record:                                               *)
(*   order      basic_blocks_, the entry first                             *)
(*   code[b]    the instructions of b, the terminator last                 *)
(*   pre[b], succ[b]   pre_bbs_ and succ_bbs_                              *)
(* and an instruction a record: its name (0 if it is void), op, the values *)
(* among its operands, and the blocks among them (the predecessors of a    *)
(* phi, pairwise with args; the targets of a branch).  Use lists are not   *)
(* represented: whoever has x as an operand uses x.                        *)
(***************************************************************************)
EXTENDS Integers, FiniteSets, SequencesExt

\* Operands.
Const(n) == <<"const", n>>
Name(n)  == <<"name", n>>

Inst(name, op, args, blocks) == [name |-> name, op |-> op, args |-> args, blocks |-> blocks]
Phi(name, args, blocks) == Inst(name, "phi", args, blocks)
Br(target) == Inst(0, "br", <<>>, <<target>>)
CondBr(cond, iftrue, iffalse) == Inst(0, "br", <<cond>>, <<iftrue, iffalse>>)
Ret(val) == Inst(0, "ret", <<val>>, <<>>)

IsPhi(inst) == inst.op = "phi"
Entry(f) == f.order[1]
Blocks(f) == ToSet(f.order)
Places(f) == UNION {{<<b, i>> : i \in DOMAIN f.code[b]} : b \in Blocks(f)}
InstAt(f, place) == f.code[place[1]][place[2]]
Terminator(f, b) == Last(f.code[b])
Targets(f, b) == ToSet(Terminator(f, b).blocks)
IsCondBr(inst) == inst.op = "br" /\ inst.args # <<>>
IsJump(inst) == inst.op = "br" /\ inst.args = <<>>
Edges(f) == UNION {{<<b, t>> : t \in Targets(f, b)} : b \in Blocks(f)}

-----------------------------------------------------------------------------
\* Editing.

\* The elements of s mapped.  (The concatenation has TLC compute them once.)
Map(s, G(_)) == <<>> \o [i \in DOMAIN s |-> G(s[i])]

\* X, and what More finds from it, again and again, n times.
Grown(X, n, More(_)) == FoldLeft(LAMBDA Y, k : Y \cup More(Y), X, [k \in 1 .. n |-> k])

\* f with G applied to every instruction.
Rewritten(f, G(_)) == [f EXCEPT !.code = Map(@, LAMBDA insts : Map(insts, G))]

\* Value::replace_all_use_with, of a value and of a block.
ReplaceUses(f, old, new) ==
  Rewritten(f, LAMBDA inst : [inst EXCEPT !.args = ReplaceAll(inst.args, old, new)])
ReplaceBlock(f, old, new) ==
  Rewritten(f, LAMBDA inst : [inst EXCEPT !.blocks = ReplaceAll(inst.blocks, old, new)])

\* PhiInst without its i-th pair, and without the first pair of block b.
DropPair(phi, i) == [phi EXCEPT !.args = RemoveAt(phi.args, i), !.blocks = RemoveAt(phi.blocks, i)]
RemovePhiBlock(phi, b) ==
  LET i == SelectInSeq(phi.blocks, LAMBDA c : c = b) IN IF i = 0 THEN phi ELSE DropPair(phi, i)

\* The pairs of a phi that satisfy Keep(block).
KeepPairs(phi, Keep(_)) ==
  LET kept == SelectSeq([i \in DOMAIN phi.blocks |-> i], LAMBDA i : Keep(phi.blocks[i]))
  IN  [phi EXCEPT !.args = Map(kept, LAMBDA i : phi.args[i]),
                  !.blocks = Map(kept, LAMBDA i : phi.blocks[i])]

MapPhis(f, b, G(_)) ==
  [f EXCEPT !.code[b] = Map(@, LAMBDA inst : IF IsPhi(inst) THEN G(inst) ELSE inst)]
Erase(f, n) ==
  [f EXCEPT !.code = Map(@, LAMBDA insts : SelectSeq(insts, LAMBDA inst : inst.name # n))]
PhiReplaced(f, phi, o) == Erase(ReplaceUses(f, Name(phi.name), o), phi.name)

AddEdge(f, b, t)  == [f EXCEPT !.pre[t] = Append(@, b), !.succ[b] = Append(@, t)]
DropEdge(f, b, t) == [f EXCEPT !.pre[t] = Remove(@, b), !.succ[b] = Remove(@, t)]
DropEdges(f, b)   == FoldLeft(LAMBDA g, t : DropEdge(g, b, t), f, f.succ[b])

\* The terminator of b erased, and BranchInst::create_br.
JumpTo(f, b, t) == AddEdge([f EXCEPT !.code[b] = Append(Front(@), Br(t))], b, t)

\* Function::remove_unreachable_basic_block, and Function::remove, for a block
\* whose lists are still there.
RemoveBlock(f, b) ==
  LET unlisted == [f EXCEPT !.order = Remove(@, b)]
      forgotten == FoldLeft(LAMBDA g, t : MapPhis([g EXCEPT !.pre[t] = Remove(@, b)], t,
                                                  LAMBDA phi : RemovePhiBlock(phi, b)),
                            unlisted, f.succ[b])
  IN  FoldLeft(LAMBDA g, p : [g EXCEPT !.succ[p] = Remove(@, b)], forgotten, f.pre[b])

-----------------------------------------------------------------------------
\* The lists of predecessors and successors say what the terminators say.
EdgesMirrored(f) ==
  \A b \in Blocks(f) : /\ ToSet(f.succ[b]) = Targets(f, b)
                       /\ ToSet(f.pre[b]) = {c \in Blocks(f) : b \in Targets(f, c)}

\* A phi has a value from no block but its predecessors, and one from each that
\* has one.
PhisFit(f) ==
  \A p \in Places(f) : IsPhi(InstAt(f, p)) =>
    /\ ToSet(InstAt(f, p).blocks) \subseteq ToSet(f.pre[p[1]])
    /\ IsInjective(InstAt(f, p).blocks)
    /\ InstAt(f, p).blocks # <<>>
=============================================================================
