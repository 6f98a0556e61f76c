-------------------------------- MODULE Sccp --------------------------------
(***************************************************************************)
(* Sparse conditional constant propagation: SCCPSolver.hh and SCCP.hh.     *)
(*                                                                         *)
(* A lattice element is a set of words: {} is unknown, {c} the constant c, *)
(* Over overdefined.  The solver is one record:                            *)
(*   lat     value_state                                                   *)
(*   over, ins, bbs   overdefined_inst_worklist, inst_worklist, bb_worklist*)
(*   drains  the one of the three that solve() is emptying                 *)
(*   exec, edges   bb_executable, executable_edges                         *)
(***************************************************************************)
EXTENDS Ssa

VARIABLES stage, f, solver

Over == Word
IsConst(l) == Cardinality(l) = 1 /\ l # Over
IsUnknown(l) == l = {}
ConstOf(l) == CHOOSE c \in l : TRUE

\* Lattice::mergein
Join(l, r) == IF Cardinality(l \cup r) > 1 THEN Over ELSE l \cup r

\* get_value_state
Lat(s, o) == IF o[1] = "const" THEN {o[2]} ELSE IF o = Arg THEN Over ELSE s.lat[o[2]]

\* mergein_value and mark_overdefined: what changes goes on a work list.
Lowered(s, name, l) ==
  IF l = s.lat[name] THEN s
  ELSE LET t == [s EXCEPT !.lat[name] = l]
       IN  IF l = Over THEN [t EXCEPT !.over = Append(@, name)] ELSE [t EXCEPT !.ins = Append(@, name)]
MergeIn(s, name, l) == Lowered(s, name, Join(s.lat[name], l))
MarkOver(s, name) == Lowered(s, name, Over)

Feasible(s, from, to) == <<from, to>> \in s.edges

\* Faulty: the value of the last feasible pair alone; an edge only counts if it
\* leads to a new block; the phis of a block that is executable are not visited.
VisitPhiLast(s, b, phi) ==
  IF s.lat[phi.name] = Over THEN s
  ELSE FoldLeft(LAMBDA t, i : IF Feasible(t, phi.blocks[i], b) THEN Lowered(t, phi.name, Lat(t, phi.args[i])) ELSE t,
                s, [i \in DOMAIN phi.args |-> i])
MarkEdgeNew(s, f0, from, to) ==
  IF to \in s.exec THEN s
  ELSE [s EXCEPT !.edges = @ \cup {<<from, to>>}, !.exec = @ \cup {to}, !.bbs = Append(@, to)]
MarkEdgeOnly(s, f0, from, to) ==
  IF Feasible(s, from, to) THEN s
  ELSE LET t == [s EXCEPT !.edges = @ \cup {<<from, to>>}]
       IN  IF to \in s.exec THEN t ELSE [t EXCEPT !.exec = @ \cup {to}, !.bbs = Append(@, to)]

VisitPhi(s, b, phi) ==
  IF s.lat[phi.name] = Over THEN s
  ELSE LET known == {Lat(s, phi.args[i]) : i \in {k \in DOMAIN phi.args : Feasible(s, phi.blocks[k], b)}}
           l == UNION known
       IN  MergeIn(s, phi.name, IF Cardinality(l) > 1 THEN Over ELSE l)

\* visit_binary and visit_cmp: no operand unknown, and both constant to fold.
VisitBinary(s, inst) ==
  LET l == Lat(s, inst.args[1])  r == Lat(s, inst.args[2])
  IN  IF s.lat[inst.name] = Over \/ IsUnknown(l) \/ IsUnknown(r) THEN s
      ELSE IF IsConst(l) /\ IsConst(r)
           THEN MergeIn(s, inst.name, {Result(inst.op, ConstOf(l), ConstOf(r))})
           ELSE MarkOver(s, inst.name)

\* visit_zext, visit_fptosi, visit_sitofp
VisitCast(s, inst) ==
  LET l == Lat(s, inst.args[1])
  IN  IF s.lat[inst.name] = Over \/ IsUnknown(l) THEN s
      ELSE IF l = Over THEN MarkOver(s, inst.name) ELSE Lowered(s, inst.name, l)

\* mark_edge_executable: a block that was executable before has its phis
\* visited, another one is put on the list.
MarkEdge(s, f0, from, to) ==
  IF Feasible(s, from, to) THEN s
  ELSE LET t == [s EXCEPT !.edges = @ \cup {<<from, to>>}]
       IN  IF to \notin s.exec THEN [t EXCEPT !.exec = @ \cup {to}, !.bbs = Append(@, to)]
           ELSE FoldLeft(LAMBDA u, phi : VisitPhi(u, to, phi), t, SelectSeq(f0.code[to], IsPhi))

VisitBr(s, f0, b, inst) ==
  IF IsJump(inst) THEN MarkEdge(s, f0, b, inst.blocks[1])
  ELSE LET l == Lat(s, inst.args[1])
       IN  IF IsUnknown(l) THEN s
           ELSE IF IsConst(l) THEN MarkEdge(s, f0, b, inst.blocks[IF ConstOf(l) # 0 THEN 1 ELSE 2])
           ELSE MarkEdge(MarkEdge(s, f0, b, inst.blocks[1]), f0, b, inst.blocks[2])

Visit(s, f0, b, inst) ==
  CASE IsPhi(inst) -> VisitPhi(s, b, inst)
    [] inst.op \in {"add", "eq"} -> VisitBinary(s, inst)
    [] inst.op = "zext"  -> VisitCast(s, inst)
    [] inst.op = "input" -> MarkOver(s, inst.name)
    [] inst.op = "br"    -> VisitBr(s, f0, b, inst)
    [] inst.op \in {"out", "ret"} -> s

\* mark_users_as_changed, for the uses of x in the order of its use list.
Uses(f0, x) == {p \in Places(f0) : Name(x) \in ToSet(InstAt(f0, p).args)}
VisitUses(s, f0, uses) ==
  FoldLeft(LAMBDA u, p : IF p[1] \in u.exec THEN Visit(u, f0, p[1], InstAt(f0, p)) ELSE u, s, uses)

\* The list solve() takes the next item from: it empties one after the other,
\* and starts again when something has been put on a list before.
Turn == [over |-> <<"over", "ins", "bbs">>, ins |-> <<"ins", "bbs", "over">>, bbs |-> <<"bbs", "over", "ins">>]
Filled(s) == SelectSeq(Turn[s.drains], LAMBDA l : s[l] # <<>>)
Solved(s) == Filled(s) = <<>>

-----------------------------------------------------------------------------
Fresh(f0) ==
  [lat |-> [n \in Names |-> {}], over |-> <<0>>, ins |-> <<>>, bbs |-> <<Entry(f0)>>,
   drains |-> "over", exec |-> {Entry(f0)}, edges |-> {}]

\* process_func: the entry is executable, the argument overdefined.
Start ==
  /\ stage = "sccp start"
  /\ solver' = Fresh(f)
  /\ stage' = "solve"
  /\ UNCHANGED f

TakeValue ==
  /\ stage = "solve"
  /\ ~ Solved(solver) /\ Head(Filled(solver)) \in {"over", "ins"}
  /\ LET l == Head(Filled(solver))
         x == Head(solver[l])
         s == [solver EXCEPT ![l] = Tail(@), !.drains = l]
     IN  IF l = "ins" /\ s.lat[x] # Over THEN solver' = s
         ELSE \E uses \in SetToSeqs(Uses(f, x)) : solver' = VisitUses(s, f, uses)
  /\ UNCHANGED <<stage, f>>

TakeBlock ==
  /\ stage = "solve"
  /\ ~ Solved(solver) /\ Head(Filled(solver)) = "bbs"
  /\ LET b == Head(solver.bbs)
     IN  solver' = FoldLeft(LAMBDA s, inst : Visit(s, f, b, inst),
                            [solver EXCEPT !.bbs = Tail(@), !.drains = "bbs"], f.code[b])
  /\ UNCHANGED <<stage, f>>

\* process_unknown, which is called with the lists empty and starts solve() again if
\* it changed something.
UnknownIn(s, inst) == IF inst.name # 0 /\ s.lat[inst.name] = {} THEN MarkOver(s, inst.name) ELSE s
UnknownBr(s, b) ==
  LET br == Terminator(f, b)
  IN  IF IsCondBr(br) /\ IsUnknown(Lat(s, br.args[1])) THEN MarkEdge(s, f, b, br.blocks[1]) ELSE s
Settled(s) ==
  FoldLeft(LAMBDA t, b : IF b \notin t.exec THEN t
                         ELSE UnknownBr(FoldLeft(UnknownIn, t, f.code[b]), b), s, f.order)
ProcessUnknown ==
  /\ stage = "solve"
  /\ Solved(solver)
  /\ LET s == Settled(solver)
     IN  /\ solver' = [s EXCEPT !.drains = "over"]
         /\ stage' = IF s = solver THEN "rewrite" ELSE "solve"
  /\ UNCHANGED f

-----------------------------------------------------------------------------
\* rewrite: constants go where they are used; the other phis lose the pairs of
\* infeasible edges; a branch on a constant becomes a jump.
RewriteInst(g, b, inst) ==
  IF inst.name = 0 THEN g
  ELSE IF IsConst(solver.lat[inst.name])
       THEN ReplaceUses(g, Name(inst.name), Const(ConstOf(solver.lat[inst.name])))
       ELSE MapPhis(g, b, LAMBDA phi : IF phi.name # inst.name THEN phi
                                       ELSE KeepPairs(phi, LAMBDA c : Feasible(solver, c, b)))

\* Faulty: the way not taken keeps its edge.
RewriteBrLeft(g, b) ==
  LET br == Terminator(g, b)
      way == IF ConstOf(Lat(solver, br.args[1])) # 0 THEN 1 ELSE 2
  IN  IF ~ IsCondBr(br) \/ ~ IsConst(Lat(solver, br.args[1])) THEN g
      ELSE JumpTo(DropEdge(g, b, br.blocks[way]), b, br.blocks[way])

RewriteBr(g, b) ==
  LET br == Terminator(g, b)
  IN  IF ~ IsCondBr(br) \/ ~ IsConst(Lat(solver, br.args[1])) THEN g
      ELSE JumpTo(DropEdge(DropEdge(g, b, br.blocks[2]), b, br.blocks[1]), b,
                  br.blocks[IF ConstOf(Lat(solver, br.args[1])) # 0 THEN 1 ELSE 2])

Propagated ==
  FoldLeft(LAMBDA g, b : IF b \notin solver.exec THEN g
                         ELSE RewriteBr(FoldLeft(LAMBDA h, inst : RewriteInst(h, b, inst), g, g.code[b]), b),
           f, f.order)

\* exit_if: a phi has lost all its pairs.
ZeroOperands(g) == \E p \in Places(g) : /\ p[1] \in solver.exec
                                        /\ IsPhi(InstAt(g, p)) /\ InstAt(g, p).blocks = <<>>
Rewrite ==
  /\ stage = "rewrite"
  /\ f' = Propagated
  /\ stage' = IF ZeroOperands(Propagated) THEN "sccp exit" ELSE "sccp done"
  /\ UNCHANGED solver

Next == Start \/ TakeValue \/ TakeBlock \/ ProcessUnknown \/ Rewrite

-----------------------------------------------------------------------------
\* What rewrite() relies on: in no execution of the function has a name another
\* value than the one the solver found constant (value_state), or any if it was
\* found unknown.
ConstantsHold ==
  stage = "rewrite" => \A a \in Word : \A n \in 0 .. Fuel : LET st == Execution(f, a)[n] IN
    \A x \in Names : st.env[x] # Undef => st.env[x] \in solver.lat[x]

\* Control takes no edge that is not in executable_edges: rewrite() drops the
\* phi pairs of the others and makes jumps of their branches.
EdgesFeasible ==
  stage = "rewrite" => \A a \in Word : \A n \in 1 .. Fuel : LET st == Execution(f, a)[n] IN
    st.end = "running" => <<st.from, st.at>> \in solver.edges

\* While solve() runs a value goes from unknown to a constant to overdefined and
\* never back or to another constant, which mark_constant exits on.
OnlyDown ==
  [][stage = "solve" /\ stage' = "solve" => \A x \in Names : solver.lat[x] \subseteq solver'.lat[x]]_solver
=============================================================================
