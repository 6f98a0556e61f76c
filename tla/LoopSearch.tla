----------------------------- MODULE LoopSearch -----------------------------
(***************************************************************************)
(* The loops of a function: loop_search::run, find_loop_base and           *)
(* get_parent_loop of Optimize/LoopSearch.cc.  A round finds the cycles of *)
(* what is left of the graph (module Tarjan), names a base for each, and   *)
(* takes the base out of the graph, so that the next round finds the loops *)
(* inside.  The sets are unordered: what depends on their order may go     *)
(* either way.                                                             *)
(***************************************************************************)
EXTENDS Naturals, FiniteSets

CONSTANTS Block, Entry
F == INSTANCE Flow

VARIABLES cfg,        \* the control-flow graph
          nodes,      \* the nodes left
          next, pre,  \* cfg_node::next and pre; an edge may be gone from one only
          sccs,       \* the cycles of this round still to record
          reserved,   \* the bases taken out
          base2loop, bb2base

vars == <<cfg, nodes, next, pre, sccs, reserved, base2loop, bb2base>>

Init ==
  /\ cfg \in {E \in F!Programs(Block, Entry) : F!Reducible(E, Entry)}
  /\ nodes = F!Reach(cfg, {Entry}) /\ next = cfg /\ pre = cfg
  /\ sccs = {} /\ reserved = {} /\ base2loop = <<>> /\ bb2base = <<>>

Round ==
  /\ sccs = {}
  /\ sccs' = F!Cycles(next, nodes)
  /\ sccs' # {}
  /\ UNCHANGED <<cfg, nodes, next, pre, reserved, base2loop, bb2base>>

\* find_loop_base: a node entered from outside the cycle; if those edges went
\* with the base of an outer loop, a successor of such a base.
Entered(scc) == {b \in scc : ~ F!Preds(pre, b) \subseteq scc}
LoopBaseAny(scc) == scc             \* faulty: any node
LoopBase(scc) ==
  IF Entered(scc) # {} THEN Entered(scc)
  ELSE {b \in scc : \E r \in reserved : b \in F!Succs(next, r)}

\* bb2base keeps the last base of a block.
RebasedOnce(scc, base) ==           \* faulty: it keeps the first
  [b \in DOMAIN bb2base \cup scc |-> IF b \in DOMAIN bb2base THEN bb2base[b] ELSE base]
Rebased(scc, base) ==
  [b \in DOMAIN bb2base \cup scc |-> IF b \in scc THEN base ELSE bb2base[b]]

\* The base leaves pre of its successors, then next of its predecessors.
PreWithout(base) == pre \ {<<base, b>> : b \in F!Succs(next, base)}
NextWithout(base) == next \ {<<b, base>> : b \in F!Preds(PreWithout(base), base)}

Record(scc) ==
  /\ scc \in sccs /\ sccs' = sccs \ {scc}
  /\ \E base \in LoopBase(scc) :
       /\ base2loop' = [b \in DOMAIN base2loop \cup {base} |->
                          IF b \in DOMAIN base2loop THEN base2loop[b] ELSE scc]
       /\ bb2base' = Rebased(scc, base)
       /\ reserved' = reserved \cup {base}
       /\ nodes' = nodes \ {base}
       /\ pre' = PreWithout(base)
       /\ next' = NextWithout(base)
  /\ UNCHANGED cfg

Next == Round \/ \E scc \in sccs : Record(scc)
Spec == Init /\ [][Next]_vars

\* get_inner_loop: the innermost loop around a block; get_parent_loop: that of
\* the first predecessor of the base that lies outside the loop, if it holds the
\* base.  {} stands for nullptr.
InnerLoop(b) == IF b \in DOMAIN bb2base THEN base2loop[bb2base[b]] ELSE {}
ParentLoopsAny(base) ==             \* faulty: the base is not looked for
  LET outer == {InnerLoop(p) : p \in F!Preds(cfg, base) \ base2loop[base]}
  IN  IF outer = {} THEN {{}} ELSE outer
ParentLoops(base) ==
  LET loop == base2loop[base]
      outer == {InnerLoop(p) : p \in F!Preds(cfg, base) \ loop}
  IN  IF outer = {} THEN {{}} ELSE {IF base \in o THEN o ELSE {} : o \in outer}

-----------------------------------------------------------------------------
\* A loop that was recorded is the natural loop of its base: the base dominates
\* it, and it holds the blocks that lead back to the base under it.
LoopsAreNatural == \A b \in DOMAIN base2loop : base2loop[b] = F!NaturalLoop(cfg, Entry, b)

\* When the search ends every back edge leads to a recorded base, and a base is
\* the target of one.
EveryLoopFound == DOMAIN base2loop = F!Headers(cfg, Entry)

\* Then bb2base names the innermost loop ("默认最低层次的loop"): the smallest one
\* around a block.
Around(b) == {base2loop[c] : c \in {d \in DOMAIN base2loop : b \in base2loop[d]}}
InnermostBase ==
  \A b \in Block : /\ (b \in DOMAIN bb2base) <=> Around(b) # {}
                   /\ \A L \in Around(b) : InnerLoop(b) \subseteq L

Enclosing(base) == {L \in Around(base) : L # base2loop[base]}

\* "the loop of this predecessor is the outer loop": get_parent_loop never returns a
\* loop that does not hold the given one, nor the wrong level; if anything, nothing.
ParentIsNoStranger ==
  \A b \in DOMAIN base2loop : \A P \in ParentLoops(b) \ {{}} :
    P \in Enclosing(b) /\ \A L \in Enclosing(b) : P \subseteq L
=============================================================================
