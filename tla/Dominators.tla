----------------------------- MODULE Dominators -----------------------------
(***************************************************************************)
(* Dominators: Optimize/Dominators.cc and, on the reversed graph,          *)
(* PostDominators of Optimize/PostDominator.hh.  A depth-first search      *)
(* numbers the blocks in post-order and drops those it does not reach;     *)
(* the immediate dominators are then improved block by block, in reverse   *)
(* post-order, until a pass changes nothing.  The successors of a block    *)
(* are searched, and its predecessors folded, in any order.                *)
(***************************************************************************)
EXTENDS Naturals, Sequences, SequencesExt, FiniteSets

CONSTANTS Block, Entry,
          NoBlock              \* nullptr
F == INSTANCE Flow

GraphAssumption == IsFiniteSet(Block) /\ Entry \in Block /\ NoBlock \notin Block

VARIABLES
  cfg, root,     \* the graph and where the search starts: the entry, or the return block
  blocks,        \* get_basic_blocks()
  calls,         \* the activations of visit_block: a block and its successors left
  visited, visit_order,
  idom, pass,    \* pass: the blocks this pass has still to look at
  changed,
  dom_frontier, dom_tree_succ_blocks
vars == <<cfg, root, blocks, calls, visited, visit_order, idom, pass, changed,
          dom_frontier, dom_tree_succ_blocks>>

\* PostDominators starts at the only block that returns.
Inputs ==
  LET G == F!Graphs(Block, Entry)
  IN  {<<E, Entry>> : E \in G}
        \cup UNION {{<<F!Reversed(E), t>> : t \in {b \in Block : F!Succs(E, b) = {}}} :
                      E \in {D \in G : Cardinality({b \in Block : F!Succs(D, b) = {}}) = 1}}

Init ==
  /\ \E input \in Inputs : cfg = input[1] /\ root = input[2]
  /\ blocks = Block
  /\ calls = <<[block |-> root, rest |-> F!Succs(cfg, root)]>>
  /\ visited = {root} /\ visit_order = <<>>
  /\ idom = [b \in Block |-> NoBlock]
  /\ pass = <<>> /\ changed = FALSE
  /\ dom_frontier = <<>> /\ dom_tree_succ_blocks = <<>>

-----------------------------------------------------------------------------
\* visit_block
Top == Last(calls)

Call(b) ==
  /\ calls # <<>> /\ b \in Top.rest
  /\ LET back == [calls EXCEPT ![Len(calls)].rest = @ \ {b}]
     IN  calls' = IF b \in visited THEN back
                  ELSE Append(back, [block |-> b, rest |-> F!Succs(cfg, b)])
  /\ visited' = visited \cup {b}
  /\ UNCHANGED <<cfg, root, blocks, visit_order, idom, pass, changed,
                 dom_frontier, dom_tree_succ_blocks>>

Number ==
  /\ calls # <<>> /\ Top.rest = {}
  /\ visit_order' = Append(visit_order, Top.block)
  /\ calls' = Front(calls)
  /\ UNCHANGED <<cfg, root, blocks, visited, idom, pass, changed,
                 dom_frontier, dom_tree_succ_blocks>>

\* visit_index: the post-order number.
Index(b) == CHOOSE i \in DOMAIN visit_order : visit_order[i] = b

Order == Reverse(visit_order)

\* The rest of visit_function removes what was not reached; generate_idom begins.
Prune ==
  /\ calls = <<>> /\ idom[root] = NoBlock
  /\ blocks' = visited
  /\ cfg' = {e \in cfg : e[1] \in visited /\ e[2] \in visited}
  /\ idom' = [idom EXCEPT ![root] = root]
  /\ pass' = Order /\ changed' = FALSE
  /\ UNCHANGED <<root, calls, visited, visit_order, dom_frontier, dom_tree_succ_blocks>>

\* Two blocks climb the tree, the one with the lower number first, until they meet
\* (the pair of them is held in a set, for TLC to evaluate each step once).
ClimbHigher(b1, b2) ==                           \* faulty: the higher one first
  IF Index(b1) > Index(b2) THEN <<idom[b1], b2>> ELSE <<b1, idom[b2]>>
Climb(b1, b2) ==
  IF b1 = b2 THEN <<b1, b2>>
  ELSE IF Index(b1) < Index(b2) THEN <<idom[b1], b2>> ELSE <<b1, idom[b2]>>
intersect(b1, b2) ==
  LET step[n \in 0 .. 2 * Cardinality(Block)] ==
        IF n = 0 THEN {<<b1, b2>>} ELSE {Climb(p[1], p[2]) : p \in step[n - 1]}
  IN  (CHOOSE p \in step[2 * Cardinality(Block)] : TRUE)[1]

\* The predecessors whose idom is known, folded in the order `order`.
Known(b) == {p \in F!Preds(cfg, b) : idom[p] # NoBlock}
Folded(order) ==
  LET fold[i \in 1 .. Len(order)] ==
        IF i = 1 THEN order[1] ELSE intersect(fold[i - 1], order[i])
  IN  fold[Len(order)]

Improve ==
  /\ pass # <<>>
  /\ LET b == Head(pass)
     IN  IF b = root THEN UNCHANGED <<idom, changed>>
         ELSE \E order \in SetToSeqs(Known(b)) :
                /\ idom' = [idom EXCEPT ![b] = Folded(order)]
                /\ changed' = (changed \/ idom[b] # idom'[b])
  /\ pass' = Tail(pass)
  /\ UNCHANGED <<cfg, root, blocks, calls, visited, visit_order,
                 dom_frontier, dom_tree_succ_blocks>>

AgainNever == FALSE                              \* faulty: one pass
Again == changed

Repeat ==
  /\ idom[root] = root /\ pass = <<>> /\ Again /\ dom_frontier = <<>>
  /\ pass' = Order /\ changed' = FALSE
  /\ UNCHANGED <<cfg, root, blocks, calls, visited, visit_order, idom,
                 dom_frontier, dom_tree_succ_blocks>>

-----------------------------------------------------------------------------
\* The blocks met on the way up from b, short of `stop`.
Upward(b, stop) ==
  LET up[n \in 0 .. Cardinality(Block)] ==
        IF n = 0 THEN {b} \ {stop} ELSE (UNION {{c, idom[c]} : c \in up[n - 1]}) \ {stop}
  IN  up[Cardinality(Block)]

\* A block with several predecessors is in the frontier of those under its idom.
JoinsAt(b) == Cardinality(F!Preds(cfg, b)) >= 2
UnderOne(p, b) == Upward(p, idom[p])             \* faulty: only the predecessor
Under(p, b) == Upward(p, idom[b])

Generate ==
  /\ idom[root] = root /\ pass = <<>> /\ ~ Again /\ dom_frontier = <<>>
  /\ dom_frontier' = [a \in blocks |->
       {b \in blocks : JoinsAt(b) /\ \E p \in F!Preds(cfg, b) : a \in Under(p, b)}]
  /\ dom_tree_succ_blocks' = [a \in blocks |-> {b \in blocks \ {a} : idom[b] = a}]
  /\ UNCHANGED <<cfg, root, blocks, calls, visited, visit_order, idom, pass, changed>>

Next == Number \/ Prune \/ Improve \/ Repeat \/ Generate \/ \E b \in Block : Call(b)
Spec == Init /\ [][Next]_vars

Finished == dom_frontier # <<>>

\* is_dominator(succ, prev)
is_dominator(b, a) == b # root /\ a \in Upward(idom[b], NoBlock)

-----------------------------------------------------------------------------
Dom(a, b) == F!Dominates(cfg, root, a, b)

\* From pass to pass an immediate dominator only moves up the post-order, and it stays
\* above its block: two blocks that climb towards each other meet instead of running
\* past the root, and "while (changed)" ends although passes change what earlier ones set.
OnlyClimbs ==
  [][\A b \in Block \ {root} :
       idom'[b] # idom[b] =>
         /\ Index(b) < Index(idom'[b])
         /\ idom[b] # NoBlock => Index(idom[b]) < Index(idom'[b])]_vars

\* In the end is_dominator answers "must every path to b go through a before?",
\* for graphs of any shape, irreducible ones included.
DominatesIsDominance ==
  Finished => \A a, b \in blocks : is_dominator(b, a) <=> Dom(a, b) /\ a # b

\* And the frontier of a block is where its dominance ends, which is where Mem2Reg
\* puts phis and DeadCode finds control dependences.
FrontierIsFrontier ==
  Finished => \A a \in blocks :
    dom_frontier[a] = {b \in blocks : /\ \E p \in F!Preds(cfg, b) : Dom(a, p)
                                      /\ ~ (Dom(a, b) /\ a # b)}
=============================================================================
