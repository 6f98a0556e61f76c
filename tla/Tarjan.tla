------------------------------- MODULE Tarjan -------------------------------
(***************************************************************************)
(* Tarjan's search for the cycles of a control-flow graph: loop_search::   *)
(* scc and traverse of Optimize/LoopSearch.cc.  The recursion of traverse  *)
(* is the sequence `calls`: a node and the successors it has still to look *)
(* at.  Sets of pointers are walked in any order.                          *)
(***************************************************************************)
EXTENDS Integers, Sequences, SequencesExt, FiniteSets, FiniteSetsExt

CONSTANT Block
F == INSTANCE Flow

VARIABLES next,    \* the graph: cfg_node::next of the nodes left
          nodes,   \* the nodes the search starts from: both belong to LoopSearch
          dfn, low, in_stack, stack, index_count,
          calls,   \* the activations of traverse
          result   \* the components found

vars == <<next, nodes, dfn, low, in_stack, stack, index_count, calls, result>>

Fresh == [b \in Block |-> -1]
Init ==
  /\ dfn = Fresh /\ low = Fresh /\ in_stack = [b \in Block |-> FALSE]
  /\ stack = <<>> /\ index_count = 0 /\ calls = <<>> /\ result = {}

Enter(b) ==
  /\ dfn' = [dfn EXCEPT ![b] = index_count]
  /\ index_count' = index_count + 1
  /\ stack' = Append(stack, b)
  /\ in_stack' = [in_stack EXCEPT ![b] = TRUE]

\* scc: a node no search has seen.
Root(b) ==
  /\ calls = <<>> /\ dfn[b] = -1
  /\ Enter(b)
  /\ low' = [low EXCEPT ![b] = index_count]
  /\ calls' = <<[now |-> b, rest |-> F!Succs(next, b)]>>
  /\ UNCHANGED <<next, nodes, result>>

now == Last(calls).now
rest == Last(calls).rest
Looked(b) == [calls EXCEPT ![Len(calls)].rest = @ \ {b}]

Descend(b) ==
  /\ calls # <<>> /\ b \in rest /\ dfn[b] = -1
  /\ Enter(b)
  /\ low' = [low EXCEPT ![b] = index_count]
  /\ calls' = Append(Looked(b), [now |-> b, rest |-> F!Succs(next, b)])
  /\ UNCHANGED <<next, nodes, result>>

OpenSeen(b) == dfn[b] # -1           \* faulty: a closed component counts too
Open(b) == in_stack[b]

\* A node of the current path or of an open component; others are left alone.
Look(b) ==
  /\ calls # <<>> /\ b \in rest /\ dfn[b] # -1
  /\ low' = [low EXCEPT ![now] = IF Open(b) THEN Min({@, dfn[b]}) ELSE @]
  /\ calls' = Looked(b)
  /\ UNCHANGED <<next, nodes, dfn, in_stack, stack, index_count, result>>

\* The component of `now` is the stack from it on.
Depth == CHOOSE j \in DOMAIN stack : stack[j] = now
HasCycleLarge(C) == Cardinality(C) > 1   \* faulty: no self-loops
HasCycle(C) == Cardinality(C) > 1 \/ \E b \in C : b \in F!Succs(next, b)

\* The return of traverse: close the component, and let the caller see `low`.
Return ==
  LET from == IF dfn[now] = low[now] THEN Depth ELSE Len(stack) + 1
      closed == {stack[j] : j \in from .. Len(stack)}
      caller == Front(calls)
  IN  /\ calls # <<>> /\ rest = {}
      /\ stack' = SubSeq(stack, 1, from - 1)
      /\ in_stack' = [b \in Block |-> in_stack[b] /\ b \notin closed]
      /\ result' = result \cup {C \in {closed} : HasCycle(C)}
      /\ calls' = caller
      /\ low' = IF caller = <<>> THEN low
                ELSE [low EXCEPT ![Last(caller).now] = Min({@, low[now]})]
      /\ UNCHANGED <<next, nodes, dfn, index_count>>

Next == Return \/ \E b \in nodes : Root(b) \/ Descend(b) \/ Look(b)
Finished == calls = <<>> /\ \A b \in nodes : dfn[b] # -1

\* The marks are removed for the next call.  (The code keeps those of the bases that
\* run takes out: no edge leads to them any more.)
Reset ==
  /\ dfn' = Fresh /\ low' = Fresh /\ in_stack' = [b \in Block |-> FALSE]
  /\ stack' = <<>> /\ index_count' = 0 /\ calls' = <<>> /\ result' = {}
=============================================================================
