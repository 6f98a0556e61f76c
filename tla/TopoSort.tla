------------------------------ MODULE TopoSort ------------------------------
(***************************************************************************)
(* topo_sort (src/codegen_new/codegen.cc): orders the register-to-register *)
(* moves of one parallel_mov and breaks their cycles with scratch          *)
(* registers.                                                              *)
(*                                                                         *)
(* The recursive lambda `dfs` is the variable stack, one frame per active  *)
(* call with the edges its loop has still to follow.  `edges` is a         *)
(* multimap that keeps the order the moves were found in; any order is     *)
(* allowed here.  parallel_mov emits one `mov` per element of nret in      *)
(* order, so holds is what the registers hold after those movs.            *)
(***************************************************************************)
EXTENDS Integers, Sequences, FiniteSets

CONSTANTS Reg,        \* ids of the registers the moves may mention
          Pool,       \* the ids temp_pool starts with
          PoolFloor   \* finished ids from this one on join temp_pool

ASSUME IdAssumption ==
  /\ Reg \subseteq Nat /\ IsFiniteSet(Reg)
  /\ Pool \subseteq Nat /\ IsFiniteSet(Pool)
  /\ PoolFloor \in Nat
  /\ Reg \cap Pool = {}
  /\ \A t \in Pool : t >= PoolFloor

VARIABLES moves,    \* the argument: the edges <<from, to>> as they came in
          nodes,    \* std::set of register ids, visited from the largest down
          edges,
          visited,  \* 0 new, 1 on the stack, 2 finished
          stack,    \* the active calls of dfs
          pool,     \* temp_pool
          nret,     \* set_ret: the moves emitted so far ...
          size,     \* ... and nret.size()
          holds     \* register -> the register whose first value it holds

vars == <<moves, nodes, edges, visited, stack, pool, nret, size, holds>>

Id == Reg \cup Pool

Copy == INSTANCE ParallelCopy
          WITH Temp <- Pool, pending <- {e \in edges : visited[e[1]] # 2}

\* edges.equal_range(n)
Out(n) == Copy!Leaving(edges, n)

Init ==
  /\ \E ts \in SUBSET Reg : \E source \in [ts -> Reg] :
       /\ \A t \in ts : source[t] # t
       /\ moves = {<<source[t], t>> : t \in ts}
  /\ edges = moves
  /\ nodes = Copy!Sources(moves) \cup Copy!Targets(moves)
  /\ visited = [n \in Id |-> 0]
  /\ stack = <<>>
  /\ pool = Pool
  /\ nret = {} /\ size = 0
  /\ holds = [n \in Id |-> n]

Top == stack[Len(stack)]
Call(n) == [node |-> n, todo |-> Out(n)]

\* dfs(n) on a new node: colour it and start its loop.
Enter(n, callers) ==
  /\ visited[n] = 0
  /\ visited' = [visited EXCEPT ![n] = 1]
  /\ stack' = Append(callers, Call(n))
  /\ UNCHANGED <<moves, nodes, edges, pool, nret, size, holds>>

\* The while loop takes the largest node left.  A coloured one would make it
\* `continue` for ever: no step is enabled then.
Start ==
  /\ stack = <<>>
  /\ \E n \in nodes : (\A m \in nodes : m <= n) /\ Enter(n, <<>>)

\* The loop of the active call reaches edge e.
Follow(e) ==
  /\ stack # <<>>
  /\ e \in Top.todo

AdvanceNot(e) == stack              \* faulty: the iterator stays
Advance(e) ==
  [stack EXCEPT ![Len(stack)] = [node |-> Top.node, todo |-> Top.todo \ {e}]]

\* Faulty variant of Skip: an active call is taken for a finished one.
SkipColoured(e) ==
  /\ Follow(e)
  /\ visited[e[2]] # 0
  /\ stack' = Advance(e)
  /\ UNCHANGED <<moves, nodes, edges, visited, pool, nret, size, holds>>

Skip(e) ==
  /\ Follow(e)
  /\ visited[e[2]] = 2
  /\ stack' = Advance(e)
  /\ UNCHANGED <<moves, nodes, edges, visited, pool, nret, size, holds>>

Descend(e) ==
  /\ Follow(e)
  /\ Enter(e[2], Advance(e))

FreedNone(n) == {}                  \* faulty: none is
\* A finished scratch register, or any other high one, may be used again.
Freed(n) == {m \in {n} : m >= PoolFloor}

\* The loop is over: the node is finished and the moves that leave it are
\* emitted.
Finish ==
  /\ stack # <<>>
  /\ Top.todo = {}
  /\ LET n == Top.node IN
       /\ visited' = [visited EXCEPT ![n] = 2]
       /\ nodes' = nodes \ {n}
       /\ pool' = pool \cup Freed(n)
       /\ nret' = nret \cup Out(n)
       /\ size' = size + Cardinality(Out(n))
       /\ holds' = [r \in Id |->
                      IF r \in Copy!Targets(Out(n)) THEN holds[n] ELSE holds[r]]
  /\ stack' = SubSeq(stack, 1, Len(stack) - 1)
  /\ UNCHANGED <<moves, edges>>

OnStackAll == Id                    \* faulty: every colour is reset
\* The registers whose colour the unwinding resets: those of the active calls.
OnStack == {stack[i].node : i \in DOMAIN stack}

\* temp_pool.begin()
IsLeast(t) == t \in pool /\ \A u \in pool : t <= u

\* Faulty variants of Reroute: the moves are lost; they are turned round.
RerouteLost(n, t) == {e \in edges : e[1] \notin {n, t}}
RerouteTurned(n, t) == {e \in edges : e[1] \notin {n, t}} \cup {<<e[2], t>> : e \in Out(n)}

\* The moves that left n leave t instead, and nothing else leaves t.
Reroute(n, t) ==
  {e \in edges : e[1] \notin {n, t}} \cup {<<t, e[2]>> : e \in Out(n)}

\* The edge leads back to an active call: every call returns the node, which is
\* saved in a scratch register that takes over its moves.
BreakCycle(e) ==
  /\ Follow(e)
  /\ visited[e[2]] = 1
  /\ \E t \in pool :
       /\ IsLeast(t)
       /\ visited' = [n \in Id |-> IF n \in OnStack \cup {t} THEN 0 ELSE visited[n]]
       /\ nodes' = nodes \cup {t}
       /\ edges' = Reroute(e[2], t)
       /\ pool' = pool \ {t}
       /\ nret' = nret \cup {<<e[2], t>>}
       /\ holds' = [holds EXCEPT ![t] = holds[e[2]]]
  /\ size' = size + 1
  /\ stack' = <<>>
  /\ UNCHANGED moves

\* The while loop has ended; topo_sort returns.
Return == nodes = {} /\ stack = <<>> /\ UNCHANGED vars

Next ==
  \/ Start
  \/ \E e \in edges : Skip(e) \/ Descend(e) \/ BreakCycle(e)
  \/ Finish
  \/ Return

Spec == Init /\ [][Next]_vars
FairSpec == Spec /\ WF_vars(Next)

-----------------------------------------------------------------------------
Frame == [node : Id, todo : SUBSET (Id \X Reg)]

TypeOK ==
  /\ Copy!WellFormed(moves)
  /\ nodes \subseteq Id
  /\ edges \subseteq Id \X Reg
  /\ visited \in [Id -> 0 .. 2]
  /\ stack \in Seq(Frame)
  /\ pool \subseteq Id
  /\ nret \subseteq Id \X Id /\ size \in Nat
  /\ holds \in [Id -> Id]

\* Once every node is finished, running the emitted movs in order has moved
\* every value as if all moves happened at once: gen_function_call relies on it
\* for its arguments, "like when resolving phis, we might have cyclic references".
MovesDelivered == nodes = {} => \A m \in moves : holds[m[2]] = m[1]

\* And a register that is no target, where a live variable may be, keeps its value.
BystandersIntact ==
  nodes = {} => \A r \in Reg \ Copy!Targets(moves) : holds[r] = r

\* The assertion at the end of topo_sort: no move is emitted twice, although a
\* node may be visited again after a cycle was broken.  And one scratch register is
\* out of the pool at a time, however many cycles there are: that of the float
\* registers has two.
NeverTwice == size = Cardinality(nret) /\ Cardinality(Pool \ pool) <= 1

\* The algorithm implements the specification of a parallel copy.
CopySpec == Copy!Spec

\* The search ends: resetting colours while it unwinds never leaves a node that
\* the while loop cannot take.
Terminates == <>(nodes = {})
=============================================================================
