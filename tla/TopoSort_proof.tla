--------------------------- MODULE TopoSort_proof ---------------------------
(***************************************************************************)
(* topo_sort implements a parallel copy, for every set of registers below  *)
(* PoolFloor, every legal set of moves and every order of the edges.       *)
(***************************************************************************)
EXTENDS TopoSort, FiniteSetTheorems, TLAPS

\* No register the moves mention may join temp_pool.
LowRegs == \A r \in Reg : r < PoolFloor

\* The active calls are the nodes of colour 1, each once.
Coloured ==
  /\ \A i, j \in DOMAIN stack : stack[i].node = stack[j].node => i = j
  /\ \A i \in DOMAIN stack : visited[stack[i].node] = 1
  /\ \A n \in Id : visited[n] = 1 => n \in OnStack

\* What a call has followed of its node's edges is finished, the edge it is in
\* excepted.
Followed ==
  \A i \in DOMAIN stack : \A e \in edges :
    e[1] = stack[i].node =>
      \/ e \in stack[i].todo
      \/ visited[e[2]] = 2
      \/ i + 1 \in DOMAIN stack /\ e[2] = stack[i + 1].node

TodoIsOut ==
  \A i \in DOMAIN stack : \A e \in stack[i].todo :
    e \in edges /\ e[1] = stack[i].node

\* A node is finished after the nodes its moves write.
FinishedClosed ==
  \A e \in edges : visited[e[1]] = 2 => visited[e[2]] = 2

\* No pending move reads a scratch register of the pool.
PoolFree ==
  /\ pool \subseteq Pool
  /\ \A t \in pool : \A e \in edges : e[1] = t => visited[t] = 2

\* A node with pending moves is still to be visited.
Waiting == \A e \in edges : visited[e[1]] # 2 => e[1] \in nodes

\* A call follows an edge that leaves its caller's node.
Chained ==
  \A i \in DOMAIN stack :
    i + 1 \in DOMAIN stack => <<stack[i].node, stack[i + 1].node>> \in edges

StackInv == Coloured /\ TodoIsOut /\ Followed /\ Chained

IInv == TypeOK /\ StackInv /\ FinishedClosed /\ PoolFree /\ Waiting
-----------------------------------------------------------------------------
LEMMA InitIInv == Init => IInv
<1> SUFFICES ASSUME Init PROVE IInv
  OBVIOUS
<1>1. PICK ts \in SUBSET Reg : \E source \in [ts -> Reg] :
        /\ \A t \in ts : source[t] # t
        /\ moves = {<<source[t], t>> : t \in ts}
  BY DEF Init
<1>2. PICK source \in [ts -> Reg] :
        /\ \A t \in ts : source[t] # t
        /\ moves = {<<source[t], t>> : t \in ts}
  BY <1>1
<1>3. Copy!WellFormed(moves)
  BY <1>2 DEF Copy!WellFormed
<1>4. TypeOK
  <2>1. nodes \subseteq Id
    BY <1>3 DEF Init, Copy!WellFormed, Copy!Sources, Copy!Targets, Id
  <2>2. edges \subseteq Id \X Reg
    BY <1>3 DEF Init, Copy!WellFormed, Id
  <2> QED
    BY <1>3, <2>1, <2>2 DEF Init, TypeOK, Id
<1>5. StackInv
  BY DEF Init, StackInv, Coloured, TodoIsOut, Followed, Chained, OnStack
<1>6. FinishedClosed /\ Waiting /\ PoolFree
  <2>1. \A e \in edges : e[1] \in Id /\ e[1] \in nodes
    BY <1>3 DEF Init, Copy!WellFormed, Copy!Sources, Id
  <2>2. \A e \in edges : visited[e[1]] = 0
    BY <2>1 DEF Init
  <2>3. \A t \in Pool : \A e \in edges : e[1] # t
    BY <1>3, IdAssumption DEF Init, Copy!WellFormed
  <2> QED
    BY <2>1, <2>2, <2>3 DEF Init, FinishedClosed, Waiting, PoolFree
<1> QED
  BY <1>4, <1>5, <1>6 DEF IInv

\* What every step needs to know of the stack.
LEMMA TopFacts ==
  ASSUME TypeOK, stack # <<>>
  PROVE  /\ Len(stack) \in DOMAIN stack /\ Len(stack) \in Nat /\ Len(stack) >= 1
         /\ DOMAIN stack = 1 .. Len(stack)
         /\ Top \in Frame
         /\ \A i \in DOMAIN stack : stack[i] \in Frame
BY DEF TypeOK, Top

\* Colouring a new node and calling dfs on it, with the other calls unchanged
\* but for the edge e the caller takes from its list.
LEMMA StartIInv == ASSUME IInv, Start PROVE IInv'
<1>1. PICK n \in nodes : Enter(n, <<>>)
  BY DEF Start
<1>2. n \in Id /\ visited[n] = 0 /\ stack = <<>>
  BY <1>1 DEF IInv, TypeOK, Enter, Start
<1>3. /\ stack' = <<Call(n)>> /\ visited' = [visited EXCEPT ![n] = 1]
      /\ UNCHANGED <<moves, nodes, edges, pool, nret, size, holds>>
  BY <1>1 DEF Enter
<1>4. Call(n) \in Frame
  BY <1>2 DEF Call, Frame, Out, Copy!Leaving, IInv, TypeOK
<1>5. TypeOK'
  BY <1>2, <1>3, <1>4 DEF IInv, TypeOK
<1>6. Coloured'
  BY <1>2, <1>3 DEF IInv, StackInv, Coloured, OnStack, TypeOK, Call
<1>7. TodoIsOut' /\ Followed' /\ Chained'
  BY <1>3 DEF TodoIsOut, Followed, Chained, Call, Out, Copy!Leaving
<1>8. FinishedClosed' /\ PoolFree' /\ Waiting'
  BY <1>2, <1>3 DEF IInv, TypeOK, FinishedClosed, PoolFree, Waiting
<1> QED
  BY <1>5, <1>6, <1>7, <1>8 DEF IInv, StackInv

LEMMA SkipIInv == ASSUME IInv, NEW e \in edges, Skip(e) PROVE IInv'
<1>1. /\ stack # <<>> /\ e \in Top.todo /\ visited[e[2]] = 2
      /\ stack' = Advance(e)
      /\ UNCHANGED <<moves, nodes, edges, visited, pool, nret, size, holds>>
  BY DEF Skip, Follow
<1> DEFINE top == Len(stack)
<1>2. /\ top \in DOMAIN stack /\ DOMAIN stack' = DOMAIN stack
      /\ stack'[top] = [node |-> stack[top].node, todo |-> stack[top].todo \ {e}]
      /\ \A i \in DOMAIN stack : i # top => stack'[i] = stack[i]
      /\ \A i \in DOMAIN stack : stack'[i].node = stack[i].node
  BY <1>1, TopFacts DEF IInv, Advance, Top
<1>3. TypeOK'
  <2>1. Advance(e) \in Seq(Frame)
    BY <1>1, TopFacts DEF IInv, TypeOK, Advance, Frame
  <2> QED
    BY <1>1, <2>1 DEF IInv, TypeOK
<1>4. Coloured'
  <2>1. OnStack' = OnStack
    BY <1>2 DEF OnStack
  <2> QED
    BY <1>1, <1>2, <2>1 DEF IInv, StackInv, Coloured
<1>5. TodoIsOut'
  BY <1>1, <1>2 DEF IInv, StackInv, TodoIsOut
<1>6. Followed'
  BY <1>1, <1>2 DEF IInv, StackInv, Followed
<1>7. FinishedClosed' /\ PoolFree' /\ Waiting'
  BY <1>1 DEF IInv, FinishedClosed, PoolFree, Waiting
<1>8. Chained'
  BY <1>1, <1>2 DEF IInv, StackInv, Chained
<1> QED
  BY <1>3, <1>4, <1>5, <1>6, <1>7, <1>8 DEF IInv, StackInv

LEMMA DescendIInv == ASSUME IInv, NEW e \in edges, Descend(e) PROVE IInv'
<1> DEFINE n == e[2]
<1> DEFINE top == Len(stack)
<1>1. /\ stack # <<>> /\ e \in Top.todo /\ visited[n] = 0
      /\ stack' = Append(Advance(e), Call(n)) /\ visited' = [visited EXCEPT ![n] = 1]
      /\ UNCHANGED <<moves, nodes, edges, pool, nret, size, holds>>
  BY DEF Descend, Follow, Enter
<1>2. n \in Id /\ e[1] \in Id
  BY DEF IInv, TypeOK, Id
<1>3. Advance(e) \in Seq(Frame) /\ Call(n) \in Frame
  BY <1>1, <1>2, TopFacts
     DEF IInv, TypeOK, Advance, Frame, Call, Out, Copy!Leaving
<1>4. /\ top \in DOMAIN stack /\ DOMAIN stack' = DOMAIN stack \cup {top + 1}
      /\ top + 1 \notin DOMAIN stack
      /\ stack'[top] = [node |-> stack[top].node, todo |-> stack[top].todo \ {e}]
      /\ stack'[top + 1] = Call(n)
      /\ \A i \in DOMAIN stack : i # top => stack'[i] = stack[i] /\ i + 1 \in DOMAIN stack
      /\ \A i \in DOMAIN stack : stack'[i].node = stack[i].node
  <2>1. /\ DOMAIN Advance(e) = DOMAIN stack
        /\ Advance(e)[top] = [node |-> stack[top].node, todo |-> stack[top].todo \ {e}]
        /\ \A i \in DOMAIN stack : i # top => Advance(e)[i] = stack[i]
    BY <1>1, TopFacts DEF IInv, Advance, Top
  <2>2. DOMAIN stack = 1 .. top /\ top \in Nat /\ top >= 1
    BY <1>1, TopFacts DEF IInv
  <2>3. Len(Advance(e)) = top
    BY <1>3, <2>1, <2>2
  <2>4. /\ DOMAIN stack' = 1 .. (top + 1) /\ stack'[top + 1] = Call(n)
        /\ \A i \in 1 .. top : stack'[i] = Advance(e)[i]
    BY <1>1, <1>3, <2>2, <2>3
  <2>5. \A i \in DOMAIN stack : stack'[i].node = stack[i].node
    BY <2>1, <2>2, <2>4
  <2>6. \A i \in DOMAIN stack : i # top => i + 1 \in DOMAIN stack
    BY <2>2
  <2>7. DOMAIN stack' = DOMAIN stack \cup {top + 1} /\ top + 1 \notin DOMAIN stack
    BY <2>2, <2>4
  <2>8. \A i \in DOMAIN stack : stack'[i] = Advance(e)[i]
    BY <2>2, <2>4
  <2>9. top \in DOMAIN stack
    BY <2>2
  <2>10. stack'[top] = [node |-> stack[top].node, todo |-> stack[top].todo \ {e}]
    BY <2>1, <2>8, <2>9, Zenon
  <2>11. \A i \in DOMAIN stack : i # top => stack'[i] = stack[i] /\ i + 1 \in DOMAIN stack
    BY <2>1, <2>6, <2>8, Zenon
  <2>12. stack'[top + 1] = Call(n)
    BY <2>4
  <2> QED
    BY <2>5, <2>7, <2>9, <2>10, <2>11, <2>12, Zenon
<1>5. TypeOK'
  <2>1. stack' \in Seq(Frame)
    BY <1>1, <1>3
  <2> QED
    BY <1>1, <1>2, <2>1 DEF IInv, TypeOK
<1>6. Coloured'
  <2>1. \A i \in DOMAIN stack : stack[i].node # n
    BY <1>1 DEF IInv, StackInv, Coloured
  <2>2. \A i \in DOMAIN stack : stack[i].node \in Id
    BY <1>1, TopFacts DEF IInv, Frame
  <2>3. OnStack' = OnStack \cup {n}
    BY <1>4 DEF OnStack, Call
  <2>4. \A i, j \in DOMAIN stack' : stack'[i].node = stack'[j].node => i = j
    BY <1>4, <2>1 DEF IInv, StackInv, Coloured, Call
  <2>5. \A i \in DOMAIN stack' : visited'[stack'[i].node] = 1
    BY <1>1, <1>2, <1>4, <2>1, <2>2 DEF IInv, StackInv, Coloured, TypeOK, Call
  <2>6. \A m \in Id : visited'[m] = 1 => m \in OnStack'
    BY <1>1, <1>2, <2>3 DEF IInv, StackInv, Coloured, TypeOK
  <2> QED
    BY <2>4, <2>5, <2>6 DEF Coloured
<1>7. TodoIsOut'
  BY <1>1, <1>4 DEF IInv, StackInv, TodoIsOut, Out, Copy!Leaving, Call
<1>8. Followed'
  <2> SUFFICES ASSUME NEW i \in DOMAIN stack', NEW d \in edges,
                      d[1] = stack'[i].node
               PROVE  \/ d \in stack'[i].todo
                      \/ visited'[d[2]] = 2
                      \/ i + 1 \in DOMAIN stack' /\ d[2] = stack'[i + 1].node
    BY <1>1 DEF Followed
  <2>2. visited[d[2]] = 2 => visited'[d[2]] = 2
    BY <1>1, <1>2 DEF IInv, TypeOK, Id
  <2>3. CASE i = top + 1
    BY <2>3, <1>4 DEF Call, Out, Copy!Leaving
  <2>4. CASE i = top
    BY <2>4, <2>2, <1>4 DEF IInv, StackInv, Followed, Call
  <2>5. CASE i \in DOMAIN stack /\ i # top
    BY <2>5, <2>2, <1>4 DEF IInv, StackInv, Followed
  <2> QED
    BY <2>3, <2>4, <2>5, <1>4
<1>9. FinishedClosed' /\ PoolFree' /\ Waiting'
  <2>1. \A m \in Id : visited'[m] = 2 <=> visited[m] = 2
    BY <1>1, <1>2 DEF IInv, TypeOK
  <2>2. \A d \in edges : d[1] \in Id /\ d[2] \in Id
    BY DEF IInv, TypeOK, Id
  <2> QED
    BY <1>1, <2>1, <2>2 DEF IInv, FinishedClosed, PoolFree, Waiting, Id
<1>10. Chained'
  <2> SUFFICES ASSUME NEW i \in DOMAIN stack', i + 1 \in DOMAIN stack'
               PROVE  <<stack'[i].node, stack'[i + 1].node>> \in edges
    BY <1>1 DEF Chained
  <2>1. stack'[top + 1].node = n /\ stack'[top].node = e[1]
    BY <1>1, <1>4 DEF Call, Top, IInv, StackInv, TodoIsOut
  <2>2. e = <<e[1], n>>
    BY DEF IInv, TypeOK
  <2>3. DOMAIN stack = 1 .. top /\ top \in Nat
    BY <1>1, TopFacts DEF IInv
  <2>4. CASE i = top
    BY <2>1, <2>2, <2>4
  <2>5. CASE i # top
    <3>1. i \in DOMAIN stack /\ i + 1 \in DOMAIN stack
      BY <1>4, <2>3, <2>5
    <3>2. <<stack[i].node, stack[i + 1].node>> \in edges
      BY <3>1 DEF IInv, StackInv, Chained
    <3> QED
      BY <3>1, <3>2, <1>4
  <2> QED
    BY <2>4, <2>5
<1> QED
  BY <1>5, <1>6, <1>7, <1>8, <1>9, <1>10 DEF IInv, StackInv

LEMMA FinishIInv == ASSUME LowRegs, IInv, Finish PROVE IInv'
<1> DEFINE top == Len(stack)
<1> DEFINE n == stack[top].node
<1>1. /\ stack # <<>> /\ stack[top].todo = {}
      /\ visited' = [visited EXCEPT ![n] = 2]
      /\ nodes' = nodes \ {n}
      /\ pool' = pool \cup {m \in {n} : m >= PoolFloor}
      /\ stack' = SubSeq(stack, 1, top - 1)
      /\ UNCHANGED <<moves, edges>>
  BY DEF Finish, Freed, Top
<1>2. /\ top \in Nat /\ top >= 1 /\ DOMAIN stack = 1 .. top
      /\ top \in DOMAIN stack /\ n \in Id
      /\ \A i \in DOMAIN stack : stack[i] \in Frame
  BY <1>1, TopFacts DEF IInv, Frame, Top
<1>3. /\ stack' \in Seq(Frame) /\ DOMAIN stack' = 1 .. (top - 1)
      /\ \A i \in 1 .. (top - 1) : stack'[i] = stack[i]
  BY <1>1, <1>2 DEF IInv, TypeOK
<1>4. TypeOK'
  <2>1. nret' \subseteq Id \X Id /\ size' \in Nat
    <3>1. Out(n) \subseteq Id \X Id
      BY DEF Out, Copy!Leaving, IInv, TypeOK, Id
    <3>2. nret' = nret \cup Out(n) /\ size' = size + Cardinality(Out(n))
      BY DEF Finish, Freed, Top
    <3>3. IsFiniteSet(Out(n))
      <4>1. IsFiniteSet(Id \X Reg)
        BY IdAssumption, FS_Union, FS_Product DEF Id
      <4>2. Out(n) \subseteq Id \X Reg
        BY DEF Out, Copy!Leaving, IInv, TypeOK
      <4> QED
        BY <4>1, <4>2, FS_Subset
    <3> QED
      BY <3>1, <3>2, <3>3, FS_CardinalityType DEF IInv, TypeOK
  <2>2. holds' \in [Id -> Id]
    BY <1>2 DEF Finish, Freed, Top, IInv, TypeOK
  <2>3. visited' \in [Id -> 0 .. 2] /\ nodes' \subseteq Id /\ pool' \subseteq Id
    BY <1>1, <1>2 DEF IInv, TypeOK
  <2>4. stack' \in Seq(Frame) /\ moves' = moves /\ edges' = edges
    BY <1>1, <1>3
  <2> QED
    BY <2>1, <2>2, <2>3, <2>4 DEF IInv, TypeOK
<1>5. Coloured'
  <2>1. \A i \in 1 .. (top - 1) : stack[i].node # n
    BY <1>2 DEF IInv, StackInv, Coloured
  <2>2. \A i, j \in DOMAIN stack' : stack'[i].node = stack'[j].node => i = j
    BY <1>2, <1>3 DEF IInv, StackInv, Coloured
  <2>3. \A i \in DOMAIN stack' : visited'[stack'[i].node] = 1
    <3>1. \A i \in 1 .. (top - 1) : i \in DOMAIN stack /\ stack[i].node \in Id
      BY <1>2 DEF Frame
    <3> QED
      BY <1>1, <1>2, <1>3, <2>1, <3>1 DEF IInv, StackInv, Coloured, TypeOK
  <2>4. \A m \in Id : visited'[m] = 1 => m \in OnStack'
    <3> SUFFICES ASSUME NEW m \in Id, visited'[m] = 1 PROVE m \in OnStack'
      OBVIOUS
    <3>1. m # n /\ visited[m] = 1
      BY <1>1, <1>2 DEF IInv, TypeOK
    <3>2. PICK i \in DOMAIN stack : m = stack[i].node
      BY <3>1 DEF IInv, StackInv, Coloured, OnStack
    <3>3. i \in 1 .. (top - 1)
      BY <1>2, <3>1, <3>2
    <3> QED
      BY <1>3, <3>2, <3>3 DEF OnStack
  <2> QED
    BY <2>2, <2>3, <2>4 DEF Coloured
<1>6. TodoIsOut'
  BY <1>1, <1>2, <1>3 DEF IInv, StackInv, TodoIsOut
<1>7. \A e \in edges : e[1] = n => visited[e[2]] = 2
  BY <1>1, <1>2 DEF IInv, StackInv, Followed
<1>8. \A m \in Id : visited[m] = 2 => visited'[m] = 2
  BY <1>1 DEF IInv, TypeOK
<1>9. \A e \in edges : e[1] \in Id /\ e[2] \in Id
  BY DEF IInv, TypeOK, Id
<1>10. Followed'
  <2>1. ASSUME NEW i \in 1 .. (top - 1), NEW e \in edges, e[1] = stack[i].node
        PROVE  \/ e \in stack[i].todo
               \/ visited'[e[2]] = 2
               \/ i + 1 \in 1 .. (top - 1) /\ e[2] = stack[i + 1].node
    <3>1. \/ e \in stack[i].todo
          \/ visited[e[2]] = 2
          \/ i + 1 \in DOMAIN stack /\ e[2] = stack[i + 1].node
      BY <1>2, <2>1 DEF IInv, StackInv, Followed
    <3>2. i + 1 = top /\ e[2] = n => visited'[e[2]] = 2
      BY <1>1, <1>2 DEF IInv, TypeOK
    <3>3. i + 1 \in DOMAIN stack => i + 1 = top \/ i + 1 \in 1 .. (top - 1)
      <4>1. top \in Nat /\ DOMAIN stack = 1 .. top
        BY <1>2
      <4>2. \A k \in Nat : \A j \in 1 .. (k - 1) :
              j + 1 = k \/ j + 1 \in 1 .. (k - 1)
        OBVIOUS
      <4> QED
        BY <4>1, <4>2
    <3> QED
      BY <3>1, <3>2, <3>3, <1>8, <1>9
  <2>2. edges' = edges
    BY <1>1
  <2>3. \A i \in 1 .. (top - 1) : i + 1 \in 1 .. (top - 1) => stack'[i + 1] = stack[i + 1]
    BY <1>3
  <2> QED
    BY <2>1, <2>2, <2>3, <1>3 DEF Followed
<1>11. FinishedClosed'
  <2> SUFFICES ASSUME NEW e \in edges, visited'[e[1]] = 2 PROVE visited'[e[2]] = 2
    BY <1>1 DEF FinishedClosed
  <2>1. e[1] = n \/ visited[e[1]] = 2
    BY <1>1, <1>9 DEF IInv, TypeOK
  <2> QED
    BY <2>1, <1>7, <1>8, <1>9 DEF IInv, FinishedClosed
<1>12. PoolFree'
  <2>1. n >= PoolFloor => n \in Pool
    <3>1. n \in Reg \/ n \in Pool
      BY <1>2 DEF Id
    <3>2. \A m \in Reg : ~(m >= PoolFloor)
      BY IdAssumption DEF LowRegs
    <3> QED
      BY <3>1, <3>2
  <2>2. visited'[n] = 2
    BY <1>1, <1>2 DEF IInv, TypeOK
  <2> QED
    BY <1>1, <1>8, <1>9, <2>1, <2>2 DEF IInv, PoolFree
<1>13. Waiting'
  BY <1>1, <1>2, <1>9 DEF IInv, Waiting, TypeOK
<1>14. Chained'
  <2>1. \A i \in 1 .. (top - 1) : i + 1 \in 1 .. (top - 1) =>
          <<stack[i].node, stack[i + 1].node>> \in edges
    <3>1. DOMAIN stack = 1 .. top /\ top \in Nat
      BY <1>2
    <3>2. \A i \in 1 .. (top - 1) : i \in DOMAIN stack /\ i + 1 \in DOMAIN stack
      BY <3>1
    <3> QED
      BY <3>2 DEF IInv, StackInv, Chained
  <2>2. edges' = edges
    BY <1>1
  <2> QED
    BY <2>1, <2>2, <1>3 DEF Chained
<1> QED
  BY <1>4, <1>5, <1>6, <1>10, <1>11, <1>12, <1>13, <1>14 DEF IInv, StackInv

LEMMA BreakIInv == ASSUME IInv, NEW e \in edges, BreakCycle(e) PROVE IInv'
<1> DEFINE n == e[2]
<1>1. PICK t \in pool :
        /\ visited' = [m \in Id |-> IF m \in OnStack \cup {t} THEN 0 ELSE visited[m]]
        /\ nodes' = nodes \cup {t}
        /\ edges' = Reroute(n, t)
        /\ pool' = pool \ {t}
        /\ nret' = nret \cup {<<n, t>>}
        /\ holds' = [holds EXCEPT ![t] = holds[n]]
  BY DEF BreakCycle
<1>2. stack' = <<>> /\ size' = size + 1 /\ moves' = moves /\ visited[n] = 1
  BY DEF BreakCycle
<1>3. t \in Pool /\ t \in Id /\ n \in Reg /\ n \in Id
  BY DEF IInv, PoolFree, TypeOK, Id
<1>4. \A d \in edges' :
        \/ d \in edges /\ d[1] # n /\ d[1] # t
        \/ d[1] = t /\ d[2] \in Reg /\ <<n, d[2]>> \in edges
  <2>1. edges' = {d \in edges : d[1] \notin {n, t}} \cup {<<t, d[2]>> : d \in Out(n)}
    BY <1>1 DEF Reroute
  <2>2. \A d \in Out(n) : d = <<n, d[2]>> /\ d[2] \in Reg /\ d \in edges
    BY DEF Out, Copy!Leaving, IInv, TypeOK
  <2> QED
    BY <2>1, <2>2
<1>5. TypeOK'
  <2>1. edges' \subseteq Id \X Reg
    BY <1>1, <1>3 DEF Reroute, Out, Copy!Leaving, IInv, TypeOK
  <2>2. visited' \in [Id -> 0 .. 2]
    BY <1>1 DEF IInv, TypeOK
  <2>3. holds' \in [Id -> Id]
    BY <1>1, <1>3 DEF IInv, TypeOK
  <2> QED
    BY <1>1, <1>2, <1>3, <2>1, <2>2, <2>3 DEF IInv, TypeOK
<1>6. StackInv'
  <2>1. \A m \in Id : visited'[m] # 1
    BY <1>1 DEF IInv, StackInv, Coloured, TypeOK
  <2> QED
    BY <1>2, <2>1 DEF StackInv, Coloured, TodoIsOut, Followed, Chained
<1>7. \A m \in Id : visited'[m] = 2 => m # t /\ visited[m] = 2
  BY <1>1
<1>8. \A m \in Id : visited[m] = 2 /\ m # t => visited'[m] = 2
  <2>1. \A m \in OnStack : visited[m] = 1
    BY DEF IInv, StackInv, Coloured, OnStack
  <2> QED
    BY <1>1, <2>1
<1>9. visited'[t] = 0
  BY <1>1, <1>3
<1>10. \A d \in edges : d[1] \in Id /\ d[2] \in Id /\ d[2] \in Reg /\ d[2] # t
  BY <1>3, IdAssumption DEF IInv, TypeOK, Id
<1>11. FinishedClosed'
  <2> SUFFICES ASSUME NEW d \in edges', visited'[d[1]] = 2 PROVE visited'[d[2]] = 2
    BY DEF FinishedClosed
  <2>1. d[1] # t
    BY <1>9
  <2>2. d \in edges
    BY <1>4, <2>1
  <2>3. visited[d[1]] = 2 /\ d[2] # t
    BY <1>7, <1>10, <2>2
  <2> QED
    BY <1>8, <1>10, <2>2, <2>3 DEF IInv, FinishedClosed
<1>12. PoolFree'
  <2> SUFFICES ASSUME NEW u \in pool', NEW d \in edges', d[1] = u PROVE visited'[u] = 2
    BY <1>1 DEF IInv, PoolFree
  <2>1. u \in pool /\ u # t
    BY <1>1
  <2>2. d \in edges
    BY <1>4, <2>1
  <2> QED
    BY <1>8, <1>10, <2>1, <2>2 DEF IInv, PoolFree
<1>13. Waiting'
  BY <1>1, <1>4, <1>8, <1>10 DEF IInv, Waiting
<1> QED
  BY <1>5, <1>6, <1>11, <1>12, <1>13 DEF IInv

\* IInv is an invariant of the search.
LEMMA Inductive == LowRegs => (Spec => []IInv)
<1> SUFFICES ASSUME LowRegs PROVE Spec => []IInv
  OBVIOUS
<1>1. Init => IInv
  BY InitIInv
<1>2. IInv /\ [Next]_vars => IInv'
  <2> SUFFICES ASSUME IInv, [Next]_vars PROVE IInv'
    OBVIOUS
  <2>1. CASE Start
    BY <2>1, StartIInv
  <2>2. ASSUME NEW e \in edges, Skip(e) PROVE IInv'
    BY <2>2, SkipIInv
  <2>3. ASSUME NEW e \in edges, Descend(e) PROVE IInv'
    BY <2>3, DescendIInv
  <2>4. ASSUME NEW e \in edges, BreakCycle(e) PROVE IInv'
    BY <2>4, BreakIInv
  <2>5. CASE Finish
    BY <2>5, FinishIInv
  <2>6. CASE UNCHANGED vars
    BY <2>6 DEF vars, IInv, TypeOK, StackInv, Coloured, OnStack, TodoIsOut,
                Followed, Chained, FinishedClosed, PoolFree, Waiting
  <2> QED
    BY <2>1, <2>2, <2>3, <2>4, <2>5, <2>6 DEF Next, Return
<1> QED
  BY <1>1, <1>2, PTL DEF Spec

-----------------------------------------------------------------------------
pendingMoves == {e \in edges : visited[e[1]] # 2}

\* Finishing a node is performing the moves that leave it, or nothing if none
\* does.
LEMMA FinishEmits ==
  ASSUME IInv, Finish PROVE Copy!Next \/ UNCHANGED Copy!copyVars
<1>0. PICK n \in Id : n = Top.node
  BY TopFacts DEF Finish, Freed, IInv, Frame
<1>1. n \in Id /\ visited[n] = 1
  BY <1>0, TopFacts DEF Finish, Freed, IInv, StackInv, Coloured, Top
<1>2. Copy!Leaving(pendingMoves, n) = Out(n)
  BY <1>1 DEF pendingMoves, Out, Copy!Leaving
<1>3. pendingMoves' = pendingMoves \ Out(n)
  <2>1. visited' = [visited EXCEPT ![n] = 2] /\ edges' = edges
    BY <1>0 DEF Finish, Freed
  <2>2. \A e \in edges : e[1] \in Id
    BY DEF IInv, TypeOK
  <2> QED
    BY <1>1, <2>1, <2>2 DEF pendingMoves, Out, Copy!Leaving, IInv, TypeOK
<1>4. holds' = [r \in Id |-> IF r \in Copy!Targets(Out(n)) THEN holds[n] ELSE holds[r]]
  BY <1>0 DEF Finish, Freed
<1>5. Copy!Targets(Out(n)) \cap Copy!Sources(pendingMoves) = {}
  <2>1. \A e \in edges : e[1] = n => visited[e[2]] = 2
    <3>1. Len(stack) \in DOMAIN stack /\ Len(stack) + 1 \notin DOMAIN stack
      BY TopFacts DEF Finish, Freed, IInv
    <3> QED
      BY <1>0, <3>1 DEF Finish, Freed, IInv, StackInv, Followed, Top
  <2> QED
    BY <2>1 DEF Copy!Targets, Copy!Sources, Out, Copy!Leaving, pendingMoves
<1>6. CASE Out(n) = {}
  <2>1. pendingMoves' = pendingMoves
    BY <1>3, <1>6
  <2>2. holds' = holds
    BY <1>4, <1>6 DEF Copy!Targets, IInv, TypeOK
  <2>3. moves' = moves
    BY DEF Finish, Freed
  <2>4. UNCHANGED Copy!copyVars
    BY <2>1, <2>2, <2>3 DEF Copy!copyVars, pendingMoves
  <2> QED
    BY <2>4
<1>7. CASE Out(n) # {}
  <2>1. Copy!Emit(n)
    BY <1>2, <1>3, <1>4, <1>5, <1>7
       DEF Copy!Emit, Copy!Location, Id, pendingMoves, Finish, Freed
  <2>2. n \in Copy!Location
    BY <1>1 DEF Copy!Location, Id
  <2>3. \A k \in Copy!Location : Copy!Emit(k) => Copy!Next
    BY DEF Copy!Next
  <2>4. Copy!Next
    BY <2>1, <2>2, <2>3, Zenon
  <2> QED
    BY <2>4, Zenon
<1> QED
  BY <1>6, <1>7

\* Breaking a cycle is a detour through a scratch register.
LEMMA BreakDetours ==
  ASSUME IInv, NEW e \in edges, BreakCycle(e) PROVE Copy!Next
<1> DEFINE n == e[2]
<1>1. PICK t \in pool :
        /\ visited' = [m \in Id |-> IF m \in OnStack \cup {t} THEN 0 ELSE visited[m]]
        /\ edges' = Reroute(n, t)
        /\ holds' = [holds EXCEPT ![t] = holds[n]]
  BY DEF BreakCycle
<1>2. moves' = moves /\ visited[n] = 1
  BY DEF BreakCycle
<1>3. t \in Pool /\ n \in Reg /\ n \in OnStack /\ n # t
  BY <1>2, IdAssumption DEF IInv, PoolFree, TypeOK, Id, StackInv, Coloured
<1>4. t \notin Copy!Sources(pendingMoves)
  BY DEF Copy!Sources, pendingMoves, IInv, PoolFree
<1>5. n \in Copy!Sources(pendingMoves)
  <2>1. PICK i \in DOMAIN stack : n = stack[i].node
    BY <1>3 DEF OnStack
  <2>2. PICK d \in edges : d[1] = n
    <3>1. CASE i + 1 \in DOMAIN stack
      BY <2>1, <3>1 DEF IInv, StackInv, Chained
    <3>2. CASE i + 1 \notin DOMAIN stack
      <4>1. DOMAIN stack = 1 .. Len(stack) /\ Len(stack) \in Nat
        BY TopFacts DEF BreakCycle, Follow, IInv
      <4>2. i = Len(stack)
        BY <2>1, <3>2, <4>1
      <4>3. e[1] = n
        BY <2>1, <4>2 DEF BreakCycle, Follow, Top, IInv, StackInv, TodoIsOut
      <4> QED
        BY <4>3
    <3> QED
      BY <3>1, <3>2
  <2> QED
    BY <1>2, <2>2 DEF Copy!Sources, pendingMoves
<1>6. pendingMoves' = {IF m[1] = n THEN <<t, m[2]>> ELSE m : m \in pendingMoves}
  <2>1. \A m \in edges : m[1] \in Id /\ m = <<m[1], m[2]>>
    BY DEF IInv, TypeOK
  <2>2. \A m \in Id : m # t => (visited'[m] # 2 <=> visited[m] # 2)
    BY <1>1 DEF IInv, StackInv, Coloured, OnStack
  <2>3. visited'[t] # 2
    BY <1>1, <1>3 DEF Id
  <2>4. \A m \in edges : m[1] = t => m \notin pendingMoves
    BY <1>4 DEF Copy!Sources
  <2>5. edges' = {d \in edges : d[1] \notin {n, t}}
                   \cup {<<t, d[2]>> : d \in {c \in edges : c[1] = n}}
    BY <1>1 DEF Reroute, Out, Copy!Leaving
  <2>6. pendingMoves' = {d \in pendingMoves : d[1] # n}
                          \cup {<<t, d[2]>> : d \in {c \in pendingMoves : c[1] = n}}
    <3>1. {c \in edges : c[1] = n} = {c \in pendingMoves : c[1] = n}
      BY <1>2 DEF pendingMoves
    <3>2. \A d \in edges : d[1] \notin {n, t} =>
             (visited'[d[1]] # 2 <=> d \in pendingMoves)
      BY <2>1, <2>2 DEF pendingMoves
    <3>3. pendingMoves' = {d \in edges' : visited'[d[1]] # 2}
      BY DEF pendingMoves
    <3>4. {d \in edges : d[1] \notin {n, t} /\ visited'[d[1]] # 2}
            = {d \in pendingMoves : d[1] # n}
      BY <2>4, <3>2 DEF pendingMoves
    <3>5. pendingMoves' = {d \in edges : d[1] \notin {n, t} /\ visited'[d[1]] # 2}
            \cup {<<t, d[2]>> : d \in {c \in edges : c[1] = n}}
      BY <2>3, <2>5, <3>3
    <3> QED
      BY <3>1, <3>4, <3>5
  <2> QED
    BY <2>6
<1>7. Copy!Detour(n, t)
  BY <1>1, <1>2, <1>3, <1>4, <1>5, <1>6 DEF Copy!Detour, pendingMoves
<1> QED
  BY <1>3, <1>7 DEF Copy!Next, Copy!Location

\* Starting the search is starting the copy.
LEMMA InitCopies == Init => Copy!Init
<1> SUFFICES ASSUME Init PROVE Copy!Init
  OBVIOUS
<1>1. IInv
  BY InitIInv
<1>2. pendingMoves = moves
  BY <1>1 DEF Init, pendingMoves, IInv, TypeOK
<1>3. Copy!WellFormed(moves)
  BY <1>1 DEF IInv, TypeOK
<1>4. moves \in {ms \in SUBSET (Reg \X Reg) : Copy!WellFormed(ms)}
  BY <1>3 DEF Copy!WellFormed
<1> QED
  BY <1>2, <1>4 DEF Init, Copy!Init, Copy!Location, Id, pendingMoves

\* topo_sort implements the specification of a parallel copy: emitting the moves
\* of a finished node is one of its steps, breaking a cycle is a detour, and
\* everything else changes nothing the moves can see.
THEOREM Implements == LowRegs => (Spec => CopySpec)
<1> SUFFICES ASSUME LowRegs PROVE Spec => CopySpec
  OBVIOUS
<1>1. Init => Copy!Init
  BY InitCopies
<1>2. IInv /\ [Next]_vars => [Copy!Next]_(Copy!copyVars)
  <2> SUFFICES ASSUME IInv, [Next]_vars
               PROVE  Copy!Next \/ UNCHANGED Copy!copyVars
    OBVIOUS
  <2>1. CASE Finish
    BY <2>1, FinishEmits
  <2>2. ASSUME NEW e \in edges, BreakCycle(e) PROVE Copy!Next
    BY <2>2, BreakDetours
  <2>3. ASSUME NEW n \in Id, NEW callers, Enter(n, callers)
        PROVE  UNCHANGED Copy!copyVars
    <3>1. visited[n] = 0 /\ visited' = [visited EXCEPT ![n] = 1]
          /\ edges' = edges /\ moves' = moves /\ holds' = holds
      BY <2>3 DEF Enter
    <3>2. \A e \in edges : visited'[e[1]] # 2 <=> visited[e[1]] # 2
      BY <3>1 DEF IInv, TypeOK
    <3> QED
      BY <3>1, <3>2 DEF Copy!copyVars
  <2>4. CASE Start
    BY <2>3, <2>4 DEF Start, IInv, TypeOK
  <2>5. ASSUME NEW e \in edges, Descend(e) PROVE UNCHANGED Copy!copyVars
    BY <2>3, <2>5 DEF Descend, IInv, TypeOK, Id
  <2>6. ASSUME NEW e \in edges, Skip(e) PROVE UNCHANGED Copy!copyVars
    BY <2>6 DEF Skip, Copy!copyVars
  <2>7. CASE UNCHANGED vars
    BY <2>7 DEF vars, Copy!copyVars
  <2> QED
    BY <2>1, <2>2, <2>4, <2>5, <2>6, <2>7 DEF Next, Return
<1> QED
  BY <1>1, <1>2, Inductive, PTL DEF Spec, CopySpec, Copy!Spec

\* Once every node is finished, running the emitted moves in order has moved
\* every value as if all moves had happened at once.
THEOREM Delivers == LowRegs => (Spec => [](MovesDelivered /\ BystandersIntact))
<1> SUFFICES ASSUME LowRegs PROVE Spec => [](MovesDelivered /\ BystandersIntact)
  OBVIOUS
<1>1. Spec => []Copy!ParallelAssignment
  <2>1. Reg \cap Pool = {}
    BY IdAssumption
  <2>2. Copy!Spec => []Copy!ParallelAssignment
    BY <2>1, Copy!Promise DEF Copy!ScratchAssumption
  <2> QED
    BY <2>2, Implements, PTL DEF CopySpec
<1>2. IInv /\ Copy!ParallelAssignment => MovesDelivered /\ BystandersIntact
  BY DEF IInv, Waiting, Copy!ParallelAssignment, MovesDelivered, BystandersIntact
<1> QED
  BY <1>1, <1>2, Inductive, PTL
-----------------------------------------------------------------------------
(* That no move is emitted twice and one scratch register is enough.       *)

\* A register is the target of one edge, also after edges were rerouted.
OneEntering == \A d, e \in edges : d[2] = e[2] => d = e

\* One scratch register is out of the pool at a time: it waits in nodes, and it is
\* the largest there, so that the search starts with it and returns to it last.
OneScratch ==
  /\ \A t, u \in Pool \ pool : t = u
  /\ nodes \cap Pool = Pool \ pool
  /\ stack # <<>> => /\ stack[1].node \in Pool => stack[1].node \notin pool
                     /\ \A t \in Pool \ pool : stack[1].node = t

\* An emitted move belongs to a finished node, or saved a node whose edges have
\* left it for good.
Emitted ==
  \A m \in nret :
    IF m[2] \in Reg THEN \A e \in edges : e[2] = m[2] => visited[e[1]] = 2
                    ELSE m[1] \in Reg /\ \A e \in edges : e[1] # m[1]

OnceInv == OneEntering /\ OneScratch /\ Emitted /\ size = Cardinality(nret)

LEMMA InitOnce == Init => OnceInv
<1> SUFFICES ASSUME Init PROVE OnceInv
  OBVIOUS
<1>1. IInv
  BY InitIInv
<1>2. OneEntering
  BY <1>1 DEF Init, IInv, TypeOK, Copy!WellFormed, OneEntering
<1>3. OneScratch
  <2>1. nodes \cap Pool = {}
    <3>1. \A m \in moves : m[1] \in Reg /\ m[2] \in Reg
      BY <1>1 DEF IInv, TypeOK, Copy!WellFormed
    <3>2. nodes \subseteq Reg
      BY <3>1 DEF Init, Copy!Sources, Copy!Targets
    <3> QED
      BY <3>2, IdAssumption
  <2> QED
    BY <2>1 DEF Init, OneScratch
<1>4. Emitted /\ size = Cardinality(nret)
  BY FS_EmptySet DEF Init, Emitted
<1> QED
  BY <1>2, <1>3, <1>4 DEF OnceInv

\* The steps that neither emit nor reroute: the first call stays the first.
LEMMA KeepOnce ==
  ASSUME IInv, OnceInv, UNCHANGED <<nodes, edges, pool, nret, size>>,
         \A n \in Id : visited[n] = 2 => visited'[n] = 2,
         stack' # <<>>,
         IF stack # <<>> THEN stack'[1].node = stack[1].node
         ELSE /\ stack'[1].node \in Pool => stack'[1].node \notin pool
              /\ \A t \in Pool \ pool : stack'[1].node = t
  PROVE  OnceInv'
<1>1. \A e \in edges : e[1] \in Id
  BY DEF IInv, TypeOK
<1>2. Emitted'
  BY <1>1 DEF OnceInv, Emitted
<1>3. OneScratch'
  BY DEF OnceInv, OneScratch
<1> QED
  BY <1>2, <1>3 DEF OnceInv, OneEntering

LEMMA StartOnce == ASSUME LowRegs, IInv, OnceInv, Start PROVE OnceInv'
<1>1. PICK n \in nodes : (\A m \in nodes : m <= n) /\ Enter(n, <<>>)
  BY DEF Start
<1>2. n \in Id /\ visited[n] = 0 /\ stack = <<>>
  BY <1>1 DEF IInv, TypeOK, Enter, Start
<1>3. /\ stack' = <<Call(n)>> /\ visited' = [visited EXCEPT ![n] = 1]
      /\ UNCHANGED <<nodes, edges, pool, nret, size>>
  BY <1>1 DEF Enter
<1>4. stack'[1].node = n /\ stack' # <<>>
  BY <1>3 DEF Call
<1>5. \A m \in Id : visited[m] = 2 => visited'[m] = 2
  BY <1>2, <1>3 DEF IInv, TypeOK
<1>6. nodes \cap Pool = Pool \ pool /\ \A t, u \in Pool \ pool : t = u
  BY DEF OnceInv, OneScratch
<1>7. ASSUME NEW t \in Pool \ pool PROVE n = t
  <2>1. t \in nodes /\ t <= n /\ t >= PoolFloor /\ t \in Nat /\ n \in Nat /\ PoolFloor \in Nat
    BY <1>1, <1>2, <1>6, <1>7, IdAssumption DEF Id
  <2>2. n \notin Reg
    BY <2>1 DEF LowRegs
  <2> QED
    BY <1>1, <1>2, <1>6, <1>7, <2>2 DEF Id
<1> QED
  BY <1>1, <1>2, <1>3, <1>4, <1>5, <1>6, <1>7, KeepOnce

LEMMA FollowOnce ==
  ASSUME IInv, OnceInv, NEW e \in edges, Skip(e) \/ Descend(e) PROVE OnceInv'
<1>1. stack # <<>> /\ UNCHANGED <<nodes, edges, pool, nret, size>>
  BY DEF Skip, Descend, Follow, Enter
<1>2. \A m \in Id : visited[m] = 2 => visited'[m] = 2
  BY DEF Skip, Descend, Enter, IInv, TypeOK, Id
<1>3. /\ Len(Advance(e)) = Len(stack) /\ Len(stack) >= 1 /\ Len(stack) \in Nat
      /\ Advance(e) \in Seq([node : Id, todo : SUBSET (Id \X Reg)])
      /\ Advance(e)[1].node = stack[1].node
  BY <1>1, TopFacts DEF IInv, TypeOK, Advance, Top, Frame
<1>4. stack' # <<>> /\ stack'[1].node = stack[1].node
  <2>1. CASE Skip(e)
    BY <1>3, <2>1 DEF Skip
  <2>2. CASE Descend(e)
    BY <1>3, <2>2 DEF Descend, Enter
  <2> QED
    BY <2>1, <2>2
<1> QED
  BY <1>1, <1>2, <1>4, KeepOnce

\* A node that is finished was never finished before.
LEMMA FinishOnce == ASSUME LowRegs, IInv, OnceInv, Finish PROVE OnceInv'
<1> DEFINE top == Len(stack)
           n == stack[top].node
<1>1. /\ stack # <<>> /\ top \in Nat /\ top >= 1 /\ DOMAIN stack = 1 .. top
      /\ n \in Id /\ visited[n] = 1 /\ Top = stack[top]
  BY TopFacts DEF Finish, IInv, StackInv, Coloured, Frame, Top
<1>2. /\ visited' = [visited EXCEPT ![n] = 2]
      /\ nodes' = nodes \ {n} /\ pool' = pool \cup Freed(n)
      /\ nret' = nret \cup Out(n) /\ size' = size + Cardinality(Out(n))
      /\ stack' = SubSeq(stack, 1, top - 1) /\ edges' = edges
  BY <1>1 DEF Finish
<1>3. Freed(n) = IF n \in Pool THEN {n} ELSE {}
  <2>1. n \in Pool => n >= PoolFloor
    BY IdAssumption
  <2>2. n \notin Pool => ~ (n >= PoolFloor)
    <3>1. \A m \in Reg : ~ (m >= PoolFloor)
      BY IdAssumption DEF LowRegs
    <3>2. n \in Reg \/ n \in Pool
      BY <1>1 DEF Id
    <3> QED
      BY <3>1, <3>2
  <2> QED
    BY <2>1, <2>2 DEF Freed
<1>4. \A m \in Out(n) : m \in edges /\ m[1] = n /\ m[2] \in Reg
  BY DEF Out, Copy!Leaving, IInv, TypeOK
<1>5. \A e \in edges : e[1] \in Id /\ (visited[e[1]] = 2 \/ e[1] = n <=> visited'[e[1]] = 2)
  BY <1>1, <1>2 DEF IInv, TypeOK
<1>6. Emitted'
  <2> SUFFICES ASSUME NEW m \in nret'
               PROVE  IF m[2] \in Reg THEN \A e \in edges : e[2] = m[2] => visited'[e[1]] = 2
                                      ELSE m[1] \in Reg /\ \A e \in edges : e[1] # m[1]
    BY <1>2 DEF Emitted
  <2>1. CASE m \in nret
    BY <1>5, <2>1 DEF OnceInv, Emitted
  <2>2. CASE m \in Out(n)
    BY <1>4, <1>5, <2>2 DEF OnceInv, OneEntering
  <2> QED
    BY <1>2, <2>1, <2>2
<1>7. size' = Cardinality(nret')
  <2>1. nret \cap Out(n) = {}
    <3> SUFFICES ASSUME NEW m \in nret, m \in Out(n) PROVE FALSE
      OBVIOUS
    <3>1. m[2] \in Reg /\ m \in edges /\ visited[m[1]] = 1
      BY <1>1, <1>4
    <3> QED
      BY <3>1 DEF OnceInv, Emitted
  <2>2. IsFiniteSet(Id \X Id)
    BY IdAssumption, FS_Union, FS_Product DEF Id
  <2>3. nret \subseteq Id \X Id /\ Out(n) \subseteq Id \X Id
    BY DEF IInv, TypeOK, Out, Copy!Leaving, Id
  <2>4. IsFiniteSet(nret) /\ IsFiniteSet(Out(n))
    BY <2>2, <2>3, FS_Subset
  <2>5. Cardinality(nret \cup Out(n)) = Cardinality(nret) + Cardinality(Out(n)) - Cardinality({})
    BY <2>1, <2>4, FS_Union
  <2>6. Cardinality(nret) \in Nat /\ Cardinality(Out(n)) \in Nat /\ Cardinality({}) = 0
    BY <2>4, FS_CardinalityType, FS_EmptySet
  <2> QED
    BY <1>2, <2>5, <2>6 DEF OnceInv
<1>8. n \in Pool => top = 1
  <2> SUFFICES ASSUME top # 1 PROVE n \in Reg
    BY IdAssumption
  <2>1. top - 1 \in DOMAIN stack /\ (top - 1) + 1 = top /\ top \in DOMAIN stack
    BY <1>1
  <2>2. <<stack[top - 1].node, stack[top].node>> \in edges
    BY <2>1 DEF IInv, StackInv, Chained
  <2> QED
    BY <2>2 DEF IInv, TypeOK
<1>9. OneScratch'
  <2>1. /\ \A t, u \in Pool \ pool : t = u
        /\ nodes \cap Pool = Pool \ pool
        /\ stack[1].node \in Pool => stack[1].node \notin pool
        /\ \A t \in Pool \ pool : stack[1].node = t
    BY <1>1 DEF OnceInv, OneScratch
  <2>2. stack' # <<>> => n \notin Pool /\ stack'[1] = stack[1]
    <3>1. top = 1 => stack' = <<>>
      BY <1>2
    <3>2. top # 1 => stack'[1] = stack[1]
      BY <1>1, <1>2, IInv DEF IInv, TypeOK
    <3> QED
      BY <1>8, <3>1, <3>2
  <2> HIDE DEF n, top
  <2>3. CASE n \in Pool
    BY <1>2, <1>3, <2>1, <2>2, <2>3 DEF OneScratch
  <2>4. CASE n \notin Pool
    BY <1>2, <1>3, <2>1, <2>2, <2>4 DEF OneScratch
  <2> QED
    BY <2>3, <2>4
<1> QED
  BY <1>2, <1>6, <1>7, <1>9 DEF OnceInv, OneEntering

\* A cycle is only met while the pool is full: the node it leads back to is not the
\* first on the stack if that is a scratch register, and one edge enters it.
LEMMA BreakOnce == ASSUME LowRegs, IInv, OnceInv, NEW e \in edges, BreakCycle(e) PROVE OnceInv'
<1> DEFINE n == e[2]
           top == Len(stack)
<1>1. PICK t \in pool :
        /\ visited' = [m \in Id |-> IF m \in OnStack \cup {t} THEN 0 ELSE visited[m]]
        /\ nodes' = nodes \cup {t}
        /\ edges' = Reroute(n, t)
        /\ pool' = pool \ {t}
        /\ nret' = nret \cup {<<n, t>>}
  BY DEF BreakCycle
<1>2. /\ stack' = <<>> /\ size' = size + 1 /\ visited[n] = 1
      /\ stack # <<>> /\ e \in stack[top].todo /\ Top = stack[top]
      /\ top \in Nat /\ top >= 1 /\ DOMAIN stack = 1 .. top
  BY TopFacts DEF BreakCycle, Follow, Top, IInv
<1>3. t \in Pool /\ t \notin Reg /\ n \in Reg /\ n \in Id /\ n # t
  BY IdAssumption DEF IInv, PoolFree, TypeOK, Id
<1>4. e[1] = stack[top].node
  BY <1>2 DEF IInv, StackInv, TodoIsOut
<1>5. PICK j \in DOMAIN stack : n = stack[j].node
  BY <1>2, <1>3 DEF IInv, StackInv, Coloured, OnStack
<1>6. Pool \ pool = {}
  <2> SUFFICES ASSUME NEW u \in Pool \ pool PROVE FALSE
    OBVIOUS
  <2>1. stack[1].node = u /\ u \notin Reg
    BY <1>2, IdAssumption DEF OnceInv, OneScratch
  <2>2. j # 1
    BY <1>3, <1>5, <2>1
  <2>3. j - 1 \in DOMAIN stack /\ (j - 1) + 1 = j /\ j - 1 # top /\ top \in DOMAIN stack
    BY <1>2, <2>2
  <2>4. <<stack[j - 1].node, n>> \in edges
    BY <1>5, <2>3 DEF IInv, StackInv, Chained
  <2>5. stack[j - 1].node = stack[top].node
    BY <1>4, <2>4 DEF OnceInv, OneEntering
  <2> QED
    BY <2>3, <2>5 DEF IInv, StackInv, Coloured
<1>7. \E d \in edges : d[1] = n
  <2>1. CASE j = top
    BY <1>4, <1>5, <2>1
  <2>2. CASE j # top
    <3>1. j + 1 \in DOMAIN stack
      BY <1>2, <2>2
    <3> QED
      BY <1>5, <3>1 DEF IInv, StackInv, Chained
  <2> QED
    BY <2>1, <2>2
<1>8. \A d \in edges' :
        \/ d \in edges /\ d[1] # n /\ d[1] # t
        \/ d[1] = t /\ d[2] \in Reg /\ d = <<t, d[2]>> /\ <<n, d[2]>> \in edges
  <2>1. edges' = {d \in edges : d[1] \notin {n, t}} \cup {<<t, d[2]>> : d \in Out(n)}
    BY <1>1 DEF Reroute
  <2>2. \A d \in Out(n) : d = <<n, d[2]>> /\ d[2] \in Reg /\ d \in edges
    BY DEF Out, Copy!Leaving, IInv, TypeOK
  <2> QED
    BY <2>1, <2>2
<1>9. OneEntering'
  <2> SUFFICES ASSUME NEW c \in edges', NEW d \in edges', c[2] = d[2] PROVE c = d
    BY DEF OneEntering
  <2>1. \A a, b \in edges : a[2] = b[2] => a = b
    BY DEF OnceInv, OneEntering
  <2>2. CASE c \in edges /\ d \in edges /\ c[1] # t /\ d[1] # t
    BY <2>1, <2>2
  <2>3. CASE c[1] = t /\ d[1] = t
    BY <1>8, <2>3
  <2>4. CASE c[1] = t /\ d[1] # t
    <3>1. <<n, d[2]>> \in edges /\ d \in edges /\ d[1] # n
      BY <1>8, <2>4
    <3>2. <<n, d[2]>> = d
      BY <2>1, <3>1
    <3> QED
      BY <3>1, <3>2
  <2>5. CASE c[1] # t /\ d[1] = t
    <3>1. <<n, c[2]>> \in edges /\ c \in edges /\ c[1] # n
      BY <1>8, <2>5
    <3>2. <<n, c[2]>> = c
      BY <2>1, <3>1
    <3> QED
      BY <3>1, <3>2
  <2> QED
    BY <1>8, <2>2, <2>3, <2>4, <2>5
<1>10. OneScratch'
  BY <1>1, <1>2, <1>3, <1>6 DEF OnceInv, OneScratch, IInv, PoolFree
<1>11. \A m \in Id : visited[m] = 2 /\ m # t => visited'[m] = 2
  <2>1. \A m \in OnStack : visited[m] = 1
    BY DEF IInv, StackInv, Coloured, OnStack
  <2> QED
    BY <1>1, <2>1
<1>12. Emitted'
  <2> SUFFICES ASSUME NEW m \in nret', NEW d \in edges'
               PROVE  IF m[2] \in Reg THEN d[2] = m[2] => visited'[d[1]] = 2
                                      ELSE m[1] \in Reg /\ d[1] # m[1]
    <3>1. ASSUME NEW m \in nret', m[2] \notin Reg PROVE m[1] \in Reg
      BY <1>1, <1>3, <3>1 DEF OnceInv, Emitted
    <3> QED
      BY <3>1 DEF Emitted
  <2>1. CASE m \in nret /\ m[2] \in Reg
    <3> SUFFICES ASSUME d[2] = m[2] PROVE visited'[d[1]] = 2
      BY <2>1
    <3>1. \A c \in edges : c[2] = m[2] => visited[c[1]] = 2
      BY <2>1 DEF OnceInv, Emitted
    <3>2. d[1] # t
      <4>1. <<n, d[2]>> \notin edges
        BY <1>2, <3>1
      <4> QED
        BY <1>3, <1>8, <4>1
    <3>3. d \in edges /\ d[1] \in Id
      BY <1>8, <3>2 DEF IInv, TypeOK
    <3> QED
      BY <1>11, <3>1, <3>2, <3>3
  <2>2. CASE m \in nret /\ m[2] \notin Reg
    BY <1>3, <1>8, <2>2 DEF OnceInv, Emitted
  <2>3. CASE m = <<n, t>>
    BY <1>3, <1>8, <2>3
  <2> QED
    BY <1>1, <2>1, <2>2, <2>3
<1>13. size' = Cardinality(nret')
  <2>1. <<n, t>> \notin nret
    BY <1>3, <1>7 DEF OnceInv, Emitted
  <2>2. IsFiniteSet(Id \X Id)
    BY IdAssumption, FS_Union, FS_Product DEF Id
  <2>3. IsFiniteSet(nret)
    BY <2>2, FS_Subset DEF IInv, TypeOK
  <2> QED
    BY <1>1, <1>2, <2>1, <2>3, FS_AddElement DEF OnceInv
<1> QED
  BY <1>9, <1>10, <1>12, <1>13 DEF OnceInv

LEMMA Once == LowRegs => (Spec => []OnceInv)
<1> SUFFICES ASSUME LowRegs PROVE Spec => []OnceInv
  OBVIOUS
<1>1. IInv /\ OnceInv /\ [Next]_vars => OnceInv'
  <2> SUFFICES ASSUME IInv, OnceInv, [Next]_vars PROVE OnceInv'
    OBVIOUS
  <2>1. CASE Start
    BY <2>1, StartOnce
  <2>2. ASSUME NEW e \in edges, Skip(e) \/ Descend(e) PROVE OnceInv'
    BY <2>2, FollowOnce
  <2>3. ASSUME NEW e \in edges, BreakCycle(e) PROVE OnceInv'
    BY <2>3, BreakOnce
  <2>4. CASE Finish
    BY <2>4, FinishOnce
  <2>5. CASE UNCHANGED vars
    BY <2>5 DEF vars, OnceInv, OneEntering, OneScratch, Emitted
  <2> QED
    BY <2>1, <2>2, <2>3, <2>4, <2>5 DEF Next, Return
<1> QED
  BY <1>1, InitOnce, Inductive, PTL DEF Spec

\* The search stays within the registers it was given.
THEOREM TypeCorrect == LowRegs => (Spec => []TypeOK)
<1>1. IInv => TypeOK
  BY DEF IInv
<1> QED
  BY <1>1, Inductive, PTL

\* The assertion at the end of topo_sort: for registers below PoolFloor no move is
\* emitted twice; and a scratch register is back in temp_pool before the next is
\* taken, so that the pool is never found empty.
THEOREM EmittedOnce == LowRegs => (Spec => []NeverTwice)
<1>1. IInv /\ OnceInv => NeverTwice
  <2> SUFFICES ASSUME OnceInv PROVE Cardinality(Pool \ pool) <= 1
    BY DEF OnceInv, NeverTwice
  <2>1. CASE Pool \ pool = {}
    BY <2>1, FS_EmptySet
  <2>2. CASE \E t : Pool \ pool = {t}
    BY <2>2, FS_Singleton
  <2> QED
    BY <2>1, <2>2 DEF OnceInv, OneScratch
<1> QED
  BY <1>1, Inductive, Once, PTL
=============================================================================
