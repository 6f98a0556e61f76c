---------------------------- MODULE Layout_proof ----------------------------
(***************************************************************************)
(* The layout of a function, for every graph: Tarjan's algorithm finds     *)
(* the components that the definition by paths names, and on a reducible   *)
(* graph the rounds of searches name the natural loops; the order of the   *)
(* blocks that is made from them keeps the loops together.                 *)
(***************************************************************************)
EXTENDS Layout, Flow_proof, SequenceTheorems

\* Flow as the modules of Layout have it and as the lemmas are about it.
LEMMA SameSuccs == \A E, b : T!F!Succs(E, b) = Succs(E, b)
BY DEF T!F!Succs, Succs

LEMMA SameCardinality == \A S : T!Cardinality(S) = Cardinality(S)
BY DEF T!Cardinality, Cardinality

LEMMA SameCycles == \A E, N0 : T!F!Cycles(E, N0) = Cycles(E, N0) /\ LS!F!Cycles(E, N0) = Cycles(E, N0)
BY DEF T!F!Cycles, LS!F!Cycles, Cycles, T!F!Reach, LS!F!Reach, Reach, T!F!Succs, LS!F!Succs, Succs,
       T!F!Cardinality, LS!F!Cardinality, Cardinality

-----------------------------------------------------------------------------
(***************************************************************************)
(* Paths of the graph that is searched.                                    *)
(***************************************************************************)
From(b) == Reach(next, {b})

\* The edges are among the blocks, and none leaves the nodes.
Graph ==
  /\ IsFiniteSet(Block) /\ nodes \subseteq Block /\ next \subseteq Block \X Block
  /\ \A e \in next : e[1] \in nodes => e[2] \in nodes

\* A set that an edge does not leave holds what its members lead to.
LEMMA Paths ==
  ASSUME Graph, NEW b \in Block
  PROVE  /\ b \in From(b) /\ From(b) \subseteq Block
         /\ \A e \in next : e[1] \in From(b) => e[2] \in From(b)
         /\ \A S \in SUBSET Block : b \in S /\ (\A e \in next : e[1] \in S => e[2] \in S) => From(b) \subseteq S
<1>1. IsFiniteSet(next)
  <2>1. IsFiniteSet(Block \X Block)
    BY FS_Product DEF Graph
  <2> QED
    BY <2>1, FS_Subset DEF Graph
<1>2. Least(Block, next, {b}, From(b))
  BY <1>1, ReachIsLeast DEF Graph, From
<1> QED
  BY <1>2 DEF Least

LEMMA PathOn ==
  ASSUME Graph, NEW b \in Block, NEW c \in From(b)
  PROVE  c \in Block /\ From(c) \subseteq From(b)
<1>1. c \in Block /\ From(b) \in SUBSET Block /\ \A e \in next : e[1] \in From(b) => e[2] \in From(b)
  BY Paths
<1> DEFINE S == From(b)
<1> HIDE DEF S
<1>2. From(c) \subseteq S
  BY <1>1, Paths DEF S
<1> QED
  BY <1>1, <1>2 DEF S

-----------------------------------------------------------------------------
(***************************************************************************)
(* The search.  The nodes that have a number are in progress (Active), or  *)
(* on the stack and returned from, or closed.                              *)
(***************************************************************************)
CallRec == [now : Block, rest : SUBSET Block]
Active == {calls[i].now : i \in DOMAIN calls}
Left == {e \in Block \X Block : \E i \in DOMAIN calls : e[1] = calls[i].now /\ e[2] \in calls[i].rest}

Numbered(b) == dfn[b] # -1
Shut(b) == Numbered(b) /\ ~ in_stack[b]
Looked(b, c) == <<b, c>> \in next /\ Numbered(b) /\ <<b, c>> \notin Left

\* The call in progress that a node of the stack belongs to: the last one below it.
Owns(g, b) == /\ g \in Active /\ dfn[g] <= dfn[b]
              /\ \A h \in Active : dfn[h] <= dfn[g] \/ dfn[h] > dfn[b]

Marks ==
  /\ dfn \in [Block -> Int] /\ low \in [Block -> Int] /\ in_stack \in [Block -> BOOLEAN]
  /\ index_count \in Nat
  /\ \A b \in Block : /\ Numbered(b) => b \in nodes /\ dfn[b] \in 0 .. index_count - 1
                      /\ in_stack[b] => Numbered(b)
  /\ \A b, c \in Block : Numbered(b) /\ dfn[b] = dfn[c] => b = c
  /\ Active \subseteq Block /\ \A g \in Active : in_stack[g]
  /\ Left \subseteq next /\ \A e \in Left : e[1] \in Active

\* The stack has the nodes in the order of their numbers; so have the calls.
Sequences ==
  /\ stack \in Seq(Block) /\ calls \in Seq(CallRec)
  /\ \A b \in Block : in_stack[b] <=> \E i \in DOMAIN stack : stack[i] = b
  /\ \A i, j \in DOMAIN stack : i < j => dfn[stack[i]] < dfn[stack[j]]
  /\ \A i, j \in DOMAIN calls : i < j => dfn[calls[i].now] < dfn[calls[j].now]

\* An edge that was looked at leads to a numbered node, and out of a closed node to a
\* closed one only.
Edges ==
  \A b, c \in Block : /\ Looked(b, c) => Numbered(c)
                      /\ <<b, c>> \in next /\ Shut(b) => Shut(c)

\* An active node leads to all that were put on the stack after it, and each of these
\* to one of the active nodes below it.
Spine ==
  \A b \in Block : in_stack[b] =>
    /\ \A g \in Active : dfn[g] <= dfn[b] => b \in From(g)
    /\ \E g \in Active : dfn[g] <= dfn[b] /\ g \in From(b)

\* low[b] is the number of a node of the stack that b leads to, and bounds the
\* numbers of those that were seen from what belongs to b.
Lows ==
  /\ \A b \in Block : in_stack[b] =>
       low[b] <= dfn[b] /\ \E c \in Block : in_stack[c] /\ dfn[c] = low[b] /\ c \in From(b)
  /\ \A g, b, c \in Block : in_stack[b] /\ in_stack[c] /\ Looked(b, c) /\ Owns(g, b) => low[g] <= dfn[c]

\* The components of the closed nodes have been found.
Comp(b) == {c \in nodes : c \in From(b) /\ b \in From(c)}
OnCycle(b) == b \in Reach(next, Succs(next, b))
Components == result = {Comp(b) : b \in {c \in nodes : Shut(c) /\ OnCycle(c)}}

Core == Graph /\ Marks /\ Edges /\ Spine /\ Lows
SInv == Core /\ Sequences /\ Components

\* The edges of an active node that still has to look at them are left, all others
\* of numbered nodes were looked at.
LEMMA Ranges ==
  ASSUME Core
  PROVE  /\ index_count \in Nat /\ \A b \in Block : dfn[b] \in Int /\ low[b] \in Int
         /\ \A b \in Block : Numbered(b) => b \in nodes /\ dfn[b] >= 0 /\ dfn[b] < index_count
         /\ \A b \in Block : in_stack[b] => Numbered(b)
         /\ \A g \in Active : g \in Block /\ in_stack[g] /\ Numbered(g)
BY DEF Core, Marks

\* What a call enters: a node without a number that is a root or hangs on an edge of
\* the last active one.
Enters(b) ==
  /\ b \in nodes /\ ~ Numbered(b)
  /\ dfn' = [dfn EXCEPT ![b] = index_count] /\ low' = [low EXCEPT ![b] = index_count]
  /\ in_stack' = [in_stack EXCEPT ![b] = TRUE] /\ index_count' = index_count + 1
  /\ next' = next /\ nodes' = nodes
  /\ Active' = Active \cup {b}
  /\ \/ Active = {} /\ Left' = {<<b, c>> : c \in Succs(next, b)}
     \/ \E p \in Active : /\ \A h \in Active : dfn[h] <= dfn[p]
                          /\ <<p, b>> \in next
                          /\ Left' = (Left \ {<<p, b>>}) \cup {<<b, c>> : c \in Succs(next, b)}

LEMMA EnterCore ==
  ASSUME Core, NEW b, Enters(b)
  PROVE  Core' /\ \A c \in Block : Shut(c)' <=> Shut(c)
<1>r. /\ index_count \in Nat /\ \A c \in Block : dfn[c] \in Int /\ low[c] \in Int
      /\ \A c \in Block : Numbered(c) => c \in nodes /\ dfn[c] >= 0 /\ dfn[c] < index_count
      /\ \A c \in Block : in_stack[c] => Numbered(c)
      /\ \A g \in Active : g \in Block /\ in_stack[g] /\ Numbered(g)
  BY Ranges
<1>0. /\ b \in Block /\ b \in nodes /\ dfn[b] = -1 /\ next' = next /\ nodes' = nodes
      /\ index_count' = index_count + 1
      /\ Active' = Active \cup {b} /\ b \notin Active /\ b \in From(b)
  <2>1. b \in Block /\ b \in nodes /\ dfn[b] = -1
    BY DEF Enters, Core, Graph, Numbered
  <2> QED
    BY <1>r, <2>1, Paths DEF Enters, Core, Numbered
<1>n. dfn'[b] = index_count /\ low'[b] = index_count /\ in_stack'[b] /\ dfn'[b] \in Int /\ dfn'[b] # -1
  <2>1. dfn'[b] = index_count /\ low'[b] = index_count /\ in_stack'[b]
    BY <1>0 DEF Enters, Core, Marks
  <2> QED
    BY <1>r, <2>1
<1>o. \A c \in Block \ {b} : dfn'[c] = dfn[c] /\ low'[c] = low[c] /\ (in_stack'[c] <=> in_stack[c])
  BY <1>0 DEF Enters, Core, Marks
<1>1. \A c \in Block : From(c)' = From(c)
  BY <1>0 DEF From
<1>2. \A c \in Block : /\ Numbered(c)' <=> Numbered(c) \/ c = b
                       /\ Shut(c)' <=> Shut(c)
  <2> SUFFICES ASSUME NEW c \in Block
               PROVE  (Numbered(c)' <=> Numbered(c) \/ c = b) /\ (Shut(c)' <=> Shut(c))
    OBVIOUS
  <2>1. CASE c = b
    BY <1>0, <1>n, <2>1 DEF Numbered, Shut
  <2>2. CASE c # b
    BY <1>o, <2>2 DEF Numbered, Shut
  <2> QED
    BY <2>1, <2>2
<1>3. \A c, d \in Block : Looked(c, d)' => c # b
  <2> SUFFICES ASSUME NEW c \in Block, Looked(b, c)' PROVE FALSE
    OBVIOUS
  <2>1. c \in Succs(next, b)
    BY <1>0 DEF Looked, Succs
  <2> QED
    BY <2>1 DEF Enters, Looked
<1>4. \A c, d \in Block : Looked(c, d)' => Looked(c, d) \/ (d = b /\ Active # {} /\ c \in Active /\ \A h \in Active : dfn[h] <= dfn[c])
  <2> SUFFICES ASSUME NEW c \in Block, NEW d \in Block, Looked(c, d)', ~ Looked(c, d)
               PROVE  d = b /\ Active # {} /\ c \in Active /\ \A h \in Active : dfn[h] <= dfn[c]
    OBVIOUS
  <2>1. c # b /\ <<c, d>> \in next /\ Numbered(c) /\ <<c, d>> \in Left /\ <<c, d>> \notin Left'
    BY <1>0, <1>2, <1>3 DEF Looked
  <2>2. c \in Active
    BY <2>1 DEF Core, Marks
  <2> QED
    BY <2>1, <2>2 DEF Enters
<1>5. Graph' /\ Marks'
  <2>1. Graph'
    BY <1>0, <1>n, <1>o DEF Core, Graph
  <2>2. /\ dfn' \in [Block -> Int] /\ low' \in [Block -> Int] /\ in_stack' \in [Block -> BOOLEAN]
        /\ index_count' \in Nat
    BY <1>0, <1>n, <1>o DEF Enters, Core, Marks
  <2>3. \A c \in Block : /\ Numbered(c)' => c \in nodes' /\ dfn'[c] \in 0 .. index_count' - 1
                         /\ in_stack'[c] => Numbered(c)'
    BY <1>r, <1>0, <1>n, <1>o, <1>2
  <2>4. \A c, d \in Block : Numbered(c)' /\ dfn'[c] = dfn'[d] => c = d
    <3> SUFFICES ASSUME NEW c \in Block, NEW d \in Block, Numbered(c)', dfn'[c] = dfn'[d], c # d PROVE FALSE
      OBVIOUS
    <3>0. dfn'[c] = dfn'[d] /\ c # d
      OBVIOUS
    <3>1. CASE c = b
      <4>1. dfn[d] = index_count
        BY <1>n, <1>o, <3>0, <3>1
      <4> QED
        BY <1>r, <4>1 DEF Numbered
    <3>2. CASE d = b
      BY <1>0, <1>2, <3>2, <1>r, <1>n, <1>o
    <3>3. CASE c # b /\ d # b
      BY <1>0, <1>n, <1>o, <1>2, <3>3 DEF Core, Marks
    <3> QED
      BY <3>1, <3>2, <3>3
  <2>5. Active' \subseteq Block /\ \A g \in Active' : in_stack'[g]
    BY <1>0, <1>r, <1>n, <1>o
  <2>6. Left' \subseteq next' /\ \A e \in Left' : e[1] \in Active'
    <3>1. \A c \in Succs(next, b) : <<b, c>> \in next
      BY DEF Succs, Core, Graph
    <3>2. Left' \subseteq Left \cup {<<b, c>> : c \in Succs(next, b)}
      BY DEF Enters
    <3>3. Left \subseteq next /\ \A e \in Left : e[1] \in Active
      BY DEF Core, Marks
    <3> QED
      BY <1>0, <1>n, <1>o, <3>1, <3>2, <3>3
  <2> QED
    BY <2>1, <2>2, <2>3, <2>4, <2>5, <2>6 DEF Marks
<1>6. Edges'
  <2> SUFFICES ASSUME NEW c \in Block, NEW d \in Block
               PROVE  /\ Looked(c, d)' => Numbered(d)'
                      /\ <<c, d>> \in next' /\ Shut(c)' => Shut(d)'
    BY DEF Edges
  <2> QED
    BY <1>0, <1>n, <1>o, <1>2, <1>4 DEF Core, Edges
<1>7. Spine'
  <2> SUFFICES ASSUME NEW c \in Block, in_stack'[c]
               PROVE  /\ \A g \in Active' : dfn'[g] <= dfn'[c] => c \in From(g)'
                      /\ \E g \in Active' : dfn'[g] <= dfn'[c] /\ g \in From(c)'
    BY DEF Spine
  <2>1. CASE c # b
    <3>1. in_stack[c] /\ dfn'[c] = dfn[c] /\ dfn[c] < index_count
      BY <1>0, <2>1, <1>r, <1>n, <1>o DEF Core, Marks
    <3>2. \A g \in Active : g \in Block /\ g # b /\ dfn'[g] = dfn[g] /\ From(g)' = From(g)
      BY <1>0, <1>1, <1>r, <1>n, <1>o
    <3>3. dfn'[b] = index_count /\ dfn[c] \in Int
      BY <1>0, <1>r, <1>n, <1>o
    <3>4. /\ \A g \in Active : dfn[g] <= dfn[c] => c \in From(g)
          /\ \E g \in Active : dfn[g] <= dfn[c] /\ g \in From(c)
      BY <3>1 DEF Core, Spine
    <3> QED
      BY <1>0, <1>n, <1>o, <1>1, <3>1, <3>2, <3>3, <3>4
  <2>2. CASE c = b
    <3>1. b \in From(b)' /\ b \in Active' /\ dfn'[b] \in Int
      BY <1>0, <1>1, <1>r, <1>n, <1>o
    <3>2. ASSUME NEW g \in Active PROVE b \in From(g)
      <4>1. PICK p \in Active : /\ \A h \in Active : dfn[h] <= dfn[p]
                                /\ <<p, b>> \in next
        BY DEF Enters
      <4>2. p \in Block /\ g \in Block /\ in_stack[p] /\ dfn[g] <= dfn[p]
        BY <4>1, <1>r, <1>n, <1>o
      <4>3. p \in From(g)
        BY <4>2 DEF Core, Spine
      <4> QED
        BY <4>1, <4>2, <4>3, Paths DEF Core
    <3> QED
      BY <1>0, <1>1, <2>2, <3>1, <3>2, <1>r, <1>n, <1>o
  <2> QED
    BY <2>1, <2>2
<1>8. Lows'
  <2>1. ASSUME NEW c \in Block, in_stack'[c]
        PROVE  low'[c] <= dfn'[c] /\ \E d \in Block : in_stack'[d] /\ dfn'[d] = low'[c] /\ d \in From(c)'
    <3>1. CASE c # b
      <4>1. in_stack[c] /\ low'[c] = low[c] /\ dfn'[c] = dfn[c]
        BY <1>0, <1>n, <1>o, <2>1, <3>1
      <4>2. low[c] <= dfn[c] /\ \E d \in Block : in_stack[d] /\ dfn[d] = low[c] /\ d \in From(c)
        BY <4>1 DEF Core, Lows
      <4>3. PICK d \in Block : in_stack[d] /\ dfn[d] = low[c] /\ d \in From(c)
        BY <4>2
      <4>4. d # b
        BY <1>0, <1>n, <1>o, <4>3 DEF Core, Marks, Numbered
      <4> QED
        BY <1>0, <1>n, <1>o, <1>1, <4>1, <4>2, <4>3, <4>4
    <3>2. CASE c = b
      BY <1>0, <1>1, <3>2, <1>r, <1>n, <1>o
    <3> QED
      BY <3>1, <3>2
  <2>2. ASSUME NEW g \in Block, NEW c \in Block, NEW d \in Block,
               in_stack'[c], in_stack'[d], Looked(c, d)', Owns(g, c)'
        PROVE  low'[g] <= dfn'[d]
    <3>1. c # b /\ in_stack[c] /\ dfn'[c] = dfn[c] /\ Numbered(c)
      BY <1>0, <1>n, <1>o, <1>3, <2>2 DEF Core, Marks
    <3>2. dfn[c] < index_count /\ dfn[c] \in Int
      BY <3>1, <1>r, <1>n, <1>o
    <3>3. g # b /\ g \in Active
      BY <1>0, <1>n, <1>o, <2>2, <3>1, <3>2 DEF Owns
    <3>4. Owns(g, c)
      <4>1. \A h \in Active : h # b /\ h \in Block /\ dfn'[h] = dfn[h]
        BY <1>0, <1>r, <1>n, <1>o
      <4> QED
        BY <1>0, <1>n, <1>o, <2>2, <3>1, <3>3, <4>1 DEF Owns
    <3>5. low'[g] = low[g] /\ low[g] <= dfn[g] /\ dfn[g] \in Int /\ dfn[g] < index_count /\ low[g] \in Int
      BY <1>0, <3>3, <1>r, <1>n, <1>o DEF Core, Lows
    <3>6. CASE d = b
      BY <1>0, <1>n, <1>o, <3>5, <3>6
    <3>7. CASE d # b
      <4>1. Looked(c, d) /\ in_stack[d] /\ dfn'[d] = dfn[d]
        BY <1>0, <1>n, <1>o, <1>4, <2>2, <3>7
      <4> QED
        BY <3>1, <3>4, <3>5, <4>1 DEF Core, Lows
    <3> QED
      BY <3>6, <3>7
  <2> QED
    BY <2>1, <2>2 DEF Lows
<1> QED
  BY <1>2, <1>5, <1>6, <1>7, <1>8 DEF Core

\* The last active node looks at a numbered node.
Least2(m, n) == IF m <= n THEN m ELSE n
Looks(p, b) ==
  /\ p \in Active /\ \A h \in Active : dfn[h] <= dfn[p]
  /\ <<p, b>> \in Left /\ Numbered(b)
  /\ low' = [low EXCEPT ![p] = IF in_stack[b] THEN Least2(@, dfn[b]) ELSE @]
  /\ Active' = Active /\ Left' = Left \ {<<p, b>>}
  /\ UNCHANGED <<nodes, next, dfn, in_stack, index_count>>

LEMMA LookCore ==
  ASSUME Core, NEW p, NEW b, Looks(p, b)
  PROVE  Core' /\ \A c \in Block : Shut(c)' <=> Shut(c)
<1>r. /\ index_count \in Nat /\ \A c \in Block : dfn[c] \in Int /\ low[c] \in Int
      /\ \A c \in Block : Numbered(c) => c \in nodes /\ dfn[c] >= 0 /\ dfn[c] < index_count
      /\ \A c \in Block : in_stack[c] => Numbered(c)
      /\ \A g \in Active : g \in Block /\ in_stack[g] /\ Numbered(g)
  BY Ranges
<1>0. /\ p \in Block /\ in_stack[p] /\ b \in Block /\ <<p, b>> \in next /\ Numbered(b)
      /\ Active' = Active /\ next' = next /\ nodes' = nodes /\ dfn' = dfn /\ in_stack' = in_stack
      /\ index_count' = index_count
  BY <1>r DEF Looks, Core, Graph, Marks
<1>1. \A c \in Block : From(c)' = From(c) /\ (Shut(c)' <=> Shut(c)) /\ (Numbered(c)' <=> Numbered(c))
  BY <1>0 DEF From, Shut, Numbered
<1>n. low'[p] = IF in_stack[b] THEN Least2(low[p], dfn[b]) ELSE low[p]
  BY <1>0 DEF Looks, Core, Marks
<1>o. \A c \in Block \ {p} : low'[c] = low[c]
  BY <1>0 DEF Looks, Core, Marks
<1>l. \A c \in Block : low'[c] <= low[c] /\ low'[c] \in Int
  BY <1>r, <1>0, <1>n, <1>o DEF Least2
<1>2. \A c, d \in Block : Looked(c, d)' => Looked(c, d) \/ (c = p /\ d = b)
  BY <1>0, <1>1 DEF Looks, Looked
<1>3. Graph' /\ Marks'
  <2>1. Graph'
    BY <1>0 DEF Core, Graph
  <2>2. low' \in [Block -> Int]
    BY <1>r, <1>0, <1>l DEF Looks, Core, Marks
  <2>3. Left' \subseteq Left
    BY DEF Looks
  <2> QED
    BY <1>0, <1>1, <2>1, <2>2, <2>3 DEF Core, Marks
<1>4. Edges'
  BY <1>0, <1>1, <1>2 DEF Core, Edges
<1>5. Spine'
  <2>1. \A g \in Active : g \in Block
    BY <1>r
  <2> QED
    BY <1>0, <1>1, <2>1 DEF Core, Spine
<1>6. Lows'
  <2>1. ASSUME NEW c \in Block, in_stack'[c]
        PROVE  low'[c] <= dfn'[c] /\ \E d \in Block : in_stack'[d] /\ dfn'[d] = low'[c] /\ d \in From(c)'
    <3>1. low[c] <= dfn[c] /\ \E d \in Block : in_stack[d] /\ dfn[d] = low[c] /\ d \in From(c)
      BY <1>0, <2>1 DEF Core, Lows
    <3>2. CASE low'[c] = low[c]
      BY <1>0, <1>1, <3>1, <3>2
    <3>3. CASE low'[c] # low[c]
      <4>1. c = p /\ in_stack[b] /\ low'[c] = dfn[b]
        BY <1>n, <1>o, <3>3 DEF Least2
      <4>2. b \in From(p)
        BY <1>0, Paths DEF Core
      <4>3. low'[c] <= dfn[c]
        BY <1>r, <1>l, <3>1
      <4> QED
        BY <1>0, <1>1, <4>1, <4>2, <4>3
    <3> QED
      BY <3>2, <3>3
  <2>2. ASSUME NEW g \in Block, NEW c \in Block, NEW d \in Block,
               in_stack'[c], in_stack'[d], Looked(c, d)', Owns(g, c)'
        PROVE  low'[g] <= dfn'[d]
    <3>1. Owns(g, c) /\ in_stack[c] /\ in_stack[d] /\ dfn'[d] = dfn[d]
      BY <1>0, <2>2 DEF Owns
    <3>2. CASE Looked(c, d)
      <4>1. low[g] <= dfn[d] /\ low'[g] <= low[g] /\ low'[g] \in Int /\ low[g] \in Int /\ dfn[d] \in Int
        BY <1>r, <1>l, <3>1, <3>2 DEF Core, Lows
      <4> QED
        BY <3>1, <4>1
    <3>3. CASE c = p /\ d = b
      <4>1. dfn[g] <= dfn[p] /\ dfn[p] <= dfn[g]
        BY <1>r, <1>0, <3>1, <3>3 DEF Owns, Looks
      <4>2. g \in Block /\ Numbered(g) /\ dfn[g] = dfn[p]
        BY <1>r, <1>0, <3>1, <4>1 DEF Owns
      <4>3. g = p
        BY <1>0, <4>2 DEF Core, Marks
      <4>4. low'[p] = Least2(low[p], dfn[b])
        BY <1>n, <3>1, <3>3
      <4> QED
        BY <1>r, <1>0, <3>1, <3>3, <4>3, <4>4 DEF Least2
    <3> QED
      BY <1>2, <2>2, <3>2, <3>3
  <2> QED
    BY <2>1, <2>2 DEF Lows
<1> QED
  BY <1>1, <1>3, <1>4, <1>5, <1>6 DEF Core

-----------------------------------------------------------------------------
\* The last active node has looked at all its edges.
Done(p) == p \in Active /\ (\A h \in Active : dfn[h] <= dfn[p]) /\ (\A c \in Block : <<p, c>> \notin Left)
Above(p) == {b \in Block : in_stack[b] /\ dfn[b] >= dfn[p]}

\* If it leads to nothing older on the stack, it and what is above it are its component.
LEMMA ClosedIsComponent ==
  ASSUME Core, NEW p, Done(p), low[p] = dfn[p]
  PROVE  /\ \A b \in Above(p), c \in Block : <<b, c>> \in next => Shut(c) \/ c \in Above(p)
         /\ \A b \in Above(p) : Comp(b) = Above(p)
<1>r. /\ index_count \in Nat /\ \A c \in Block : dfn[c] \in Int /\ low[c] \in Int
      /\ \A c \in Block : Numbered(c) => c \in nodes /\ dfn[c] >= 0 /\ dfn[c] < index_count
      /\ \A c \in Block : in_stack[c] => Numbered(c)
      /\ \A g \in Active : g \in Block /\ in_stack[g] /\ Numbered(g)
  BY Ranges
<1>0. p \in Block /\ in_stack[p] /\ p \in Active /\ p \in Above(p)
  BY <1>r DEF Done, Above
<1>1. ASSUME NEW b \in Above(p), NEW c \in Block, <<b, c>> \in next
      PROVE  Shut(c) \/ c \in Above(p)
  <2>1. b \in Block /\ in_stack[b] /\ dfn[b] >= dfn[p] /\ Numbered(b)
    BY <1>r DEF Above
  <2>2. Looked(b, c)
    <3>1. <<b, c>> \notin Left
      <4> SUFFICES ASSUME <<b, c>> \in Left PROVE FALSE
        OBVIOUS
      <4>1. b \in Active
        BY DEF Core, Marks
      <4>2. dfn[b] = dfn[p]
        BY <1>r, <1>0, <2>1, <4>1 DEF Done
      <4>3. b = p
        BY <1>0, <2>1, <4>2 DEF Core, Marks
      <4> QED
        BY <4>3 DEF Done
    <3> QED
      BY <1>1, <2>1, <3>1 DEF Looked
  <2>3. Numbered(c)
    BY <2>1, <2>2 DEF Core, Edges
  <2>4. ASSUME in_stack[c] PROVE c \in Above(p)
    <3>1. Owns(p, b)
      BY <1>r, <1>0, <2>1 DEF Owns, Done
    <3>2. low[p] <= dfn[c]
      BY <1>0, <2>1, <2>2, <2>4, <3>1 DEF Core, Lows
    <3> QED
      BY <1>r, <1>0, <2>4, <3>2 DEF Above
  <2> QED
    BY <2>3, <2>4 DEF Shut
<1>2. \A b \in Above(p) : From(b) \subseteq {c \in Block : Shut(c) \/ c \in Above(p)}
  <2> TAKE b \in Above(p)
  <2> DEFINE S == {c \in Block : Shut(c) \/ c \in Above(p)}
  <2>1. b \in Block /\ b \in S /\ S \in SUBSET Block
    BY DEF Above
  <2>2. \A e \in next : e[1] \in S => e[2] \in S
    <3> TAKE e \in next
    <3>1. e = <<e[1], e[2]>> /\ e[1] \in Block /\ e[2] \in Block
      BY DEF Core, Graph
    <3>2. Shut(e[1]) => Shut(e[2])
      BY <3>1 DEF Core, Edges
    <3> QED
      BY <1>1, <3>1, <3>2
  <2> HIDE DEF S
  <2>3. From(b) \subseteq S
    BY <2>1, <2>2, Paths DEF Core
  <2> QED
    BY <2>3 DEF S
<1>3. \A b \in Above(p) : p \in From(b) /\ b \in From(p)
  <2> TAKE b \in Above(p)
  <2>1. b \in Block /\ in_stack[b] /\ dfn[p] <= dfn[b]
    BY <1>r, <1>0 DEF Above
  <2>2. PICK g \in Active : dfn[g] <= dfn[b] /\ g \in From(b)
    BY <2>1 DEF Core, Spine
  <2>3. in_stack[g] /\ g \in Block /\ (Shut(g) \/ g \in Above(p))
    BY <1>r, <1>2, <2>2
  <2>4. dfn[g] = dfn[p] /\ Numbered(g)
    BY <1>r, <1>0, <2>3 DEF Shut, Above, Done
  <2>5. g = p
    BY <1>0, <2>3, <2>4 DEF Core, Marks
  <2> QED
    BY <1>0, <2>1, <2>2, <2>5 DEF Core, Spine
<1>4. \A b, c \in Above(p) : c \in From(b)
  <2> TAKE b, c \in Above(p)
  <2>1. b \in Block
    BY DEF Above
  <2> QED
    BY <1>0, <1>3, <2>1, PathOn DEF Core
<1>5. ASSUME NEW b \in Above(p), NEW c \in nodes, c \in From(b), b \in From(c)
      PROVE  c \in Above(p)
  <2> SUFFICES ASSUME Shut(c) PROVE FALSE
    BY <1>2, <1>5
  <2> DEFINE S == {d \in Block : Shut(d)}
  <2>1. c \in Block /\ c \in S /\ S \in SUBSET Block
    BY DEF Core, Graph
  <2>2. \A e \in next : e[1] \in S => e[2] \in S
    <3> TAKE e \in next
    <3>1. e = <<e[1], e[2]>> /\ e[1] \in Block /\ e[2] \in Block
      BY DEF Core, Graph
    <3> QED
      BY <3>1 DEF Core, Edges
  <2>3. b \notin S
    BY DEF Above, Shut
  <2> HIDE DEF S
  <2>4. From(c) \subseteq S
    BY <2>1, <2>2, Paths DEF Core
  <2> QED
    BY <1>5, <2>3, <2>4
<1>6. \A b \in Above(p) : b \in nodes
  BY <1>r DEF Above
<1> QED
  BY <1>1, <1>4, <1>5, <1>6 DEF Comp

\* The last active node returns, with the nodes K closed, and its caller sees its low.
Returns(p, K) ==
  /\ Done(p) /\ K = (IF dfn[p] = low[p] THEN Above(p) ELSE {})
  /\ in_stack' = [b \in Block |-> in_stack[b] /\ b \notin K]
  /\ Active' = Active \ {p} /\ Left' = Left
  /\ \/ Active' = {} /\ low' = low
     \/ \E q \in Active \ {p} : /\ \A h \in Active \ {p} : dfn[h] <= dfn[q]
                                /\ low' = [low EXCEPT ![q] = Least2(@, low[p])]
  /\ UNCHANGED <<nodes, next, dfn, index_count>>

\* What both kinds of return have in common.
LEMMA ReturnMarks ==
  ASSUME Core, NEW p, NEW K, Returns(p, K), \A g \in Active \ {p} : g \notin K
  PROVE  /\ Graph' /\ Marks'
         /\ \A c \in Block : /\ From(c)' = From(c) /\ (Numbered(c)' <=> Numbered(c))
                             /\ in_stack'[c] <=> in_stack[c] /\ c \notin K
                             /\ low'[c] <= low[c] /\ low'[c] \in Int
         /\ \A c, d \in Block : Looked(c, d)' <=> Looked(c, d)
         /\ \A c \in Block : Shut(c)' <=> Shut(c) \/ (Numbered(c) /\ c \in K)
<1>r. /\ index_count \in Nat /\ \A c \in Block : dfn[c] \in Int /\ low[c] \in Int
      /\ \A c \in Block : Numbered(c) => c \in nodes /\ dfn[c] >= 0 /\ dfn[c] < index_count
      /\ \A c \in Block : in_stack[c] => Numbered(c)
      /\ \A g \in Active : g \in Block /\ in_stack[g] /\ Numbered(g)
  BY Ranges
<1>0. /\ p \in Active /\ p \in Block /\ next' = next /\ nodes' = nodes /\ dfn' = dfn /\ index_count' = index_count
      /\ Active' = Active \ {p} /\ Left' = Left
  BY <1>r DEF Returns, Done
<1>1. \A c \in Block : From(c)' = From(c) /\ (Numbered(c)' <=> Numbered(c))
  BY <1>0 DEF From, Numbered
<1>2. \A c \in Block : in_stack'[c] <=> in_stack[c] /\ c \notin K
  BY DEF Returns
<1>3. low' \in [Block -> Int] /\ \A c \in Block : low'[c] <= low[c]
  <2>1. low \in [Block -> Int]
    BY DEF Core, Marks
  <2>2. CASE low' = low
    BY <1>r, <2>1, <2>2
  <2>3. ASSUME NEW q \in Active, low' = [low EXCEPT ![q] = Least2(@, low[p])]
        PROVE  low' \in [Block -> Int] /\ \A c \in Block : low'[c] <= low[c]
    <3>1. q \in Block /\ Least2(low[q], low[p]) \in Int /\ Least2(low[q], low[p]) <= low[q]
      BY <1>r, <1>0 DEF Least2
    <3> QED
      BY <1>r, <2>1, <2>3, <3>1
  <2> QED
    BY <2>2, <2>3 DEF Returns
<1>4. \A c, d \in Block : Looked(c, d)' <=> Looked(c, d)
  BY <1>0, <1>1 DEF Looked
<1>5. \A c \in Block : Shut(c)' <=> Shut(c) \/ (Numbered(c) /\ c \in K)
  BY <1>1, <1>2 DEF Shut
<1>6. Graph'
  BY <1>0 DEF Core, Graph
<1>7. Marks'
  <2>1. in_stack' \in [Block -> BOOLEAN]
    BY DEF Returns
  <2>2. Active' \subseteq Block /\ \A g \in Active' : in_stack'[g]
    BY <1>r, <1>0, <1>2
  <2>3. \A e \in Left' : e[1] \in Active'
    <3> SUFFICES ASSUME NEW e \in Left, e[1] = p PROVE FALSE
      BY <1>0 DEF Core, Marks
    <3>1. e \in next
      BY DEF Core, Marks
    <3>2. e = <<e[1], e[2]>> /\ e[2] \in Block
      BY <3>1 DEF Core, Graph
    <3> QED
      BY <3>2 DEF Returns, Done
  <2>4. /\ \A b \in Block : /\ Numbered(b)' => b \in nodes' /\ dfn'[b] \in 0 .. index_count' - 1
                            /\ in_stack'[b] => Numbered(b)'
        /\ \A b, c \in Block : Numbered(b)' /\ dfn'[b] = dfn'[c] => b = c
    BY <1>0, <1>1, <1>2 DEF Core, Marks
  <2>5. dfn' \in [Block -> Int] /\ index_count' \in Nat /\ Left' \subseteq next'
    BY <1>0 DEF Core, Marks
  <2> QED
    BY <1>3, <2>1, <2>2, <2>3, <2>4, <2>5 DEF Marks
<1> QED
  BY <1>1, <1>2, <1>3, <1>4, <1>5, <1>6, <1>7

LEMMA CloseCore ==
  ASSUME Core, NEW p, NEW K, Returns(p, K), dfn[p] = low[p]
  PROVE  /\ Core' /\ K = Above(p)
         /\ \A c \in Block : Shut(c)' <=> Shut(c) \/ c \in K
<1>r. /\ index_count \in Nat /\ \A c \in Block : dfn[c] \in Int /\ low[c] \in Int
      /\ \A c \in Block : Numbered(c) => c \in nodes /\ dfn[c] >= 0 /\ dfn[c] < index_count
      /\ \A c \in Block : in_stack[c] => Numbered(c)
      /\ \A g \in Active : g \in Block /\ in_stack[g] /\ Numbered(g)
  BY Ranges
<1>0. /\ p \in Block /\ p \in Active /\ \A g \in Active : dfn[g] <= dfn[p]
      /\ K = Above(p) /\ dfn' = dfn /\ next' = next /\ Active' = Active \ {p}
  BY <1>r DEF Returns, Done
<1>1. \A g \in Active \ {p} : g \notin K /\ dfn[g] < dfn[p]
  <2> TAKE g \in Active \ {p}
  <2>1. g \in Block /\ Numbered(g) /\ g # p
    BY <1>r
  <2>2. dfn[g] # dfn[p]
    BY <1>0, <2>1 DEF Core, Marks
  <2> QED
    BY <1>r, <1>0, <2>1, <2>2 DEF Above
<1>2. /\ Graph' /\ Marks'
      /\ \A c \in Block : /\ From(c)' = From(c) /\ (Numbered(c)' <=> Numbered(c))
                          /\ in_stack'[c] <=> in_stack[c] /\ c \notin K
                          /\ low'[c] <= low[c] /\ low'[c] \in Int
      /\ \A c, d \in Block : Looked(c, d)' <=> Looked(c, d)
      /\ \A c \in Block : Shut(c)' <=> Shut(c) \/ (Numbered(c) /\ c \in K)
  BY <1>1, ReturnMarks
<1>3. \A c \in K : c \in Block /\ Numbered(c)
  BY <1>r, <1>0 DEF Above
<1>4. \A c \in Block : in_stack'[c] => in_stack[c] /\ dfn[c] < dfn[p]
  BY <1>r, <1>0, <1>2 DEF Above
<1>5. Edges'
  <2> SUFFICES ASSUME NEW b \in Block, NEW c \in Block
               PROVE  /\ Looked(b, c)' => Numbered(c)'
                      /\ <<b, c>> \in next' /\ Shut(b)' => Shut(c)'
    BY DEF Edges
  <2>1. Looked(b, c)' => Numbered(c)'
    BY <1>2 DEF Core, Edges
  <2>2. ASSUME <<b, c>> \in next, Shut(b)' PROVE Shut(c)'
    <3>1. CASE Shut(b)
      BY <1>2, <2>2, <3>1 DEF Core, Edges
    <3>2. CASE b \in K
      <4>1. Done(p) /\ low[p] = dfn[p] /\ b \in Above(p)
        BY <1>0, <3>2 DEF Returns
      <4>2. Shut(c) \/ c \in Above(p)
        BY <2>2, <4>1, ClosedIsComponent
      <4> QED
        BY <1>0, <1>2, <1>3, <4>2
    <3> QED
      BY <1>2, <2>2, <3>1, <3>2
  <2> QED
    BY <1>0, <2>1, <2>2
<1>6. Spine'
  <2> SUFFICES ASSUME NEW b \in Block, in_stack'[b]
               PROVE  /\ \A g \in Active' : dfn'[g] <= dfn'[b] => b \in From(g)'
                      /\ \E g \in Active' : dfn'[g] <= dfn'[b] /\ g \in From(b)'
    BY DEF Spine
  <2>1. in_stack[b] /\ dfn[b] < dfn[p]
    BY <1>4
  <2>2. \A g \in Active : dfn[g] <= dfn[b] => b \in From(g)
    BY <2>1 DEF Core, Spine
  <2>3. PICK g \in Active : dfn[g] <= dfn[b] /\ g \in From(b)
    BY <2>1 DEF Core, Spine
  <2>4. g # p
    BY <1>r, <1>0, <2>1, <2>3
  <2> QED
    BY <1>r, <1>0, <1>2, <2>2, <2>3, <2>4
<1>7. \A c \in Block : in_stack[c] => low'[c] = low[c]
  <2>1. CASE low' = low
    BY <2>1
  <2>2. ASSUME NEW q \in Active \ {p}, low' = [low EXCEPT ![q] = Least2(@, low[p])]
        PROVE  \A c \in Block : in_stack[c] => low'[c] = low[c]
    <3>1. q \in Block /\ dfn[q] < dfn[p] /\ in_stack[q]
      BY <1>r, <1>1
    <3>2. low[q] <= dfn[q]
      BY <3>1 DEF Core, Lows
    <3>3. Least2(low[q], low[p]) = low[q]
      BY <1>r, <1>0, <3>1, <3>2 DEF Least2
    <3> QED
      BY <2>2, <3>1, <3>3 DEF Core, Marks
  <2> QED
    BY <2>1, <2>2 DEF Returns
<1>8. Lows'
  <2>1. ASSUME NEW b \in Block, in_stack'[b]
        PROVE  low'[b] <= dfn'[b] /\ \E c \in Block : in_stack'[c] /\ dfn'[c] = low'[b] /\ c \in From(b)'
    <3>1. in_stack[b] /\ dfn[b] < dfn[p] /\ low'[b] = low[b]
      BY <1>4, <1>7, <2>1
    <3>2. low[b] <= dfn[b] /\ \E c \in Block : in_stack[c] /\ dfn[c] = low[b] /\ c \in From(b)
      BY <3>1 DEF Core, Lows
    <3>3. PICK c \in Block : in_stack[c] /\ dfn[c] = low[b] /\ c \in From(b)
      BY <3>2
    <3>4. c \notin K
      BY <1>r, <1>0, <3>1, <3>2, <3>3 DEF Above
    <3> QED
      BY <1>0, <1>2, <3>1, <3>2, <3>3, <3>4
  <2>2. ASSUME NEW g \in Block, NEW b \in Block, NEW c \in Block,
               in_stack'[b], in_stack'[c], Looked(b, c)', Owns(g, b)'
        PROVE  low'[g] <= dfn'[c]
    <3>1. in_stack[b] /\ in_stack[c] /\ Looked(b, c) /\ dfn[b] < dfn[p]
      BY <1>2, <1>4, <2>2
    <3>2. g \in Active /\ dfn[g] <= dfn[b] /\ \A h \in Active \ {p} : dfn[h] <= dfn[g] \/ dfn[h] > dfn[b]
      BY <1>0, <2>2 DEF Owns
    <3>3. Owns(g, b)
      BY <1>r, <1>0, <3>1, <3>2 DEF Owns
    <3>4. low[g] <= dfn[c]
      BY <3>1, <3>3 DEF Core, Lows
    <3> QED
      BY <1>r, <1>0, <1>7, <3>2, <3>4
  <2> QED
    BY <2>1, <2>2 DEF Lows
<1> QED
  BY <1>0, <1>2, <1>3, <1>5, <1>6, <1>8 DEF Core

LEMMA LeaveCore ==
  ASSUME Core, NEW p, NEW K, Returns(p, K), dfn[p] # low[p]
  PROVE  /\ Core' /\ K = {}
         /\ \A c \in Block : Shut(c)' <=> Shut(c)
<1>r. /\ index_count \in Nat /\ \A c \in Block : dfn[c] \in Int /\ low[c] \in Int
      /\ \A c \in Block : Numbered(c) => c \in nodes /\ dfn[c] >= 0 /\ dfn[c] < index_count
      /\ \A c \in Block : in_stack[c] => Numbered(c)
      /\ \A g \in Active : g \in Block /\ in_stack[g] /\ Numbered(g)
  BY Ranges
<1>0. /\ p \in Block /\ in_stack[p] /\ p \in Active /\ \A g \in Active : dfn[g] <= dfn[p]
      /\ K = {} /\ dfn' = dfn /\ next' = next /\ Active' = Active \ {p}
  BY <1>r DEF Returns, Done
<1>1. \A g \in Active \ {p} : g \notin K
  BY <1>0
<1>2. /\ Graph' /\ Marks'
      /\ \A c \in Block : /\ From(c)' = From(c) /\ (Numbered(c)' <=> Numbered(c))
                          /\ in_stack'[c] <=> in_stack[c] /\ c \notin K
                          /\ low'[c] <= low[c] /\ low'[c] \in Int
      /\ \A c, d \in Block : Looked(c, d)' <=> Looked(c, d)
      /\ \A c \in Block : Shut(c)' <=> Shut(c) \/ (Numbered(c) /\ c \in K)
  BY <1>1, ReturnMarks
<1>3. PICK z \in Block : in_stack[z] /\ dfn[z] = low[p] /\ z \in From(p)
  BY <1>0 DEF Core, Lows
<1>4. low[p] < dfn[p]
  BY <1>r, <1>0 DEF Core, Lows
<1>5. PICK o \in Active : dfn[o] <= dfn[z] /\ o \in From(z)
  BY <1>3 DEF Core, Spine
<1>6. o \in Active \ {p} /\ o \in Block /\ dfn[o] < dfn[p] /\ o \in From(p)
  <2>1. dfn[o] < dfn[p] /\ o \in Block
    BY <1>r, <1>0, <1>3, <1>4, <1>5
  <2>2. o \in From(p)
    BY <1>0, <1>3, <1>5, PathOn DEF Core
  <2> QED
    BY <1>r, <1>0, <1>5, <2>1, <2>2
<1>7. PICK q \in Active \ {p} : /\ \A h \in Active \ {p} : dfn[h] <= dfn[q]
                                /\ low' = [low EXCEPT ![q] = Least2(@, low[p])]
  BY <1>0, <1>6 DEF Returns
<1>8. q \in Block /\ in_stack[q] /\ dfn[q] <= dfn[p] /\ low'[q] = Least2(low[q], low[p])
  <2>1. q \in Block /\ in_stack[q] /\ dfn[q] <= dfn[p]
    BY <1>r, <1>0
  <2> QED
    BY <1>7, <2>1 DEF Core, Marks
<1>9. \A c \in Block \ {q} : low'[c] = low[c]
  BY <1>7 DEF Core, Marks
<1>10. Edges'
  BY <1>0, <1>2 DEF Core, Edges
<1>11. Spine'
  <2> SUFFICES ASSUME NEW b \in Block, in_stack'[b]
               PROVE  /\ \A g \in Active' : dfn'[g] <= dfn'[b] => b \in From(g)'
                      /\ \E g \in Active' : dfn'[g] <= dfn'[b] /\ g \in From(b)'
    BY DEF Spine
  <2>1. in_stack[b]
    BY <1>2
  <2>2. \A g \in Active : dfn[g] <= dfn[b] => b \in From(g)
    BY <2>1 DEF Core, Spine
  <2>3. PICK g \in Active : dfn[g] <= dfn[b] /\ g \in From(b)
    BY <2>1 DEF Core, Spine
  <2>4. CASE g = p
    <3>1. o \in From(b)
      BY <1>6, <2>3, <2>4, PathOn DEF Core
    <3>2. dfn[o] <= dfn[b]
      BY <1>r, <1>6, <2>3, <2>4
    <3> QED
      BY <1>r, <1>0, <1>2, <1>6, <2>2, <3>1, <3>2
  <2>5. CASE g # p
    BY <1>r, <1>0, <1>2, <2>2, <2>3, <2>5
  <2> QED
    BY <2>4, <2>5
<1>12. Lows'
  <2>1. ASSUME NEW b \in Block, in_stack'[b]
        PROVE  low'[b] <= dfn'[b] /\ \E c \in Block : in_stack'[c] /\ dfn'[c] = low'[b] /\ c \in From(b)'
    <3>1. in_stack[b]
      BY <1>2, <2>1
    <3>2. low[b] <= dfn[b] /\ \E c \in Block : in_stack[c] /\ dfn[c] = low[b] /\ c \in From(b)
      BY <3>1 DEF Core, Lows
    <3>3. CASE low'[b] = low[b]
      BY <1>0, <1>2, <3>2, <3>3
    <3>4. CASE low'[b] # low[b]
      <4>1. b = q /\ low'[b] = low[p]
        BY <1>8, <1>9, <3>4 DEF Least2
      <4>2. p \in From(q)
        BY <1>0, <1>8 DEF Core, Spine
      <4>3. z \in From(q)
        BY <1>3, <1>8, <4>2, PathOn DEF Core
      <4>4. low'[b] <= dfn[b]
        BY <1>r, <1>2, <3>2
      <4> QED
        BY <1>0, <1>2, <1>3, <4>1, <4>3, <4>4
    <3> QED
      BY <3>3, <3>4
  <2>2. ASSUME NEW g \in Block, NEW b \in Block, NEW c \in Block,
               in_stack'[b], in_stack'[c], Looked(b, c)', Owns(g, b)'
        PROVE  low'[g] <= dfn'[c]
    <3>1. in_stack[b] /\ in_stack[c] /\ Looked(b, c)
      BY <1>2, <2>2
    <3>2. g \in Active \ {p} /\ dfn[g] <= dfn[b] /\ \A h \in Active \ {p} : dfn[h] <= dfn[g] \/ dfn[h] > dfn[b]
      BY <1>0, <2>2 DEF Owns
    <3>3. CASE dfn[b] < dfn[p]
      <4>1. Owns(g, b)
        BY <1>r, <1>0, <3>2, <3>3 DEF Owns
      <4>2. low[g] <= dfn[c] /\ low'[g] <= low[g] /\ low'[g] \in Int
        BY <1>2, <3>1, <4>1 DEF Core, Lows
      <4> QED
        BY <1>r, <1>0, <4>2
    <3>4. CASE dfn[b] >= dfn[p]
      <4>1. Owns(p, b)
        BY <1>r, <1>0, <3>4 DEF Owns
      <4>2. low[p] <= dfn[c]
        BY <1>0, <3>1, <4>1 DEF Core, Lows
      <4>3. dfn[q] <= dfn[g] /\ dfn[g] <= dfn[q]
        BY <1>r, <1>0, <1>7, <1>8, <3>2, <3>4
      <4>4. dfn[g] = dfn[q] /\ Numbered(g)
        BY <1>r, <1>8, <3>2, <4>3
      <4>5. g = q
        BY <1>8, <4>4 DEF Core, Marks
      <4> QED
        BY <1>r, <1>0, <1>8, <4>2, <4>5 DEF Least2
    <3> QED
      BY <1>r, <1>0, <3>3, <3>4
  <2> QED
    BY <2>1, <2>2 DEF Lows
<1> QED
  BY <1>0, <1>2, <1>10, <1>11, <1>12 DEF Core

-----------------------------------------------------------------------------
\* The components that HasCycle keeps are those on a cycle.
LEMMA CycleFound ==
  ASSUME Graph, NEW b \in nodes
  PROVE  T!HasCycle(Comp(b)) <=> OnCycle(b)
<1> DEFINE R == Reach(next, Succs(next, b))
<1>0. /\ b \in Block /\ b \in Comp(b) /\ Comp(b) \subseteq Block /\ Succs(next, b) \in SUBSET Block
      /\ \A c \in Succs(next, b) : <<b, c>> \in next
  BY Paths DEF Graph, Comp, Succs
<1>1. Least(Block, next, Succs(next, b), R)
  <2>1. IsFiniteSet(next)
    <3>1. IsFiniteSet(Block \X Block)
      BY FS_Product DEF Graph
    <3> QED
      BY <3>1, FS_Subset DEF Graph
  <2> QED
    BY <1>0, <2>1, ReachIsLeast DEF Graph
<1> HIDE DEF R
<1>2. R \subseteq {x \in Block : \E c \in Succs(next, b) : x \in From(c)}
  <2> DEFINE S == {x \in Block : \E c \in Succs(next, b) : x \in From(c)}
  <2>1. Succs(next, b) \subseteq S
    BY <1>0, Paths
  <2>2. \A e \in next : e[1] \in S => e[2] \in S
    <3> TAKE e \in next
    <3> HAVE e[1] \in S
    <3>1. PICK c \in Succs(next, b) : e[1] \in From(c)
      OBVIOUS
    <3>2. c \in Block /\ e[2] \in Block
      BY <1>0 DEF Graph
    <3> QED
      BY <3>1, <3>2, Paths
  <2>3. S \in SUBSET Block
    OBVIOUS
  <2> HIDE DEF S
  <2>4. R \subseteq S
    BY <1>1, <2>1, <2>2, <2>3 DEF Least
  <2> QED
    BY <2>4 DEF S
<1>3. \A c \in Block : c \in From(b) => c = b \/ c \in R
  <2> DEFINE S == {b} \cup R
  <2>1. b \in S /\ S \in SUBSET Block
    BY <1>0, <1>1 DEF Least
  <2>2. \A e \in next : e[1] \in S => e[2] \in S
    <3> TAKE e \in next
    <3> HAVE e[1] \in S
    <3>1. CASE e[1] = b
      <4>1. e[2] \in Succs(next, b)
        BY <3>1 DEF Succs
      <4> QED
        BY <1>1, <4>1 DEF Least
    <3>2. CASE e[1] \in R
      BY <1>1, <3>2 DEF Least
    <3> QED
      BY <3>1, <3>2
  <2> HIDE DEF S
  <2>3. From(b) \subseteq S
    BY <1>0, <2>1, <2>2, Paths
  <2> QED
    BY <2>3 DEF S
<1>4. R \subseteq From(b)
  <2>1. From(b) \in SUBSET Block /\ Succs(next, b) \subseteq From(b) /\ \A e \in next : e[1] \in From(b) => e[2] \in From(b)
    <3>1. b \in From(b) /\ From(b) \in SUBSET Block /\ \A e \in next : e[1] \in From(b) => e[2] \in From(b)
      BY <1>0, Paths
    <3> QED
      BY <1>0, <3>1
  <2> DEFINE S == From(b)
  <2> HIDE DEF S
  <2>2. R \subseteq S
    BY <1>1, <2>1 DEF Least, S
  <2> QED
    BY <2>2 DEF S
<1>5. (\E c \in Comp(b) : c # b) => b \in R
  <2> SUFFICES ASSUME NEW c \in Comp(b), c # b PROVE b \in R
    OBVIOUS
  <2>1. c \in Block /\ c \in R /\ b \in From(c)
    BY <1>0, <1>3 DEF Comp
  <2>2. R \in SUBSET Block /\ \A e \in next : e[1] \in R => e[2] \in R
    BY <1>1 DEF Least
  <2>3. From(c) \subseteq R
    BY <2>1, <2>2, Paths
  <2> QED
    BY <2>1, <2>3
<1>6. IsFiniteSet(Comp(b))
  BY <1>0, FS_Subset DEF Graph
<1>7. T!Cardinality(Comp(b)) > 1 <=> \E c \in Comp(b) : c # b
  <2>1. ASSUME NEW c \in Comp(b), c # b PROVE Cardinality(Comp(b)) > 1
    <3>1. {b, c} \subseteq Comp(b)
      BY <1>0
    <3>2. Cardinality({b, c}) = 2
      <4>1. IsFiniteSet({b}) /\ Cardinality({b}) = 1
        BY FS_Singleton
      <4>2. Cardinality({b} \cup {c}) = Cardinality({b}) + 1
        BY <2>1, <4>1, FS_AddElement
      <4>3. {b, c} = {b} \cup {c}
        OBVIOUS
      <4> QED
        BY <4>1, <4>2, <4>3
    <3>3. Cardinality({b, c}) <= Cardinality(Comp(b)) /\ Cardinality(Comp(b)) \in Nat
      BY <1>6, <3>1, FS_Subset, FS_CardinalityType
    <3> QED
      BY <3>2, <3>3
  <2>2. ASSUME \A c \in Comp(b) : c = b PROVE Cardinality(Comp(b)) = 1
    <3>1. Comp(b) = {b}
      BY <1>0, <2>2
    <3> QED
      BY <3>1, FS_Singleton
  <2>3. (Cardinality(Comp(b)) > 1) <=> \E c \in Comp(b) : c # b
    <3>1. CASE \A c \in Comp(b) : c = b
      BY <2>2, <3>1
    <3>2. CASE \E c \in Comp(b) : c # b
      BY <2>1, <3>2
    <3> QED
      BY <3>1, <3>2
  <2> QED
    BY <2>3, SameCardinality
<1>8. (\E c \in Comp(b) : c \in T!F!Succs(next, c)) => b \in R
  <2> SUFFICES ASSUME NEW c \in Comp(b), c \in T!F!Succs(next, c) PROVE b \in R
    OBVIOUS
  <2>1. CASE c = b
    <3>1. b \in Succs(next, b)
      BY <2>1, SameSuccs
    <3> QED
      BY <1>1, <3>1 DEF Least
  <2>2. CASE c # b
    BY <1>5, <2>2
  <2> QED
    BY <2>1, <2>2
<1>9. ASSUME b \in R PROVE (\E c \in Comp(b) : c # b) \/ b \in T!F!Succs(next, b)
  <2>1. PICK c \in Succs(next, b) : b \in From(c)
    BY <1>2, <1>9
  <2>2. c \in From(b) /\ c \in nodes
    BY <1>0, <1>1, <1>4, <2>1 DEF Least, Graph
  <2>3. c \in Comp(b)
    BY <2>1, <2>2 DEF Comp
  <2> QED
    BY <2>1, <2>3, SameSuccs
<1>10. T!HasCycle(Comp(b)) <=> b \in R
  BY <1>0, <1>5, <1>7, <1>8, <1>9 DEF T!HasCycle
<1> QED
  BY <1>10 DEF R, OnCycle

\* Nothing is the component of nothing.
LEMMA NoCycleInNothing == ~ T!HasCycle({})
BY SameCardinality, FS_EmptySet DEF T!HasCycle

-----------------------------------------------------------------------------
LEMMA MinOfTwo == \A m, n \in Int : T!Min({m, n}) = Least2(m, n)
<1> SUFFICES ASSUME NEW m \in Int, NEW n \in Int PROVE T!Min({m, n}) = Least2(m, n)
  OBVIOUS
<1>1. Least2(m, n) \in {m, n} /\ \A x \in {m, n} : Least2(m, n) <= x
  BY DEF Least2
<1>2. \A x \in {m, n} : (\A y \in {m, n} : x <= y) => x = Least2(m, n)
  BY DEF Least2
<1> QED
  BY <1>1, <1>2 DEF T!Min

\* The call in progress is that of the last active node.
LEMMA Top ==
  ASSUME Core, Sequences, calls # <<>>
  PROVE  /\ Len(calls) \in Nat \ {0} /\ DOMAIN calls = 1 .. Len(calls)
         /\ \A i \in DOMAIN calls : calls[i] \in CallRec
         /\ T!now = calls[Len(calls)].now /\ T!rest = calls[Len(calls)].rest
         /\ T!now \in Active /\ \A h \in Active : dfn[h] <= dfn[T!now]
         /\ \A i \in DOMAIN calls : calls[i].now = T!now => i = Len(calls)
         /\ \A c \in Block : <<T!now, c>> \in Left <=> c \in T!rest
<1> DEFINE L == Len(calls)
<1>1. /\ L \in Nat \ {0} /\ DOMAIN calls = 1 .. L /\ \A i \in DOMAIN calls : calls[i] \in CallRec
  BY DEF Sequences
<1>2. T!now = calls[L].now /\ T!rest = calls[L].rest
  BY DEF T!now, T!rest, T!Last
<1>3. T!now \in Active
  BY <1>1, <1>2 DEF Active
<1>4. \A i \in DOMAIN calls : i # L => dfn[calls[i].now] < dfn[calls[L].now]
  BY <1>1 DEF Sequences
<1>5. \A i \in DOMAIN calls : calls[i].now \in Active /\ dfn[calls[i].now] \in Int
  <2>1. \A i \in DOMAIN calls : calls[i].now \in Active
    BY DEF Active
  <2> QED
    BY <2>1, Ranges
<1>6. \A h \in Active : dfn[h] <= dfn[T!now]
  <2> SUFFICES ASSUME NEW i \in DOMAIN calls PROVE dfn[calls[i].now] <= dfn[T!now]
    BY DEF Active
  <2>1. L \in DOMAIN calls
    BY <1>1
  <2> QED
    BY <1>2, <1>4, <1>5, <2>1
<1>7. \A i \in DOMAIN calls : calls[i].now = T!now => i = L
  BY <1>2, <1>4, <1>5
<1>8. \A c \in Block : <<T!now, c>> \in Left <=> c \in T!rest
  <2> TAKE c \in Block
  <2>1. T!now \in Block
    BY <1>1, <1>2 DEF CallRec
  <2>2. c \in T!rest => <<T!now, c>> \in Left
    BY <1>1, <1>2, <2>1 DEF Left
  <2>3. <<T!now, c>> \in Left => c \in T!rest
    BY <1>2, <1>7 DEF Left
  <2> QED
    BY <2>2, <2>3
<1> QED
  BY <1>1, <1>2, <1>3, <1>6, <1>7, <1>8

\* Numbers of the calls that stay, and of the stack when a node is put on it.
LEMMA Pushed ==
  ASSUME Core, Sequences, NEW b, Enters(b), stack' = Append(stack, b)
  PROVE  /\ stack' \in Seq(Block)
         /\ \A c \in Block : in_stack'[c] <=> \E i \in DOMAIN stack' : stack'[i] = c
         /\ \A i, j \in DOMAIN stack' : i < j => dfn'[stack'[i]] < dfn'[stack'[j]]
<1> DEFINE n == Len(stack)
<1>1. /\ b \in Block /\ dfn'[b] = index_count /\ in_stack'[b] /\ ~ in_stack[b]
      /\ \A c \in Block \ {b} : dfn'[c] = dfn[c] /\ (in_stack'[c] <=> in_stack[c])
  <2>1. b \in Block /\ ~ in_stack[b]
    BY DEF Enters, Core, Graph, Marks
  <2> QED
    BY <2>1 DEF Enters, Core, Marks
<1>2. n \in Nat /\ DOMAIN stack = 1 .. n /\ \A i \in 1 .. n : stack[i] \in Block /\ in_stack[stack[i]]
  BY DEF Sequences
<1>3. /\ stack' \in Seq(Block) /\ DOMAIN stack' = 1 .. n + 1 /\ stack'[n + 1] = b
      /\ \A i \in 1 .. n : stack'[i] = stack[i]
  BY <1>1, <1>2 DEF Sequences
<1>4. \A i \in 1 .. n : dfn[stack[i]] < index_count /\ stack[i] # b /\ dfn'[stack[i]] = dfn[stack[i]]
  <2> TAKE i \in 1 .. n
  <2>1. Numbered(stack[i]) /\ stack[i] # b
    BY <1>1, <1>2, Ranges
  <2> QED
    BY <1>1, <1>2, <2>1, Ranges
<1>5. \A c \in Block : in_stack'[c] <=> \E i \in DOMAIN stack' : stack'[i] = c
  <2> TAKE c \in Block
  <2>1. CASE c = b
    BY <1>1, <1>2, <1>3, <2>1
  <2>2. CASE c # b
    <3>1. in_stack'[c] <=> \E i \in 1 .. n : stack[i] = c
      BY <1>1, <1>2, <2>2 DEF Sequences
    <3>2. (\E i \in 1 .. n : stack[i] = c) <=> \E i \in DOMAIN stack' : stack'[i] = c
      BY <1>2, <1>3, <2>2
    <3> QED
      BY <3>1, <3>2
  <2> QED
    BY <2>1, <2>2
<1>6. \A i, j \in DOMAIN stack' : i < j => dfn'[stack'[i]] < dfn'[stack'[j]]
  <2> TAKE i, j \in DOMAIN stack'
  <2> HAVE i < j
  <2>1. i \in 1 .. n /\ j \in 1 .. n + 1
    BY <1>2, <1>3
  <2>2. CASE j = n + 1
    BY <1>1, <1>3, <1>4, <2>1, <2>2
  <2>3. CASE j # n + 1
    <3>1. j \in 1 .. n
      BY <1>2, <2>1, <2>3
    <3>2. dfn[stack[i]] < dfn[stack[j]]
      BY <1>2, <2>1, <3>1 DEF Sequences
    <3> QED
      BY <1>3, <1>4, <2>1, <3>1, <3>2
  <2> QED
    BY <2>2, <2>3
<1> QED
  BY <1>3, <1>5, <1>6

LEMMA SameComponents ==
  ASSUME Components, result' = result, nodes' = nodes, next' = next,
         nodes \subseteq Block, \A c \in Block : Shut(c)' <=> Shut(c)
  PROVE  Components'
<1>1. \A c \in nodes : Comp(c)' = Comp(c) /\ (OnCycle(c)' <=> OnCycle(c)) /\ (Shut(c)' <=> Shut(c))
  BY DEF Comp, OnCycle, From
<1>2. {c \in nodes' : Shut(c)' /\ OnCycle(c)'} = {c \in nodes : Shut(c) /\ OnCycle(c)}
  BY <1>1
<1>3. Components' <=> result' = {Comp(c)' : c \in {d \in nodes' : Shut(d)' /\ OnCycle(d)'}}
  BY DEF Components
<1>4. {Comp(c)' : c \in {d \in nodes' : Shut(d)' /\ OnCycle(d)'}} = {Comp(c) : c \in {d \in nodes : Shut(d) /\ OnCycle(d)}}
  BY <1>1, <1>2
<1> QED
  BY <1>3, <1>4 DEF Components

LEMMA RootInv ==
  ASSUME SInv, NEW b \in nodes, T!Root(b)
  PROVE  SInv'
<1>0. /\ calls = <<>> /\ calls' = << [now |-> b, rest |-> Succs(next, b)] >>
      /\ dfn' = [dfn EXCEPT ![b] = index_count] /\ low' = [low EXCEPT ![b] = index_count]
      /\ in_stack' = [in_stack EXCEPT ![b] = TRUE] /\ index_count' = index_count + 1
      /\ stack' = Append(stack, b) /\ ~ Numbered(b)
      /\ next' = next /\ nodes' = nodes /\ result' = result
  BY SameSuccs DEF T!Root, T!Enter, Numbered
<1>1. b \in Block /\ Succs(next, b) \subseteq Block
  BY DEF SInv, Core, Graph, Succs
<1>2. Active = {} /\ Left = {}
  BY <1>0 DEF Active, Left
<1>3. Active' = {b} /\ Left' = {<<b, c>> : c \in Succs(next, b)}
  <2>1. DOMAIN calls' = {1} /\ calls'[1].now = b /\ calls'[1].rest = Succs(next, b)
    BY <1>0
  <2>2. Active' = {b}
    BY <2>1 DEF Active
  <2>3. \A e \in Block \X Block : e \in Left' <=> e[1] = b /\ e[2] \in Succs(next, b)
    BY <2>1 DEF Left
  <2>4. Left' \subseteq Block \X Block
    BY DEF Left
  <2> QED
    BY <1>1, <2>2, <2>3, <2>4
<1>4. Enters(b)
  BY <1>0, <1>2, <1>3 DEF Enters
<1>5. Core' /\ \A c \in Block : Shut(c)' <=> Shut(c)
  BY <1>4, EnterCore DEF SInv
<1>6. Sequences'
  <2>1. /\ stack' \in Seq(Block)
        /\ \A c \in Block : in_stack'[c] <=> \E i \in DOMAIN stack' : stack'[i] = c
        /\ \A i, j \in DOMAIN stack' : i < j => dfn'[stack'[i]] < dfn'[stack'[j]]
    BY <1>0, <1>4, Pushed DEF SInv
  <2>2. calls' \in Seq(CallRec) /\ \A i, j \in DOMAIN calls' : i < j => dfn'[calls'[i].now] < dfn'[calls'[j].now]
    <3>1. [now |-> b, rest |-> Succs(next, b)] \in CallRec
      BY <1>1 DEF CallRec
    <3>2. calls' \in Seq(CallRec) /\ DOMAIN calls' = {1}
      BY <1>0, <3>1
    <3> QED
      BY <3>2
  <2> QED
    BY <2>1, <2>2 DEF Sequences
<1>7. Components'
  BY <1>0, <1>5, SameComponents DEF SInv, Core, Graph
<1> QED
  BY <1>5, <1>6, <1>7 DEF SInv

\* What the calls are when the last one has looked at b.
LEMMA LookedCalls ==
  ASSUME Core, Sequences, calls # <<>>, NEW b
  PROVE  /\ T!Looked(b) \in Seq(CallRec) /\ DOMAIN T!Looked(b) = DOMAIN calls
         /\ Len(T!Looked(b)) = Len(calls)
         /\ \A i \in DOMAIN calls : T!Looked(b)[i].now = calls[i].now
         /\ \A i \in DOMAIN calls \ {Len(calls)} : T!Looked(b)[i].rest = calls[i].rest
         /\ T!Looked(b)[Len(calls)].rest = T!rest \ {b}
<1> DEFINE L == Len(calls)
           D == [calls EXCEPT ![L] = [calls[L] EXCEPT !.rest = calls[L].rest \ {b}]]
<1>1. /\ L \in Nat \ {0} /\ DOMAIN calls = 1 .. L /\ \A i \in DOMAIN calls : calls[i] \in CallRec
      /\ T!rest = calls[L].rest /\ calls \in Seq(CallRec)
  BY Top DEF Sequences
<1>2. T!Looked(b) = D
  BY DEF T!Looked
<1>3. L \in DOMAIN calls /\ calls[L] \in CallRec
  BY <1>1
<1>4. /\ [calls[L] EXCEPT !.rest = calls[L].rest \ {b}] \in CallRec
      /\ [calls[L] EXCEPT !.rest = calls[L].rest \ {b}].now = calls[L].now
      /\ [calls[L] EXCEPT !.rest = calls[L].rest \ {b}].rest = calls[L].rest \ {b}
  BY <1>3 DEF CallRec
<1>5. D \in Seq(CallRec) /\ DOMAIN D = 1 .. L /\ Len(D) = L
  <2>1. D \in [1 .. L -> CallRec]
    BY <1>1, <1>4
  <2> QED
    BY <1>1, <2>1
<1>6. D[L].now = calls[L].now /\ D[L].rest = calls[L].rest \ {b} /\ \A i \in DOMAIN calls \ {L} : D[i] = calls[i]
  BY <1>3, <1>4
<1> QED
  BY <1>1, <1>2, <1>5, <1>6

LEMMA DescendInv ==
  ASSUME SInv, NEW b \in nodes, T!Descend(b)
  PROVE  SInv'
<1> DEFINE L == Len(calls)
           D == T!Looked(b)
           r == [now |-> b, rest |-> Succs(next, b)]
<1>0. /\ calls # <<>> /\ calls' = Append(D, r) /\ b \in T!rest
      /\ dfn' = [dfn EXCEPT ![b] = index_count] /\ low' = [low EXCEPT ![b] = index_count]
      /\ in_stack' = [in_stack EXCEPT ![b] = TRUE] /\ index_count' = index_count + 1
      /\ stack' = Append(stack, b) /\ ~ Numbered(b)
      /\ next' = next /\ nodes' = nodes /\ result' = result
  BY SameSuccs DEF T!Descend, T!Enter, Numbered
<1>1. b \in Block /\ Succs(next, b) \subseteq Block /\ r \in CallRec /\ r.now = b /\ r.rest = Succs(next, b)
  <2>1. b \in Block /\ Succs(next, b) \subseteq Block
    BY DEF SInv, Core, Graph, Succs
  <2> QED
    BY <2>1 DEF CallRec
<1>2. /\ L \in Nat \ {0} /\ DOMAIN calls = 1 .. L
      /\ T!now = calls[L].now /\ T!rest = calls[L].rest
      /\ T!now \in Active /\ \A h \in Active : dfn[h] <= dfn[T!now]
      /\ \A i \in DOMAIN calls : calls[i].now = T!now => i = L
      /\ \A c \in Block : <<T!now, c>> \in Left <=> c \in T!rest
  BY <1>0, Top DEF SInv
<1>3. /\ D \in Seq(CallRec) /\ DOMAIN D = DOMAIN calls /\ Len(D) = L
      /\ \A i \in DOMAIN calls : D[i].now = calls[i].now
      /\ \A i \in DOMAIN calls \ {L} : D[i].rest = calls[i].rest
      /\ D[L].rest = T!rest \ {b}
  BY <1>0, LookedCalls DEF SInv
<1> HIDE DEF D, r
<1>4. /\ calls' \in Seq(CallRec) /\ DOMAIN calls' = 1 .. L + 1 /\ calls'[L + 1] = r
      /\ \A i \in 1 .. L : calls'[i] = D[i]
  BY <1>0, <1>1, <1>2, <1>3
<1>5. /\ \A i \in 1 .. L : calls'[i].now = calls[i].now
      /\ \A i \in 1 .. L : i # L => calls'[i].rest = calls[i].rest
      /\ calls'[L].rest = calls[L].rest \ {b}
      /\ calls'[L + 1].now = b /\ calls'[L + 1].rest = Succs(next, b)
  <2>1. \A i \in 1 .. L : calls'[i].now = calls[i].now
    BY <1>2, <1>3, <1>4
  <2>2. \A i \in 1 .. L : i # L => calls'[i].rest = calls[i].rest
    BY <1>2, <1>3, <1>4
  <2>3. calls'[L].rest = calls[L].rest \ {b}
    <3>1. L \in 1 .. L
      BY <1>2
    <3>2. calls'[L] = D[L]
      BY <1>4, <3>1
    <3> QED
      BY <1>2, <1>3, <3>2
  <2> QED
    BY <1>1, <1>4, <2>1, <2>2, <2>3
<1>6. Active' = Active \cup {b}
  <2>1. \A i \in DOMAIN calls' : i \in 1 .. L \/ i = L + 1
    BY <1>2, <1>4
  <2>2. 1 .. L \subseteq DOMAIN calls' /\ L + 1 \in DOMAIN calls'
    BY <1>2, <1>4
  <2>3. \A i \in DOMAIN calls' : calls'[i].now \in Active \cup {b}
    BY <1>2, <1>5, <2>1 DEF Active
  <2>4. \A i \in DOMAIN calls : calls[i].now \in Active'
    BY <1>2, <1>5, <2>2 DEF Active
  <2>5. b \in Active'
    BY <1>5, <2>2 DEF Active
  <2> QED
    BY <2>3, <2>4, <2>5 DEF Active
<1>7. Left' = (Left \ {<<T!now, b>>}) \cup {<<b, c>> : c \in Succs(next, b)}
  <2>1. \A i \in DOMAIN calls' : i \in 1 .. L \/ i = L + 1
    BY <1>2, <1>4
  <2>2. 1 .. L \subseteq DOMAIN calls' /\ L + 1 \in DOMAIN calls' /\ L \in 1 .. L
    BY <1>2, <1>4
  <2>3. ASSUME NEW e \in Left' PROVE e \in (Left \ {<<T!now, b>>}) \cup {<<b, c>> : c \in Succs(next, b)}
    <3>1. PICK i \in DOMAIN calls' : e[1] = calls'[i].now /\ e[2] \in calls'[i].rest
      BY DEF Left
    <3>2. e \in Block \X Block /\ e = <<e[1], e[2]>>
      BY DEF Left
    <3>3. CASE i = L + 1
      BY <1>5, <3>1, <3>2, <3>3
    <3>4. CASE i \in 1 .. L /\ i # L
      <4>1. e[1] = calls[i].now /\ e[2] \in calls[i].rest /\ e[1] # T!now
        BY <1>2, <1>5, <3>1, <3>4
      <4> QED
        BY <1>2, <3>2, <3>4, <4>1 DEF Left
    <3>5. CASE i = L
      <4>1. e[1] = calls[L].now /\ e[2] \in calls[L].rest /\ e[2] # b
        BY <1>2, <1>5, <2>2, <3>1, <3>5
      <4> QED
        BY <1>2, <2>2, <3>2, <4>1 DEF Left
    <3> QED
      BY <2>1, <3>3, <3>4, <3>5
  <2>4. ASSUME NEW e \in Left, e # <<T!now, b>> PROVE e \in Left'
    <3>1. PICK i \in DOMAIN calls : e[1] = calls[i].now /\ e[2] \in calls[i].rest
      BY DEF Left
    <3>2. e \in Block \X Block /\ e = <<e[1], e[2]>>
      BY DEF Left
    <3>3. e[1] = calls'[i].now /\ e[2] \in calls'[i].rest
      <4>1. CASE i = L
        BY <1>2, <1>5, <2>4, <3>1, <3>2, <4>1
      <4>2. CASE i # L
        BY <1>2, <1>5, <3>1, <4>2
      <4> QED
        BY <4>1, <4>2
    <3> QED
      BY <1>2, <2>2, <3>2, <3>3 DEF Left
  <2>5. ASSUME NEW c \in Succs(next, b) PROVE <<b, c>> \in Left'
    BY <1>1, <1>5, <2>2 DEF Left
  <2> QED
    BY <2>3, <2>4, <2>5
<1>8. Enters(b)
  <2>1. <<T!now, b>> \in Left
    BY <1>0, <1>1, <1>2
  <2>2. <<T!now, b>> \in next
    BY <2>1 DEF SInv, Core, Marks
  <2> QED
    BY <1>0, <1>2, <1>6, <1>7, <2>2 DEF Enters
<1>9. Core' /\ \A c \in Block : Shut(c)' <=> Shut(c)
  BY <1>8, EnterCore DEF SInv
<1>10. Sequences'
  <2>1. /\ stack' \in Seq(Block)
        /\ \A c \in Block : in_stack'[c] <=> \E i \in DOMAIN stack' : stack'[i] = c
        /\ \A i, j \in DOMAIN stack' : i < j => dfn'[stack'[i]] < dfn'[stack'[j]]
    BY <1>0, <1>8, Pushed DEF SInv
  <2>2. \A i, j \in DOMAIN calls' : i < j => dfn'[calls'[i].now] < dfn'[calls'[j].now]
    <3>1. \A i \in 1 .. L : /\ dfn'[calls'[i].now] = dfn[calls[i].now]
                            /\ dfn[calls[i].now] < index_count
      <4> TAKE i \in 1 .. L
      <4>1. calls[i].now \in Active
        BY <1>2 DEF Active
      <4>2. calls[i].now \in Block /\ Numbered(calls[i].now) /\ calls[i].now # b /\ dfn[calls[i].now] < index_count
        BY <1>0, <4>1, Ranges DEF SInv
      <4> QED
        BY <1>0, <1>5, <4>2 DEF SInv, Core, Marks
    <3>2. dfn'[calls'[L + 1].now] = index_count
      BY <1>0, <1>1, <1>5 DEF SInv, Core, Marks
    <3>3. \A i, j \in 1 .. L : i < j => dfn[calls[i].now] < dfn[calls[j].now]
      BY <1>2 DEF SInv, Sequences
    <3> TAKE i, j \in DOMAIN calls'
    <3> HAVE i < j
    <3>4. i \in 1 .. L /\ (j \in 1 .. L \/ j = L + 1)
      BY <1>2, <1>4
    <3>5. CASE j = L + 1
      BY <3>1, <3>2, <3>4, <3>5
    <3>6. CASE j \in 1 .. L
      BY <3>1, <3>3, <3>4, <3>6
    <3> QED
      BY <3>4, <3>5, <3>6
  <2> QED
    BY <1>4, <2>1, <2>2 DEF Sequences
<1>11. Components'
  BY <1>0, <1>9, SameComponents DEF SInv, Core, Graph
<1> QED
  BY <1>9, <1>10, <1>11 DEF SInv

LEMMA LookInv ==
  ASSUME SInv, NEW b \in nodes, T!Look(b)
  PROVE  SInv'
<1> DEFINE L == Len(calls)
           D == T!Looked(b)
<1>2. /\ L \in Nat \ {0} /\ DOMAIN calls = 1 .. L
      /\ T!now = calls[L].now /\ T!rest = calls[L].rest
      /\ T!now \in Active /\ \A h \in Active : dfn[h] <= dfn[T!now]
      /\ \A i \in DOMAIN calls : calls[i].now = T!now => i = L
      /\ \A c \in Block : <<T!now, c>> \in Left <=> c \in T!rest
  BY Top DEF SInv, T!Look
<1>1. b \in Block /\ T!now \in Block /\ low[T!now] \in Int /\ dfn[b] \in Int
  <2>1. b \in Block
    BY DEF SInv, Core, Graph
  <2> QED
    BY <1>2, <2>1, Ranges DEF SInv
<1>0. /\ calls # <<>> /\ calls' = D /\ b \in T!rest /\ Numbered(b)
      /\ low' = [low EXCEPT ![T!now] = IF in_stack[b] THEN Least2(@, dfn[b]) ELSE @]
      /\ UNCHANGED <<next, nodes, dfn, in_stack, stack, index_count, result>>
  <2>1. T!Min({low[T!now], dfn[b]}) = Least2(low[T!now], dfn[b])
    BY <1>1, MinOfTwo
  <2> QED
    BY <2>1 DEF T!Look, T!Open, Numbered
<1>3. /\ D \in Seq(CallRec) /\ DOMAIN D = DOMAIN calls /\ Len(D) = L
      /\ \A i \in DOMAIN calls : D[i].now = calls[i].now
      /\ \A i \in DOMAIN calls \ {L} : D[i].rest = calls[i].rest
      /\ D[L].rest = T!rest \ {b}
  BY <1>0, LookedCalls DEF SInv
<1> HIDE DEF D
<1>6. Active' = Active
  BY <1>0, <1>3 DEF Active
<1>7. Left' = Left \ {<<T!now, b>>}
  <2>3. ASSUME NEW e \in Left' PROVE e \in Left \ {<<T!now, b>>}
    <3>1. PICK i \in DOMAIN calls : e[1] = D[i].now /\ e[2] \in D[i].rest
      BY <1>0, <1>3 DEF Left
    <3>2. e \in Block \X Block /\ e = <<e[1], e[2]>>
      BY DEF Left
    <3>3. CASE i = L
      <4>1. e[1] = calls[L].now /\ e[2] \in calls[L].rest /\ e[2] # b
        BY <1>2, <1>3, <3>1, <3>3
      <4> QED
        BY <3>2, <3>3, <4>1 DEF Left
    <3>4. CASE i # L
      <4>1. e[1] = calls[i].now /\ e[2] \in calls[i].rest /\ e[1] # T!now
        BY <1>2, <1>3, <3>1, <3>4
      <4> QED
        BY <3>2, <4>1 DEF Left
    <3> QED
      BY <3>3, <3>4
  <2>4. ASSUME NEW e \in Left, e # <<T!now, b>> PROVE e \in Left'
    <3>1. PICK i \in DOMAIN calls : e[1] = calls[i].now /\ e[2] \in calls[i].rest
      BY DEF Left
    <3>2. e \in Block \X Block /\ e = <<e[1], e[2]>>
      BY DEF Left
    <3>3. e[1] = D[i].now /\ e[2] \in D[i].rest
      <4>1. CASE i = L
        BY <1>2, <1>3, <2>4, <3>1, <3>2, <4>1
      <4>2. CASE i # L
        BY <1>3, <3>1, <4>2
      <4> QED
        BY <4>1, <4>2
    <3> QED
      BY <1>0, <1>3, <3>2, <3>3 DEF Left
  <2> QED
    BY <2>3, <2>4
<1>8. Looks(T!now, b)
  BY <1>0, <1>1, <1>2, <1>6, <1>7 DEF Looks
<1>9. Core' /\ \A c \in Block : Shut(c)' <=> Shut(c)
  BY <1>8, LookCore DEF SInv
<1>10. Sequences'
  <2>1. /\ stack' \in Seq(Block)
        /\ \A c \in Block : in_stack'[c] <=> \E i \in DOMAIN stack' : stack'[i] = c
        /\ \A i, j \in DOMAIN stack' : i < j => dfn'[stack'[i]] < dfn'[stack'[j]]
    BY <1>0 DEF SInv, Sequences
  <2>2. calls' \in Seq(CallRec)
    BY <1>0, <1>3
  <2>3. \A i, j \in DOMAIN calls' : i < j => dfn'[calls'[i].now] < dfn'[calls'[j].now]
    BY <1>0, <1>3 DEF SInv, Sequences
  <2> QED
    BY <2>1, <2>2, <2>3 DEF Sequences
<1>11. Components'
  BY <1>0, <1>9, SameComponents DEF SInv, Core, Graph
<1> QED
  BY <1>9, <1>10, <1>11 DEF SInv

\* The part of the stack from the current node on.
LEMMA Place ==
  ASSUME Core, Sequences, calls # <<>>
  PROVE  /\ T!Depth \in 1 .. Len(stack)
         /\ Above(T!now) = {stack[j] : j \in T!Depth .. Len(stack)}
<1> DEFINE n == Len(stack)
<1>1. n \in Nat /\ DOMAIN stack = 1 .. n /\ \A i \in 1 .. n : stack[i] \in Block
  BY DEF Sequences
<1>2. T!now \in Active
  BY Top
<1>3. T!now \in Block /\ in_stack[T!now]
  BY <1>2, Ranges
<1>4. \E j \in DOMAIN stack : stack[j] = T!now
  BY <1>3 DEF Sequences
<1>5. T!Depth \in DOMAIN stack /\ stack[T!Depth] = T!now
  BY <1>4 DEF T!Depth
<1> DEFINE d == T!Depth
<1> HIDE DEF d
<1>6. d \in 1 .. n /\ stack[d] = T!now
  BY <1>1, <1>5 DEF d
<1>7. \A i \in 1 .. n : /\ in_stack[stack[i]] /\ dfn[stack[i]] \in Int
                        /\ i < d => dfn[stack[i]] < dfn[T!now]
                        /\ d < i => dfn[T!now] < dfn[stack[i]]
  <2> TAKE i \in 1 .. n
  <2>1. in_stack[stack[i]] /\ dfn[stack[i]] \in Int
    BY <1>1, Ranges DEF Sequences
  <2>2. i < d => dfn[stack[i]] < dfn[stack[d]]
    BY <1>1, <1>6 DEF Sequences
  <2>3. d < i => dfn[stack[d]] < dfn[stack[i]]
    BY <1>1, <1>6 DEF Sequences
  <2> QED
    BY <1>6, <2>1, <2>2, <2>3
<1>8. ASSUME NEW b \in Above(T!now) PROVE \E j \in d .. n : stack[j] = b
  <2>1. b \in Block /\ in_stack[b] /\ dfn[b] >= dfn[T!now]
    BY <1>8 DEF Above
  <2>2. PICK j \in 1 .. n : stack[j] = b
    BY <1>1, <2>1 DEF Sequences
  <2>3. dfn[T!now] \in Int
    BY <1>3, Ranges
  <2>4. ~ (j < d)
    BY <1>7, <2>1, <2>2, <2>3
  <2> QED
    BY <1>1, <1>6, <2>2, <2>4
<1>9. ASSUME NEW j \in d .. n PROVE stack[j] \in Above(T!now)
  <2>1. j \in 1 .. n /\ (j = d \/ d < j)
    BY <1>1, <1>6
  <2>2. dfn[T!now] \in Int
    BY <1>3, Ranges
  <2>3. dfn[stack[j]] >= dfn[T!now]
    BY <1>6, <1>7, <2>1, <2>2
  <2> QED
    BY <1>1, <1>7, <2>1, <2>3 DEF Above
<1>10. Above(T!now) = {stack[j] : j \in d .. n}
  BY <1>8, <1>9
<1> QED
  BY <1>6, <1>10 DEF d

\* The calls below the last one.
LEMMA Caller ==
  ASSUME Core, Sequences, calls # <<>>, calls' = T!Front(calls)
  PROVE  /\ calls' \in Seq(CallRec) /\ DOMAIN calls' = 1 .. Len(calls) - 1
         /\ \A i \in DOMAIN calls' : i \in DOMAIN calls /\ i # Len(calls) /\ calls'[i] = calls[i]
         /\ Active' = Active \ {T!now}
         /\ T!rest = {} => Left' = Left
         /\ calls' = <<>> => Active' = {}
         /\ calls' # <<>> => /\ T!Last(calls').now \in Active \ {T!now}
                             /\ \A h \in Active \ {T!now} : dfn[h] <= dfn[T!Last(calls').now]
<1> DEFINE L == Len(calls)
<1>1. /\ L \in Nat \ {0} /\ DOMAIN calls = 1 .. L
      /\ \A i \in DOMAIN calls : calls[i] \in CallRec
      /\ T!now = calls[L].now /\ T!rest = calls[L].rest
      /\ T!now \in Active
      /\ \A i \in DOMAIN calls : calls[i].now = T!now => i = L
  BY Top
<1>2. calls' = SubSeq(calls, 1, L - 1)
  BY DEF T!Front
<1>3. /\ calls' \in Seq(CallRec) /\ Len(calls') = L - 1 /\ DOMAIN calls' = 1 .. L - 1
      /\ \A i \in 1 .. L - 1 : calls'[i] = calls[i]
  BY <1>1, <1>2 DEF Sequences
<1> HIDE DEF L
<1>d. L \in Nat \ {0} /\ DOMAIN calls = 1 .. L
  BY <1>1
<1>4. \A i \in 1 .. L - 1 : i \in DOMAIN calls /\ i # L
  BY <1>d
<1>5. \A i \in DOMAIN calls : i # L => i \in 1 .. L - 1
  BY <1>d
<1> USE DEF L
<1>6. Active' = Active \ {T!now}
  <2>1. \A i \in DOMAIN calls' : calls'[i].now \in Active \ {T!now}
    BY <1>1, <1>3, <1>4 DEF Active
  <2>2. \A i \in DOMAIN calls : calls[i].now # T!now => calls[i].now \in Active'
    <3> TAKE i \in DOMAIN calls
    <3> HAVE calls[i].now # T!now
    <3>1. i \in 1 .. L - 1
      BY <1>1, <1>5
    <3> QED
      BY <1>3, <3>1 DEF Active
  <2> QED
    BY <2>1, <2>2 DEF Active
<1>7. ASSUME T!rest = {} PROVE Left' = Left
  <2>1. ASSUME NEW e \in Left' PROVE e \in Left
    <3>1. PICK i \in DOMAIN calls' : e[1] = calls'[i].now /\ e[2] \in calls'[i].rest
      BY DEF Left
    <3>2. e \in Block \X Block
      BY DEF Left
    <3> QED
      BY <1>3, <1>4, <3>1, <3>2 DEF Left
  <2>2. ASSUME NEW e \in Left PROVE e \in Left'
    <3>1. PICK i \in DOMAIN calls : e[1] = calls[i].now /\ e[2] \in calls[i].rest
      BY DEF Left
    <3>2. e \in Block \X Block
      BY DEF Left
    <3>3. i # L
      BY <1>1, <1>7, <3>1
    <3> QED
      BY <1>3, <1>5, <3>1, <3>2, <3>3 DEF Left
  <2> QED
    BY <2>1, <2>2
<1>8. ASSUME calls' = <<>> PROVE Active' = {}
  BY <1>8 DEF Active
<1>9. ASSUME calls' # <<>>
      PROVE  /\ T!Last(calls').now \in Active \ {T!now}
             /\ \A h \in Active \ {T!now} : dfn[h] <= dfn[T!Last(calls').now]
  <2>1. L - 1 \in 1 .. L - 1
    BY <1>1, <1>3, <1>9
  <2>2. T!Last(calls') = calls[L - 1]
    BY <1>3, <2>1 DEF T!Last
  <2>3. calls[L - 1].now \in Active \ {T!now}
    BY <1>1, <1>4, <2>1 DEF Active
  <2>4. \A i \in 1 .. L - 1 : dfn[calls[i].now] <= dfn[calls[L - 1].now]
    <3> TAKE i \in 1 .. L - 1
    <3>1. i < L - 1 => dfn[calls[i].now] < dfn[calls[L - 1].now]
      BY <1>4, <2>1 DEF Sequences
    <3>2. calls[i].now \in Active /\ calls[L - 1].now \in Active
      BY <1>4, <2>1 DEF Active
    <3>3. dfn[calls[i].now] \in Int /\ dfn[calls[L - 1].now] \in Int
      BY <3>2, Ranges
    <3> QED
      BY <1>1, <3>1, <3>3
  <2>5. \A h \in Active \ {T!now} : \E i \in 1 .. L - 1 : h = calls[i].now
    BY <1>1, <1>5 DEF Active
  <2> QED
    BY <2>2, <2>3, <2>4, <2>5
<1> QED
  BY <1>3, <1>4, <1>6, <1>7, <1>8, <1>9

LEMMA ReturnInv ==
  ASSUME SInv, T!Return
  PROVE  SInv'
<1> DEFINE p == T!now
           from == IF dfn[p] = low[p] THEN T!Depth ELSE Len(stack) + 1
           K == {stack[j] : j \in from .. Len(stack)}
           n == Len(stack)
<1>0. /\ calls # <<>> /\ T!rest = {} /\ calls' = T!Front(calls)
      /\ stack' = SubSeq(stack, 1, from - 1)
      /\ in_stack' = [b \in Block |-> in_stack[b] /\ b \notin K]
      /\ result' = result \cup {C \in {K} : T!HasCycle(C)}
      /\ calls' = <<>> => low' = low
      /\ calls' # <<>> => low' = [low EXCEPT ![T!Last(calls').now] = T!Min({@, low[p]})]
      /\ UNCHANGED <<next, nodes, dfn, index_count>>
  BY DEF T!Return
<1>c. Core /\ Sequences /\ Components
  BY DEF SInv
<1>1. /\ p \in Active /\ \A h \in Active : dfn[h] <= dfn[p]
      /\ \A c \in Block : <<p, c>> \in Left <=> c \in T!rest
      /\ Len(calls) \in Nat \ {0} /\ DOMAIN calls = 1 .. Len(calls)
  BY <1>0, <1>c, Top
<1>2. /\ T!Depth \in 1 .. n /\ Above(p) = {stack[j] : j \in T!Depth .. n}
      /\ n \in Nat /\ DOMAIN stack = 1 .. n /\ stack \in Seq(Block)
  BY <1>0, <1>c, Place DEF Sequences
<1>3. from \in 1 .. n + 1 /\ K = IF dfn[p] = low[p] THEN Above(p) ELSE {}
  BY <1>2
<1>4. /\ calls' \in Seq(CallRec) /\ DOMAIN calls' = 1 .. Len(calls) - 1
      /\ \A i \in DOMAIN calls' : i \in DOMAIN calls /\ i # Len(calls) /\ calls'[i] = calls[i]
      /\ Active' = Active \ {p} /\ Left' = Left
      /\ calls' = <<>> => Active' = {}
      /\ calls' # <<>> => /\ T!Last(calls').now \in Active \ {p}
                          /\ \A h \in Active \ {p} : dfn[h] <= dfn[T!Last(calls').now]
  BY <1>0, <1>c, Caller
<1> HIDE DEF p
<1>5. p \in Block /\ low[p] \in Int /\ \A h \in Active : low[h] \in Int
  BY <1>1, <1>c, Ranges
<1>6. \/ Active' = {} /\ low' = low
      \/ \E q \in Active \ {p} : /\ \A h \in Active \ {p} : dfn[h] <= dfn[q]
                                 /\ low' = [low EXCEPT ![q] = Least2(@, low[p])]
  <2>1. CASE calls' = <<>>
    BY <1>0, <1>4, <2>1
  <2>2. CASE calls' # <<>>
    <3> DEFINE q == T!Last(calls').now
    <3>1. q \in Active \ {p} /\ \A h \in Active \ {p} : dfn[h] <= dfn[q]
      BY <1>4, <2>2
    <3>2. low' = [low EXCEPT ![q] = T!Min({low[q], low[p]})]
      BY <1>0, <2>2
    <3> HIDE DEF q
    <3>3. T!Min({low[q], low[p]}) = Least2(low[q], low[p])
      BY <1>5, <3>1, MinOfTwo
    <3> QED
      BY <3>1, <3>2, <3>3
  <2> QED
    BY <2>1, <2>2
<1> HIDE DEF from, K
<1>7. Done(p)
  BY <1>0, <1>1 DEF Done
<1>8. Returns(p, K)
  BY <1>0, <1>3, <1>4, <1>6, <1>7 DEF Returns
<1>9. Core'
  BY <1>8, <1>c, CloseCore, LeaveCore
<1>10. Sequences'
  <2>1. /\ stack' \in Seq(Block) /\ DOMAIN stack' = 1 .. from - 1
        /\ \A i \in 1 .. from - 1 : i \in 1 .. n /\ stack'[i] = stack[i]
    <3>1. from - 1 \in 0 .. n
      BY <1>2, <1>3
    <3> DEFINE m == from - 1
    <3> HIDE DEF m
    <3>2. m \in 0 .. n /\ stack' = SubSeq(stack, 1, m)
      BY <1>0, <3>1 DEF m
    <3>3. /\ stack' \in Seq(Block) /\ DOMAIN stack' = 1 .. m
          /\ \A i \in 1 .. m : i \in 1 .. n /\ stack'[i] = stack[i]
      BY <1>2, <3>2
    <3> QED
      BY <3>3 DEF m
  <2>2. \A b \in Block : in_stack'[b] <=> \E i \in DOMAIN stack' : stack'[i] = b
    <3> TAKE b \in Block
    <3>1. in_stack'[b] <=> in_stack[b] /\ b \notin K
      BY <1>0
    <3>2. in_stack[b] <=> \E i \in 1 .. n : stack[i] = b
      BY <1>2, <1>c DEF Sequences
    <3>3. ASSUME NEW i \in 1 .. n, NEW j \in 1 .. n, stack[i] = stack[j] PROVE i = j
      <4>1. dfn[stack[i]] \in Int
        BY <1>2, <1>c, Ranges
      <4>2. i < j => dfn[stack[i]] < dfn[stack[j]]
        BY <1>2, <1>c DEF Sequences
      <4>3. j < i => dfn[stack[j]] < dfn[stack[i]]
        BY <1>2, <1>c DEF Sequences
      <4> QED
        BY <1>2, <3>3, <4>1, <4>2, <4>3
    <3>4. ASSUME in_stack[b], b \notin K PROVE \E i \in 1 .. from - 1 : stack[i] = b
      <4>1. PICK i \in 1 .. n : stack[i] = b
        BY <3>2, <3>4
      <4>2. i \notin from .. n
        BY <3>4, <4>1 DEF K
      <4> QED
        BY <1>2, <1>3, <4>1, <4>2
    <3>5. ASSUME NEW i \in 1 .. from - 1, stack[i] = b PROVE in_stack[b] /\ b \notin K
      <4>1. i \in 1 .. n
        BY <2>1
      <4>2. \A j \in from .. n : j \in 1 .. n /\ i # j
        BY <1>2, <1>3
      <4>3. \A j \in from .. n : stack[j] # b
        BY <3>3, <3>5, <4>1, <4>2
      <4> QED
        BY <3>2, <3>5, <4>1, <4>3 DEF K
    <3> QED
      BY <2>1, <3>1, <3>4, <3>5
  <2>3. \A i, j \in DOMAIN stack' : i < j => dfn'[stack'[i]] < dfn'[stack'[j]]
    BY <1>0, <1>2, <1>c, <2>1 DEF Sequences
  <2>4. \A i, j \in DOMAIN calls' : i < j => dfn'[calls'[i].now] < dfn'[calls'[j].now]
    BY <1>0, <1>4, <1>c DEF Sequences
  <2> QED
    BY <1>4, <2>1, <2>2, <2>3, <2>4 DEF Sequences
<1>11. Components'
  <2>1. CASE dfn[p] # low[p]
    <3>1. K = {} /\ \A c \in Block : Shut(c)' <=> Shut(c)
      BY <1>8, <1>c, <2>1, LeaveCore
    <3>2. result' = result
      BY <1>0, <3>1, NoCycleInNothing
    <3> QED
      BY <1>0, <1>c, <3>1, <3>2, SameComponents DEF Core, Graph
  <2>2. CASE dfn[p] = low[p]
    <3>1. K = Above(p) /\ \A c \in Block : Shut(c)' <=> Shut(c) \/ c \in K
      BY <1>8, <1>c, <2>2, CloseCore
    <3>2. \A b \in K : Comp(b) = K /\ b \in nodes
      <4>1. \A b \in Above(p) : Comp(b) = Above(p)
        BY <1>7, <1>c, <2>2, ClosedIsComponent
      <4>2. \A b \in Above(p) : b \in nodes
        BY <1>c, Ranges DEF Above
      <4> QED
        BY <3>1, <4>1, <4>2
    <3>3. p \in K
      <4>1. in_stack[p] /\ dfn[p] \in Int
        BY <1>1, <1>c, Ranges
      <4> QED
        BY <1>5, <3>1, <4>1 DEF Above
    <3>4. \A b \in K : T!HasCycle(K) <=> OnCycle(b)
      <4>1. \A b \in K : T!HasCycle(Comp(b)) <=> OnCycle(b)
        BY <1>c, <3>2, CycleFound DEF Core
      <4> QED
        BY <3>2, <4>1
    <3>5. \A c \in nodes : Comp(c)' = Comp(c) /\ (OnCycle(c)' <=> OnCycle(c)) /\ c \in Block
      BY <1>0, <1>c DEF Comp, OnCycle, From, Core, Graph
    <3>6. result = {Comp(b) : b \in {c \in nodes : Shut(c) /\ OnCycle(c)}}
      BY <1>c DEF Components
    <3>7. {Comp(b)' : b \in {c \in nodes' : Shut(c)' /\ OnCycle(c)'}}
            = {Comp(b) : b \in {c \in nodes : (Shut(c) \/ c \in K) /\ OnCycle(c)}}
      <4>1. {c \in nodes' : Shut(c)' /\ OnCycle(c)'} = {c \in nodes : (Shut(c) \/ c \in K) /\ OnCycle(c)}
        BY <1>0, <3>1, <3>5
      <4> QED
        BY <3>5, <4>1
    <3>8. {Comp(b) : b \in {c \in nodes : (Shut(c) \/ c \in K) /\ OnCycle(c)}}
            = result \cup {C \in {K} : T!HasCycle(C)}
      BY <3>2, <3>3, <3>4, <3>6
    <3>9. result' = {Comp(b)' : b \in {c \in nodes' : Shut(c)' /\ OnCycle(c)'}}
      BY <1>0, <3>7, <3>8
    <3> QED
      BY <3>9 DEF Components
  <2> QED
    BY <2>1, <2>2
<1> QED
  BY <1>9, <1>10, <1>11 DEF SInv

\* Any step of the search.
LEMMA StepInv == SInv /\ T!Next => SInv'
<1> SUFFICES ASSUME SInv, T!Next PROVE SInv'
  OBVIOUS
<1>1. CASE T!Return
  BY <1>1, ReturnInv
<1>2. ASSUME NEW b \in nodes, T!Root(b) \/ T!Descend(b) \/ T!Look(b) PROVE SInv'
  BY <1>2, RootInv, DescendInv, LookInv
<1> QED
  BY <1>1, <1>2 DEF T!Next

\* A search that has come to its end has found what the definition names.
LEMMA Found ==
  ASSUME SInv, T!Finished
  PROVE  result = Cycles(next, nodes)
<1>1. Active = {}
  BY DEF T!Finished, Active
<1>2. \A b \in nodes : b \in Block /\ Numbered(b)
  BY DEF T!Finished, Numbered, SInv, Core, Graph
<1>3. \A b \in Block : ~ in_stack[b]
  BY <1>1 DEF SInv, Core, Spine
<1>4. {c \in nodes : Shut(c) /\ OnCycle(c)} = {c \in nodes : OnCycle(c)}
  BY <1>2, <1>3 DEF Shut
<1> QED
  BY <1>4 DEF SInv, Components, Cycles, Comp, OnCycle, From

-----------------------------------------------------------------------------
(***************************************************************************)
(* The rounds of the loop search.  Between two searches the marks are as   *)
(* they were first; what a round takes out of the graph leaves no edge out *)
(* of the nodes, since their edges are in pre as well as in next.          *)
(***************************************************************************)
Idle ==
  /\ dfn = T!Fresh /\ low = T!Fresh /\ in_stack = [b \in Block |-> FALSE]
  /\ stack = <<>> /\ index_count = 0 /\ calls = <<>> /\ result = {}

Mirrored == \A e \in next : e[1] \in nodes => e \in pre

SearchInv ==
  /\ Graph /\ Mirrored
  /\ sccs # {} => Idle
  /\ sccs = {} /\ stage = "loops" => SInv

LEMMA IdleIsSearch == Graph /\ Idle => SInv
<1> SUFFICES ASSUME Graph, Idle PROVE SInv
  OBVIOUS
<1>1. Active = {} /\ Left = {}
  BY DEF Idle, Active, Left
<1>2. \A b \in Block : dfn[b] = -1 /\ ~ in_stack[b]
  BY DEF Idle, T!Fresh
<1>3. Marks
  BY <1>1, <1>2 DEF Idle, T!Fresh, Marks, Numbered
<1>4. Sequences
  BY <1>2 DEF Idle, Sequences
<1>5. Edges /\ Spine /\ Lows
  BY <1>2 DEF Edges, Spine, Lows, Looked, Shut, Numbered
<1>6. \A b \in nodes : ~ Shut(b)
  BY <1>2 DEF Shut, Numbered, Graph
<1>7. Components
  BY <1>6 DEF Components, Idle
<1> QED
  BY <1>3, <1>4, <1>5, <1>7 DEF SInv, Core

LEMMA InitSearch == Init => SearchInv
<1> SUFFICES ASSUME Init PROVE SearchInv
  OBVIOUS
<1>1. /\ cfg \in LS!F!Programs(Block, Entry)
      /\ nodes = LS!F!Reach(cfg, {Entry}) /\ next = cfg /\ pre = cfg /\ sccs = {}
  BY DEF Init, LS!Init
<1>2. cfg \subseteq Block \X Block
  <2>1. cfg \in LS!F!Graphs(Block, Entry)
    BY <1>1 DEF LS!F!Programs
  <2>2. PICK x \in [Block -> SUBSET Block] : cfg = UNION {{<<b, c>> : c \in x[b]} : b \in Block}
    BY <2>1 DEF LS!F!Graphs
  <2> QED
    BY <2>2
<1>3. Least(Block, cfg, {Entry}, Reach(cfg, {Entry}))
  <2>1. IsFiniteSet(Block \X Block)
    BY FS_Product, BlockAssumption
  <2>2. IsFiniteSet(cfg)
    BY <1>2, <2>1, FS_Subset
  <2> QED
    BY <1>2, <2>2, ReachIsLeast, BlockAssumption
<1>4. nodes = Reach(cfg, {Entry})
  BY <1>1 DEF LS!F!Reach, Reach, LS!F!Cardinality, Cardinality
<1>5. Graph
  BY <1>1, <1>2, <1>3, <1>4, BlockAssumption DEF Graph, Least
<1>6. Mirrored
  BY <1>1 DEF Mirrored
<1>7. Idle
  BY DEF Init, T!Init, Idle
<1> QED
  BY <1>1, <1>5, <1>6, <1>7, IdleIsSearch DEF SearchInv

\* A base that is taken out.
LEMMA RecordGraph ==
  ASSUME Graph, Mirrored, NEW scc, LS!Record(scc)
  PROVE  Graph' /\ Mirrored'
<1>1. PICK base : /\ nodes' = nodes \ {base}
                  /\ pre' = LS!PreWithout(base) /\ next' = LS!NextWithout(base)
  BY DEF LS!Record
<1>2. pre' \subseteq pre /\ \A e \in pre : e[1] # base => e \in pre'
  BY <1>1 DEF LS!PreWithout
<1>3. next' \subseteq next
  BY <1>1 DEF LS!NextWithout
<1>4. ASSUME NEW e \in next', e[1] \in nodes' PROVE e[2] # base /\ e \in pre'
  <2>1. e \in next /\ e[1] \in nodes /\ e[1] # base /\ e = <<e[1], e[2]>>
    BY <1>1, <1>3, <1>4 DEF Graph
  <2>2. e \in pre'
    BY <1>2, <2>1 DEF Mirrored
  <2>3. ASSUME e[2] = base PROVE FALSE
    <3>1. e[1] \in LS!F!Preds(LS!PreWithout(base), base)
      BY <1>1, <2>2, <2>3 DEF LS!F!Preds
    <3>2. <<e[1], base>> \notin next'
      BY <1>1, <3>1 DEF LS!NextWithout
    <3> QED
      BY <2>1, <2>3, <3>2
  <2> QED
    BY <2>2, <2>3
<1>5. Graph'
  BY <1>1, <1>3, <1>4 DEF Graph
<1>6. Mirrored'
  BY <1>4 DEF Mirrored
<1> QED
  BY <1>5, <1>6

\* What EndSearch and SearchAtOnce do.
LEMMA FindsInv ==
  ASSUME SearchInv, Finds(Cycles(next, nodes))
  PROVE  SearchInv' /\ [LS!Next]_<<cfg, search>>
<1> DEFINE found == Cycles(next, nodes)
<1>1. /\ sccs = {} /\ T!Reset /\ sccs' = found
      /\ stage' = IF found = {} THEN "order" ELSE "loops"
      /\ UNCHANGED <<cfg, nodes, next, pre, reserved, base2loop, bb2base>>
  BY DEF Finds, Goes
<1>2. found = LS!F!Cycles(next, nodes)
  BY SameCycles
<1> HIDE DEF found
<1>3. Graph' /\ Mirrored'
  BY <1>1 DEF SearchInv, Graph, Mirrored
<1>4. Idle'
  BY <1>1 DEF T!Reset, Idle
<1>5. SearchInv'
  <2>1. ~ (sccs' = {} /\ stage' = "loops")
    BY <1>1
  <2> QED
    BY <1>3, <1>4, <2>1 DEF SearchInv
<1>6. CASE found = {}
  BY <1>1, <1>5, <1>6 DEF search
<1>7. CASE found # {}
  BY <1>1, <1>2, <1>5, <1>7 DEF LS!Next, LS!Round
<1> QED
  BY <1>6, <1>7

LEMMA NextSearch == SearchInv /\ [Next]_vars => SearchInv' /\ [LS!Next]_<<cfg, search>>
<1> SUFFICES ASSUME SearchInv, [Next]_vars PROVE SearchInv' /\ [LS!Next]_<<cfg, search>>
  OBVIOUS
<1>1. CASE Search
  <2>1. SInv /\ T!Next /\ UNCHANGED <<stage, cfg, search>> /\ sccs = {}
    BY <1>1 DEF Search, Goes, SearchInv
  <2>2. SInv' /\ sccs' = {}
    BY <2>1, StepInv DEF search
  <2>3. Mirrored'
    BY <2>1 DEF SearchInv, Mirrored, search
  <2> QED
    BY <2>1, <2>2, <2>3 DEF SearchInv, SInv, Core
<1>2. CASE EndSearch
  <2>1. SInv /\ T!Finished /\ Finds(result)
    BY <1>2 DEF EndSearch, Finds, SearchInv
  <2> QED
    BY <2>1, Found, FindsInv
<1>3. CASE SearchAtOnce
  BY <1>3, SameCycles, FindsInv DEF SearchAtOnce
<1>4. CASE Record
  <2>1. PICK scc \in sccs : LS!Record(scc)
    BY <1>4 DEF Record
  <2>2. Graph' /\ Mirrored'
    BY <2>1, RecordGraph DEF SearchInv
  <2>3. Idle'
    BY <1>4, <2>1 DEF Record, SearchInv, Idle, traverse
  <2>4. SInv'
    <3>1. Graph' /\ Idle'
      BY <2>2, <2>3
    <3>2. (Graph /\ Idle => SInv)'
      BY IdleIsSearch, PTL
    <3> QED
      BY <3>1, <3>2
  <2>5. LS!Next
    BY <2>1 DEF LS!Next
  <2> QED
    BY <2>2, <2>3, <2>4, <2>5 DEF SearchInv
<1>5. ASSUME UNCHANGED <<search, traverse, cfg>>, stage' # "loops" \/ stage' = stage
      PROVE  SearchInv' /\ [LS!Next]_<<cfg, search>>
  <2>1. /\ UNCHANGED <<nodes, next, pre, sccs, dfn, low, in_stack, stack, index_count, calls, result>>
        /\ UNCHANGED <<cfg, search>>
    BY <1>5 DEF search, traverse
  <2>2. Graph' /\ Mirrored' /\ (Idle' <=> Idle)
    BY <2>1 DEF SearchInv, Graph, Mirrored, Idle
  <2>3. SInv => SInv'
    <3>1. Active' = Active /\ Left' = Left
      BY <2>1 DEF Active, Left
    <3>2. Core => Core'
      <4>1. \A b \in Block : (Numbered(b)' <=> Numbered(b)) /\ (Shut(b)' <=> Shut(b)) /\ From(b)' = From(b)
        BY <2>1 DEF Numbered, Shut, From
      <4>2. \A b, c \in Block : (Looked(b, c)' <=> Looked(b, c)) /\ (Owns(b, c)' <=> Owns(b, c))
        BY <2>1, <3>1, <4>1 DEF Looked, Owns
      <4>3. Marks => Marks'
        BY <2>1, <3>1, <4>1 DEF Marks
      <4>4. Edges => Edges'
        BY <2>1, <4>1, <4>2 DEF Edges
      <4>5. Marks /\ Spine => Spine'
        BY <2>1, <3>1, <4>1 DEF Marks, Spine
      <4>6. Lows => Lows'
        BY <2>1, <4>1, <4>2 DEF Lows
      <4> QED
        BY <2>2, <4>3, <4>4, <4>5, <4>6 DEF Core
    <3>3. Sequences => Sequences'
      BY <2>1 DEF Sequences
    <3>4. Components => Components'
      BY <2>1 DEF Components, Comp, OnCycle, Shut, Numbered, From
    <3> QED
      BY <3>2, <3>3, <3>4 DEF SInv
  <2> QED
    BY <1>5, <2>1, <2>2, <2>3 DEF SearchInv
<1>6. CASE Order
  <2>1. UNCHANGED cfg
    BY <1>6 DEF Order, LO!Start, LO!Next, LO!Return, LO!Recurse, LO!Push
  <2> QED
    BY <1>5, <1>6, <2>1 DEF Order
<1>7. CASE Number
  BY <1>5, <1>7 DEF Number
<1>8. CASE Intervals
  BY <1>5, <1>8 DEF Intervals
<1>9. CASE UNCHANGED vars
  BY <1>5, <1>9 DEF vars
<1> QED
  BY <1>1, <1>2, <1>3, <1>4, <1>6, <1>7, <1>8, <1>9 DEF Next

\* For every set of blocks, every reducible program on them, every order in which the
\* sets of pointers are walked and every choice of the bases: the search by numbers and
\* low links, with its one set of marks that each round clears, finds in each round the
\* strongly connected components that the paths of the remaining graph define.
THEOREM SearchIsCorrect == Spec => SearchSpec
<1>1. Init => SearchInv
  BY InitSearch
<1>2. SearchInv /\ [Next]_vars => SearchInv'
  BY NextSearch
<1>3. SearchInv /\ [Next]_vars => [LS!Next]_<<cfg, search>>
  BY NextSearch
<1> QED
  BY <1>1, <1>2, <1>3, PTL DEF Spec, SearchSpec

-----------------------------------------------------------------------------
(***************************************************************************)
(* The loops that the rounds name.  A search is now what LoopSearch says.  *)
(***************************************************************************)
LoopOf(d) == NaturalLoop(cfg, Entry, d)

\* What is left of the graph: the blocks but the bases, and the edges among them in
\* both structures; those out of a base leave pre.
Remaining ==
  /\ nodes = Reach(cfg, {Entry}) \ reserved /\ reserved \subseteq Block
  /\ next \subseteq cfg /\ \A e \in cfg : e[2] \notin reserved => e \in next
  /\ pre \subseteq cfg /\ \A e \in cfg : e[2] \notin reserved => (e \in pre <=> e[1] \notin reserved)

\* The bases are headers, and the loops around a base were found before it.
Recorded ==
  /\ DOMAIN base2loop = reserved
  /\ \A d \in reserved : d \in Headers(cfg, Entry) /\ base2loop[d] = LoopOf(d)
  /\ \A d \in Headers(cfg, Entry) : LoopOf(d) \cap reserved # {} => d \in reserved

\* A block that was in a loop has the innermost of those that are found.
Innermost ==
  /\ \A b \in DOMAIN bb2base :
       /\ bb2base[b] \in reserved /\ b \in LoopOf(bb2base[b])
       /\ \A d \in reserved : b \in LoopOf(d) => LoopOf(bb2base[b]) \subseteq LoopOf(d)
  /\ \A d \in reserved : LoopOf(d) \subseteq DOMAIN bb2base

\* What one search finds: a set that holds a cycle and all that belongs to it.
Cyclic(C) ==
  /\ C \subseteq nodes /\ C # {} /\ Strong(cfg, C)
  /\ \E e \in cfg : e[1] \in C /\ e[2] \in C
  /\ \A M \in SUBSET nodes : Strong(cfg, M) /\ M \cap C # {} => M \subseteq C

RoundInv ==
  /\ Rooted(Block, cfg, Entry) /\ Reducible(cfg, Entry)
  /\ Remaining /\ Recorded /\ Innermost
  /\ \A C \in sccs : Cyclic(C)

LEMMA SameFlow ==
  /\ \A E, X : LS!F!Reach(E, X) = Reach(E, X)
  /\ \A E, b : LS!F!Succs(E, b) = Succs(E, b) /\ LS!F!Preds(E, b) = Preds(E, b)
  /\ \A E, r : LS!F!Reducible(E, r) = Reducible(E, r) /\ LS!F!Headers(E, r) = Headers(E, r)
  /\ \A E, r, h : LS!F!NaturalLoop(E, r, h) = NaturalLoop(E, r, h)
<1>1. \A E, X : LS!F!Reach(E, X) = Reach(E, X)
  BY DEF LS!F!Reach, Reach, LS!F!Cardinality, Cardinality
<1>2. \A E, b : LS!F!Succs(E, b) = Succs(E, b) /\ LS!F!Preds(E, b) = Preds(E, b)
  BY DEF LS!F!Succs, Succs, LS!F!Preds, Preds
<1>3. \A E, a : LS!F!Without(E, a) = Without(E, a)
  BY DEF LS!F!Without, Without
<1>4. \A E, r, a, b : LS!F!Dominates(E, r, a, b) = Dominates(E, r, a, b)
  BY <1>1, <1>3 DEF LS!F!Dominates, Dominates
<1>5. \A E, r : LS!F!BackEdges(E, r) = BackEdges(E, r)
  BY <1>4 DEF LS!F!BackEdges, BackEdges
<1>6. \A E : LS!F!Acyclic(E) = Acyclic(E)
  BY <1>1 DEF LS!F!Acyclic, Acyclic
<1>7. \A E, r : LS!F!Reducible(E, r) = Reducible(E, r) /\ LS!F!Headers(E, r) = Headers(E, r)
  BY <1>5, <1>6 DEF LS!F!Reducible, Reducible, LS!F!Headers, Headers
<1>8. \A E, r, h : LS!F!NaturalLoop(E, r, h) = NaturalLoop(E, r, h)
  BY <1>1, <1>3, <1>5 DEF LS!F!NaturalLoop, NaturalLoop
<1> QED
  BY <1>1, <1>2, <1>7, <1>8

LEMMA HeaderReached ==
  ASSUME Rooted(Block, cfg, Entry), NEW d \in Headers(cfg, Entry)
  PROVE  d \in Reach(cfg, {Entry}) /\ d \in Block
         /\ \E e \in cfg : e[1] \in LoopOf(d) /\ e[2] = d
<1>1. PICK e \in cfg : e[2] = d /\ Dominates(cfg, Entry, d, e[1])
  BY DEF Headers, BackEdges
<1>2. Least(Block, cfg, {Entry}, Reach(cfg, {Entry})) /\ e[1] \in Reach(cfg, {Entry})
  BY Avoided DEF Rooted
<1>3. d \in Reach(cfg, {Entry}) /\ d \in Block
  BY <1>1, <1>2 DEF Least
<1>4. e[1] \in LoopOf(d)
  BY <1>1, <1>3, LoopEntry DEF LoopOf
<1> QED
  BY <1>1, <1>3, <1>4

\* A block is on a cycle if one of its edges leads back to it.
LEMMA CycleEdge ==
  ASSUME Graph, NEW b \in nodes
  PROVE  OnCycle(b) <=> \E c \in Block : <<b, c>> \in next /\ b \in From(c)
<1> DEFINE R == Reach(next, Succs(next, b))
<1>0. /\ b \in Block /\ Succs(next, b) \in SUBSET Block /\ IsFiniteSet(Block) /\ next \subseteq Block \X Block
      /\ \A c \in Block : c \in Succs(next, b) <=> <<b, c>> \in next
  BY DEF Graph, Succs
<1>1. Least(Block, next, Succs(next, b), R)
  BY <1>0, Ways
<1> HIDE DEF R
<1>2. ASSUME NEW c \in Block, <<b, c>> \in next, b \in From(c) PROVE b \in R
  <2>1. R \in SUBSET Block /\ c \in R /\ \A e \in next : e[1] \in R => e[2] \in R
    BY <1>0, <1>1, <1>2 DEF Least
  <2>2. From(c) \subseteq R
    BY <2>1, Paths
  <2> QED
    BY <1>2, <2>2
<1>3. ASSUME b \in R PROVE \E c \in Block : <<b, c>> \in next /\ b \in From(c)
  <2> DEFINE S == {x \in Block : \E c \in Succs(next, b) : x \in From(c)}
  <2>1. Succs(next, b) \subseteq S
    BY <1>0, Paths
  <2>2. \A e \in next : e[1] \in S => e[2] \in S
    <3> TAKE e \in next
    <3> HAVE e[1] \in S
    <3>1. PICK c \in Succs(next, b) : e[1] \in From(c)
      OBVIOUS
    <3>2. c \in Block /\ e[2] \in Block
      BY <1>0
    <3> QED
      BY <3>1, <3>2, Paths
  <2>3. S \in SUBSET Block
    OBVIOUS
  <2> HIDE DEF S
  <2>4. R \subseteq S
    BY <1>1, <2>1, <2>2, <2>3 DEF Least
  <2> QED
    BY <1>0, <1>3, <2>4 DEF S
<1> QED
  BY <1>2, <1>3 DEF R, OnCycle

\* What the definition of the components names is cyclic.
LEMMA FoundCyclic ==
  ASSUME Graph, Remaining, NEW C \in Cycles(next, nodes)
  PROVE  Cyclic(C)
<1>1. PICK b \in nodes : OnCycle(b) /\ C = Comp(b)
  BY DEF Cycles, Comp, OnCycle, From
<1>0. /\ b \in Block /\ b \in From(b) /\ b \in C /\ C \subseteq nodes /\ C \subseteq Block
      /\ \A c \in C : c \in From(b) /\ b \in From(c)
      /\ \A c \in nodes : c \in From(b) /\ b \in From(c) => c \in C
  BY <1>1, Paths DEF Comp, Graph
<1>2. \A e \in cfg : e[2] \in nodes => e \in next
  BY DEF Remaining
<1>3. next \subseteq cfg /\ \A e \in next : e[1] \in Block /\ e[2] \in Block /\ (e[1] \in nodes => e[2] \in nodes)
  BY DEF Remaining, Graph
<1>4. ASSUME NEW S \in SUBSET C, S # {}, \A e \in cfg : e[1] \in S /\ e[2] \in C => e[2] \in S
      PROVE  S = C
  <2> SUFFICES ASSUME NEW y \in C PROVE y \in S
    OBVIOUS
  <2>1. PICK x \in S : TRUE
    BY <1>4
  <2> DEFINE Z == {z \in From(b) : z \in S \/ b \notin From(z)}
  <2>2. Z \in SUBSET Block /\ x \in Z /\ x \in Block
    BY <1>0, Paths
  <2>3. \A e \in next : e[1] \in Z => e[2] \in Z
    <3> TAKE e \in next
    <3> HAVE e[1] \in Z
    <3>1. e[1] \in Block /\ e[2] \in Block /\ e[2] \in From(b) /\ e[2] \in From(e[1])
      <4>1. e[1] \in Block /\ e[2] \in Block /\ e[1] \in From(b)
        BY <1>3
      <4> QED
        BY <1>0, <4>1, Paths
    <3> SUFFICES ASSUME b \in From(e[2]) PROVE e[2] \in S
      BY <3>1
    <3>2. b \in From(e[1])
      BY <3>1, PathOn
    <3>3. e[1] \in S /\ e[1] \in nodes /\ e \in cfg
      BY <1>0, <1>3, <3>2
    <3>4. e[2] \in nodes
      BY <1>3, <3>3
    <3>5. e[2] \in C
      BY <1>0, <3>1, <3>4
    <3> QED
      BY <1>4, <3>3, <3>5
  <2>4. y \in From(x)
    <3>1. b \in From(x) /\ y \in From(b)
      BY <1>0
    <3> QED
      BY <2>2, <3>1, PathOn
  <2> HIDE DEF Z
  <2>5. From(x) \subseteq Z
    BY <2>2, <2>3, Paths
  <2>6. y \in Z
    BY <2>4, <2>5
  <2> QED
    BY <1>0, <2>6 DEF Z
<1>5. \E e \in cfg : e[1] \in C /\ e[2] \in C
  <2>1. PICK c \in Block : <<b, c>> \in next /\ b \in From(c)
    BY <1>1, CycleEdge
  <2>2. c \in nodes
    BY <1>3, <2>1
  <2>3. c \in From(b)
    BY <1>0, <2>1, Paths
  <2>4. c \in C
    BY <1>0, <2>1, <2>2, <2>3
  <2> QED
    BY <1>0, <1>3, <2>1, <2>4
<1>6. ASSUME NEW M \in SUBSET nodes, Strong(cfg, M), M \cap C # {} PROVE M \subseteq C
  <2>1. PICK z \in M : z \in C
    BY <1>6
  <2>2. M \subseteq Block
    BY DEF Graph
  <2>3. \A x \in M : M \subseteq From(x)
    <3> TAKE x \in M
    <3> DEFINE Z == M \cap From(x)
    <3>1. x \in Block /\ x \in Z
      BY <2>2, Paths
    <3>2. \A e \in cfg : e[1] \in Z /\ e[2] \in M => e[2] \in Z
      <4> TAKE e \in cfg
      <4> HAVE e[1] \in Z /\ e[2] \in M
      <4>1. e \in next
        BY <1>2
      <4> QED
        BY <3>1, <4>1, Paths
    <3>3. Z \in SUBSET M /\ Z # {}
      BY <3>1
    <3> HIDE DEF Z
    <3>4. Z = M
      BY <1>6, <3>2, <3>3 DEF Strong
    <3> QED
      BY <3>4 DEF Z
  <2> SUFFICES ASSUME NEW y \in M PROVE y \in C
    OBVIOUS
  <2>4. y \in From(z) /\ z \in From(y) /\ z \in From(b) /\ b \in From(z) /\ y \in Block /\ z \in Block
    BY <1>0, <2>1, <2>2, <2>3
  <2>5. y \in From(b) /\ b \in From(y)
    BY <1>0, <2>4, PathOn
  <2> QED
    BY <1>0, <2>5
<1>7. Strong(cfg, C)
  BY <1>4 DEF Strong
<1> QED
  BY <1>0, <1>5, <1>6, <1>7 DEF Cyclic

\* It is the loop of a header, and this header is the base that is found for it.
LEMMA CyclicIsLoop ==
  ASSUME RoundInv, NEW C, Cyclic(C)
  PROVE  \E h \in C : /\ h \in Headers(cfg, Entry) /\ C = LoopOf(h)
                      /\ \A b \in LS!LoopBase(C) : b = h
<1> DEFINE V == Reach(cfg, {Entry})
<1>0. /\ Rooted(Block, cfg, Entry) /\ Reducible(cfg, Entry) /\ Least(Block, cfg, {Entry}, V)
      /\ C \subseteq V /\ C \cap reserved = {} /\ C # {} /\ Strong(cfg, C)
  <2>1. Rooted(Block, cfg, Entry) /\ Reducible(cfg, Entry) /\ nodes = V \ reserved
    BY DEF RoundInv, Remaining
  <2> QED
    BY <2>1, Avoided DEF Cyclic
<1>1. C \in SUBSET Block
  BY <1>0 DEF Least
<1>2. PICK h \in C : \A c \in C : Dominates(cfg, Entry, h, c)
  BY <1>0, <1>1, Header
<1>3. \E e \in cfg : e[1] \in C /\ e[2] = h
  <2> SUFFICES ASSUME \A e \in cfg : e[1] \in C => e[2] # h PROVE FALSE
    OBVIOUS
  <2> DEFINE S == C \ {h}
  <2>1. S \in SUBSET C /\ S # C /\ \A e \in cfg : e[1] \in S /\ e[2] \in C => e[2] \in S
    OBVIOUS
  <2>2. S = {}
    <3> HIDE DEF S
    <3> QED
      BY <1>0, <2>1 DEF Strong
  <2>3. PICK e \in cfg : e[1] \in C /\ e[2] \in C
    BY DEF Cyclic
  <2> QED
    BY <2>2, <2>3
<1>4. h \in Headers(cfg, Entry)
  BY <1>2, <1>3 DEF Headers, BackEdges
<1>5. C \subseteq LoopOf(h)
  BY <1>0, <1>2, LoopWhole DEF LoopOf
<1>6. /\ h \in LoopOf(h) /\ LoopOf(h) \subseteq V /\ Strong(cfg, LoopOf(h))
      /\ \A e \in cfg : e[2] \in LoopOf(h) /\ e[2] # h => e[1] \in LoopOf(h)
  <2>1. h \in V
    BY <1>0
  <2> QED
    BY <1>0, <2>1, LoopEntry, LoopStrong DEF LoopOf
<1>7. LoopOf(h) \subseteq C
  <2>1. LoopOf(h) \cap reserved = {}
    BY <1>0, <1>4 DEF RoundInv, Recorded
  <2>2. LoopOf(h) \in SUBSET nodes
    BY <1>6, <2>1 DEF RoundInv, Remaining
  <2>3. LoopOf(h) \cap C # {}
    BY <1>6
  <2> QED
    BY <1>6, <2>2, <2>3 DEF Cyclic
<1>8. ASSUME NEW b \in LS!LoopBase(C) PROVE b = h
  <2> SUFFICES ASSUME b # h PROVE FALSE
    OBVIOUS
  <2>1. b \in C
    BY DEF LS!LoopBase, LS!Entered
  <2>2. \A e \in cfg : e[2] = b => e[1] \in C
    BY <1>5, <1>6, <1>7, <2>1
  <2>3. \A x : <<x, b>> \in cfg => x \in C
    BY <2>2
  <2>4. pre \subseteq cfg /\ next \subseteq cfg /\ cfg \subseteq Block \X Block
    BY <1>0 DEF RoundInv, Remaining, Rooted
  <2>5. LS!F!Preds(pre, b) \subseteq C
    BY <2>2, <2>4 DEF LS!F!Preds
  <2>6. b \notin LS!Entered(C)
    BY <2>5 DEF LS!Entered
  <2>7. PICK x \in reserved : b \in LS!F!Succs(next, x)
    BY <2>6 DEF LS!LoopBase
  <2>8. x \in C
    BY <2>2, <2>4, <2>7 DEF LS!F!Succs
  <2> QED
    BY <1>0, <2>8
<1> QED
  BY <1>4, <1>5, <1>7, <1>8

LEMMA InitRound == Init => RoundInv
<1> SUFFICES ASSUME Init PROVE RoundInv
  OBVIOUS
<1> DEFINE V == Reach(cfg, {Entry})
<1>1. /\ cfg \in LS!F!Programs(Block, Entry) /\ LS!F!Reducible(cfg, Entry)
      /\ nodes = LS!F!Reach(cfg, {Entry}) /\ next = cfg /\ pre = cfg
      /\ sccs = {} /\ reserved = {} /\ base2loop = <<>> /\ bb2base = <<>>
  BY DEF Init, LS!Init
<1>2. nodes = V /\ Reducible(cfg, Entry)
  BY <1>1, SameFlow
<1>3. cfg \subseteq Block \X Block
  BY <1>1, InitSearch DEF SearchInv, Graph
<1>4. \A e \in cfg : e[1] \in V
  BY <1>1, SameFlow DEF LS!F!Programs
<1>5. Rooted(Block, cfg, Entry)
  BY <1>3, <1>4, BlockAssumption DEF Rooted
<1>6. Remaining
  BY <1>1, <1>2 DEF Remaining
<1>7. DOMAIN base2loop = {} /\ DOMAIN bb2base = {}
  BY <1>1
<1>8. Recorded /\ Innermost
  BY <1>1, <1>7 DEF Recorded, Innermost
<1> QED
  BY <1>1, <1>2, <1>5, <1>6, <1>8 DEF RoundInv

\* A loop that is recorded is one of those that lie innermost so far.
LEMMA RecordInv ==
  ASSUME RoundInv, NEW scc \in sccs, LS!Record(scc)
  PROVE  RoundInv'
<1> DEFINE V == Reach(cfg, {Entry})
<1>1. PICK h \in scc : /\ h \in Headers(cfg, Entry) /\ scc = LoopOf(h)
                       /\ \A b \in LS!LoopBase(scc) : b = h
  BY CyclicIsLoop DEF RoundInv
<1>2. /\ sccs' = sccs \ {scc} /\ cfg' = cfg
      /\ base2loop' = [b \in DOMAIN base2loop \cup {h} |->
                         IF b \in DOMAIN base2loop THEN base2loop[b] ELSE scc]
      /\ bb2base' = LS!Rebased(scc, h)
      /\ reserved' = reserved \cup {h} /\ nodes' = nodes \ {h}
      /\ pre' = LS!PreWithout(h) /\ next' = LS!NextWithout(h)
  BY <1>1 DEF LS!Record
<1>c. Cyclic(scc) /\ \A C \in sccs : Cyclic(C)
  BY DEF RoundInv
<1>3. /\ Rooted(Block, cfg, Entry) /\ Reducible(cfg, Entry)
      /\ Remaining /\ Recorded /\ Innermost
  BY DEF RoundInv
<1>4. /\ scc \subseteq nodes /\ h \in nodes /\ h \notin reserved /\ scc \cap reserved = {}
      /\ scc \subseteq V /\ h \in V /\ h \in Block /\ Strong(cfg, scc) /\ nodes = V \ reserved
  <2>1. scc \subseteq nodes /\ nodes = V \ reserved /\ Strong(cfg, scc)
    BY <1>c, <1>3 DEF Cyclic, Remaining
  <2>2. h \in Block
    BY <1>1, <1>3, HeaderReached
  <2> QED
    BY <1>1, <2>1, <2>2
<1>5. \A d : LoopOf(d)' = LoopOf(d)
  BY <1>2 DEF LoopOf
<1>6. Remaining'
  <2>1. nodes' = Reach(cfg', {Entry}) \ reserved' /\ reserved' \subseteq Block
    BY <1>2, <1>3, <1>4 DEF Remaining
  <2>2. cfg \subseteq Block \X Block /\ next \subseteq cfg /\ pre \subseteq cfg
    BY <1>3 DEF Remaining, Rooted
  <2>3. next' \subseteq cfg /\ \A e \in cfg : e[2] \notin reserved' => e \in next'
    <3>1. next' \subseteq next /\ \A e \in next : e[2] # h => e \in next'
      BY <1>2 DEF LS!NextWithout
    <3> QED
      BY <1>2, <1>3, <2>2, <3>1 DEF Remaining
  <2>4. pre' \subseteq pre /\ \A e \in pre : e[1] # h => e \in pre'
    BY <1>2 DEF LS!PreWithout
  <2>5. ASSUME NEW e \in cfg, e[2] \notin reserved' PROVE e \in pre' <=> e[1] \notin reserved'
    <3>1. e[2] \notin reserved /\ e \in next /\ e = <<e[1], e[2]>> /\ (e \in pre <=> e[1] \notin reserved)
      BY <1>2, <1>3, <2>2, <2>5 DEF Remaining
    <3>2. CASE e[1] = h
      <4>1. e[2] \in LS!F!Succs(next, h)
        BY <3>1, <3>2 DEF LS!F!Succs
      <4>2. <<h, e[2]>> \notin pre'
        BY <1>2, <4>1 DEF LS!PreWithout
      <4> QED
        BY <1>2, <3>1, <3>2, <4>2
    <3>3. CASE e[1] # h
      BY <1>2, <2>4, <3>1, <3>3
    <3> QED
      BY <3>2, <3>3
  <2> QED
    BY <1>2, <2>1, <2>2, <2>3, <2>4, <2>5 DEF Remaining
<1>7. Recorded'
  <2>1. DOMAIN base2loop = reserved
    BY <1>3 DEF Recorded
  <2>2. DOMAIN base2loop' = reserved' /\ base2loop'[h] = LoopOf(h) /\ \A d \in reserved : base2loop'[d] = base2loop[d]
    BY <1>1, <1>2, <1>4, <2>1
  <2>3. \A d \in reserved' : d \in Headers(cfg, Entry) /\ base2loop'[d] = LoopOf(d)
    BY <1>1, <1>2, <1>3, <2>2 DEF Recorded
  <2>4. ASSUME NEW d \in Headers(cfg, Entry), d \notin reserved, h \in LoopOf(d) PROVE d = h
    <3>1. d \in V
      BY <1>3, HeaderReached
    <3>2. /\ d \in LoopOf(d) /\ LoopOf(d) \subseteq V /\ Dominates(cfg, Entry, d, h) /\ Strong(cfg, LoopOf(d))
      BY <1>3, <2>4, <3>1, LoopEntry, LoopStrong DEF LoopOf
    <3>3. LoopOf(d) \cap reserved = {}
      BY <1>3, <2>4 DEF Recorded
    <3>4. LoopOf(d) \subseteq nodes
      BY <1>4, <3>2, <3>3
    <3>5. LoopOf(d) \subseteq scc
      BY <1>1, <1>c, <2>4, <3>2, <3>4 DEF Cyclic
    <3>6. d \in LoopOf(h)
      BY <1>1, <3>2, <3>5
    <3>7. Dominates(cfg, Entry, h, d)
      BY <1>3, <1>4, <3>6, LoopEntry DEF LoopOf
    <3> QED
      BY <1>3, <1>4, <3>2, <3>7, DominatesOneWay
  <2>5. \A d \in Headers(cfg, Entry) : LoopOf(d) \cap reserved' # {} => d \in reserved'
    <3> TAKE d \in Headers(cfg, Entry)
    <3>1. CASE LoopOf(d) \cap reserved # {}
      BY <1>2, <1>3, <3>1 DEF Recorded
    <3>2. CASE h \in LoopOf(d)
      BY <1>2, <2>4, <3>2
    <3> QED
      BY <1>2, <3>1, <3>2
  <2> QED
    BY <1>2, <1>5, <2>2, <2>3, <2>5 DEF Recorded
<1>8. Innermost'
  <2>1. /\ DOMAIN bb2base' = DOMAIN bb2base \cup scc
        /\ \A b \in scc : bb2base'[b] = h
        /\ \A b \in DOMAIN bb2base \ scc : bb2base'[b] = bb2base[b]
    BY <1>2 DEF LS!Rebased
  <2>2. ASSUME NEW b \in DOMAIN bb2base'
        PROVE  /\ bb2base'[b] \in reserved' /\ b \in LoopOf(bb2base'[b])
               /\ \A d \in reserved' : b \in LoopOf(d) => LoopOf(bb2base'[b]) \subseteq LoopOf(d)
    <3>1. CASE b \in scc
      <4>1. ASSUME NEW d \in reserved, b \in LoopOf(d) PROVE scc \subseteq LoopOf(d)
        <5>1. d \in V /\ d \notin scc
          BY <1>3, <1>4, HeaderReached DEF Recorded
        <5> QED
          BY <1>3, <1>4, <3>1, <4>1, <5>1, LoopInside DEF LoopOf
      <4> QED
        BY <1>1, <1>2, <2>1, <3>1, <4>1
    <3>2. CASE b \notin scc
      <4>1. b \in DOMAIN bb2base /\ bb2base'[b] = bb2base[b] /\ b \notin LoopOf(h)
        BY <1>1, <2>1, <2>2, <3>2
      <4> QED
        BY <1>2, <1>3, <4>1 DEF Innermost
    <3> QED
      BY <3>1, <3>2
  <2>3. \A d \in reserved' : LoopOf(d) \subseteq DOMAIN bb2base'
    BY <1>1, <1>2, <1>3, <2>1 DEF Innermost
  <2> QED
    BY <1>5, <2>2, <2>3 DEF Innermost
<1>9. ASSUME NEW C \in sccs' PROVE Cyclic(C)'
  <2>1. C \in sccs /\ C # scc /\ Cyclic(C)
    BY <1>2, <1>c
  <2>2. C \cap scc = {}
    <3> SUFFICES ASSUME C \cap scc # {} PROVE FALSE
      OBVIOUS
    <3>1. C \subseteq scc /\ scc \subseteq C
      BY <1>c, <2>1 DEF Cyclic
    <3> QED
      BY <2>1, <3>1
  <2> QED
    BY <1>1, <1>2, <2>1, <2>2 DEF Cyclic
<1> QED
  BY <1>2, <1>3, <1>6, <1>7, <1>8, <1>9 DEF RoundInv

LEMMA RoundStep ==
  ASSUME RoundInv, Graph, [LS!Next]_<<cfg, search>>
  PROVE  RoundInv'
<1>1. CASE LS!Round
  <2>1. /\ sccs' = Cycles(next, nodes)
        /\ UNCHANGED <<cfg, nodes, next, pre, reserved, base2loop, bb2base>>
    BY <1>1, SameCycles DEF LS!Round
  <2>2. \A C \in sccs' : Cyclic(C)
    BY <2>1, FoundCyclic DEF RoundInv
  <2>3. \A C : Cyclic(C)' <=> Cyclic(C)
    BY <2>1 DEF Cyclic
  <2>4. Remaining' /\ Recorded' /\ Innermost'
    BY <2>1 DEF RoundInv, Remaining, Recorded, Innermost, LoopOf
  <2> QED
    BY <2>1, <2>2, <2>3, <2>4 DEF RoundInv
<1>2. CASE \E scc \in sccs : LS!Record(scc)
  BY <1>2, RecordInv
<1>3. CASE UNCHANGED <<cfg, search>>
  <2>1. UNCHANGED <<cfg, nodes, next, pre, sccs, reserved, base2loop, bb2base>>
    BY <1>3 DEF search
  <2>2. \A C : Cyclic(C)' <=> Cyclic(C)
    BY <2>1 DEF Cyclic
  <2>3. Remaining' /\ Recorded' /\ Innermost'
    BY <2>1 DEF RoundInv, Remaining, Recorded, Innermost, LoopOf
  <2> QED
    BY <2>1, <2>2, <2>3 DEF RoundInv
<1> QED
  BY <1>1, <1>2, <1>3 DEF LS!Next

\* When nothing cyclic is left, no header is.
LEMMA NoneLeft ==
  ASSUME RoundInv, Graph, Cycles(next, nodes) = {}
  PROVE  Headers(cfg, Entry) \subseteq reserved
<1> SUFFICES ASSUME NEW h \in Headers(cfg, Entry), h \notin reserved PROVE FALSE
  OBVIOUS
<1> DEFINE V == Reach(cfg, {Entry})
           L == LoopOf(h)
<1>1. Rooted(Block, cfg, Entry) /\ nodes = V \ reserved /\ \A e \in cfg : e[2] \in nodes => e \in next
  BY DEF RoundInv, Remaining
<1>2. h \in V /\ h \in Block /\ \E e \in cfg : e[1] \in L /\ e[2] = h
  BY <1>1, HeaderReached
<1>3. h \in L /\ L \subseteq V /\ Strong(cfg, L)
  BY <1>1, <1>2, LoopEntry, LoopStrong DEF LoopOf
<1>4. L \cap reserved = {}
  BY DEF RoundInv, Recorded
<1>5. L \subseteq nodes /\ L \subseteq Block
  BY <1>1, <1>3, <1>4 DEF Graph
<1> HIDE DEF L
<1>6. \A c \in L : h \in From(c)
  <2> TAKE c \in L
  <2> DEFINE Z == L \cap From(c)
  <2>1. c \in Block /\ c \in Z
    BY <1>5, Paths
  <2>2. \A e \in cfg : e[1] \in Z /\ e[2] \in L => e[2] \in Z
    <3> TAKE e \in cfg
    <3> HAVE e[1] \in Z /\ e[2] \in L
    <3>1. e \in next
      BY <1>1, <1>5
    <3> QED
      BY <2>1, <3>1, Paths
  <2>3. Z \in SUBSET L /\ Z # {}
    BY <2>1
  <2> HIDE DEF Z
  <2>4. Z = L
    BY <1>3, <2>2, <2>3 DEF Strong
  <2> QED
    BY <1>3, <2>4 DEF Z
<1>7. \E c \in L : <<h, c>> \in cfg
  <2> SUFFICES ASSUME \A c \in L : <<h, c>> \notin cfg PROVE FALSE
    OBVIOUS
  <2>1. \A e \in cfg : e = <<e[1], e[2]>>
    BY <1>1 DEF Rooted
  <2>2. \A e \in cfg : e[1] \in {h} /\ e[2] \in L => e[2] \in {h}
    BY <2>1
  <2>3. {h} = L
    BY <1>3, <2>2 DEF Strong
  <2> QED
    BY <1>2, <2>1, <2>3
<1>8. PICK c \in L : <<h, c>> \in cfg
  BY <1>7
<1>9. h \in nodes /\ c \in Block /\ <<h, c>> \in next /\ h \in From(c)
  BY <1>1, <1>3, <1>5, <1>6, <1>8
<1>10. OnCycle(h)
  BY <1>9, CycleEdge
<1>11. Comp(h) \in Cycles(next, nodes)
  BY <1>9, <1>10 DEF Cycles, Comp, OnCycle, From
<1> QED
  BY <1>11

\* The search is over when nothing is left to record, and every header was.
Ended == stage # "loops" => sccs = {} /\ Headers(cfg, Entry) \subseteq reserved

LoopInv == SearchInv /\ RoundInv /\ Ended

LEMMA LoopStep == LoopInv /\ [Next]_vars => LoopInv'
<1> SUFFICES ASSUME LoopInv, [Next]_vars PROVE LoopInv'
  OBVIOUS
<1>1. SearchInv /\ RoundInv /\ Ended /\ Graph
  BY DEF LoopInv, SearchInv
<1>2. SearchInv' /\ [LS!Next]_<<cfg, search>>
  BY <1>1, NextSearch
<1>3. RoundInv'
  BY <1>1, <1>2, RoundStep
<1>4. ASSUME Finds(Cycles(next, nodes)) PROVE Ended'
  <2>1. /\ sccs' = Cycles(next, nodes) /\ stage' = IF sccs' = {} THEN "order" ELSE "loops"
        /\ UNCHANGED <<cfg, reserved>>
    BY <1>4 DEF Finds, Goes
  <2>2. CASE Cycles(next, nodes) = {}
    <3>1. Headers(cfg, Entry) \subseteq reserved
      BY <1>1, <2>2, NoneLeft
    <3> QED
      BY <2>1, <2>2, <3>1 DEF Ended
  <2>3. CASE Cycles(next, nodes) # {}
    BY <2>1, <2>3 DEF Ended
  <2> QED
    BY <2>2, <2>3
<1>5. ASSUME UNCHANGED <<cfg, search>>, stage # "loops" \/ stage' = stage
      PROVE  Ended'
  BY <1>1, <1>5 DEF Ended, search
<1>6. Ended'
  <2>1. CASE Search
    BY <2>1 DEF Search, Goes, Ended
  <2>2. CASE EndSearch
    <3>1. SInv /\ T!Finished /\ Finds(result)
      BY <1>1, <2>2 DEF EndSearch, Finds, SearchInv
    <3>2. result = Cycles(next, nodes)
      BY <3>1, Found
    <3> QED
      BY <1>4, <3>1, <3>2
  <2>3. CASE SearchAtOnce
    BY <1>4, <2>3, SameCycles DEF SearchAtOnce
  <2>4. CASE Record
    BY <2>4 DEF Record, Goes, Ended
  <2>5. CASE Order
    <3>1. UNCHANGED cfg
      BY <2>5 DEF Order, LO!Start, LO!Next, LO!Return, LO!Recurse, LO!Push
    <3> QED
      BY <1>5, <2>5, <3>1 DEF Order
  <2>6. CASE Number
    BY <1>5, <2>6 DEF Number
  <2>7. CASE Intervals
    BY <1>5, <2>7 DEF Intervals
  <2>8. CASE UNCHANGED vars
    BY <1>5, <2>8 DEF vars
  <2> QED
    BY <2>1, <2>2, <2>3, <2>4, <2>5, <2>6, <2>7, <2>8 DEF Next
<1> QED
  BY <1>2, <1>3, <1>6 DEF LoopInv

LEMMA LoopInvHolds == Spec => []LoopInv
<1>1. Init => LoopInv
  BY InitSearch, InitRound DEF Init, Ended, LoopInv
<1>2. LoopInv /\ [Next]_vars => LoopInv'
  BY LoopStep
<1> QED
  BY <1>1, <1>2, PTL DEF Spec

LEMMA AreNatural == LoopInv => LoopsAreNatural
<1> SUFFICES ASSUME LoopInv PROVE LoopsAreNatural
  OBVIOUS
<1>1. Recorded /\ Ended
  BY DEF LoopInv, RoundInv
<1>2. LS!LoopsAreNatural
  BY <1>1, SameFlow DEF LS!LoopsAreNatural, Recorded, LoopOf
<1>3. stage # "loops" => LS!EveryLoopFound
  BY <1>1, SameFlow DEF LS!EveryLoopFound, Recorded, Ended
<1> QED
  BY <1>2, <1>3 DEF LoopsAreNatural

\* The parent of a loop is looked for at a block outside it that leads to its base: a loop
\* around the base holds that block, for it can only be entered over its own base.
LEMMA AreInnermost == LoopInv => InnermostBase
<1> SUFFICES ASSUME LoopInv PROVE LS!InnermostBase /\ LS!ParentIsNoStranger
  BY DEF InnermostBase
<1>1. /\ DOMAIN base2loop = reserved
      /\ \A d \in reserved : d \in Headers(cfg, Entry) /\ base2loop[d] = LoopOf(d)
  BY DEF LoopInv, RoundInv, Recorded
<1>2. /\ \A b \in DOMAIN bb2base :
           /\ bb2base[b] \in reserved /\ b \in LoopOf(bb2base[b])
           /\ \A d \in reserved : b \in LoopOf(d) => LoopOf(bb2base[b]) \subseteq LoopOf(d)
      /\ \A d \in reserved : LoopOf(d) \subseteq DOMAIN bb2base
  BY DEF LoopInv, RoundInv, Innermost
<1>3. \A b, L : L \in LS!Around(b) <=> \E d \in reserved : L = LoopOf(d) /\ b \in LoopOf(d)
  BY <1>1 DEF LS!Around
<1>4. LS!InnermostBase
  <2> SUFFICES ASSUME NEW b \in Block
               PROVE  /\ (b \in DOMAIN bb2base) <=> LS!Around(b) # {}
                      /\ \A L \in LS!Around(b) : LS!InnerLoop(b) \subseteq L
    BY DEF LS!InnermostBase
  <2>1. b \in DOMAIN bb2base => LoopOf(bb2base[b]) \in LS!Around(b)
    BY <1>2, <1>3
  <2>2. LS!Around(b) # {} => b \in DOMAIN bb2base
    BY <1>2, <1>3
  <2>3. \A L \in LS!Around(b) : LS!InnerLoop(b) \subseteq L
    BY <1>1, <1>2, <1>3 DEF LS!InnerLoop
  <2> QED
    BY <2>1, <2>2, <2>3
<1>5. LS!ParentIsNoStranger
  <2> SUFFICES ASSUME NEW b \in reserved, NEW P \in LS!ParentLoops(b) \ {{}}
               PROVE  P \in LS!Enclosing(b) /\ \A L \in LS!Enclosing(b) : P \subseteq L
    BY <1>1 DEF LS!ParentIsNoStranger
  <2>1. PICK p \in Preds(cfg, b) \ base2loop[b] : P = LS!InnerLoop(p) /\ b \in P
    BY SameFlow DEF LS!ParentLoops
  <2>2. /\ p \in DOMAIN bb2base /\ bb2base[p] \in reserved
        /\ P = LoopOf(bb2base[p]) /\ p \in P /\ b \in P
    BY <1>1, <1>2, <2>1 DEF LS!InnerLoop
  <2>3. P \in LS!Enclosing(b)
    BY <1>3, <2>1, <2>2 DEF LS!Enclosing
  <2>4. PICK e \in cfg : e[1] = p /\ e[2] = b
    BY <2>1 DEF Preds
  <2>5. ASSUME NEW L \in LS!Enclosing(b) PROVE P \subseteq L
    <3>1. PICK d \in reserved : L = LoopOf(d) /\ b \in LoopOf(d) /\ d # b
      BY <1>1, <1>3, <2>5 DEF LS!Enclosing
    <3>2. Rooted(Block, cfg, Entry) /\ d \in Headers(cfg, Entry)
      BY <1>1 DEF LoopInv, RoundInv
    <3>3. d \in Reach(cfg, {Entry})
      BY <3>2, HeaderReached
    <3>4. p \in LoopOf(d)
      BY <2>4, <3>1, <3>2, <3>3, LoopEntry DEF LoopOf
    <3> QED
      BY <1>2, <2>2, <3>1, <3>4
  <2> QED
    BY <2>3, <2>5
<1> QED
  BY <1>4, <1>5

\* For every set of blocks, every reducible program on them, and whatever order the sets
\* of pointers are walked in: a loop is recorded under its header and holds the blocks of
\* the natural loop, and when the search is over every loop was recorded.
THEOREM LoopsFound == Spec => []LoopsAreNatural
BY LoopInvHolds, AreNatural, PTL

\* Then bb2base names the innermost loop of every block that is in one, and what
\* get_parent_loop returns is the innermost of the loops around the given one, or nothing.
THEOREM InnermostFound == Spec => []InnermostBase
BY LoopInvHolds, AreInnermost, PTL

-----------------------------------------------------------------------------
(***************************************************************************)
(* Loops of a reducible graph, as the order of the blocks needs them.      *)
(***************************************************************************)
LoopsKnown ==
  /\ Rooted(Block, cfg, Entry) /\ Reducible(cfg, Entry) /\ \A e \in cfg : e[2] # Entry
  /\ DOMAIN base2loop = Headers(cfg, Entry)
  /\ \A h \in Headers(cfg, Entry) : base2loop[h] = LoopOf(h)

LEMMA SameGraph ==
  /\ \A E, X : LO!F!Reach(E, X) = Reach(E, X)
  /\ \A E, b : LO!F!Succs(E, b) = Succs(E, b) /\ LO!F!Preds(E, b) = Preds(E, b)
  /\ \A E, r : LO!F!BackEdges(E, r) = BackEdges(E, r)
<1>1. \A E, X : LO!F!Reach(E, X) = Reach(E, X)
  BY DEF LO!F!Reach, Reach, LO!F!Cardinality, Cardinality
<1>2. \A E, b : LO!F!Succs(E, b) = Succs(E, b) /\ LO!F!Preds(E, b) = Preds(E, b)
  BY DEF LO!F!Succs, Succs, LO!F!Preds, Preds
<1>3. \A E, r, a, b : LO!F!Dominates(E, r, a, b) = Dominates(E, r, a, b)
  BY <1>1 DEF LO!F!Dominates, Dominates, LO!F!Without, Without
<1>4. \A E, r : LO!F!BackEdges(E, r) = BackEdges(E, r)
  BY <1>3 DEF LO!F!BackEdges, BackEdges
<1> QED
  BY <1>1, <1>2, <1>4

LEMMA AboutLoops ==
  ASSUME LoopsKnown, NEW h \in Headers(cfg, Entry)
  PROVE  /\ h \in Block /\ h # Entry /\ h \in LoopOf(h) /\ Entry \notin LoopOf(h)
         /\ LoopOf(h) \subseteq Reach(cfg, {Entry}) /\ Strong(cfg, LoopOf(h))
         /\ \A b \in LoopOf(h) : Dominates(cfg, Entry, h, b)
         /\ \A e \in cfg : e[2] \in LoopOf(h) /\ e[2] # h => e[1] \in LoopOf(h)
         /\ \A e \in cfg : e[2] = h => (Dominates(cfg, Entry, h, e[1]) <=> e[1] \in LoopOf(h))
<1> DEFINE L == LoopOf(h)
<1>1. Rooted(Block, cfg, Entry) /\ \A e \in cfg : e[2] # Entry
  BY DEF LoopsKnown
<1>2. h \in Reach(cfg, {Entry}) /\ h \in Block /\ \E e \in cfg : e[1] \in L /\ e[2] = h
  BY <1>1, HeaderReached
<1>3. /\ h \in L /\ L \subseteq Reach(cfg, {Entry}) /\ \A b \in L : Dominates(cfg, Entry, h, b)
      /\ \A e \in cfg : e[2] \in L /\ (e[2] # h \/ Dominates(cfg, Entry, h, e[1])) => e[1] \in L
  BY <1>1, <1>2, LoopEntry DEF LoopOf
<1>4. Strong(cfg, L)
  BY <1>1, <1>2, LoopStrong DEF LoopOf
<1> HIDE DEF L
<1>5. Entry \notin L
  <2> DEFINE Z == L \ {Entry}
  <2>1. Z \in SUBSET L /\ Z # {} /\ \A e \in cfg : e[1] \in Z /\ e[2] \in L => e[2] \in Z
    BY <1>1, <1>2, <1>3
  <2> HIDE DEF Z
  <2>2. Z = L
    BY <1>4, <2>1 DEF Strong
  <2> QED
    BY <2>2 DEF Z
<1>6. h # Entry
  BY <1>1, <1>2
<1>7. \A e \in cfg : e[2] = h => (Dominates(cfg, Entry, h, e[1]) <=> e[1] \in L)
  BY <1>3
<1> QED
  BY <1>2, <1>3, <1>4, <1>5, <1>6, <1>7 DEF L

\* What is reached is reached from outside its own loop.
LEMMA Forward ==
  ASSUME LoopsKnown, NEW x \in Reach(cfg, {Entry}), x # Entry
  PROVE  \E e \in cfg : e[2] = x /\ ~ Dominates(cfg, Entry, x, e[1]) /\ e[1] \in Reach(cfg, {Entry})
<1> SUFFICES ASSUME \A e \in cfg : e[2] = x => Dominates(cfg, Entry, x, e[1]) PROVE FALSE
  BY DEF LoopsKnown, Rooted
<1> DEFINE A == Avoiding(cfg, Entry, x)
           V == Reach(cfg, {Entry})
<1>1. /\ Least(Block, cfg, {Entry}, V) /\ Entry \in A /\ A \subseteq Block /\ x \notin A
      /\ \A e \in cfg : e[1] \in A /\ e[2] # x => e[2] \in A
  BY Avoided DEF LoopsKnown
<1>2. \A e \in cfg : e[2] = x => e[1] \notin A
  BY <1>1 DEF Dominates, Avoiding
<1> HIDE DEF A, V
<1>3. V \subseteq A
  BY <1>1, <1>2 DEF Least
<1> QED
  BY <1>1, <1>3 DEF V

LEMMA Nested ==
  ASSUME LoopsKnown, NEW h \in Headers(cfg, Entry), NEW g \in Headers(cfg, Entry), g \in LoopOf(h), g # h
  PROVE  LoopOf(g) \subseteq LoopOf(h)
<1>1. Rooted(Block, cfg, Entry)
  BY DEF LoopsKnown
<1>2. h \notin LoopOf(g)
  <2>1. Dominates(cfg, Entry, h, g) /\ g \in Reach(cfg, {Entry})
    BY AboutLoops
  <2>2. h \in LoopOf(g) => Dominates(cfg, Entry, g, h)
    BY AboutLoops
  <2> QED
    BY <1>1, <2>1, <2>2, DominatesOneWay
<1>3. /\ LoopOf(g) \in SUBSET Reach(cfg, {Entry}) /\ Strong(cfg, LoopOf(g)) /\ g \in LoopOf(g)
      /\ h \in Reach(cfg, {Entry}) /\ g \in NaturalLoop(cfg, Entry, h)
  <2>1. LoopOf(g) \subseteq Reach(cfg, {Entry}) /\ Strong(cfg, LoopOf(g)) /\ g \in LoopOf(g)
    BY AboutLoops
  <2>2. h \in LoopOf(h) /\ LoopOf(h) \subseteq Reach(cfg, {Entry})
    BY AboutLoops
  <2> QED
    BY <2>1, <2>2 DEF LoopOf
<1> QED
  BY <1>1, <1>2, <1>3, LoopInside DEF LoopOf

\* Who waits only for its own loop and for X is in no loop, its own aside, that X is not in.
Awaits(b, X) == Preds(cfg, b) \subseteq X \cup (IF b \in Headers(cfg, Entry) THEN LoopOf(b) ELSE {})

LEMMA EnteredLoop ==
  ASSUME LoopsKnown, NEW h \in Headers(cfg, Entry), NEW b \in LoopOf(h), b # h, NEW X, Awaits(b, X)
  PROVE  LoopOf(h) \cap X # {}
<1>1. b \in Reach(cfg, {Entry}) /\ b # Entry
  BY AboutLoops
<1>2. PICK e \in cfg : e[2] = b /\ ~ Dominates(cfg, Entry, b, e[1])
  BY <1>1, Forward
<1>3. e[1] \in LoopOf(h)
  BY <1>2, AboutLoops
<1>4. b \in Headers(cfg, Entry) => e[1] \notin LoopOf(b)
  BY <1>2, AboutLoops
<1>5. e[1] \in Preds(cfg, b)
  BY <1>2 DEF Preds
<1> QED
  BY <1>3, <1>4, <1>5 DEF Awaits

-----------------------------------------------------------------------------
(***************************************************************************)
(* The order of the blocks, which is made when all loops are known.        *)
(***************************************************************************)
Listed == {linear_list[i] : i \in DOMAIN linear_list}

\* The loop that activation i has opened, and the loops that some activation has.
Inner(i) == IF i = Len(frames) THEN {} ELSE frames[i + 1].loopset
Opened(h) == \E i \in 2 .. Len(frames) : frames[i].entry = h

FrameRec == [loopset : SUBSET Block, entry : Block, bbs : SUBSET Block]

\* The activations are those of loops, each inside the one before; what leads into an
\* opened loop is listed.
Activations ==
  /\ frames \in Seq(FrameRec)
  /\ frames # <<>> => frames[1].loopset = Block /\ frames[1].entry = Entry
  /\ \A i \in 2 .. Len(frames) :
       /\ frames[i].entry \in Headers(cfg, Entry) /\ frames[i].loopset = LoopOf(frames[i].entry)
       /\ Preds(cfg, frames[i].entry) \subseteq Listed \cup frames[i].loopset
  /\ \A i, j \in DOMAIN frames : i < j => frames[j].loopset \subseteq frames[i].loopset

\* A work list holds what follows the listed blocks and is not listed.
WorkLists ==
  \A i \in DOMAIN frames :
    /\ frames[i].bbs \subseteq frames[i].loopset \cap Reach(cfg, {Entry})
    /\ frames[i].bbs \cap Listed \subseteq Inner(i)
    /\ frames[i].entry \in Listed \/ (i = Len(frames) /\ frames[i].bbs = {frames[i].entry})
    /\ \A e \in cfg : /\ e[1] \in (Listed \cap frames[i].loopset) \ Inner(i)
                      /\ e[2] \in frames[i].loopset \ Listed
                      => e[2] \in frames[i].bbs

\* Each block stands behind its predecessors, those of its own loop aside.
Behind ==
  \A i \in DOMAIN linear_list : \A p \in Preds(cfg, linear_list[i]) :
    \/ \E j \in DOMAIN linear_list : j < i /\ linear_list[j] = p
    \/ linear_list[i] \in Headers(cfg, Entry) /\ p \in LoopOf(linear_list[i])

\* The blocks of h's loop are listed at k .. m, h first; unless they are all there the
\* loop is open and they stand at the end.
Stands(h, k, m) ==
  /\ k \in DOMAIN linear_list /\ m \in DOMAIN linear_list /\ linear_list[k] = h
  /\ \A j \in DOMAIN linear_list : linear_list[j] \in LoopOf(h) <=> k <= j /\ j <= m
  /\ LoopOf(h) \subseteq Listed \/ (m = Len(linear_list) /\ Opened(h))

Together ==
  \A h \in Headers(cfg, Entry) :
    LoopOf(h) \cap Listed = {} \/ \E k, m \in DOMAIN linear_list : Stands(h, k, m)

Walk ==
  /\ linear_list \in Seq(Block) /\ Listed \subseteq Reach(cfg, {Entry})
  /\ \A i, j \in DOMAIN linear_list : linear_list[i] = linear_list[j] => i = j
  /\ frames = <<>> => linear_list = <<>>
  /\ Activations /\ WorkLists /\ Behind /\ Together

LEMMA Depths ==
  ASSUME Walk, frames # <<>>
  PROVE  /\ Len(frames) \in Nat \ {0} /\ DOMAIN frames = 1 .. Len(frames)
         /\ Len(linear_list) \in Nat /\ DOMAIN linear_list = 1 .. Len(linear_list)
         /\ \A i \in 1 .. Len(frames) : frames[i] \in FrameRec
         /\ LO!Top = frames[Len(frames)] /\ LO!linear_set = Listed /\ Listed \subseteq Block
         /\ LO!Top.loopset \subseteq Block /\ LO!Top.entry \in Block
         /\ LO!Top.bbs \subseteq LO!Top.loopset \cap Reach(cfg, {Entry})
         /\ LO!Top.bbs \cap Listed = {}
<1> DEFINE n == Len(frames)
<1>1. n \in Nat \ {0} /\ DOMAIN frames = 1 .. n /\ \A i \in 1 .. n : frames[i] \in FrameRec
  BY DEF Walk, Activations
<1>2. Len(linear_list) \in Nat /\ DOMAIN linear_list = 1 .. Len(linear_list)
  BY DEF Walk
<1>3. LO!Top = frames[n] /\ LO!linear_set = Listed
  BY DEF LO!Top, LO!Last, LO!linear_set, LO!ToSet, Listed
<1>4. Listed \subseteq Block
  BY <1>2 DEF Walk, Listed
<1>5. n \in DOMAIN frames /\ Inner(n) = {}
  BY <1>1 DEF Inner
<1>6. frames[n].bbs \subseteq frames[n].loopset \cap Reach(cfg, {Entry}) /\ frames[n].bbs \cap Listed = {}
  BY <1>5 DEF Walk, WorkLists
<1> QED
  BY <1>1, <1>2, <1>3, <1>4, <1>5, <1>6 DEF FrameRec

\* A block that is taken waits for nothing but its own loop.
LEMMA Taken ==
  ASSUME Walk, LoopsKnown, frames # <<>>, NEW b \in LO!Candidates
  PROVE  b \in LO!Top.bbs /\ b \in Block /\ b \notin Listed /\ b \in Reach(cfg, {Entry}) /\ Awaits(b, Listed)
<1>1. b \in LO!Top.bbs /\ LO!Ready(b)
  BY DEF LO!Candidates, LO!ReadyLoops
<1>2. Preds(cfg, b) \subseteq Listed \cup (IF b \in DOMAIN base2loop THEN base2loop[b] ELSE {})
  BY <1>1, SameGraph, Depths DEF LO!Ready, LO!IsLoop
<1>3. Awaits(b, Listed)
  BY <1>2 DEF Awaits, LoopsKnown
<1> QED
  BY <1>1, <1>3, Depths

\* As long as something is listed to be done there is a block to take: the first of those
\* that are left in the loop.
LEMMA AlwaysTaken ==
  ASSUME Walk, LoopsKnown, frames # <<>>, LO!Top.bbs # {}
  PROVE  LO!Candidates # {}
<1> DEFINE n == Len(frames)
           L == frames[n].loopset
           V == Reach(cfg, {Entry})
           C == (L \cap V) \ Listed
           E == cfg \ BackEdges(cfg, Entry)
<1>1. /\ n \in 1 .. n /\ n \in DOMAIN frames /\ LO!Top = frames[n] /\ LO!linear_set = Listed
      /\ frames[n].bbs \subseteq C /\ frames[n].bbs # {} /\ L \subseteq Block /\ Inner(n) = {}
  <2>1. /\ n \in Nat \ {0} /\ DOMAIN frames = 1 .. n /\ LO!Top = frames[n] /\ LO!linear_set = Listed
        /\ frames[n].bbs \subseteq L \cap V /\ frames[n].bbs \cap Listed = {} /\ L \subseteq Block
    BY Depths
  <2>2. frames[n].bbs \subseteq C
    BY <2>1
  <2>3. n \in 1 .. n /\ Inner(n) = {}
    BY <2>1 DEF Inner
  <2> HIDE DEF C
  <2> QED
    BY <2>1, <2>2, <2>3
<1>2. IsFiniteSet(Block) /\ E \subseteq Block \X Block /\ Acyclic(E) /\ C \in SUBSET Block /\ C # {}
  BY <1>1 DEF LoopsKnown, Rooted, Reducible
<1>3. PICK x \in C : \A e \in E : e[2] = x => e[1] \notin C
  <2> HIDE DEF C, E
  <2> QED
    BY <1>2, First
<1>4. \A e \in cfg : ~ Dominates(cfg, Entry, e[2], e[1]) => e \in E
  BY DEF BackEdges
<1>5. n # 1 => frames[n].entry \in Headers(cfg, Entry) /\ L = LoopOf(frames[n].entry)
  <2>1. \A i \in 2 .. n : frames[i].entry \in Headers(cfg, Entry) /\ frames[i].loopset = LoopOf(frames[i].entry)
    BY DEF Walk, Activations
  <2>2. n # 1 => n \in 2 .. n
    BY Depths
  <2> QED
    BY <2>1, <2>2
<1>6. ASSUME NEW e \in cfg, e[2] = x, ~ Dominates(cfg, Entry, x, e[1])
      PROVE  e[1] \in Listed /\ (x # frames[n].entry => e[1] \in L)
  <2>1. e[1] \in V /\ e[1] \in Block
    BY DEF LoopsKnown, Rooted
  <2>2. e[1] \in L \/ (n # 1 /\ x = frames[n].entry)
    <3>1. CASE n = 1
      BY <2>1, <1>1, <3>1 DEF Walk, Activations
    <3>2. CASE n # 1
      BY <1>3, <1>5, <1>6, <3>2, AboutLoops
    <3> QED
      BY <3>1, <3>2
  <2>3. e[1] \notin C
    BY <1>3, <1>4, <1>6
  <2>4. CASE e[1] \in L
    BY <2>1, <2>3, <2>4
  <2>5. CASE e[1] \notin L
    <3>1. n \in 2 .. Len(frames) /\ x = frames[n].entry
      BY <2>2, <2>5, <1>1, Depths
    <3>2. e[1] \in Preds(cfg, x)
      BY <1>6 DEF Preds
    <3> QED
      BY <2>5, <3>1, <3>2 DEF Walk, Activations
  <2> QED
    BY <2>4, <2>5
<1>7. LO!Ready(x)
  <2> SUFFICES ASSUME NEW e \in cfg, e[2] = x
               PROVE  e[1] \in Listed \cup (IF x \in Headers(cfg, Entry) THEN LoopOf(x) ELSE {})
    BY <1>1, SameGraph DEF LO!Ready, LO!IsLoop, Preds, LoopsKnown
  <2>1. CASE ~ Dominates(cfg, Entry, x, e[1])
    BY <1>6, <2>1
  <2>2. CASE Dominates(cfg, Entry, x, e[1])
    <3>1. x \in Headers(cfg, Entry)
      BY <2>2 DEF Headers, BackEdges
    <3> QED
      BY <2>2, <3>1, AboutLoops
  <2> QED
    BY <2>1, <2>2
<1>8. x \in frames[n].bbs
  <2>1. CASE x = frames[n].entry
    BY <1>1, <1>3, <2>1 DEF Walk, WorkLists
  <2>2. CASE x # frames[n].entry
    <3>1. x # Entry
      <4>1. CASE n = 1
        BY <1>1, <2>2, <4>1 DEF Walk, Activations
      <4>2. CASE n # 1
        BY <1>3, <1>5, <4>2, AboutLoops
      <4> QED
        BY <4>1, <4>2
    <3>2. PICK e \in cfg : e[2] = x /\ ~ Dominates(cfg, Entry, x, e[1])
      BY <1>3, <3>1, Forward
    <3>3. e[1] \in Listed \cap L /\ e[2] \in L \ Listed
      BY <1>3, <1>6, <2>2, <3>2
    <3> QED
      BY <1>1, <3>2, <3>3 DEF Walk, WorkLists
  <2> QED
    BY <2>1, <2>2
<1> QED
  BY <1>1, <1>7, <1>8 DEF LO!Candidates

\* What follows a block that is listed is not listed: a listed predecessor of a listed
\* block would be in a loop that is all listed.
LEMMA PushFollowers ==
  ASSUME Walk, LoopsKnown, frames # <<>>, NEW b \in LO!Candidates, ~ LO!Opens(b)
  PROVE  /\ b \in Headers(cfg, Entry) => Len(frames) # 1 /\ b = LO!Top.entry
         /\ LO!Followers(b) \subseteq LO!Top.loopset \cap Reach(cfg, {Entry})
         /\ LO!Followers(b) \cap (Listed \cup {b}) = {}
         /\ \A e \in cfg : e[1] = b /\ e[2] \in LO!Top.loopset \ (Listed \cup {b}) => e[2] \in LO!Followers(b)
<1> DEFINE n == Len(frames)
           V == Reach(cfg, {Entry})
<1>1. /\ b \in Block /\ b \notin Listed /\ b \in V
      /\ LO!linear_set = Listed /\ DOMAIN frames = 1 .. n /\ n \in Nat \ {0}
  BY Depths, Taken
<1>2. b \in Headers(cfg, Entry) => n # 1 /\ b = LO!Top.entry
  BY DEF LO!Opens, LO!Outermost, LO!IsLoop, LoopsKnown
<1>3. LO!Followers(b) = IF n = 1 THEN Succs(cfg, b)
                        ELSE (Succs(cfg, b) \cap LO!Top.loopset) \ (Listed \cup {b})
  BY <1>1, SameGraph DEF LO!Followers, LO!Outermost
<1>4. \A c \in Succs(cfg, b) : c \in V /\ \E e \in cfg : e[1] = b /\ e[2] = c
  <2>1. Least(Block, cfg, {Entry}, V)
    BY Avoided DEF LoopsKnown
  <2> QED
    BY <1>1, <2>1 DEF Least, Succs
<1>5. \A e \in cfg : e[1] = b => e[2] \in Succs(cfg, b)
  BY DEF Succs
<1>6. CASE n # 1
  BY <1>2, <1>3, <1>4, <1>5, <1>6
<1>7. CASE n = 1
  <2>1. LO!Top.loopset = Block /\ V \subseteq Block
    <3>1. LO!Top = frames[1]
      BY <1>7, Depths
    <3> QED
      BY <3>1, Avoided DEF Walk, Activations, LoopsKnown, Least
  <2>2. ASSUME NEW c \in Succs(cfg, b) PROVE c \notin Listed /\ c # b
    <3>1. PICK e \in cfg : e[1] = b /\ e[2] = c
      BY <1>4
    <3>2. b \notin Headers(cfg, Entry)
      BY <1>2, <1>7
    <3>3. c # b
      BY <3>1, <3>2 DEF Headers, BackEdges, Dominates
    <3>4. ASSUME c \in Listed PROVE FALSE
      <4>1. PICK i \in DOMAIN linear_list : linear_list[i] = c
        BY <3>4 DEF Listed
      <4>2. b \in Preds(cfg, c)
        BY <3>1 DEF Preds
      <4>3. \A j \in DOMAIN linear_list : linear_list[j] # b
        BY <1>1 DEF Listed
      <4>4. c \in Headers(cfg, Entry) /\ b \in LoopOf(c)
        BY <4>1, <4>2, <4>3 DEF Walk, Behind
      <4>5. c \in LoopOf(c)
        BY <4>4, AboutLoops
      <4>6. ~ Opened(c)
        BY <1>7 DEF Opened
      <4>7. LoopOf(c) \subseteq Listed
        BY <3>4, <4>4, <4>5, <4>6 DEF Walk, Together, Stands
      <4> QED
        BY <1>1, <4>4, <4>7
    <3> QED
      BY <3>3, <3>4
  <2> QED
    BY <1>2, <1>3, <1>4, <1>5, <1>7, <2>1, <2>2
<1> QED
  BY <1>6, <1>7

\* The lists after a push.
LEMMA PushedList ==
  ASSUME Walk, frames # <<>>, NEW b \in Block, b \notin Listed, linear_list' = Append(linear_list, b)
  PROVE  LET l == Len(linear_list) IN
         /\ linear_list' \in Seq(Block) /\ DOMAIN linear_list' = 1 .. l + 1 /\ linear_list'[l + 1] = b
         /\ Len(linear_list') = l + 1 /\ \A i \in 1 .. l : linear_list'[i] = linear_list[i]
         /\ Listed' = Listed \cup {b}
         /\ \A i, j \in DOMAIN linear_list' : linear_list'[i] = linear_list'[j] => i = j
<1> DEFINE l == Len(linear_list)
<1>1. linear_list \in Seq(Block) /\ l \in Nat /\ DOMAIN linear_list = 1 .. l
  BY Depths DEF Walk
<1>2. /\ linear_list' \in Seq(Block) /\ DOMAIN linear_list' = 1 .. l + 1 /\ linear_list'[l + 1] = b
      /\ Len(linear_list') = l + 1 /\ \A i \in 1 .. l : linear_list'[i] = linear_list[i]
  BY <1>1
<1>3. Listed' = {linear_list'[i] : i \in DOMAIN linear_list'}
  BY DEF Listed
<1> HIDE DEF l
<1>4. 1 .. l + 1 = (1 .. l) \cup {l + 1} /\ l + 1 \notin 1 .. l
  BY <1>1
<1>5. Listed' = Listed \cup {b}
  BY <1>1, <1>2, <1>3, <1>4 DEF Listed
<1>6. \A i \in 1 .. l : linear_list[i] # b
  BY <1>1 DEF Listed
<1>7. \A i, j \in DOMAIN linear_list' : linear_list'[i] = linear_list'[j] => i = j
  <2> TAKE i, j \in DOMAIN linear_list'
  <2>1. i \in 1 .. l \/ i = l + 1
    BY <1>2, <1>4
  <2>2. j \in 1 .. l \/ j = l + 1
    BY <1>2, <1>4
  <2> QED
    BY <1>1, <1>2, <1>6, <2>1, <2>2 DEF Walk
<1> QED
  BY <1>2, <1>5, <1>7 DEF l

LEMMA PushInv ==
  ASSUME Walk, LoopsKnown, frames # <<>>, NEW b, LO!Push(b)
  PROVE  Walk'
<1> DEFINE n == Len(frames)
           l == Len(linear_list)
           V == Reach(cfg, {Entry})
           L(i) == frames[i].loopset
           F == LO!Followers(b)
<1>1. b \in LO!Candidates /\ ~ LO!Opens(b) /\ linear_list' = Append(linear_list, b) /\ cfg' = cfg
  BY DEF LO!Push
<1>2. /\ b \in frames[n].bbs /\ b \in Block /\ b \notin Listed /\ b \in V /\ Awaits(b, Listed)
      /\ n \in Nat \ {0} /\ DOMAIN frames = 1 .. n /\ n \in DOMAIN frames /\ l \in Nat /\ DOMAIN linear_list = 1 .. l
      /\ LO!Top = frames[n] /\ \A i \in 1 .. n : frames[i] \in FrameRec
  <2>1. b \in LO!Top.bbs /\ b \in Block /\ b \notin Listed /\ b \in V /\ Awaits(b, Listed)
    BY <1>1, Taken
  <2>2. /\ n \in Nat \ {0} /\ DOMAIN frames = 1 .. n /\ l \in Nat /\ DOMAIN linear_list = 1 .. l
        /\ LO!Top = frames[n] /\ \A i \in 1 .. n : frames[i] \in FrameRec
    BY Depths
  <2>3. n \in DOMAIN frames
    BY <2>2
  <2> QED
    BY <2>1, <2>2, <2>3
<1>3. /\ linear_list' \in Seq(Block) /\ DOMAIN linear_list' = 1 .. l + 1 /\ linear_list'[l + 1] = b
      /\ Len(linear_list') = l + 1 /\ \A i \in 1 .. l : linear_list'[i] = linear_list[i]
      /\ Listed' = Listed \cup {b}
      /\ \A i, j \in DOMAIN linear_list' : linear_list'[i] = linear_list'[j] => i = j
  BY <1>1, <1>2, PushedList
<1>4. /\ b \in Headers(cfg, Entry) => n # 1 /\ b = frames[n].entry
      /\ F \subseteq L(n) \cap V /\ F \cap (Listed \cup {b}) = {}
      /\ \A e \in cfg : e[1] = b /\ e[2] \in L(n) \ (Listed \cup {b}) => e[2] \in F
  BY <1>1, <1>2, PushFollowers
<1>5. L(n) \subseteq Block /\ frames[n].bbs \subseteq L(n) \cap V /\ frames[n].bbs \cap Listed = {}
      /\ \A i \in 1 .. n : b \in L(i)
  <2>1. L(n) \subseteq Block /\ frames[n].bbs \subseteq L(n) \cap V /\ frames[n].bbs \cap Listed = {}
    BY <1>2, Depths
  <2>2. \A i, j \in DOMAIN frames : i < j => L(j) \subseteq L(i)
    BY DEF Walk, Activations
  <2>3. \A i \in 1 .. n : L(n) \subseteq L(i)
    BY <1>2, <2>2
  <2> QED
    BY <1>2, <2>1, <2>3
<1>6. /\ DOMAIN frames' = 1 .. n /\ Len(frames') = n /\ frames' \in Seq(FrameRec)
      /\ \A i \in 1 .. n : i # n => frames'[i] = frames[i]
      /\ \A i \in 1 .. n : frames'[i].loopset = L(i) /\ frames'[i].entry = frames[i].entry
      /\ frames'[n].bbs = (frames[n].bbs \ {b}) \cup F
  <2> DEFINE M == (frames[n].bbs \ {b}) \cup F
  <2>1. frames' = [frames EXCEPT ![n].bbs = M]
    BY DEF LO!Push
  <2>2. M \subseteq Block
    BY <1>4, <1>5
  <2> HIDE DEF M
  <2>3. /\ DOMAIN frames' = 1 .. n /\ \A i \in 1 .. n : i # n => frames'[i] = frames[i]
        /\ frames'[n] = [frames[n] EXCEPT !.bbs = M]
    BY <1>2, <2>1
  <2>4. frames \in Seq(FrameRec)
    BY DEF Walk, Activations
  <2>5. frames'[n] \in FrameRec /\ frames'[n].loopset = L(n) /\ frames'[n].entry = frames[n].entry /\ frames'[n].bbs = M
    BY <1>2, <2>2, <2>3 DEF FrameRec
  <2>6. frames' = [i \in 1 .. n |-> frames'[i]] /\ \A i \in 1 .. n : frames'[i] \in FrameRec
    BY <1>2, <2>1, <2>3, <2>5
  <2>7. frames' \in Seq(FrameRec) /\ Len(frames') = n
    BY <1>2, <2>6
  <2> QED
    BY <2>3, <2>5, <2>7 DEF M
<1> HIDE DEF F, n, l
<1>7. /\ \A h : LoopOf(h)' = LoopOf(h) /\ V' = V /\ Headers(cfg, Entry)' = Headers(cfg, Entry)
      /\ \A i \in 1 .. n : Inner(i)' = Inner(i)
      /\ \A h : Opened(h)' <=> Opened(h)
  <2>1. \A i \in 1 .. n : Inner(i)' = Inner(i)
    <3> TAKE i \in 1 .. n
    <3>1. i = n \/ i + 1 \in 1 .. n
      BY <1>2
    <3> QED
      BY <1>6, <3>1 DEF Inner, n
  <2>2. 2 .. n \subseteq 1 .. n
    BY <1>2
  <2>3. \A h : Opened(h)' <=> Opened(h)
    BY <1>6, <2>2 DEF Opened, n
  <2> QED
    BY <1>1, <2>1, <2>3 DEF LoopOf
<1>8. Activations'
  <2>1. frames'[1].loopset = Block /\ frames'[1].entry = Entry
    BY <1>2, <1>6 DEF Walk, Activations
  <2>2. ASSUME NEW i \in 2 .. n
        PROVE  /\ frames'[i].entry \in Headers(cfg, Entry) /\ frames'[i].loopset = LoopOf(frames'[i].entry)
               /\ Preds(cfg, frames'[i].entry) \subseteq Listed' \cup frames'[i].loopset
    <3>1. i \in 1 .. n
      BY <1>2
    <3>2. /\ frames[i].entry \in Headers(cfg, Entry) /\ frames[i].loopset = LoopOf(frames[i].entry)
          /\ Preds(cfg, frames[i].entry) \subseteq Listed \cup frames[i].loopset
      BY DEF Walk, Activations, n
    <3> QED
      BY <1>3, <1>6, <3>1, <3>2
  <2>3. \A i, j \in DOMAIN frames' : i < j => frames'[j].loopset \subseteq frames'[i].loopset
    BY <1>2, <1>6 DEF Walk, Activations
  <2> QED
    BY <1>1, <1>6, <1>7, <2>1, <2>2, <2>3 DEF Activations
<1>9. WorkLists'
  <2> SUFFICES ASSUME NEW i \in 1 .. n
               PROVE  /\ frames'[i].bbs \subseteq frames'[i].loopset \cap V'
                      /\ frames'[i].bbs \cap Listed' \subseteq Inner(i)'
                      /\ frames'[i].entry \in Listed' \/ (i = Len(frames') /\ frames'[i].bbs = {frames'[i].entry})
                      /\ \A e \in cfg' : /\ e[1] \in (Listed' \cap frames'[i].loopset) \ Inner(i)'
                                         /\ e[2] \in frames'[i].loopset \ Listed'
                                         => e[2] \in frames'[i].bbs
    BY <1>6 DEF WorkLists
  <2>0. /\ frames'[i].loopset = L(i) /\ frames'[i].entry = frames[i].entry /\ Inner(i)' = Inner(i)
        /\ Len(frames') = n /\ V' = V /\ cfg' = cfg
    BY <1>1, <1>6, <1>7
  <2>1. /\ frames[i].bbs \subseteq L(i) \cap V
        /\ frames[i].bbs \cap Listed \subseteq Inner(i)
        /\ frames[i].entry \in Listed \/ (i = n /\ frames[i].bbs = {frames[i].entry})
        /\ \A e \in cfg : /\ e[1] \in (Listed \cap L(i)) \ Inner(i)
                          /\ e[2] \in L(i) \ Listed
                          => e[2] \in frames[i].bbs
    BY <1>2 DEF Walk, WorkLists, n
  <2>2. CASE i = n
    <3>1. frames[i].entry \in Listed'
      BY <1>2, <1>3, <2>1, <2>2
    <3>2. frames'[i].bbs \cap Listed' = {}
      BY <1>3, <1>4, <1>5, <1>6, <2>2
    <3>3. ASSUME NEW e \in cfg, e[1] \in (Listed' \cap L(i)) \ Inner(i), e[2] \in L(i) \ Listed'
          PROVE  e[2] \in frames'[i].bbs
      <4>1. e[1] = b => e[2] \in F
        BY <1>3, <1>4, <2>2, <3>3
      <4>2. e[1] # b => e[2] \in frames[i].bbs /\ e[2] # b
        BY <1>3, <2>1, <3>3
      <4> QED
        BY <1>6, <2>2, <4>1, <4>2
    <3>4. frames'[i].bbs \subseteq L(i) \cap V
      BY <1>4, <1>6, <2>1, <2>2
    <3>5. frames'[i].bbs \cap Listed' \subseteq Inner(i)
      BY <3>2
    <3> QED
      BY <2>0, <3>1, <3>3, <3>4, <3>5
  <2>3. CASE i # n
    <3>1. frames'[i] = frames[i] /\ i + 1 \in 1 .. n /\ Inner(i) = L(i + 1)
      <4>1. i + 1 \in 1 .. n /\ Inner(i) = L(i + 1)
        BY <1>2, <2>3 DEF Inner, n
      <4> QED
        BY <1>6, <2>3, <4>1
    <3>2. b \in Inner(i)
      BY <1>5, <3>1
    <3>3. frames'[i].bbs \cap Listed' \subseteq Inner(i)
      BY <1>3, <2>1, <3>1, <3>2
    <3>4. frames[i].entry \in Listed'
      BY <1>3, <2>1, <2>3
    <3>5. \A e \in cfg : /\ e[1] \in (Listed' \cap L(i)) \ Inner(i)
                        /\ e[2] \in L(i) \ Listed'
                        => e[2] \in frames'[i].bbs
      BY <1>3, <2>1, <3>1, <3>2
    <3> QED
      BY <2>0, <2>1, <3>1, <3>3, <3>4, <3>5
  <2> QED
    BY <2>2, <2>3
<1>10. Behind'
  <2> SUFFICES ASSUME NEW i \in 1 .. l + 1, NEW p \in Preds(cfg, linear_list'[i])
               PROVE  \/ \E j \in 1 .. l + 1 : j < i /\ linear_list'[j] = p
                      \/ linear_list'[i] \in Headers(cfg, Entry) /\ p \in LoopOf(linear_list'[i])
    BY <1>1, <1>3, <1>7 DEF Behind
  <2>1. CASE i = l + 1
    <3>1. p \in Preds(cfg, b)
      BY <1>3, <2>1
    <3>2. CASE p \in Listed
      <4>1. PICK j \in 1 .. l : linear_list[j] = p
        BY <1>2, <3>2 DEF Listed
      <4> QED
        BY <1>2, <1>3, <2>1, <4>1
    <3>3. CASE p \notin Listed
      BY <1>2, <1>3, <2>1, <3>1, <3>3 DEF Awaits
    <3> QED
      BY <3>2, <3>3
  <2>2. CASE i # l + 1
    <3>1. i \in 1 .. l /\ linear_list'[i] = linear_list[i]
      BY <1>2, <1>3, <2>2
    <3>2. CASE \E j \in 1 .. l : j < i /\ linear_list[j] = p
      <4>1. PICK j \in 1 .. l : j < i /\ linear_list[j] = p
        BY <3>2
      <4> QED
        BY <1>2, <1>3, <4>1
    <3>3. CASE ~ \E j \in 1 .. l : j < i /\ linear_list[j] = p
      BY <1>2, <3>1, <3>3 DEF Walk, Behind
    <3> QED
      BY <3>2, <3>3
  <2> QED
    BY <2>1, <2>2
<1>11. Together'
  <2> SUFFICES ASSUME NEW h \in Headers(cfg, Entry), LoopOf(h) \cap Listed' # {}
               PROVE  \E k, m \in 1 .. l + 1 : Stands(h, k, m)'
    BY <1>1, <1>3, <1>7 DEF Together
  <2> USE DEF n, l
  <2>0. \A k, m \in 1 .. l + 1 :
          /\ linear_list'[k] = h
          /\ \A j \in 1 .. l + 1 : linear_list'[j] \in LoopOf(h) <=> k <= j /\ j <= m
          /\ LoopOf(h) \subseteq Listed' \/ (m = l + 1 /\ Opened(h))
          => Stands(h, k, m)'
    BY <1>3, <1>7 DEF Stands
  <2>1. CASE LoopOf(h) \cap Listed = {}
    <3>1. b \in LoopOf(h)
      BY <1>3, <2>1
    <3>2. b = h
      BY <1>2, <2>1, <3>1, EnteredLoop
    <3>3. Opened(h)
      BY <1>2, <1>4, <3>2 DEF Opened
    <3>4. \A j \in 1 .. l : linear_list[j] \notin LoopOf(h)
      BY <1>2, <2>1 DEF Listed
    <3>5. l + 1 \in 1 .. l + 1
      BY <1>2
    <3>6. \A j \in 1 .. l + 1 : linear_list'[j] \in LoopOf(h) <=> l + 1 <= j /\ j <= l + 1
      <4> TAKE j \in 1 .. l + 1
      <4>1. j = l + 1 \/ (j \in 1 .. l /\ ~ l + 1 <= j)
        BY <1>2
      <4> QED
        BY <1>2, <1>3, <3>1, <3>4, <4>1
    <3> QED
      BY <1>3, <2>0, <3>2, <3>3, <3>5, <3>6
  <2>2. CASE LoopOf(h) \cap Listed # {}
    <3>1. PICK k, m \in 1 .. l : Stands(h, k, m)
      BY <1>2, <2>2 DEF Walk, Together
    <3>2. /\ linear_list[k] = h /\ \A j \in 1 .. l : linear_list[j] \in LoopOf(h) <=> k <= j /\ j <= m
          /\ LoopOf(h) \subseteq Listed \/ (m = l /\ Opened(h))
      BY <1>2, <3>1 DEF Stands
    <3>3. k \in 1 .. l + 1 /\ m \in 1 .. l + 1 /\ linear_list'[k] = h
      <4> HIDE DEF l
      <4> QED
        BY <1>2, <1>3, <3>2
    <3>4. CASE b \in LoopOf(h)
      <4>1. m = l /\ Opened(h)
        BY <1>2, <3>2, <3>4
      <4>2. \A j \in 1 .. l + 1 : linear_list'[j] \in LoopOf(h) <=> k <= j /\ j <= l + 1
        <5> TAKE j \in 1 .. l + 1
        <5>1. CASE j = l + 1
          BY <1>2, <1>3, <3>4, <5>1
        <5>2. CASE j # l + 1
          <6>1. j \in 1 .. l
            BY <1>2, <5>2
          <6>2. linear_list[j] \in LoopOf(h) <=> k <= j /\ j <= l
            BY <3>2, <4>1, <6>1
          <6> QED
            BY <1>2, <1>3, <6>1, <6>2
        <5> QED
          BY <5>1, <5>2
      <4>3. l + 1 \in 1 .. l + 1
        BY <1>2
      <4> QED
        BY <2>0, <3>3, <4>1, <4>2, <4>3
    <3>5. CASE b \notin LoopOf(h)
      <4>1. LoopOf(h) \subseteq Listed
        <5> SUFFICES ASSUME Opened(h) PROVE FALSE
          BY <3>2
        <5>1. PICK i \in 2 .. n : frames[i].entry = h
          BY <3>5 DEF Opened
        <5>2. L(i) = LoopOf(h) /\ i \in 1 .. n
          BY <1>2, <5>1 DEF Walk, Activations
        <5> QED
          BY <1>5, <3>5, <5>2
      <4>2. \A j \in 1 .. l + 1 : linear_list'[j] \in LoopOf(h) <=> k <= j /\ j <= m
        <5> TAKE j \in 1 .. l + 1
        <5>1. CASE j = l + 1
          BY <1>2, <1>3, <3>5, <5>1
        <5>2. CASE j # l + 1
          <6>1. j \in 1 .. l
            BY <1>2, <5>2
          <6> QED
            BY <1>3, <3>2, <6>1
        <5> QED
          BY <5>1, <5>2
      <4>3. LoopOf(h) \subseteq Listed'
        BY <1>3, <4>1
      <4> QED
        BY <2>0, <3>3, <4>2, <4>3
    <3> QED
      BY <3>4, <3>5
  <2> QED
    BY <2>1, <2>2
<1>12. Listed' \subseteq V
  BY <1>2, <1>3 DEF Walk
<1>13. frames' # <<>>
  BY <1>2, <1>6
<1> QED
  BY <1>1, <1>3, <1>8, <1>9, <1>10, <1>11, <1>12, <1>13 DEF Walk

LEMMA RecurseInv ==
  ASSUME Walk, LoopsKnown, frames # <<>>, NEW b, LO!Recurse(b)
  PROVE  Walk'
<1> DEFINE n == Len(frames)
           V == Reach(cfg, {Entry})
           L(i) == frames[i].loopset
           top == [loopset |-> LoopOf(b), entry |-> b, bbs |-> {b}]
<1>1. b \in LO!Candidates /\ LO!Opens(b) /\ UNCHANGED <<cfg, base2loop, linear_list>>
  BY DEF LO!Recurse
<1>2. /\ b \in frames[n].bbs /\ b \in Block /\ b \notin Listed /\ b \in V /\ Awaits(b, Listed) /\ LO!Top = frames[n]
  BY <1>1, Depths, Taken
<1>3. /\ n \in Nat \ {0} /\ DOMAIN frames = 1 .. n /\ n \in DOMAIN frames
      /\ \A i \in 1 .. n : frames[i] \in FrameRec
      /\ L(n) \subseteq Block /\ frames[n].bbs \subseteq L(n) \cap V
  <2>1. n \in Nat \ {0} /\ DOMAIN frames = 1 .. n /\ \A i \in 1 .. n : frames[i] \in FrameRec
    BY Depths
  <2>2. L(n) \subseteq Block /\ frames[n].bbs \subseteq L(n) \cap V
    BY <1>2, Depths
  <2>3. n \in 1 .. n
    BY <2>1
  <2> HIDE DEF n
  <2> QED
    BY <2>1, <2>2, <2>3
<1>4. b \in Headers(cfg, Entry) /\ base2loop[b] = LoopOf(b) /\ (n = 1 \/ b # frames[n].entry)
  BY <1>1, <1>2 DEF LO!Opens, LO!IsLoop, LO!Outermost, LoopsKnown
<1>5. b \in LoopOf(b) /\ LoopOf(b) \subseteq V /\ LoopOf(b) \subseteq Block /\ b # Entry
  <2>1. V \subseteq Block
    BY Avoided DEF LoopsKnown, Least
  <2> QED
    BY <1>4, <2>1, AboutLoops
<1>6. \A i \in 2 .. n : /\ i \in 1 .. n /\ frames[i].entry \in Headers(cfg, Entry) /\ L(i) = LoopOf(frames[i].entry)
                        /\ Preds(cfg, frames[i].entry) \subseteq Listed \cup L(i)
  BY <1>3 DEF Walk, Activations
<1>7. frames[1].loopset = Block /\ frames[1].entry = Entry
  BY DEF Walk, Activations
<1>8. b # frames[n].entry
  BY <1>4, <1>5, <1>7
<1>9. LoopOf(b) \cap Listed = {}
  <2>1. \A k \in DOMAIN linear_list : linear_list[k] # b
    BY <1>2 DEF Listed
  <2> QED
    BY <1>4, <2>1 DEF Walk, Together, Stands
<1>10. LoopOf(b) \subseteq L(n)
  <2>1. CASE n = 1
    BY <1>5, <1>7, <2>1
  <2>2. CASE n # 1
    <3>1. n \in 2 .. n
      BY <1>3, <2>2
    <3>2. frames[n].entry \in Headers(cfg, Entry) /\ L(n) = LoopOf(frames[n].entry) /\ b \in L(n)
      BY <1>2, <1>3, <1>6, <3>1
    <3> QED
      BY <1>4, <1>8, <3>2, Nested
  <2> QED
    BY <2>1, <2>2
<1>11. /\ DOMAIN frames' = 1 .. n + 1 /\ Len(frames') = n + 1 /\ frames' \in Seq(FrameRec)
       /\ \A i \in 1 .. n : frames'[i] = frames[i]
       /\ frames'[n + 1] = top /\ top.loopset = LoopOf(b) /\ top.entry = b /\ top.bbs = {b}
  <2>1. frames' = Append(frames, top)
    BY <1>4 DEF LO!Recurse, LO!Frame
  <2>2. top \in FrameRec /\ top.loopset = LoopOf(b) /\ top.entry = b /\ top.bbs = {b}
    BY <1>2, <1>5 DEF FrameRec
  <2>3. frames \in Seq(FrameRec)
    BY DEF Walk, Activations
  <2> HIDE DEF top
  <2> QED
    BY <1>3, <2>1, <2>2, <2>3
<1> HIDE DEF top, n
<1>12. /\ \A h : LoopOf(h)' = LoopOf(h) /\ V' = V /\ Headers(cfg, Entry)' = Headers(cfg, Entry)
       /\ \A h : Opened(h) => Opened(h)'
       /\ Listed' = Listed
       /\ \A i \in 1 .. n : i # n => Inner(i)' = Inner(i)
       /\ \A i : i = n + 1 => Inner(i)' = {}
  <2>1. \A i : i = n + 1 => Inner(i)' = {}
    BY <1>11 DEF Inner
  <2>3. \A i \in 1 .. n : i # n => Inner(i)' = Inner(i)
    <3> TAKE i \in 1 .. n
    <3> HAVE i # n
    <3>1. i + 1 \in 1 .. n /\ i # n + 1
      BY <1>3
    <3> QED
      BY <1>11, <3>1 DEF Inner, n
  <2>4. \A i \in 2 .. n : i \in 2 .. n + 1 /\ i \in 1 .. n
    BY <1>3
  <2>5. \A h : Opened(h) => Opened(h)'
    BY <1>11, <2>4 DEF Opened, n
  <2>6. Listed' = Listed
    BY <1>1 DEF Listed
  <2> QED
    BY <1>1, <2>1, <2>3, <2>5, <2>6 DEF LoopOf
<1>13. Activations'
  <2>1. frames'[1].loopset = Block /\ frames'[1].entry = Entry
    BY <1>3, <1>7, <1>11
  <2>2. ASSUME NEW i \in 2 .. n + 1
        PROVE  /\ frames'[i].entry \in Headers(cfg, Entry) /\ frames'[i].loopset = LoopOf(frames'[i].entry)
               /\ Preds(cfg, frames'[i].entry) \subseteq Listed \cup frames'[i].loopset
    <3>1. CASE i = n + 1
      <4>1. Preds(cfg, b) \subseteq Listed \cup LoopOf(b)
        BY <1>2, <1>4 DEF Awaits
      <4> QED
        BY <1>4, <1>11, <3>1, <4>1
    <3>2. CASE i # n + 1
      <4>1. i \in 2 .. n
        BY <1>3, <3>2
      <4> QED
        BY <1>6, <1>11, <4>1
    <3> QED
      BY <3>1, <3>2
  <2>3. ASSUME NEW i \in 1 .. n + 1, NEW j \in 1 .. n + 1, i < j
        PROVE  frames'[j].loopset \subseteq frames'[i].loopset
    <3>1. \A x, y \in 1 .. n : x < y => L(y) \subseteq L(x)
      BY <1>3 DEF Walk, Activations
    <3>2. i \in 1 .. n /\ (i = n \/ i < n) /\ (j \in 1 .. n \/ j = n + 1)
      BY <1>3, <2>3
    <3>3. L(n) \subseteq L(i)
      BY <1>3, <3>1, <3>2
    <3>4. CASE j = n + 1
      BY <1>10, <1>11, <3>2, <3>3, <3>4
    <3>5. CASE j \in 1 .. n
      BY <1>11, <2>3, <3>1, <3>2, <3>5
    <3> QED
      BY <3>2, <3>4, <3>5
  <2> QED
    BY <1>1, <1>11, <1>12, <2>1, <2>2, <2>3 DEF Activations
<1>14. WorkLists'
  <2> SUFFICES ASSUME NEW i \in 1 .. n + 1
               PROVE  /\ frames'[i].bbs \subseteq frames'[i].loopset \cap V'
                      /\ frames'[i].bbs \cap Listed' \subseteq Inner(i)'
                      /\ frames'[i].entry \in Listed' \/ (i = Len(frames') /\ frames'[i].bbs = {frames'[i].entry})
                      /\ \A e \in cfg' : /\ e[1] \in (Listed' \cap frames'[i].loopset) \ Inner(i)'
                                         /\ e[2] \in frames'[i].loopset \ Listed'
                                         => e[2] \in frames'[i].bbs
    BY <1>11 DEF WorkLists
  <2>0. Len(frames') = n + 1 /\ V' = V /\ cfg' = cfg /\ Listed' = Listed
    BY <1>1, <1>11, <1>12
  <2>1. CASE i = n + 1
    <3>1. frames'[i].loopset = LoopOf(b) /\ frames'[i].entry = b /\ frames'[i].bbs = {b}
      BY <1>11, <2>1
    <3> QED
      BY <1>2, <1>5, <1>9, <2>0, <2>1, <3>1
  <2>2. CASE i # n + 1
    <3>1. i \in 1 .. n /\ frames'[i] = frames[i]
      BY <1>3, <1>11, <2>2
    <3>2. /\ frames[i].bbs \subseteq L(i) \cap V
          /\ frames[i].bbs \cap Listed \subseteq Inner(i)
          /\ frames[i].entry \in Listed \/ (i = n /\ frames[i].bbs = {frames[i].entry})
          /\ \A e \in cfg : /\ e[1] \in (Listed \cap L(i)) \ Inner(i)
                            /\ e[2] \in L(i) \ Listed
                            => e[2] \in frames[i].bbs
      BY <1>3, <3>1 DEF Walk, WorkLists, n
    <3>3. frames[i].entry \in Listed
      BY <1>2, <1>8, <3>2
    <3>4. Inner(i) \subseteq Inner(i)'
      <4>1. Inner(n) = {}
        BY DEF Inner, n
      <4> QED
        BY <1>12, <3>1, <4>1
    <3> QED
      BY <2>0, <3>1, <3>2, <3>3, <3>4
  <2> QED
    BY <2>1, <2>2
<1>15. Behind'
  BY <1>1, <1>12 DEF Walk, Behind
<1>16. Together'
  <2> SUFFICES ASSUME NEW h \in Headers(cfg, Entry), LoopOf(h) \cap Listed # {}
               PROVE  \E k, m \in DOMAIN linear_list : Stands(h, k, m)'
    BY <1>1, <1>12 DEF Together
  <2>1. PICK k, m \in DOMAIN linear_list : Stands(h, k, m)
    BY DEF Walk, Together
  <2>2. Stands(h, k, m)'
    BY <1>1, <1>12, <2>1 DEF Stands
  <2> QED
    BY <2>2
<1>17. frames' # <<>>
  BY <1>3, <1>11
<1> QED
  BY <1>1, <1>12, <1>13, <1>14, <1>15, <1>16, <1>17 DEF Walk

\* An activation that has nothing left to do has listed its loop.
LEMMA AllListed ==
  ASSUME Walk, LoopsKnown, Len(frames) > 1, frames # <<>>, LO!Top.bbs = {}
  PROVE  LO!Top.loopset \subseteq Listed
<1> DEFINE n == Len(frames)
           L == LO!Top.loopset
           Z == L \cap Listed
<1>1. n \in Nat /\ n \in DOMAIN frames /\ n \in 2 .. n /\ LO!Top = frames[n]
  BY Depths
<1>2. frames[n].entry \in Headers(cfg, Entry) /\ L = LoopOf(frames[n].entry)
  BY <1>1 DEF Walk, Activations
<1>3. Inner(n) = {}
  BY DEF Inner
<1>4. /\ frames[n].entry \in Listed
      /\ \A e \in cfg : e[1] \in Listed \cap L /\ e[2] \in L => e[2] \in Listed
  BY <1>1, <1>3 DEF Walk, WorkLists
<1>5. frames[n].entry \in L /\ Strong(cfg, L)
  BY <1>2, AboutLoops
<1>6. Z \in SUBSET L /\ Z # {} /\ \A e \in cfg : e[1] \in Z /\ e[2] \in L => e[2] \in Z
  BY <1>4, <1>5
<1> HIDE DEF Z
<1>7. Z = L
  BY <1>5, <1>6 DEF Strong
<1> QED
  BY <1>7 DEF Z

LEMMA ReturnFromInv ==
  ASSUME Walk, LoopsKnown, frames # <<>>, LO!Return
  PROVE  Walk'
<1> DEFINE n == Len(frames)
           V == Reach(cfg, {Entry})
           L(i) == frames[i].loopset
           out == (UNION {Succs(cfg, c) : c \in L(n)}) \ Listed
           more == IF n = 2 THEN out \ L(n) ELSE out \cap L(n - 1)
           bbs == (frames[n - 1].bbs \ L(n)) \cup more
<1>1. /\ UNCHANGED <<cfg, base2loop, linear_list>> /\ n # 1
      /\ n \in Nat /\ n - 1 \in Nat /\ n > 1 /\ DOMAIN frames = 1 .. n
      /\ \A i \in 1 .. n - 1 : i \in 1 .. n /\ frames[i] \in FrameRec
      /\ LO!Top = frames[n] /\ LO!linear_set = Listed /\ frames[n].bbs = {}
  <2>1. n # 1 /\ LO!Top.bbs = {} /\ UNCHANGED <<cfg, base2loop, linear_list>>
    BY DEF LO!Return, LO!Outermost
  <2>2. /\ n \in Nat \ {0} /\ DOMAIN frames = 1 .. n /\ \A i \in 1 .. n : frames[i] \in FrameRec
        /\ LO!Top = frames[n] /\ LO!linear_set = Listed
    BY Depths
  <2> HIDE DEF n
  <2>3. n - 1 \in Nat /\ n > 1 /\ \A i \in 1 .. n - 1 : i \in 1 .. n
    BY <2>1, <2>2
  <2> QED
    BY <2>1, <2>2, <2>3
<1>2. L(n) \subseteq Listed
  BY <1>1, AllListed
<1>3. /\ L(1) = Block /\ frames[1].entry = Entry
      /\ \A i, j \in 1 .. n : i < j => L(j) \subseteq L(i)
      /\ L(n - 1) \subseteq Block /\ V \subseteq Block
      /\ \A e \in cfg : e[1] \in V => e[2] \in V
  <2>1. Least(Block, cfg, {Entry}, V)
    BY Avoided DEF LoopsKnown
  <2>2. n - 1 \in 1 .. n - 1
    BY <1>1
  <2>3. L(n - 1) \subseteq Block
    BY <1>1, <2>2 DEF FrameRec
  <2>4. L(1) = Block /\ frames[1].entry = Entry /\ \A i, j \in 1 .. n : i < j => L(j) \subseteq L(i)
    BY <1>1 DEF Walk, Activations
  <2> QED
    BY <2>1, <2>3, <2>4 DEF Least
<1>4. /\ \A c \in more : c \in out /\ c \in L(n - 1)
      /\ \A c \in out \cap L(n - 1) : c \in more
      /\ out \cap Listed = {} /\ out \subseteq V
      /\ \A e \in cfg : e[1] \in L(n) /\ e[2] \notin Listed => e[2] \in out
  <2>1. \A c \in out : \E e \in cfg : e[1] \in L(n) /\ e[2] = c
    BY DEF Succs
  <2>2. L(n) \subseteq V
    BY <1>2 DEF Walk
  <2>3. out \subseteq V /\ out \cap Listed = {}
    <3>1. out \cap Listed = {}
      OBVIOUS
    <3>2. ASSUME NEW c \in out PROVE c \in V
      <4>1. PICK e \in cfg : e[1] \in L(n) /\ e[2] = c
        BY <2>1
      <4> QED
        BY <1>3, <2>2, <4>1
    <3> QED
      BY <3>1, <3>2
  <2>4. \A e \in cfg : e[1] \in L(n) /\ e[2] \notin Listed => e[2] \in out
    <3>1. \A e \in cfg : e[2] \in Succs(cfg, e[1])
      BY DEF Succs
    <3> QED
      BY <3>1
  <2>5. out \cap L(n) = {}
    BY <1>2, <2>3
  <2>6. n = 2 => L(n - 1) = Block
    BY <1>3
  <2> HIDE DEF out
  <2> QED
    BY <1>3, <2>3, <2>4, <2>5, <2>6
<1>5. /\ DOMAIN frames' = 1 .. n - 1 /\ Len(frames') = n - 1 /\ frames' \in Seq(FrameRec)
      /\ \A i \in 1 .. n - 1 : i # n - 1 => frames'[i] = frames[i]
      /\ \A i \in 1 .. n - 1 : frames'[i].loopset = L(i) /\ frames'[i].entry = frames[i].entry
      /\ frames'[n - 1].bbs = bbs
  <2>1. frames \in Seq(FrameRec)
    BY DEF Walk, Activations
  <2>2. /\ LO!Front(frames) \in Seq(FrameRec) /\ DOMAIN LO!Front(frames) = 1 .. n - 1
        /\ \A i \in 1 .. n - 1 : LO!Front(frames)[i] = frames[i]
    BY <1>1, <2>1 DEF LO!Front
  <2>3. frames' = [LO!Front(frames) EXCEPT ![n - 1].bbs = bbs]
    <3>1. UNION {LO!F!Succs(cfg, c) : c \in LO!Top.loopset} = UNION {Succs(cfg, c) : c \in L(n)}
      BY <1>1, SameGraph
    <3>2. LO!Front(frames)[n - 1] = frames[n - 1]
      <4>1. n - 1 \in 1 .. n - 1
        BY <1>1
      <4> QED
        BY <2>2, <4>1
    <3> QED
      BY <1>1, <3>1, <3>2 DEF LO!Return
  <2>4. bbs \subseteq Block
    <3>1. frames[n - 1].bbs \subseteq Block
      BY <1>1 DEF FrameRec
    <3> HIDE DEF more
    <3> QED
      BY <1>3, <1>4, <3>1
  <2> HIDE DEF bbs
  <2>5. n - 1 \in 1 .. n - 1
    BY <1>1
  <2>6. /\ DOMAIN frames' = 1 .. n - 1 /\ \A i \in 1 .. n - 1 : i # n - 1 => frames'[i] = frames[i]
        /\ frames'[n - 1] = [frames[n - 1] EXCEPT !.bbs = bbs]
    BY <1>1, <2>3, <2>2, <2>5
  <2>7. /\ frames'[n - 1] \in FrameRec /\ frames'[n - 1].loopset = L(n - 1)
        /\ frames'[n - 1].entry = frames[n - 1].entry /\ frames'[n - 1].bbs = bbs
    BY <1>1, <2>4, <2>5, <2>6 DEF FrameRec
  <2>8. frames' = [i \in 1 .. n - 1 |-> frames'[i]] /\ \A i \in 1 .. n - 1 : frames'[i] \in FrameRec
    BY <1>1, <2>3, <2>2, <2>6, <2>7
  <2>9. frames' \in Seq(FrameRec) /\ Len(frames') = n - 1
    <3>1. n - 1 \in Nat
      BY <1>1
    <3> HIDE DEF n
    <3> QED
      BY <2>8, <3>1
  <2> QED
    BY <2>6, <2>7, <2>9
<1> HIDE DEF n, more, out
<1>6. /\ \A h : LoopOf(h)' = LoopOf(h) /\ V' = V /\ Headers(cfg, Entry)' = Headers(cfg, Entry)
      /\ Listed' = Listed
      /\ \A i \in 1 .. n - 1 : i # n - 1 => Inner(i)' = Inner(i)
      /\ \A i : i = n - 1 => Inner(i)' = {} /\ Inner(i) = L(n)
      /\ \A h : Opened(h) => Opened(h)' \/ h = frames[n].entry
  <2>1. \A i \in 1 .. n - 1 : i # n - 1 => Inner(i)' = Inner(i)
    <3> TAKE i \in 1 .. n - 1
    <3> HAVE i # n - 1
    <3>1. i + 1 \in 1 .. n - 1 /\ i # n
      BY <1>1
    <3> QED
      BY <1>5, <3>1 DEF Inner, n
  <2>2. ASSUME NEW i, i = n - 1 PROVE Inner(i)' = {} /\ Inner(i) = L(n)
    <3>1. i + 1 = n /\ i # n
      BY <1>1, <2>2
    <3> QED
      BY <1>5, <2>2, <3>1 DEF Inner, n
  <2>3. \A i \in 2 .. n : (i \in 2 .. n - 1 /\ i \in 1 .. n - 1) \/ i = n
    BY <1>1
  <2>4. \A h : Opened(h) => Opened(h)' \/ h = frames[n].entry
    BY <1>5, <2>3 DEF Opened, n
  <2>5. Listed' = Listed
    BY <1>1 DEF Listed
  <2> QED
    BY <1>1, <2>1, <2>2, <2>4, <2>5 DEF LoopOf
<1>7. Activations'
  <2>1. frames'[1].loopset = Block /\ frames'[1].entry = Entry
    BY <1>1, <1>3, <1>5
  <2>2. ASSUME NEW i \in 2 .. n - 1
        PROVE  /\ frames'[i].entry \in Headers(cfg, Entry) /\ frames'[i].loopset = LoopOf(frames'[i].entry)
               /\ Preds(cfg, frames'[i].entry) \subseteq Listed \cup frames'[i].loopset
    <3>1. i \in 1 .. n - 1 /\ i \in 2 .. n
      BY <1>1
    <3>2. /\ frames[i].entry \in Headers(cfg, Entry) /\ frames[i].loopset = LoopOf(frames[i].entry)
          /\ Preds(cfg, frames[i].entry) \subseteq Listed \cup frames[i].loopset
      BY <3>1 DEF Walk, Activations, n
    <3> QED
      BY <1>5, <3>1, <3>2
  <2>3. \A i, j \in 1 .. n - 1 : i < j => frames'[j].loopset \subseteq frames'[i].loopset
    BY <1>1, <1>3, <1>5
  <2> QED
    BY <1>1, <1>5, <1>6, <2>1, <2>2, <2>3 DEF Activations
<1>8. WorkLists'
  <2> SUFFICES ASSUME NEW i \in 1 .. n - 1
               PROVE  /\ frames'[i].bbs \subseteq frames'[i].loopset \cap V'
                      /\ frames'[i].bbs \cap Listed' \subseteq Inner(i)'
                      /\ frames'[i].entry \in Listed' \/ (i = Len(frames') /\ frames'[i].bbs = {frames'[i].entry})
                      /\ \A e \in cfg' : /\ e[1] \in (Listed' \cap frames'[i].loopset) \ Inner(i)'
                                         /\ e[2] \in frames'[i].loopset \ Listed'
                                         => e[2] \in frames'[i].bbs
    BY <1>5 DEF WorkLists
  <2>0. /\ frames'[i].loopset = L(i) /\ frames'[i].entry = frames[i].entry
        /\ V' = V /\ cfg' = cfg /\ Listed' = Listed
    BY <1>1, <1>5, <1>6
  <2>1. /\ frames[i].bbs \subseteq L(i) \cap V
        /\ frames[i].bbs \cap Listed \subseteq Inner(i)
        /\ frames[i].entry \in Listed
        /\ \A e \in cfg : /\ e[1] \in (Listed \cap L(i)) \ Inner(i)
                          /\ e[2] \in L(i) \ Listed
                          => e[2] \in frames[i].bbs
    <3>1. i \in DOMAIN frames /\ i # n
      BY <1>1
    <3> QED
      BY <3>1 DEF Walk, WorkLists, n
  <2>2. CASE i = n - 1
    <3>1. Inner(i)' = {} /\ Inner(i) = L(n) /\ frames'[i].bbs = bbs /\ L(i) = L(n - 1)
      BY <1>5, <1>6, <2>2
    <3>2. bbs \subseteq L(i) \cap V
      BY <1>4, <2>1, <2>2
    <3>3. bbs \cap Listed = {}
      BY <1>4, <2>1, <2>2, <3>1
    <3>4. ASSUME NEW e \in cfg, e[1] \in Listed \cap L(i), e[2] \in L(i) \ Listed
          PROVE  e[2] \in bbs
      <4>1. CASE e[1] \in L(n)
        BY <1>4, <2>2, <3>4, <4>1
      <4>2. CASE e[1] \notin L(n)
        BY <1>2, <2>1, <2>2, <3>1, <3>4, <4>2
      <4> QED
        BY <4>1, <4>2
    <3> HIDE DEF bbs
    <3> QED
      BY <2>0, <2>1, <3>1, <3>2, <3>3, <3>4
  <2>3. CASE i # n - 1
    <3>1. frames'[i] = frames[i] /\ Inner(i)' = Inner(i)
      BY <1>5, <1>6, <2>3
    <3> QED
      BY <2>0, <2>1, <3>1
  <2> QED
    BY <2>2, <2>3
<1>9. Behind'
  BY <1>1, <1>6 DEF Walk, Behind
<1>10. Together'
  <2> SUFFICES ASSUME NEW h \in Headers(cfg, Entry), LoopOf(h) \cap Listed # {}
               PROVE  \E k, m \in DOMAIN linear_list : Stands(h, k, m)'
    BY <1>1, <1>6 DEF Together
  <2>1. PICK k, m \in DOMAIN linear_list : Stands(h, k, m)
    BY DEF Walk, Together
  <2>2. n \in 2 .. n /\ L(n) = LoopOf(frames[n].entry)
    <3>1. n \in 2 .. n
      BY <1>1
    <3> QED
      BY <3>1 DEF Walk, Activations, n
  <2>3. LoopOf(h) \subseteq Listed \/ (m = Len(linear_list) /\ Opened(h)')
    BY <1>2, <1>6, <2>1, <2>2 DEF Stands
  <2>4. Stands(h, k, m)'
    BY <1>1, <1>6, <2>1, <2>3 DEF Stands
  <2> QED
    BY <2>4
<1>11. frames' # <<>>
  BY <1>1, <1>5
<1> QED
  BY <1>1, <1>6, <1>7, <1>8, <1>9, <1>10, <1>11 DEF Walk

LEMMA StartInv ==
  ASSUME Walk, LoopsKnown, LO!Start
  PROVE  Walk'
<1> DEFINE root == [loopset |-> Block, entry |-> Entry, bbs |-> {Entry}]
<1>1. /\ UNCHANGED <<cfg, base2loop, linear_list>> /\ linear_list = <<>>
      /\ frames' = <<root>> /\ Entry \in Block /\ Entry \in Reach(cfg, {Entry})
  <2>1. Entry \in Reach(cfg, {Entry})
    BY Avoided DEF LoopsKnown, Least
  <2> QED
    BY <2>1, BlockAssumption DEF LO!Start, LO!Frame, Walk
<1>2. root \in FrameRec /\ root.loopset = Block /\ root.entry = Entry /\ root.bbs = {Entry}
  BY <1>1 DEF FrameRec
<1> HIDE DEF root
<1>3. frames' \in Seq(FrameRec) /\ Len(frames') = 1 /\ DOMAIN frames' = {1} /\ frames'[1] = root /\ frames' # <<>>
  BY <1>1, <1>2
<1>4. Listed = {} /\ Listed' = {} /\ DOMAIN linear_list = {} /\ DOMAIN linear_list' = {}
  BY <1>1 DEF Listed
<1>5. Inner(1)' = {} /\ 2 .. Len(frames') = {}
  BY <1>3 DEF Inner
<1>6. Activations'
  BY <1>2, <1>3, <1>5 DEF Activations
<1>7. WorkLists'
  BY <1>1, <1>2, <1>3, <1>4, <1>5 DEF WorkLists
<1>8. Behind' /\ Together'
  BY <1>4 DEF Behind, Together
<1> QED
  BY <1>1, <1>3, <1>4, <1>6, <1>7, <1>8 DEF Walk

-----------------------------------------------------------------------------
(***************************************************************************)
(* The order that is found.                                                *)
(***************************************************************************)
OrderInv ==
  /\ \A e \in cfg : e[2] # Entry
  /\ stage = "loops" => linear_list = <<>> /\ frames = <<>>
  /\ stage # "loops" => Walk

LEMMA KnownLoops ==
  ASSUME LoopInv, OrderInv, stage # "loops"
  PROVE  LoopsKnown
<1>1. Rooted(Block, cfg, Entry) /\ Reducible(cfg, Entry) /\ Recorded /\ Ended
  BY DEF LoopInv, RoundInv
<1> QED
  BY <1>1 DEF Recorded, Ended, OrderInv, LoopsKnown

LEMMA InitOrder == Init => OrderInv
<1> SUFFICES ASSUME Init PROVE OrderInv
  OBVIOUS
<1>1. cfg \in LS!F!Graphs(Block, Entry)
  BY DEF Init, LS!Init, LS!F!Programs
<1>2. PICK x \in [Block -> SUBSET (Block \ {Entry})] : cfg = UNION {{<<b, c>> : c \in x[b]} : b \in Block}
  BY <1>1 DEF LS!F!Graphs
<1>3. \A e \in cfg : e[2] # Entry
  BY <1>2
<1> QED
  BY <1>3 DEF Init, LO!Init, OrderInv

LEMMA EmptyWalk ==
  ASSUME linear_list = <<>>, frames = <<>>
  PROVE  Walk
<1>1. /\ linear_list \in Seq(Block) /\ DOMAIN linear_list = {} /\ Len(linear_list) = 0
      /\ frames \in Seq(FrameRec) /\ DOMAIN frames = {} /\ Len(frames) = 0 /\ 2 .. Len(frames) = {}
  OBVIOUS
<1>2. Listed = {}
  BY <1>1 DEF Listed
<1> QED
  BY <1>1, <1>2 DEF Walk, Activations, WorkLists, Behind, Together

LEMMA OrderStep == LoopInv /\ OrderInv /\ [Next]_vars => OrderInv'
<1> SUFFICES ASSUME LoopInv, OrderInv, [Next]_vars PROVE OrderInv'
  OBVIOUS
<1>1. ASSUME stage = "loops", UNCHANGED <<cfg, linear_list, frames>> PROVE OrderInv'
  <2>1. linear_list' = <<>> /\ frames' = <<>>
    BY <1>1 DEF OrderInv
  <2>2. Walk'
    <3>1. (linear_list = <<>> /\ frames = <<>> => Walk)'
      BY EmptyWalk, PTL
    <3> QED
      BY <2>1, <3>1
  <2> QED
    BY <1>1, <2>1, <2>2 DEF OrderInv
<1>2. ASSUME stage # "loops", stage' # "loops", UNCHANGED <<cfg, linear_list, frames>> PROVE OrderInv'
  <2>1. Walk' <=> Walk
    <3>1. Listed' = Listed /\ (\A i : Inner(i)' = Inner(i)) /\ (\A h : Opened(h)' <=> Opened(h))
          /\ \A h : LoopOf(h)' = LoopOf(h)
      BY <1>2 DEF Listed, Inner, Opened, LoopOf
    <3>2. \A h, k, m : Stands(h, k, m)' <=> Stands(h, k, m)
      BY <1>2, <3>1 DEF Stands
    <3>3. Activations' <=> Activations
      BY <1>2, <3>1 DEF Activations
    <3>4. WorkLists' <=> WorkLists
      BY <1>2, <3>1 DEF WorkLists
    <3>5. Behind' <=> Behind
      BY <1>2, <3>1 DEF Behind
    <3>6. Together' <=> Together
      BY <1>2, <3>1, <3>2 DEF Together
    <3> QED
      BY <1>2, <3>1, <3>3, <3>4, <3>5, <3>6 DEF Walk
  <2> QED
    BY <1>2, <2>1 DEF OrderInv
<1>3. CASE Search
  BY <1>1, <1>3 DEF Search, Goes, order
<1>4. CASE EndSearch \/ SearchAtOnce
  BY <1>1, <1>4 DEF EndSearch, SearchAtOnce, Finds, Goes, order
<1>5. CASE Record
  <2>1. stage = "loops"
    BY <1>5 DEF Record, LoopInv, Ended
  <2>2. UNCHANGED <<cfg, linear_list, frames>>
    BY <1>5 DEF Record, Goes, order
  <2> QED
    BY <1>1, <2>1, <2>2
<1>6. CASE Order
  <2>1. stage = "order" /\ stage' = "order" /\ (LO!Start \/ LO!Next) /\ Walk
    BY <1>6 DEF Order, OrderInv
  <2>2. LoopsKnown
    BY <2>1, KnownLoops
  <2>3. Walk'
    <3>1. CASE LO!Start
      BY <2>1, <2>2, <3>1, StartInv
    <3>2. CASE LO!Next
      BY <2>1, <2>2, <3>2, ReturnFromInv, RecurseInv, PushInv DEF LO!Next
    <3> QED
      BY <2>1, <3>1, <3>2
  <2>4. cfg' = cfg
    BY <2>1 DEF LO!Start, LO!Next, LO!Return, LO!Recurse, LO!Push
  <2> QED
    BY <2>1, <2>3, <2>4 DEF OrderInv
<1>7. CASE Number
  BY <1>2, <1>7 DEF Number, order
<1>8. CASE Intervals
  BY <1>2, <1>8 DEF Intervals, order
<1>9. CASE UNCHANGED vars
  BY <1>1, <1>2, <1>9 DEF vars, order
<1> QED
  BY <1>3, <1>4, <1>5, <1>6, <1>7, <1>8, <1>9 DEF Next

LEMMA OrderInvHolds == Spec => [](LoopInv /\ OrderInv)
<1>1. Init => OrderInv
  BY InitOrder
<1>2. LoopInv /\ OrderInv /\ [Next]_vars => OrderInv'
  BY OrderStep
<1> QED
  BY <1>1, <1>2, LoopInvHolds, PTL DEF Spec

-----------------------------------------------------------------------------
\* When the outermost activation is done, everything is listed and every loop stands together.
LEMMA WalkOver ==
  ASSUME Walk, LoopsKnown, LO!Finished
  PROVE  /\ Listed = Reach(cfg, {Entry})
         /\ \A h \in Headers(cfg, Entry) : \E k, m \in DOMAIN linear_list :
              /\ linear_list[k] = h
              /\ \A j \in DOMAIN linear_list : linear_list[j] \in LoopOf(h) <=> k <= j /\ j <= m
              /\ LoopOf(h) \subseteq Listed
<1>1. frames # <<>> /\ Len(frames) = 1 /\ LO!Top.bbs = {}
  BY DEF LO!Finished, LO!Outermost
<1>2. 1 \in DOMAIN frames /\ LO!Top = frames[1] /\ frames[1].loopset = Block /\ frames[1].entry = Entry
  <2>1. 1 \in DOMAIN frames /\ LO!Top = frames[1]
    BY <1>1, Depths
  <2> QED
    BY <1>1, <2>1 DEF Walk, Activations
<1>3. Inner(1) = {}
  BY <1>1 DEF Inner
<1>4. Entry \in Listed /\ \A e \in cfg : e[1] \in Listed \cap Block /\ e[2] \in Block => e[2] \in Listed
  BY <1>1, <1>2, <1>3 DEF Walk, WorkLists
<1>5. Least(Block, cfg, {Entry}, Reach(cfg, {Entry})) /\ cfg \subseteq Block \X Block
  BY Avoided DEF LoopsKnown, Rooted
<1>6. Listed \subseteq Block /\ Listed \subseteq Reach(cfg, {Entry})
  BY <1>1, Depths DEF Walk
<1>7. \A e \in cfg : e[1] \in Listed => e[2] \in Listed
  BY <1>4, <1>5, <1>6
<1>8. Listed = Reach(cfg, {Entry})
  BY <1>4, <1>5, <1>6, <1>7 DEF Least
<1>9. ASSUME NEW h \in Headers(cfg, Entry)
      PROVE  \E k, m \in DOMAIN linear_list : Stands(h, k, m) /\ LoopOf(h) \subseteq Listed
  <2>1. h \in LoopOf(h) /\ LoopOf(h) \subseteq Listed
    BY <1>8, AboutLoops
  <2> QED
    BY <2>1 DEF Walk, Together
<1> QED
  BY <1>8, <1>9 DEF Stands

LEMMA PlaceOf ==
  ASSUME Walk
  PROVE  \A i \in DOMAIN linear_list : LO!Index(linear_list[i]) = i
BY DEF Walk, LO!Index

\* A predecessor outside the loop of a block stands before it.
LEMMA EdgesForward ==
  ASSUME Walk, LoopsKnown, NEW i \in DOMAIN linear_list, NEW j \in DOMAIN linear_list,
         NEW e \in cfg, e[1] = linear_list[i], e[2] = linear_list[j],
         ~ Dominates(cfg, Entry, e[2], e[1])
  PROVE  i < j
<1>1. e[1] \in Preds(cfg, linear_list[j])
  BY DEF Preds
<1>2. linear_list[j] \in Headers(cfg, Entry) => e[1] \notin LoopOf(linear_list[j])
  BY AboutLoops
<1>3. PICK k \in DOMAIN linear_list : k < j /\ linear_list[k] = e[1]
  BY <1>1, <1>2 DEF Walk, Behind
<1> QED
  BY <1>3 DEF Walk

LEMMA IsLegal ==
  ASSUME Walk, LoopsKnown, LO!Finished
  PROVE  /\ LO!IsInjective(linear_list) /\ LO!linear_set = LO!F!Reach(cfg, {Entry})
         /\ \A e \in cfg \ LO!F!BackEdges(cfg, Entry) : LO!Index(e[1]) < LO!Index(e[2])
         /\ \A h \in DOMAIN base2loop :
              {LO!Index(b) : b \in base2loop[h]}
                = LO!Index(h) .. LO!Index(h) + LO!Cardinality(base2loop[h]) - 1
<1> DEFINE V == Reach(cfg, {Entry})
<1>1. /\ Listed = V /\ LO!linear_set = Listed
      /\ Len(linear_list) \in Nat /\ DOMAIN linear_list = 1 .. Len(linear_list)
  BY WalkOver, Depths DEF LO!Finished
<1>2. LO!IsInjective(linear_list)
  BY DEF LO!IsInjective, Walk
<1>3. LO!linear_set = LO!F!Reach(cfg, {Entry})
  BY <1>1, SameGraph
<1>4. ASSUME NEW e \in cfg \ LO!F!BackEdges(cfg, Entry)
      PROVE  LO!Index(e[1]) < LO!Index(e[2])
  <2>1. ~ Dominates(cfg, Entry, e[2], e[1])
    BY <1>4, SameGraph DEF BackEdges
  <2>2. e[1] \in Listed /\ e[2] \in Listed
    BY <1>1, Avoided DEF LoopsKnown, Rooted, Least
  <2>3. PICK i \in DOMAIN linear_list : linear_list[i] = e[1]
    BY <2>2 DEF Listed
  <2>4. PICK j \in DOMAIN linear_list : linear_list[j] = e[2]
    BY <2>2 DEF Listed
  <2>5. i < j
    BY <2>1, <2>3, <2>4, EdgesForward
  <2> QED
    BY <2>3, <2>4, <2>5, PlaceOf
<1>5. ASSUME NEW h \in Headers(cfg, Entry)
      PROVE  {LO!Index(b) : b \in LoopOf(h)} = LO!Index(h) .. LO!Index(h) + Cardinality(LoopOf(h)) - 1
  <2>1. PICK k, m \in DOMAIN linear_list :
          /\ linear_list[k] = h
          /\ \A j \in DOMAIN linear_list : linear_list[j] \in LoopOf(h) <=> k <= j /\ j <= m
          /\ LoopOf(h) \subseteq Listed
    BY WalkOver
  <2>2. k \in Nat /\ m \in Nat /\ k .. m \subseteq DOMAIN linear_list /\ k <= m
    <3>1. k <= m
      BY <2>1, AboutLoops
    <3> QED
      BY <1>1, <3>1
  <2>3. \A b \in LoopOf(h) : \E j \in k .. m : linear_list[j] = b
    BY <1>1, <2>1 DEF Listed
  <2>4. \A j \in k .. m : linear_list[j] \in LoopOf(h) /\ LO!Index(linear_list[j]) = j
    BY <2>1, <2>2, PlaceOf
  <2>5. {LO!Index(b) : b \in LoopOf(h)} = k .. m
    <3>1. \A b \in LoopOf(h) : LO!Index(b) \in k .. m
      BY <2>3, <2>4
    <3>2. \A j \in k .. m : \E b \in LoopOf(h) : j = LO!Index(b)
      BY <2>4
    <3> QED
      BY <3>1, <3>2
  <2>6. Cardinality(LoopOf(h)) = m - k + 1
    <3> DEFINE f == [j \in k .. m |-> linear_list[j]]
    <3>1. f \in Surjection(k .. m, LoopOf(h))
      BY <2>3, <2>4 DEF Surjection
    <3>2. f \in Injection(k .. m, LoopOf(h))
      BY <2>2, <2>4 DEF Walk, Injection, IsInjective
    <3>3. IsFiniteSet(k .. m) /\ Cardinality(k .. m) = m - k + 1
      BY <2>2, FS_Interval
    <3> HIDE DEF f
    <3> QED
      BY <3>1, <3>2, <3>3, FS_Surjection
  <2>7. LO!Index(h) = k
    BY <2>1, PlaceOf
  <2> QED
    BY <2>2, <2>5, <2>6, <2>7
<1>6. \A S : LO!Cardinality(S) = Cardinality(S)
  BY DEF LO!Cardinality, Cardinality
<1> QED
  BY <1>2, <1>3, <1>4, <1>5, <1>6 DEF LoopsKnown

\* Some edge leads from behind the block that returns to it or before it; it would be one
\* back to a loop that block is in.
LEMMA IsLast ==
  ASSUME Walk, LoopsKnown, LO!Finished, NEW b \in Listed, Succs(cfg, b) = {},
         \A c \in Listed : b \in Reach(cfg, {c})
  PROVE  LO!Last(linear_list) = b
<1> DEFINE l == Len(linear_list)
<1>1. l \in Nat /\ DOMAIN linear_list = 1 .. l /\ Listed \subseteq Block /\ Listed = Reach(cfg, {Entry})
  BY WalkOver, Depths DEF LO!Finished
<1>2. PICK i \in 1 .. l : linear_list[i] = b
  BY <1>1 DEF Listed
<1> SUFFICES ASSUME i # l PROVE FALSE
  BY <1>2 DEF LO!Last
<1> DEFINE Z == {linear_list[j] : j \in i + 1 .. l}
<1> HIDE DEF l
<1>3. l \in 1 .. l /\ l \in i + 1 .. l /\ \A j \in i + 1 .. l : j \in 1 .. l /\ j > i
  BY <1>1, <1>2
<1>4. linear_list[l] \in Z /\ linear_list[l] \in Listed /\ Z \subseteq Listed /\ b \notin Z
  <2>1. \A j \in 1 .. l : linear_list[j] \in Listed
    BY <1>1 DEF Listed
  <2>2. \A j \in 1 .. l : linear_list[j] = b => j = i
    BY <1>1, <1>2 DEF Walk
  <2>3. linear_list[l] \in Z /\ \A z \in Z : \E j \in i + 1 .. l : linear_list[j] = z
    BY <1>3
  <2> HIDE DEF Z
  <2>4. b \notin Z
    BY <1>1, <1>2, <1>3, <2>2, <2>3
  <2> QED
    BY <1>3, <2>1, <2>3, <2>4
<1>5. \E e \in cfg : e[1] \in Z /\ e[2] \notin Z
  <2> SUFFICES ASSUME \A e \in cfg : e[1] \in Z => e[2] \in Z PROVE FALSE
    OBVIOUS
  <2> DEFINE x == linear_list[l]
  <2>1. x \in Z /\ x \in Listed /\ {x} \in SUBSET Block /\ Z \in SUBSET Block
    BY <1>1, <1>4
  <2> HIDE DEF x, Z
  <2>2. Least(Block, cfg, {x}, Reach(cfg, {x}))
    BY <2>1, Ways DEF LoopsKnown, Rooted
  <2>3. Reach(cfg, {x}) \subseteq Z
    BY <2>1, <2>2 DEF Least
  <2> QED
    BY <1>4, <2>1, <2>3
<1>6. PICK e \in cfg : e[1] \in Z /\ e[2] \notin Z
  BY <1>5
<1>7. PICK j \in i + 1 .. l : linear_list[j] = e[1]
  BY <1>6
<1>8. e[2] \in Listed
  <2>1. Least(Block, cfg, {Entry}, Reach(cfg, {Entry}))
    BY Avoided DEF LoopsKnown
  <2> QED
    BY <1>1, <1>4, <1>6, <2>1 DEF Least
<1>9. PICK k \in 1 .. l : linear_list[k] = e[2]
  BY <1>1, <1>8 DEF Listed
<1>10. k <= i /\ j \in 1 .. l /\ j > i
  BY <1>1, <1>2, <1>3, <1>6, <1>9
<1>11. Dominates(cfg, Entry, e[2], e[1])
  BY <1>1, <1>2, <1>7, <1>9, <1>10, EdgesForward
<1>12. e[2] \in Headers(cfg, Entry) /\ e[1] \in LoopOf(e[2])
  <2>1. e[2] \in Headers(cfg, Entry)
    BY <1>11 DEF Headers, BackEdges
  <2> QED
    BY <1>11, <2>1, AboutLoops
<1>13. PICK p, q \in 1 .. l :
         /\ linear_list[p] = e[2]
         /\ \A x \in 1 .. l : linear_list[x] \in LoopOf(e[2]) <=> p <= x /\ x <= q
  BY <1>1, <1>12, WalkOver
<1>14. b \in LoopOf(e[2])
  <2>1. p = k
    BY <1>1, <1>9, <1>13 DEF Walk
  <2>2. j <= q
    BY <1>7, <1>10, <1>12, <1>13
  <2> QED
    BY <1>1, <1>2, <1>10, <1>13, <2>1, <2>2
<1>15. {b} = LoopOf(e[2])
  <2>1. Strong(cfg, LoopOf(e[2]))
    BY <1>12, AboutLoops
  <2>2. \A d \in cfg : d[1] # b
    BY DEF Succs
  <2>3. {b} \in SUBSET LoopOf(e[2]) /\ {b} # {} /\ \A d \in cfg : d[1] \in {b} /\ d[2] \in LoopOf(e[2]) => d[2] \in {b}
    BY <1>14, <2>2
  <2> QED
    BY <2>1, <2>3 DEF Strong
<1>16. e[1] = b
  BY <1>12, <1>15
<1> QED
  BY <1>4, <1>6, <1>16

\* For every reducible program, whatever order the sets are walked in: there is always a
\* block to take, all blocks are listed once and behind their predecessors except over back
\* edges, loops stand together with their header first, and the block that returns is last.
THEOREM OrderIsLegal == Spec => []LegalOrder
<1>1. LoopInv /\ OrderInv => LegalOrder
  <2> SUFFICES ASSUME LoopInv, OrderInv, stage = "order"
               PROVE  LO!AlwaysACandidate /\ LO!LegalOrder /\ LO!ReturnLast
    BY DEF LegalOrder
  <2>1. Walk /\ LoopsKnown
    BY KnownLoops DEF OrderInv
  <2>2. LO!AlwaysACandidate
    BY <2>1, AlwaysTaken DEF LO!AlwaysACandidate
  <2>3. LO!LegalOrder
    BY <2>1, IsLegal DEF LO!LegalOrder
  <2>4. LO!ReturnLast
    <3> SUFFICES ASSUME LO!Finished, NEW b \in LO!linear_set, LO!F!Succs(cfg, b) = {},
                        \A c \in LO!linear_set : b \in LO!F!Reach(cfg, {c})
                 PROVE  LO!Last(linear_list) = b
      BY DEF LO!ReturnLast
    <3>1. LO!linear_set = Listed
      BY <2>1, Depths DEF LO!Finished
    <3>2. Succs(cfg, b) = {} /\ \A c \in Listed : b \in Reach(cfg, {c})
      BY <3>1, SameGraph
    <3> QED
      BY <2>1, <3>1, <3>2, IsLast
  <2> QED
    BY <2>2, <2>3, <2>4
<1> QED
  BY <1>1, OrderInvHolds, PTL

-----------------------------------------------------------------------------
(***************************************************************************)
(* The blocks by their places in the order: the graph is the same, its     *)
(* loops are intervals, and what is not a back edge leads up.              *)
(***************************************************************************)
LaidOut(n, E) ==
  /\ n \in Nat \ {0} /\ Rooted(1 .. n, E, 1) /\ Reach(E, {1}) = 1 .. n
  /\ \A e \in E : Dominates(E, 1, e[2], e[1]) \/ e[1] < e[2]
  /\ \A h \in Headers(E, 1) : \E m \in 1 .. n : NaturalLoop(E, 1, h) = h .. m

LEMMA ListedBlocks ==
  ASSUME Walk, LoopsKnown, LO!Finished
  PROVE  /\ Len(linear_list) \in Nat \ {0} /\ DOMAIN linear_list = 1 .. Len(linear_list)
         /\ Rooted(Listed, cfg, Entry) /\ Listed = Reach(cfg, {Entry})
         /\ \A i \in 1 .. Len(linear_list) : linear_list[i] \in Listed /\ LO!Index(linear_list[i]) = i
         /\ \A b \in Listed : LO!Index(b) \in 1 .. Len(linear_list) /\ linear_list[LO!Index(b)] = b
         /\ linear_list[1] = Entry
<1> DEFINE n == Len(linear_list)
<1>1. Listed = Reach(cfg, {Entry}) /\ n \in Nat /\ DOMAIN linear_list = 1 .. n
  BY WalkOver, Depths DEF LO!Finished
<1> HIDE DEF n
<1>2. Least(Block, cfg, {Entry}, Listed) /\ IsFiniteSet(Block) /\ cfg \subseteq Block \X Block
      /\ \A e \in cfg : e[1] \in Reach(cfg, {Entry})
  <2>1. Least(Block, cfg, {Entry}, Reach(cfg, {Entry}))
    BY Avoided DEF LoopsKnown
  <2> QED
    BY <1>1, <2>1 DEF LoopsKnown, Rooted
<1>3. Entry \in Listed /\ Listed \subseteq Block /\ \A e \in cfg : e[1] \in Listed /\ e[2] \in Listed
  BY <1>1, <1>2 DEF Least
<1>4. Rooted(Listed, cfg, Entry)
  <2>1. IsFiniteSet(Listed)
    BY <1>2, <1>3, FS_Subset
  <2> QED
    BY <1>1, <1>2, <1>3, <2>1 DEF Rooted
<1>5. \A i \in 1 .. n : linear_list[i] \in Listed /\ LO!Index(linear_list[i]) = i
  BY <1>1, PlaceOf DEF Listed
<1>6. \A b \in Listed : LO!Index(b) \in 1 .. n /\ linear_list[LO!Index(b)] = b
  <2> TAKE b \in Listed
  <2>1. PICK i \in 1 .. n : linear_list[i] = b
    BY <1>1 DEF Listed
  <2> QED
    BY <1>5, <2>1
<1>7. n \in Nat \ {0} /\ 1 \in 1 .. n
  <2>1. LO!Index(Entry) \in 1 .. n
    BY <1>3, <1>6
  <2> QED
    BY <1>1, <2>1
<1>8. linear_list[1] = Entry
  <2> SUFFICES ASSUME linear_list[1] # Entry PROVE FALSE
    OBVIOUS
  <2>1. 1 \in 1 .. n /\ linear_list[1] \in Reach(cfg, {Entry})
    BY <1>1, <1>5, <1>7
  <2>2. PICK e \in cfg : e[2] = linear_list[1] /\ ~ Dominates(cfg, Entry, linear_list[1], e[1])
    BY <2>1, Forward
  <2>3. PICK i \in 1 .. n : linear_list[i] = e[1]
    BY <1>3, <1>6
  <2>4. i < 1
    BY <1>1, <2>1, <2>2, <2>3, EdgesForward
  <2> QED
    BY <1>1, <2>3, <2>4
<1> QED
  BY <1>1, <1>4, <1>5, <1>6, <1>7, <1>8 DEF n

LEMMA OrderGives ==
  ASSUME Walk, LoopsKnown, LO!Finished
  PROVE  LaidOut(Len(linear_list), {<<LO!Index(e[1]), LO!Index(e[2])>> : e \in cfg})
<1> DEFINE n == Len(linear_list)
           E == {<<LO!Index(e[1]), LO!Index(e[2])>> : e \in cfg}
           g == [b \in Listed |-> LO!Index(b)]
           f == [i \in 1 .. n |-> linear_list[i]]
<1>1. n \in Nat \ {0} /\ DOMAIN linear_list = 1 .. n /\ Rooted(Listed, cfg, Entry) /\ Listed = Reach(cfg, {Entry})
  BY ListedBlocks
<1>a. /\ \A i \in 1 .. n : linear_list[i] \in Listed /\ LO!Index(linear_list[i]) = i
      /\ \A b \in Listed : LO!Index(b) \in 1 .. n /\ linear_list[LO!Index(b)] = b
      /\ linear_list[1] = Entry /\ Entry \in Listed
  BY ListedBlocks DEF Rooted
<1> HIDE DEF n
<1>2. /\ g \in [Listed -> 1 .. n] /\ f \in [1 .. n -> Listed] /\ f[1] = Entry /\ g[Entry] = 1
      /\ \A b \in Listed : f[g[b]] = b
      /\ \A i \in 1 .. n : g[f[i]] = i
  <2>1. 1 \in 1 .. n
    BY <1>1
  <2>2. \A b \in Listed : g[b] = LO!Index(b) /\ g[b] \in 1 .. n
    BY <1>a
  <2>3. \A i \in 1 .. n : f[i] = linear_list[i] /\ f[i] \in Listed
    BY <1>a
  <2>4. g \in [Listed -> 1 .. n] /\ f \in [1 .. n -> Listed]
    BY <2>2, <2>3
  <2> HIDE DEF f, g
  <2> QED
    BY <1>a, <2>1, <2>2, <2>3, <2>4
<1>3. \A e \in cfg : e[1] \in Listed /\ e[2] \in Listed /\ <<g[e[1]], g[e[2]]>> \in E
  BY <1>1 DEF Rooted
<1>4. \A d \in E : /\ d \in (1 .. n) \X (1 .. n) /\ <<f[d[1]], f[d[2]]>> \in cfg
                   /\ \E e \in cfg : f[d[1]] = e[1] /\ f[d[2]] = e[2] /\ d[1] = g[e[1]] /\ d[2] = g[e[2]]
  <2> TAKE d \in E
  <2>0. PICK e \in cfg : d = <<LO!Index(e[1]), LO!Index(e[2])>>
    OBVIOUS
  <2>1. e[1] \in Listed /\ e[2] \in Listed /\ e = <<e[1], e[2]>>
    BY <1>1, <1>3 DEF Rooted
  <2>2. g[e[1]] = LO!Index(e[1]) /\ g[e[2]] = LO!Index(e[2]) /\ g[e[1]] \in 1 .. n /\ g[e[2]] \in 1 .. n
    BY <1>2, <2>1
  <2>3. f[g[e[1]]] = e[1] /\ f[g[e[2]]] = e[2]
    BY <1>2, <2>1
  <2> HIDE DEF f, g, E
  <2>4. d[1] = g[e[1]] /\ d[2] = g[e[2]] /\ d \in (1 .. n) \X (1 .. n)
    BY <2>0, <2>2
  <2> QED
    BY <2>1, <2>3, <2>4
<1> HIDE DEF E, f, g
<1>5. Reach(E, {1}) = 1 .. n /\ Rooted(1 .. n, E, 1)
  <2>1. IsFiniteSet(1 .. n) /\ E \subseteq (1 .. n) \X (1 .. n) /\ 1 \in 1 .. n /\ {1} \in SUBSET (1 .. n)
    <3>1. n \in Int /\ 1 \in Int /\ 1 \in 1 .. n
      BY <1>1
    <3>2. IsFiniteSet(1 .. n)
      BY <3>1, FS_Interval
    <3> QED
      BY <1>4, <3>1, <3>2
  <2>2. Least(1 .. n, E, {1}, Reach(E, {1}))
    BY <2>1, Ways
  <2>3. Least(Listed, cfg, {Entry}, Listed)
    BY <1>1, Avoided
  <2> DEFINE S == {b \in Listed : g[b] \in Reach(E, {1})}
  <2>4. Entry \in S /\ S \in SUBSET Listed
    BY <1>1, <1>2, <2>2 DEF Least, Rooted
  <2>5. \A e \in cfg : e[1] \in S => e[2] \in S
    BY <1>3, <2>2 DEF Least
  <2>6. Listed \subseteq S
    <3> HIDE DEF S
    <3> QED
      BY <2>3, <2>4, <2>5 DEF Least
  <2>7. \A i \in 1 .. n : i \in Reach(E, {1})
    BY <1>2, <2>6
  <2>8. Reach(E, {1}) = 1 .. n
    BY <2>2, <2>7 DEF Least
  <2> QED
    BY <2>1, <2>8 DEF Rooted
<1>6. \A a, b \in Listed : Dominates(E, 1, g[a], g[b]) <=> Dominates(cfg, Entry, a, b)
  <2> SUFFICES ASSUME NEW a \in Listed, NEW b \in Listed
               PROVE  Dominates(E, 1, g[a], g[b]) <=> Dominates(cfg, Entry, a, b)
    OBVIOUS
  <2>1. (\A x \in Listed : g[x] = g[a] => x = a) /\ g[a] \in 1 .. n /\ g[b] \in 1 .. n
        /\ \A x \in 1 .. n : f[x] = f[g[a]] => x = g[a]
    BY <1>2
  <2>2. b \in Avoiding(cfg, Entry, a) => g[b] \in Avoiding(E, 1, g[a])
    BY <1>1, <1>2, <1>3, <1>5, <2>1, CarriedWays
  <2>3. \A d \in E : <<f[d[1]], f[d[2]]>> \in cfg
    BY <1>4
  <2>4. \A x \in Avoiding(E, 1, g[a]) : f[x] \in Avoiding(cfg, Entry, f[g[a]])
    BY <1>1, <1>2, <1>5, <2>1, <2>3, CarriedWays
  <2>5. g[b] \in Avoiding(E, 1, g[a]) => b \in Avoiding(cfg, Entry, a)
    BY <1>2, <2>4
  <2>6. a = b <=> g[a] = g[b]
    BY <2>1
  <2> QED
    BY <2>2, <2>5, <2>6 DEF Dominates, Avoiding
<1>7. ASSUME NEW d \in E, ~ Dominates(E, 1, d[2], d[1]) PROVE d[1] < d[2]
  <2>1. PICK e \in cfg : f[d[1]] = e[1] /\ f[d[2]] = e[2] /\ d[1] = g[e[1]] /\ d[2] = g[e[2]]
    BY <1>4
  <2>2. ~ Dominates(cfg, Entry, e[2], e[1])
    BY <1>3, <1>6, <1>7, <2>1
  <2>3. d[1] \in 1 .. n /\ d[2] \in 1 .. n /\ linear_list[d[1]] = e[1] /\ linear_list[d[2]] = e[2]
    BY <1>4, <2>1 DEF f
  <2> QED
    BY <1>1, <2>2, <2>3, EdgesForward
<1>8. ASSUME NEW h \in Headers(E, 1) PROVE \E m \in 1 .. n : NaturalLoop(E, 1, h) = h .. m
  <2> DEFINE b == f[h]
             L == NaturalLoop(E, 1, h)
  <2>1. h \in 1 .. n /\ b \in Listed /\ b \in Headers(cfg, Entry) /\ g[b] = h
    <3>1. PICK d \in E : Dominates(E, 1, d[2], d[1]) /\ d[2] = h
      BY DEF Headers, BackEdges
    <3>2. PICK e \in cfg : f[d[1]] = e[1] /\ f[d[2]] = e[2] /\ d[1] = g[e[1]] /\ d[2] = g[e[2]]
      BY <1>4
    <3>3. Dominates(cfg, Entry, e[2], e[1])
      BY <1>3, <1>6, <3>1, <3>2
    <3>4. h \in 1 .. n /\ b = e[2] /\ b \in Listed
      BY <1>3, <1>4, <3>1, <3>2
    <3> QED
      BY <1>2, <3>3, <3>4 DEF Headers, BackEdges
  <2>2. PICK k, m \in 1 .. n :
          /\ linear_list[k] = b
          /\ \A j \in 1 .. n : linear_list[j] \in LoopOf(b) <=> k <= j /\ j <= m
          /\ LoopOf(b) \subseteq Listed
    BY <1>1, <2>1, WalkOver
  <2>3. k = h /\ \A j \in 1 .. n : f[j] \in LoopOf(b) <=> h <= j /\ j <= m
    BY <1>2, <2>1, <2>2 DEF f
  <2>4. /\ b \in LoopOf(b) /\ Strong(cfg, LoopOf(b))
        /\ \A x \in LoopOf(b) : Dominates(cfg, Entry, b, x)
    BY <2>1, AboutLoops
  <2>5. /\ h \in L /\ L \subseteq 1 .. n /\ Strong(E, L)
        /\ \A x \in L : Dominates(E, 1, h, x)
    <3>1. h \in Reach(E, {1})
      BY <1>5, <2>1
    <3> QED
      BY <1>5, <3>1, LoopEntry, LoopStrong
  <2> HIDE DEF b, L
  <2>6. L \subseteq h .. m
    <3> DEFINE C == {f[x] : x \in L}
    <3>1. Strong(cfg, C)
      <4>1. \A d \in E : d[1] \in L /\ d[2] \in L => <<f[d[1]], f[d[2]]>> \in cfg
        BY <1>4
      <4> QED
        BY <2>5, <4>1, CarriedStrong
    <3>2. C \in SUBSET Listed /\ b \in C
      BY <1>2, <2>5 DEF b
    <3>3. \A c \in C : Dominates(cfg, Entry, b, c)
      <4> SUFFICES ASSUME NEW x \in L PROVE Dominates(cfg, Entry, b, f[x])
        OBVIOUS
      <4>1. f[x] \in Listed /\ g[f[x]] = x /\ Dominates(E, 1, g[b], x)
        BY <1>2, <2>1, <2>5
      <4> QED
        BY <1>6, <2>1, <4>1
    <3> HIDE DEF C
    <3>4. C \subseteq NaturalLoop(cfg, Entry, b)
      <4>1. C \in SUBSET Reach(cfg, {Entry})
        BY <1>1, <3>2
      <4> QED
        BY <1>1, <3>1, <3>2, <3>3, <4>1, LoopWhole
    <3>5. \A x \in L : f[x] \in LoopOf(b) /\ x \in 1 .. n
      BY <2>5, <3>4 DEF C, LoopOf
    <3> QED
      BY <1>1, <2>1, <2>2, <2>3, <3>5
  <2>7. h .. m \subseteq L
    <3> DEFINE C == {g[x] : x \in LoopOf(b)}
    <3>1. Strong(E, C)
      <4>1. \A e \in cfg : e[1] \in LoopOf(b) /\ e[2] \in LoopOf(b) => <<g[e[1]], g[e[2]]>> \in E
        BY <1>3
      <4> QED
        BY <2>4, <4>1, CarriedStrong
    <3>2. C \in SUBSET (1 .. n) /\ h \in C
      BY <1>2, <2>1, <2>2, <2>4
    <3>3. \A c \in C : Dominates(E, 1, h, c)
      BY <1>6, <2>1, <2>2, <2>4
    <3>4. \A j \in h .. m : j \in C
      <4> SUFFICES ASSUME NEW j \in h .. m PROVE j \in C
        OBVIOUS
      <4>1. j \in 1 .. n /\ h <= j /\ j <= m
        BY <1>1, <2>1, <2>2
      <4>2. f[j] \in LoopOf(b) /\ g[f[j]] = j
        BY <1>2, <2>3, <4>1
      <4> QED
        BY <4>2
    <3> HIDE DEF C
    <3>5. C \subseteq NaturalLoop(E, 1, h)
      <4>1. C \in SUBSET Reach(E, {1})
        BY <1>5, <3>2
      <4> QED
        BY <1>5, <3>1, <3>2, <3>3, <4>1, LoopWhole
    <3> QED
      BY <3>4, <3>5 DEF L
  <2> QED
    BY <2>2, <2>6, <2>7 DEF L
<1> QED
  BY <1>1, <1>5, <1>7, <1>8 DEF LaidOut, n, E

-----------------------------------------------------------------------------
(***************************************************************************)
(* The live ranges.  What is alive behind block t is the least set that    *)
(* holds the blocks which use the value and what leads to a member of it,  *)
(* the block of the definition aside.                                      *)
(***************************************************************************)
LEMMA SameFlowgraph ==
  /\ \A E, X : BI!F!Reach(E, X) = Reach(E, X)
  /\ \A E, b : BI!F!Succs(E, b) = Succs(E, b)
  /\ \A E, r, a, b : BI!F!Dominates(E, r, a, b) = Dominates(E, r, a, b)
  /\ \A E, r : BI!F!Headers(E, r) = Headers(E, r)
  /\ \A E, r, h : BI!F!NaturalLoop(E, r, h) = NaturalLoop(E, r, h)
<1>1. \A E, X : BI!F!Reach(E, X) = Reach(E, X)
  BY DEF BI!F!Reach, Reach, BI!F!Cardinality, Cardinality
<1>2. \A E, b : BI!F!Succs(E, b) = Succs(E, b)
  BY DEF BI!F!Succs, Succs
<1>3. \A E, a : BI!F!Without(E, a) = Without(E, a)
  BY DEF BI!F!Without, Without
<1>4. \A E, r, a, b : BI!F!Dominates(E, r, a, b) = Dominates(E, r, a, b)
  BY <1>1, <1>3 DEF BI!F!Dominates, Dominates
<1>5. \A E, r : BI!F!BackEdges(E, r) = BackEdges(E, r)
  BY <1>4 DEF BI!F!BackEdges, BackEdges
<1>6. \A E, r : BI!F!Headers(E, r) = Headers(E, r)
  BY <1>5 DEF BI!F!Headers, Headers
<1>7. \A E, r, h : BI!F!NaturalLoop(E, r, h) = NaturalLoop(E, r, h)
  BY <1>1, <1>3, <1>5 DEF BI!F!NaturalLoop, NaturalLoop
<1> QED
  BY <1>1, <1>2, <1>4, <1>6, <1>7

\* The value is defined once, above its uses.
Value ==
  /\ def = <<0, 0>> \/ def \in (1 .. N) \X (0 .. Length)
  /\ \A u \in uses : u \in (1 .. N) \X (1 .. Length) /\ BI!Above(def, u)
  /\ \A e \in phi_uses : e \in edges /\ BI!Above(def, <<e[1], Length + 1>>)

Laid == LaidOut(N, edges)
Used(b) == BI!Reads(b) # {} \/ BI!PhiUse(b)
Out(L, b) == BI!PhiUse(b) \/ Succs(edges, b) \cap L # {}

Alive(t, L) ==
  /\ L \subseteq (t + 1 .. N) \ {def[1]}
  /\ \A b \in t + 1 .. N : b # def[1] /\ Used(b) => b \in L
  /\ \A e \in edges : e[1] > t /\ e[1] # def[1] /\ e[2] \in L => e[1] \in L

LeastAlive(t, L) == Alive(t, L) /\ \A S \in SUBSET (1 .. N) : Alive(t, S) => L \subseteq S

\* The definition rules what the value is needed in.
Ruled(b) == def[1] = 0 \/ Dominates(edges, 1, def[1], b)

LEMMA DominatesAscends ==
  ASSUME Laid, NEW a \in 1 .. N, NEW b \in 1 .. N, Dominates(edges, 1, a, b), a # b
  PROVE  a < b
<1> DEFINE S == {x \in 1 .. N : x < a /\ Dominates(edges, 1, a, x)}
<1>1. /\ N \in Nat /\ Rooted(1 .. N, edges, 1) /\ Reach(edges, {1}) = 1 .. N
      /\ edges \subseteq (1 .. N) \X (1 .. N) /\ 1 \in 1 .. N
      /\ \A e \in edges : Dominates(edges, 1, e[2], e[1]) \/ e[1] < e[2]
  BY DEF Laid, LaidOut, Rooted
<1> SUFFICES ASSUME b \in S PROVE FALSE
  BY <1>1
<1> DEFINE ix == [x \in S |-> N - x]
<1>2. \A x \in S : ix[x] \in 0 .. N
  BY <1>1
<1>3. PICK c \in S : \A y \in S : ix[y] <= ix[c]
  <2> HIDE DEF S, ix
  <2> QED
    BY <1>1, <1>2, Topmost
<1>4. c \in 1 .. N /\ c < a /\ Dominates(edges, 1, a, c) /\ \A y \in S : c <= y
  BY <1>1, <1>3
<1>5. \E e \in edges : e[2] = c /\ ~ Dominates(edges, 1, c, e[1])
  <2> SUFFICES ASSUME \A e \in edges : e[2] = c => Dominates(edges, 1, c, e[1]) PROVE FALSE
    OBVIOUS
  <2> DEFINE A == Avoiding(edges, 1, c)
  <2>1. /\ Least(1 .. N, edges, {1}, Reach(edges, {1})) /\ A \subseteq 1 .. N /\ c \notin A
        /\ 1 # c => 1 \in A
        /\ \A e \in edges : e[1] \in A /\ e[2] # c => e[2] \in A
    BY <1>1, Avoided
  <2>2. \A e \in edges : e[2] = c => e[1] \notin A
    BY <1>1, <1>4, <2>1 DEF Dominates, Avoiding
  <2>3. 1 # c
    <3> SUFFICES ASSUME 1 = c PROVE FALSE
      OBVIOUS
    <3>a. 1 # a => 1 \in Avoiding(edges, 1, a)
      BY <1>1, Avoided
    <3>1. 1 \in Avoiding(edges, 1, a)
      BY <1>4, <3>a
    <3> QED
      BY <1>1, <1>4, <3>1 DEF Dominates, Avoiding
  <2> HIDE DEF A
  <2>4. 1 .. N \subseteq A
    BY <1>1, <2>1, <2>2, <2>3 DEF Least
  <2> QED
    BY <1>4, <2>1, <2>4
<1>6. PICK e \in edges : e[2] = c /\ ~ Dominates(edges, 1, c, e[1])
  BY <1>5
<1>7. e[1] < c /\ e[1] \in 1 .. N
  BY <1>1, <1>6
<1>8. Dominates(edges, 1, a, e[1])
  BY <1>1, <1>4, <1>6, DominatesBefore
<1> QED
  BY <1>1, <1>4, <1>7, <1>8

LEMMA UsesRuled ==
  ASSUME Laid, Value
  PROVE  /\ def[1] \in 0 .. N /\ (def[1] = 0 <=> def = <<0, 0>>)
         /\ \A b \in 1 .. N : Used(b) => Ruled(b)
         /\ \A e \in edges : Ruled(e[2]) /\ e[2] # def[1] => Ruled(e[1])
         /\ \A b \in 1 .. N : Ruled(b) /\ b # def[1] => def[1] < b
<1>1. N \in Nat /\ Rooted(1 .. N, edges, 1) /\ edges \subseteq (1 .. N) \X (1 .. N)
  BY DEF Laid, LaidOut, Rooted
<1>2. def[1] \in 0 .. N /\ (def[1] = 0 <=> def = <<0, 0>>)
  <2>1. CASE def = <<0, 0>>
    BY <1>1, <2>1
  <2>2. CASE def \in (1 .. N) \X (0 .. Length)
    BY <1>1, <2>2
  <2> QED
    BY <2>1, <2>2 DEF Value
<1>3. \A u : BI!Above(def, u) => Ruled(u[1])
  BY <1>2, SameFlowgraph DEF BI!Above, Ruled, Dominates
<1>4. ASSUME NEW b \in 1 .. N, Used(b) PROVE Ruled(b)
  <2>1. CASE BI!Reads(b) # {}
    <3>1. PICK u \in uses : u[1] = b
      BY <2>1 DEF BI!Reads
    <3> QED
      BY <1>3, <3>1 DEF Value
  <2>2. CASE BI!PhiUse(b)
    <3>1. PICK e \in phi_uses : e[1] = b
      BY <2>2 DEF BI!PhiUse
    <3>2. Ruled(<<e[1], Length + 1>>[1])
      BY <1>3 DEF Value
    <3> QED
      BY <3>1, <3>2
  <2> QED
    BY <1>4, <2>1, <2>2 DEF Used
<1>5. \A e \in edges : Ruled(e[2]) /\ e[2] # def[1] => Ruled(e[1])
  BY <1>1, DominatesBefore DEF Ruled
<1>6. ASSUME NEW b \in 1 .. N, Ruled(b), b # def[1] PROVE def[1] < b
  <2>1. CASE def[1] = 0
    BY <2>1
  <2>2. CASE def[1] # 0
    <3>1. def[1] \in 1 .. N /\ Dominates(edges, 1, def[1], b)
      BY <1>2, <1>6, <2>2 DEF Ruled
    <3> QED
      BY <1>6, <3>1, DominatesAscends
  <2> QED
    BY <2>1, <2>2
<1> QED
  BY <1>2, <1>4, <1>5, <1>6

LEMMA AliveFacts ==
  ASSUME Laid, Value, NEW t \in 0 .. N, NEW L, LeastAlive(t, L)
  PROVE  /\ L \subseteq t + 1 .. N /\ def[1] \notin L
         /\ \A b \in L : Ruled(b)
         /\ \A b \in L : Out(L, b) \/ BI!Reads(b) # {}
<1>1. N \in Nat /\ edges \subseteq (1 .. N) \X (1 .. N)
  BY DEF Laid, LaidOut, Rooted
<1>2. Alive(t, L) /\ \A S \in SUBSET (1 .. N) : Alive(t, S) => L \subseteq S
  BY DEF LeastAlive
<1>3. L \subseteq t + 1 .. N /\ def[1] \notin L /\ L \subseteq 1 .. N
  <2>1. \A b \in t + 1 .. N : b \in 1 .. N
    BY <1>1
  <2>2. L \subseteq (t + 1 .. N) \ {def[1]}
    BY <1>2 DEF Alive
  <2> QED
    BY <2>1, <2>2
<1>4. \A b \in L : Ruled(b)
  <2> DEFINE S == {b \in L : Ruled(b)}
  <2>1. Alive(t, S)
    <3>1. \A b \in t + 1 .. N : b # def[1] /\ Used(b) => b \in S
      <4>1. \A b \in t + 1 .. N : b \in 1 .. N
        BY <1>1
      <4> QED
        BY <1>2, <4>1, UsesRuled DEF Alive
    <3>2. \A e \in edges : e[1] > t /\ e[1] # def[1] /\ e[2] \in S => e[1] \in S
      BY <1>2, <1>3, UsesRuled DEF Alive
    <3> QED
      BY <1>2, <3>1, <3>2 DEF Alive
  <2>2. S \in SUBSET (1 .. N)
    BY <1>3
  <2> HIDE DEF S
  <2>3. L \subseteq S
    BY <1>2, <2>1, <2>2
  <2> QED
    BY <2>3 DEF S
<1>5. ASSUME NEW b \in L, ~ Out(L, b), BI!Reads(b) = {} PROVE FALSE
  <2> DEFINE S == L \ {b}
  <2>1. ~ Used(b) /\ \A e \in edges : e[1] = b => e[2] \notin L
    BY <1>5 DEF Out, Used, Succs
  <2>2. Alive(t, S)
    BY <1>2, <2>1 DEF Alive
  <2>3. S \in SUBSET (1 .. N)
    BY <1>3
  <2> HIDE DEF S
  <2>4. L \subseteq S
    BY <1>2, <2>2, <2>3
  <2> QED
    BY <2>4 DEF S
<1> QED
  BY <1>3, <1>4, <1>5

\* A block that an edge leads back to is a header, and its loop has no other entry.
LEMMA LoopIntervals ==
  ASSUME Laid
  PROVE  /\ \A e \in edges : e[2] <= e[1] => e[2] \in Headers(edges, 1)
         /\ \A h \in Headers(edges, 1) : \E m \in 1 .. N :
              /\ h \in 1 .. N /\ h <= m /\ NaturalLoop(edges, 1, h) = h .. m /\ Strong(edges, h .. m)
              /\ \A e \in edges : e[2] \in h .. m /\ e[1] >= h => e[1] \in h .. m
              /\ \A b \in h .. m : \E e \in edges : e[1] = b /\ e[2] \in h .. m
<1>1. /\ N \in Nat /\ Rooted(1 .. N, edges, 1) /\ Reach(edges, {1}) = 1 .. N
      /\ edges \subseteq (1 .. N) \X (1 .. N)
      /\ \A e \in edges : Dominates(edges, 1, e[2], e[1]) \/ e[1] < e[2]
      /\ \A h \in Headers(edges, 1) : \E m \in 1 .. N : NaturalLoop(edges, 1, h) = h .. m
  BY DEF Laid, LaidOut, Rooted
<1>2. ASSUME NEW e \in edges, e[2] <= e[1]
      PROVE  e[2] \in Headers(edges, 1) /\ Dominates(edges, 1, e[2], e[1])
  <2>1. Dominates(edges, 1, e[2], e[1])
    BY <1>1, <1>2
  <2> QED
    BY <2>1 DEF Headers, BackEdges
<1>3. ASSUME NEW h \in Headers(edges, 1)
      PROVE  \E m \in 1 .. N :
              /\ h \in 1 .. N /\ h <= m /\ NaturalLoop(edges, 1, h) = h .. m /\ Strong(edges, h .. m)
              /\ \A e \in edges : e[2] \in h .. m /\ e[1] >= h => e[1] \in h .. m
              /\ \A b \in h .. m : \E e \in edges : e[1] = b /\ e[2] \in h .. m
  <2>1. PICK m \in 1 .. N : NaturalLoop(edges, 1, h) = h .. m
    BY <1>1
  <2> DEFINE C == h .. m
  <2>2. PICK d \in edges : Dominates(edges, 1, h, d[1]) /\ d[2] = h
    BY DEF Headers, BackEdges
  <2>3. h \in 1 .. N
    BY <1>1, <2>2
  <2>4. /\ h \in C /\ Strong(edges, C)
        /\ \A e \in edges : e[2] \in C /\ (e[2] # h \/ Dominates(edges, 1, h, e[1])) => e[1] \in C
    <3>1. h \in Reach(edges, {1})
      BY <1>1, <2>3
    <3> QED
      BY <1>1, <2>1, <3>1, LoopEntry, LoopStrong
  <2>5. h <= m
    BY <2>3, <2>4
  <2>6. \A e \in edges : e[2] \in C /\ e[1] >= h => e[1] \in C
    BY <1>2, <2>4
  <2> HIDE DEF C
  <2>7. ASSUME NEW b \in C PROVE \E e \in edges : e[1] = b /\ e[2] \in C
    <3> SUFFICES ASSUME \A e \in edges : e[1] = b => e[2] \notin C PROVE FALSE
      OBVIOUS
    <3>1. {b} = C
      <4>1. {b} \in SUBSET C /\ {b} # {} /\ \A e \in edges : e[1] \in {b} /\ e[2] \in C => e[2] \in {b}
        BY <2>7
      <4> QED
        BY <2>4, <4>1 DEF Strong
    <3>2. d[1] \in C /\ d[2] \in C
      BY <2>2, <2>4
    <3> QED
      BY <3>1, <3>2
  <2> QED
    BY <2>1, <2>3, <2>4, <2>5, <2>6, <2>7 DEF C
<1> QED
  BY <1>2, <1>3

\* What a visit of block t adds: if the value is alive there, the block and its loop.
Ring(t) == IF t \in Headers(edges, 1) THEN NaturalLoop(edges, 1, t) ELSE {}
LiveAt(L, t) == t # def[1] /\ (Out(L, t) \/ BI!Reads(t) # {})
Grown(L, t) == L \cup (IF LiveAt(L, t) THEN Ring(t) \cup {t} ELSE {})

LEMMA LiveRing ==
  ASSUME Laid, Value, NEW t \in 1 .. N, NEW L, LeastAlive(t, L), LiveAt(L, t)
  PROVE  /\ def[1] < t /\ Ring(t) \cup {t} \subseteq t .. N
         /\ \A e \in edges : e[2] \in Ring(t) \cup {t} /\ e[1] >= t => e[1] \in Ring(t)
         /\ \A b \in Ring(t) : \E e \in edges : e[1] = b /\ e[2] \in Ring(t)
         /\ t \in Headers(edges, 1) => t \in Ring(t) /\ Strong(edges, Ring(t))
<1>1. N \in Nat /\ t \in 0 .. N /\ edges \subseteq (1 .. N) \X (1 .. N)
  BY DEF Laid, LaidOut, Rooted
<1>2. Ruled(t)
  <2>1. CASE Used(t)
    BY <2>1, UsesRuled
  <2>2. CASE ~ Used(t)
    <3>1. PICK e \in edges : e[1] = t /\ e[2] \in L
      BY <2>2 DEF LiveAt, Used, Out, Succs
    <3>2. Ruled(e[2]) /\ e[2] # def[1]
      BY <1>1, <3>1, AliveFacts
    <3> QED
      BY <3>1, <3>2, UsesRuled
  <2> QED
    BY <2>1, <2>2
<1>3. def[1] < t
  BY <1>2, UsesRuled DEF LiveAt
<1>4. CASE t \in Headers(edges, 1)
  <2>1. PICK m \in 1 .. N :
              /\ t \in 1 .. N /\ t <= m /\ NaturalLoop(edges, 1, t) = t .. m /\ Strong(edges, t .. m)
              /\ \A e \in edges : e[2] \in t .. m /\ e[1] >= t => e[1] \in t .. m
              /\ \A b \in t .. m : \E e \in edges : e[1] = b /\ e[2] \in t .. m
    BY <1>4, LoopIntervals
  <2>2. Ring(t) = t .. m /\ t \in t .. m /\ t .. m \subseteq t .. N
    BY <1>1, <1>4, <2>1 DEF Ring
  <2> QED
    BY <1>3, <2>1, <2>2
<1>5. CASE t \notin Headers(edges, 1)
  <2>1. Ring(t) = {} /\ t \in t .. N
    BY <1>1, <1>5 DEF Ring
  <2>2. \A e \in edges : e[2] = t /\ e[1] >= t => FALSE
    BY <1>5, LoopIntervals
  <2> QED
    BY <1>3, <1>5, <2>1, <2>2
<1> QED
  BY <1>4, <1>5

LEMMA VisitAlive ==
  ASSUME Laid, Value, NEW t \in 1 .. N, NEW L, LeastAlive(t, L)
  PROVE  LeastAlive(t - 1, Grown(L, t))
<1> DEFINE G == Grown(L, t)
<1>1. /\ N \in Nat /\ t - 1 + 1 = t /\ t - 1 \in 0 .. N /\ t \in 0 .. N
      /\ edges \subseteq (1 .. N) \X (1 .. N)
      /\ \A b \in t .. N : b \in 1 .. N /\ (b = t \/ b \in t + 1 .. N)
      /\ \A b \in t + 1 .. N : b \in t .. N /\ b > t
      /\ \A b \in 1 .. N : b > t - 1 <=> b \in t .. N
      /\ \A b \in 1 .. N : b > t <=> b \in t + 1 .. N
  BY DEF Laid, LaidOut, Rooted
<1>2. /\ L \subseteq (t + 1 .. N) \ {def[1]}
      /\ \A b \in t + 1 .. N : b # def[1] /\ Used(b) => b \in L
      /\ \A e \in edges : e[1] > t /\ e[1] # def[1] /\ e[2] \in L => e[1] \in L
      /\ \A S \in SUBSET (1 .. N) : Alive(t, S) => L \subseteq S
  BY DEF LeastAlive, Alive
<1>3. ASSUME NEW S \in SUBSET (1 .. N), Alive(t - 1, S) PROVE L \subseteq S
  <2> DEFINE Z == S \cap (t + 1 .. N)
  <2>1. /\ S \subseteq (t .. N) \ {def[1]}
        /\ \A b \in t .. N : b # def[1] /\ Used(b) => b \in S
        /\ \A e \in edges : e[1] > t - 1 /\ e[1] # def[1] /\ e[2] \in S => e[1] \in S
    BY <1>1, <1>3 DEF Alive
  <2>2. Z \subseteq (t + 1 .. N) \ {def[1]}
    BY <2>1
  <2>3. \A b \in t + 1 .. N : b # def[1] /\ Used(b) => b \in Z
    BY <1>1, <2>1
  <2>4. \A e \in edges : e[1] > t /\ e[1] # def[1] /\ e[2] \in Z => e[1] \in Z
    <3> SUFFICES ASSUME NEW e \in edges, e[1] > t, e[1] # def[1], e[2] \in Z PROVE e[1] \in Z
      OBVIOUS
    <3>1. e[1] \in 1 .. N
      BY <1>1
    <3>2. e[1] > t - 1 /\ e[1] \in t + 1 .. N
      BY <1>1, <3>1
    <3> QED
      BY <2>1, <3>2
  <2> HIDE DEF Z
  <2>5. Alive(t, Z)
    BY <2>2, <2>3, <2>4 DEF Alive
  <2>6. Z \in SUBSET (1 .. N)
    BY DEF Z
  <2>7. L \subseteq Z
    BY <1>2, <2>5, <2>6
  <2> QED
    BY <2>7 DEF Z
<1>4. CASE ~ LiveAt(L, t)
  <2>1. G = L
    BY <1>4 DEF Grown
  <2>2. t = def[1] \/ (~ Used(t) /\ \A e \in edges : e[1] = t => e[2] \notin L)
    BY <1>4 DEF LiveAt, Out, Used, Succs
  <2>3. L \subseteq (t .. N) \ {def[1]}
    BY <1>1, <1>2
  <2>4. \A b \in t .. N : b # def[1] /\ Used(b) => b \in L
    BY <1>1, <1>2, <2>2
  <2>5. ASSUME NEW e \in edges, e[1] > t - 1, e[1] # def[1], e[2] \in L PROVE e[1] \in L
    <3>1. e[1] \in 1 .. N /\ e[1] # t
      BY <1>1, <2>2, <2>5
    <3>2. e[1] > t
      BY <1>1, <2>5, <3>1
    <3> QED
      BY <1>2, <2>5, <3>2
  <2>6. Alive(t - 1, L)
    BY <1>1, <2>3, <2>4, <2>5 DEF Alive
  <2> QED
    BY <1>3, <2>1, <2>6 DEF LeastAlive
<1>5. CASE LiveAt(L, t)
  <2> DEFINE R == Ring(t)
  <2>1. G = L \cup R \cup {t}
    BY <1>5 DEF Grown
  <2>2. /\ def[1] < t /\ R \cup {t} \subseteq t .. N
        /\ \A e \in edges : e[2] \in R \cup {t} /\ e[1] >= t => e[1] \in R
        /\ t \in Headers(edges, 1) => t \in R /\ Strong(edges, R)
        /\ t \notin Headers(edges, 1) => R = {}
    BY <1>5, LiveRing DEF Ring
  <2> HIDE DEF R, G
  <2>3. G \subseteq (t .. N) \ {def[1]}
    <3>1. \A b \in t .. N : b # def[1]
      BY <1>1, <2>2, UsesRuled
    <3> QED
      BY <1>1, <1>2, <2>1, <2>2, <3>1
  <2>4. \A b \in t .. N : b # def[1] /\ Used(b) => b \in G
    BY <1>1, <1>2, <2>1
  <2>5. ASSUME NEW e \in edges, e[1] > t - 1, e[1] # def[1], e[2] \in G PROVE e[1] \in G
    <3>1. e[1] \in 1 .. N /\ (e[1] = t \/ e[1] > t) /\ e[1] >= t
      BY <1>1, <2>5
    <3>2. CASE e[2] \in L
      BY <1>2, <2>1, <2>5, <3>1, <3>2
    <3>3. CASE e[2] \in R \cup {t}
      BY <2>1, <2>2, <3>1, <3>3
    <3> QED
      BY <2>1, <2>5, <3>2, <3>3
  <2>6. Alive(t - 1, G)
    BY <1>1, <2>3, <2>4, <2>5 DEF Alive
  <2>7. ASSUME NEW S \in SUBSET (1 .. N), Alive(t - 1, S) PROVE G \subseteq S
    <3>1. /\ L \subseteq S
          /\ \A b \in t .. N : b # def[1] /\ Used(b) => b \in S
          /\ \A e \in edges : e[1] > t - 1 /\ e[1] # def[1] /\ e[2] \in S => e[1] \in S
      BY <1>1, <1>3, <2>7 DEF Alive
    <3>2. t \in S
      <4>1. t \in t .. N /\ t # def[1] /\ t > t - 1
        BY <1>1, <1>5 DEF LiveAt
      <4>2. CASE Used(t)
        BY <3>1, <4>1, <4>2
      <4>3. CASE ~ Used(t)
        <5>1. PICK e \in edges : e[1] = t /\ e[2] \in L
          BY <1>5, <4>3 DEF LiveAt, Out, Used, Succs
        <5> QED
          BY <3>1, <4>1, <5>1
      <4> QED
        BY <4>2, <4>3
    <3>3. R \subseteq S
      <4> SUFFICES ASSUME R \ S # {} PROVE FALSE
        OBVIOUS
      <4> DEFINE Z == R \ S
      <4>1. ASSUME NEW e \in edges, e[1] \in Z, e[2] \in R PROVE e[2] \in Z
        <5>1. e[1] \in t .. N /\ e[1] \in 1 .. N
          BY <1>1, <2>2, <4>1
        <5>2. e[1] > t - 1 /\ e[1] # def[1]
          BY <1>1, <2>2, <5>1, UsesRuled
        <5> QED
          BY <3>1, <4>1, <5>2
      <4>2. Z \in SUBSET R /\ Z # {}
        OBVIOUS
      <4> HIDE DEF Z
      <4>3. t \in Headers(edges, 1)
        BY <2>2, <4>2
      <4>4. Z = R
        BY <2>2, <4>1, <4>2, <4>3 DEF Strong
      <4> QED
        BY <2>2, <3>2, <4>3, <4>4 DEF Z
    <3> QED
      BY <2>1, <3>1, <3>2, <3>3
  <2> QED
    BY <2>6, <2>7 DEF LeastAlive, G
<1> QED
  BY <1>4, <1>5

-----------------------------------------------------------------------------
\* The positions of the blocks follow each other.
LEMMA Multiples ==
  ASSUME NEW w \in Nat, NEW b \in Nat, NEW c \in Nat
  PROVE  /\ w * b \in Nat /\ w * (b + 1) = w * b + w /\ w * 0 = 0
         /\ b <= c => w * b <= w * c
<1>1. \A x \in Nat : w * x \in Nat
  OBVIOUS
<1>2. ASSUME b <= c PROVE w * b <= w * c
  <2>1. PICK k \in Nat : c = b + k
    <3>1. c - b \in Nat /\ c = b + (c - b)
      BY <1>2
    <3> QED
      BY <3>1
  <2>2. w * c = w * b + w * k /\ w * k \in Nat /\ w * b \in Nat
    BY <2>1
  <2> QED
    BY <2>2
<1> QED
  BY <1>1, <1>2

LEMMA BlockPositions ==
  /\ \A b \in Nat \ {0} : /\ BI!From(b) \in Nat /\ BI!To(b) \in Nat
                          /\ BI!To(b) = BI!From(b) + 2 * Length + 2 /\ BI!To(b) = BI!From(b + 1)
  /\ BI!From(1) = 0
  /\ \A b, c \in Nat \ {0} : b < c => BI!To(b) <= BI!From(c)
  /\ \A b, k : BI!Input(b, k) = BI!From(b) + 2 * k
<1> DEFINE w == 2 * (Length + 1)
<1>1. w \in Nat /\ w = 2 * Length + 2 /\ Length \in Nat
  BY LengthAssumption
<1> HIDE DEF w
<1>2. \A b \in Nat : BI!From(b) = w * (b - 1) /\ BI!To(b) = w * (b + 1 - 1)
  <2>1. \A b \in Nat : BI!From(b) = w * (b - 1)
    BY DEF BI!From, w
  <2>2. \A b \in Nat : BI!To(b) = BI!From(b + 1) /\ b + 1 \in Nat
    BY DEF BI!To
  <2> QED
    BY <2>1, <2>2
<1>3. ASSUME NEW b \in Nat \ {0}
      PROVE  /\ BI!From(b) \in Nat /\ BI!To(b) \in Nat
             /\ BI!To(b) = BI!From(b) + 2 * Length + 2 /\ BI!To(b) = BI!From(b + 1)
  <2> DEFINE k == b - 1
  <2>1. k \in Nat /\ b + 1 - 1 = k + 1
    OBVIOUS
  <2> HIDE DEF k
  <2>2. w * k \in Nat /\ w * (k + 1) = w * k + w
    BY <1>1, <2>1, Multiples
  <2>3. BI!From(b) = w * k /\ BI!To(b) = w * (k + 1) /\ BI!From(b + 1) = w * (k + 1)
    BY <1>2, <2>1 DEF k
  <2> QED
    BY <1>1, <2>2, <2>3
<1>4. BI!From(1) = 0
  BY <1>1, <1>2, Multiples
<1>5. ASSUME NEW b \in Nat \ {0}, NEW c \in Nat \ {0}, b < c PROVE BI!To(b) <= BI!From(c)
  <2>1. b + 1 - 1 \in Nat /\ c - 1 \in Nat /\ b + 1 - 1 <= c - 1
    BY <1>5
  <2>2. w * (b + 1 - 1) <= w * (c - 1)
    BY <1>1, <2>1, Multiples
  <2> QED
    BY <1>2, <2>2
<1> QED
  BY <1>3, <1>4, <1>5 DEF BI!Input

\* A position within some blocks lies in one of them.
LEMMA BlockAt ==
  ASSUME NEW h \in Nat \ {0}, NEW m \in Nat, h <= m, NEW p \in Nat
  PROVE  (BI!From(h) <= p /\ p < BI!To(m)) <=> \E b \in h .. m : BI!From(b) <= p /\ p < BI!To(b)
<1> DEFINE S == {b \in h .. m : BI!From(b) <= p}
           ix == [b \in S |-> b]
<1>1. ASSUME BI!From(h) <= p, p < BI!To(m) PROVE \E b \in h .. m : BI!From(b) <= p /\ p < BI!To(b)
  <2>1. S # {} /\ \A b \in S : ix[b] \in 0 .. m
    BY <1>1
  <2>2. PICK b \in S : \A c \in S : ix[c] <= ix[b]
    <3> HIDE DEF S, ix
    <3> QED
      BY <2>1, Topmost
  <2>3. b \in h .. m /\ BI!From(b) <= p /\ \A c \in h .. m : BI!From(c) <= p => c <= b
    BY <2>2
  <2>4. CASE b = m
    BY <1>1, <2>3, <2>4
  <2>5. CASE b # m
    <3>1. b + 1 \in h .. m /\ b \in Nat \ {0}
      BY <2>3, <2>5
    <3>2. ~ BI!From(b + 1) <= p
      BY <2>3, <3>1
    <3>3. BI!To(b) \in Nat /\ BI!To(b) = BI!From(b + 1)
      BY <3>1, BlockPositions
    <3> QED
      BY <2>3, <3>2, <3>3
  <2> QED
    BY <2>4, <2>5
<1>2. ASSUME NEW b \in h .. m, BI!From(b) <= p, p < BI!To(b) PROVE BI!From(h) <= p /\ p < BI!To(m)
  <2>1. /\ b \in Nat \ {0} /\ m \in Nat \ {0} /\ (h = b \/ h < b) /\ (b = m \/ b < m)
    OBVIOUS
  <2>2. /\ \A c \in Nat \ {0} : BI!From(c) \in Nat /\ BI!To(c) \in Nat /\ BI!To(c) = BI!From(c) + 2 * Length + 2
        /\ \A c, d \in Nat \ {0} : c < d => BI!To(c) <= BI!From(d)
        /\ Length \in Nat
    BY BlockPositions, LengthAssumption
  <2>3. BI!From(h) \in Nat /\ BI!To(h) \in Nat /\ BI!From(b) \in Nat /\ BI!To(b) \in Nat
        /\ BI!From(m) \in Nat /\ BI!To(m) \in Nat /\ BI!From(h) <= BI!To(h) /\ BI!From(m) <= BI!To(m)
    BY <2>1, <2>2
  <2>4. h < b => BI!To(h) <= BI!From(b)
    BY <2>1, <2>2
  <2>5. b < m => BI!To(b) <= BI!From(m)
    BY <2>1, <2>2
  <2> QED
    BY <1>2, <2>1, <2>3, <2>4, <2>5
<1> QED
  BY <1>1, <1>2

-----------------------------------------------------------------------------
(***************************************************************************)
(* What the range holds when the blocks behind t have been visited.        *)
(***************************************************************************)
Lies(b, p) == BI!From(b) <= p /\ p < BI!To(b)
ReadAfter(b, p) == \E k \in BI!Reads(b) : p <= BI!Input(b, k)

Kept(L, b, p) ==
  /\ Lies(b, p) /\ (Out(L, b) \/ ReadAfter(b, p))
  /\ IF b = def[1] THEN p >= BI!DefPosition ELSE b \in L

Ranged(t, L, R) == R \subseteq Nat /\ \A p \in Nat : p \in R <=> \E b \in t + 1 .. N : Kept(L, b, p)

\* The definition has its place in its block.
LEMMA Defined ==
  ASSUME Laid, Value, def[1] # 0
  PROVE  /\ def[1] \in 1 .. N /\ BI!DefPosition \in Nat
         /\ BI!From(def[1]) <= BI!DefPosition /\ BI!DefPosition < BI!To(def[1])
         /\ BI!DefPosition <= BI!To(def[1]) - 1
         /\ \A k \in BI!Reads(def[1]) : k \in 1 .. Length /\ BI!DefPosition <= BI!Input(def[1], k)
<1>1. def \in (1 .. N) \X (0 .. Length) /\ N \in Nat /\ Length \in Nat
  BY LengthAssumption DEF Value, Laid, LaidOut
<1> DEFINE b == def[1]
           k == def[2]
           f == BI!From(b)
<1>2. b \in Nat \ {0} /\ b \in 1 .. N /\ k \in Nat /\ k <= Length
  BY <1>1
<1>3. f \in Nat /\ BI!To(b) = f + 2 * Length + 2 /\ \A j : BI!Input(b, j) = f + 2 * j
  BY <1>2, BlockPositions
<1>4. BI!DefPosition = IF k = 0 THEN f ELSE f + 2 * k + 1
  BY <1>3 DEF BI!DefPosition
<1>5. \A j \in BI!Reads(b) : j \in 1 .. Length /\ k < j
  <2> SUFFICES ASSUME NEW u \in uses, u[1] = b PROVE u[2] \in 1 .. Length /\ k < u[2]
    BY DEF BI!Reads
  <2>1. u \in (1 .. N) \X (1 .. Length) /\ BI!Above(def, u)
    BY DEF Value
  <2> QED
    BY <1>2, <2>1 DEF BI!Above
<1> HIDE DEF b, k, f
<1>6. BI!DefPosition \in Nat /\ f <= BI!DefPosition /\ BI!DefPosition < BI!To(b) /\ BI!DefPosition <= BI!To(b) - 1
  BY <1>1, <1>2, <1>3, <1>4
<1>7. \A j \in BI!Reads(b) : j \in 1 .. Length /\ BI!DefPosition <= BI!Input(b, j)
  BY <1>1, <1>2, <1>3, <1>4, <1>5
<1> QED
  BY <1>2, <1>6, <1>7 DEF b, f

LEMMA VisitRange ==
  ASSUME Laid, Value, NEW t \in 1 .. N, NEW L, LeastAlive(t, L), NEW R, Ranged(t, L, R),
         NEW R1 \in SUBSET Nat,
         \A p \in Nat : p \in R1 <=>
           \/ /\ p \in R \/ (Lies(t, p) /\ (Out(L, t) \/ ReadAfter(t, p)))
              /\ t = def[1] /\ (Out(L, t) \/ BI!Reads(t) # {}) => p >= BI!DefPosition
           \/ LiveAt(L, t) /\ \E b \in Ring(t) : Lies(b, p)
  PROVE  Ranged(t - 1, Grown(L, t), R1)
<1> DEFINE G == Grown(L, t)
<1>1. /\ N \in Nat /\ t \in 0 .. N /\ t - 1 + 1 = t
      /\ \A b : b \in t .. N <=> b = t \/ b \in t + 1 .. N
      /\ \A b \in t + 1 .. N : b > t /\ b # t /\ b \in Nat \ {0}
      /\ t \in Nat \ {0} /\ t \notin t + 1 .. N
  BY DEF Laid, LaidOut
<1>2. L \subseteq t + 1 .. N /\ t \notin L /\ def[1] \notin L
  BY <1>1, AliveFacts
<1>3. ~ LiveAt(L, t) => G = L
  BY DEF Grown
<1>4. LiveAt(L, t) =>
        /\ G = L \cup Ring(t) \cup {t} /\ def[1] < t /\ Ring(t) \subseteq t .. N
        /\ \A e \in edges : e[2] \in Ring(t) \cup {t} /\ e[1] >= t => e[1] \in Ring(t)
        /\ \A b \in Ring(t) : \E e \in edges : e[1] = b /\ e[2] \in Ring(t)
  BY LiveRing DEF Grown
<1> HIDE DEF G
\* A block of the loop now has the value alive at its end, and no other block does.
<1>5. ASSUME LiveAt(L, t), NEW b \in t .. N
      PROVE  /\ b \in Ring(t) => Out(G, b) /\ b \in G
             /\ b \notin Ring(t) => (Out(G, b) <=> Out(L, b))
             /\ b # def[1]
  <2>1. b \in Ring(t) => Out(G, b) /\ b \in G
    BY <1>4, <1>5 DEF Out, Succs
  <2>2. ASSUME b \notin Ring(t) PROVE Out(G, b) <=> Out(L, b)
    <3>1. \A e \in edges : e[1] = b /\ e[2] \in G => e[2] \in L
      BY <1>1, <1>4, <1>5, <2>2
    <3>2. L \subseteq G
      BY <1>4, <1>5
    <3> QED
      BY <3>1, <3>2 DEF Out, Succs
  <2>3. b # def[1]
    BY <1>1, <1>4, <1>5, UsesRuled
  <2> QED
    BY <2>1, <2>2, <2>3
<1>6. ASSUME NEW p \in Nat, NEW b \in t + 1 .. N
      PROVE  Kept(G, b, p) <=> Kept(L, b, p) \/ (LiveAt(L, t) /\ b \in Ring(t) /\ Lies(b, p))
  <2>1. CASE ~ LiveAt(L, t)
    BY <1>3, <2>1
  <2>2. CASE LiveAt(L, t) /\ b \in Ring(t)
    BY <1>1, <1>5, <2>2 DEF Kept
  <2>3. CASE LiveAt(L, t) /\ b \notin Ring(t)
    <3>1. b \in G <=> b \in L
      BY <1>1, <1>4, <2>3
    <3> QED
      BY <1>1, <1>5, <2>3, <3>1 DEF Kept
  <2> QED
    BY <2>1, <2>2, <2>3
<1>7. ASSUME NEW p \in Nat
      PROVE  Kept(G, t, p) <=>
               \/ Lies(t, p) /\ (Out(L, t) \/ ReadAfter(t, p)) /\ (t = def[1] => p >= BI!DefPosition)
               \/ LiveAt(L, t) /\ t \in Ring(t) /\ Lies(t, p)
  <2>1. CASE t = def[1]
    BY <1>3, <2>1 DEF Kept, LiveAt
  <2>2. CASE t # def[1] /\ ~ LiveAt(L, t)
    <3>1. ~ Out(L, t) /\ ~ ReadAfter(t, p)
      BY <2>2 DEF LiveAt, ReadAfter
    <3> QED
      BY <1>2, <1>3, <2>2, <3>1 DEF Kept
  <2>3. CASE LiveAt(L, t) /\ t \in Ring(t)
    BY <1>1, <1>5, <2>3 DEF Kept
  <2>4. CASE LiveAt(L, t) /\ t \notin Ring(t)
    BY <1>1, <1>4, <1>5, <2>4 DEF Kept
  <2> QED
    BY <2>1, <2>2, <2>3, <2>4
<1>8. ASSUME NEW p \in R, t = def[1] PROVE p >= BI!DefPosition
  <2>1. p \in Nat
    BY DEF Ranged
  <2>2. PICK b \in t + 1 .. N : Lies(b, p)
    BY <2>1 DEF Ranged, Kept
  <2>3. BI!DefPosition \in Nat /\ BI!DefPosition < BI!To(t)
    BY <1>1, <1>8, Defined
  <2>4. BI!To(t) <= BI!From(b) /\ BI!From(b) \in Nat /\ BI!To(t) \in Nat
    BY <1>1, BlockPositions
  <2> QED
    BY <2>1, <2>2, <2>3, <2>4 DEF Lies
<1>9. ASSUME NEW p \in Nat PROVE p \in R1 <=> \E b \in t .. N : Kept(G, b, p)
  <2>1. (\E b \in t .. N : Kept(G, b, p)) <=> Kept(G, t, p) \/ \E b \in t + 1 .. N : Kept(G, b, p)
    BY <1>1
  <2>2. (\E b \in t + 1 .. N : Kept(G, b, p)) <=>
          p \in R \/ \E b \in t + 1 .. N : LiveAt(L, t) /\ b \in Ring(t) /\ Lies(b, p)
    BY <1>6, <1>9 DEF Ranged
  <2>3. LiveAt(L, t) => \A b \in Ring(t) : b = t \/ b \in t + 1 .. N
    BY <1>1, <1>4
  <2>4. (LiveAt(L, t) /\ \E b \in Ring(t) : Lies(b, p)) <=>
          \/ LiveAt(L, t) /\ t \in Ring(t) /\ Lies(t, p)
          \/ \E b \in t + 1 .. N : LiveAt(L, t) /\ b \in Ring(t) /\ Lies(b, p)
    BY <2>3
  <2>5. ReadAfter(t, p) => BI!Reads(t) # {}
    BY DEF ReadAfter
  <2> QED
    BY <1>7, <1>8, <2>1, <2>2, <2>4, <2>5
<1> QED
  BY <1>1, <1>9 DEF Ranged, G

-----------------------------------------------------------------------------
(***************************************************************************)
(* The positions where the value is used, and a visit as a whole.          *)
(***************************************************************************)
UsedAt(L, b) ==
  {p \in Nat : \/ BI!PhiUse(b) /\ p = BI!To(b) - 1
               \/ \E k \in BI!Reads(b) : p = BI!Input(b, k)
               \/ b = def[1] /\ (Out(L, b) \/ BI!Reads(b) # {}) /\ p = BI!DefPosition}

Marked(t, L, U) == U \subseteq Nat /\ \A p \in Nat : p \in U <=> \E b \in t + 1 .. N : p \in UsedAt(L, b)

LEMMA VisitMarks ==
  ASSUME Laid, Value, NEW t \in 1 .. N, NEW L, LeastAlive(t, L), NEW U, Marked(t, L, U)
  PROVE  Marked(t - 1, Grown(L, t), U \cup UsedAt(L, t))
<1>1. /\ N \in Nat /\ t - 1 + 1 = t
      /\ \A b : b \in t .. N <=> b = t \/ b \in t + 1 .. N
      /\ \A b \in t .. N : b >= t
  BY DEF Laid, LaidOut
<1>2. ASSUME NEW b \in t .. N PROVE UsedAt(Grown(L, t), b) = UsedAt(L, b)
  <2>1. CASE LiveAt(L, t)
    <3>1. b # def[1]
      BY <1>1, <2>1, LiveRing, UsesRuled
    <3> QED
      BY <3>1 DEF UsedAt
  <2>2. CASE ~ LiveAt(L, t)
    BY <2>2 DEF Grown
  <2> QED
    BY <2>1, <2>2
<1>3. \A p \in Nat : p \in U \cup UsedAt(L, t) <=> \E b \in t .. N : p \in UsedAt(Grown(L, t), b)
  BY <1>1, <1>2 DEF Marked
<1>4. U \cup UsedAt(L, t) \subseteq Nat
  BY DEF Marked, UsedAt
<1> QED
  BY <1>1, <1>3, <1>4 DEF Marked

LEMMA SameOut == \A b : /\ (BI!LiveOut(b) <=> Out(liveIn, b)) /\ BI!LoopOf(b) = Ring(b)
                       /\ (BI!DefinedIn(b) <=> def[1] = b)
BY SameFlowgraph DEF BI!LiveOut, Out, BI!LoopOf, Ring, BI!DefinedIn

\* The end of the last block of a loop.
LEMMA EndOfRing ==
  ASSUME Laid, NEW t \in Headers(edges, 1), NEW p \in Nat
  PROVE  p \in BI!RightOpen(BI!From(t), BI!LoopEnd(Ring(t))) <=> \E b \in Ring(t) : Lies(b, p)
<1>1. PICK m \in 1 .. N : t \in 1 .. N /\ t <= m /\ NaturalLoop(edges, 1, t) = t .. m
  BY LoopIntervals
<1>2. N \in Nat /\ Ring(t) = t .. m /\ t \in Nat \ {0} /\ m \in Nat \ {0}
      /\ \A c \in t .. m : c \in Nat \ {0} /\ (c = m \/ c < m)
  BY <1>1 DEF Ring, Laid, LaidOut
<1> DEFINE X == {BI!To(c) : c \in t .. m}
<1>3. \A c \in t .. m : BI!To(c) \in Nat /\ BI!To(c) <= BI!To(m)
  <2> TAKE c \in t .. m
  <2>1. BI!To(c) \in Nat /\ BI!To(m) \in Nat /\ BI!From(m) \in Nat /\ BI!To(m) = BI!From(m) + 2 * Length + 2
    BY <1>2, BlockPositions
  <2>2. c < m => BI!To(c) <= BI!From(m)
    BY <1>2, BlockPositions
  <2> QED
    BY <1>2, <2>1, <2>2, LengthAssumption
<1>4. BI!Max(X) = BI!To(m)
  <2>1. BI!To(m) \in X /\ m \in t .. m /\ BI!To(m) \in Nat /\ \A y \in X : y \in Nat /\ y <= BI!To(m)
    BY <1>1, <1>2, <1>3
  <2> HIDE DEF X
  <2>2. \A x \in X : (\A y \in X : x >= y) => x = BI!To(m)
    BY <2>1
  <2>3. \E x \in X : \A y \in X : x >= y
    BY <2>1
  <2> QED
    BY <2>2, <2>3 DEF BI!Max
<1>5. BI!LoopEnd(Ring(t)) = BI!To(m) /\ BI!From(t) \in Nat /\ BI!To(m) \in Nat
  BY <1>2, <1>4, BlockPositions DEF BI!LoopEnd
<1>6. p \in BI!RightOpen(BI!From(t), BI!To(m)) <=> BI!From(t) <= p /\ p < BI!To(m)
  BY <1>5 DEF BI!RightOpen
<1>7. (BI!From(t) <= p /\ p < BI!To(m)) <=> \E b \in t .. m : BI!From(b) <= p /\ p < BI!To(b)
  BY <1>1, <1>2, BlockAt
<1> QED
  BY <1>2, <1>5, <1>6, <1>7 DEF Lies

LEMMA VisitSteps ==
  ASSUME Laid, Value, NEW t \in 1 .. N, LeastAlive(t, liveIn), Ranged(t, liveIn, s), Marked(t, liveIn, use_pos),
         BI!Visit(t)
  PROVE  /\ LeastAlive(t - 1, liveIn') /\ Ranged(t - 1, liveIn', s') /\ Marked(t - 1, liveIn', use_pos')
         /\ t = todo /\ todo' = t - 1
         /\ UNCHANGED <<N, edges, def, uses, phi_uses>>
<1>1. /\ BI!From(t) \in Nat /\ BI!To(t) \in Nat /\ BI!To(t) = BI!From(t) + 2 * Length + 2
      /\ (\A k : BI!Input(t, k) = BI!From(t) + 2 * k) /\ Length \in Nat /\ t \in Nat
  <2>1. t \in Nat \ {0}
    BY DEF Laid, LaidOut
  <2> QED
    BY <2>1, BlockPositions, LengthAssumption
<1>2. \A k \in BI!Reads(t) : k \in 1 .. Length
  BY DEF BI!Reads, Value
<1>3. \A k \in BI!Reads(t) : BI!Input(t, k) \in Nat /\ BI!Input(t, k) + 1 <= BI!To(t)
  BY <1>1, <1>2
<1>4. t = todo /\ todo' = t - 1 /\ UNCHANGED <<N, edges, def, uses, phi_uses>>
  BY DEF BI!Visit
<1>5. liveIn' = Grown(liveIn, t)
  <2>1. CASE LiveAt(liveIn, t)
    BY <2>1, SameOut DEF BI!Visit, Grown, LiveAt
  <2>2. CASE ~ LiveAt(liveIn, t)
    BY <2>2, SameOut DEF BI!Visit, Grown, LiveAt
  <2> QED
    BY <2>1, <2>2
<1>6. use_pos' = use_pos \cup UsedAt(liveIn, t)
  <2> DEFINE P == {BI!PhiPosition(t) : e \in {x \in phi_uses : x[1] = t}}
             Q == {BI!Input(t, k) : k \in BI!Reads(t)}
             D == IF def[1] = t /\ (Out(liveIn, t) \/ BI!Reads(t) # {}) THEN {BI!DefPosition} ELSE {}
  <2>1. use_pos' = use_pos \cup (P \cup Q \cup D)
    BY SameOut DEF BI!Visit, BI!Positions
  <2>2. \A p : p \in P <=> BI!PhiUse(t) /\ p = BI!To(t) - 1
    BY DEF BI!PhiUse, BI!PhiPosition
  <2>3. \A p : p \in Q <=> \E k \in BI!Reads(t) : p = BI!Input(t, k)
    OBVIOUS
  <2>4. \A p : p \in D <=> t = def[1] /\ (Out(liveIn, t) \/ BI!Reads(t) # {}) /\ p = BI!DefPosition
    OBVIOUS
  <2>5. BI!To(t) - 1 \in Nat /\ \A k \in BI!Reads(t) : BI!Input(t, k) \in Nat
    BY <1>1, <1>3
  <2>6. t = def[1] => BI!DefPosition \in Nat
    BY Defined
  <2> HIDE DEF P, Q, D
  <2>7. P \cup Q \cup D = UsedAt(liveIn, t)
    <3>1. \A p : p \in P \cup Q \cup D => p \in Nat
      BY <2>2, <2>3, <2>4, <2>5, <2>6
    <3>2. \A p \in Nat : p \in P \cup Q \cup D <=> p \in UsedAt(liveIn, t)
      BY <2>2, <2>3, <2>4 DEF UsedAt
    <3>3. \A p : p \in UsedAt(liveIn, t) => p \in Nat
      BY DEF UsedAt
    <3> QED
      BY <3>1, <3>2, <3>3
  <2> QED
    BY <2>1, <2>7
<1>7. /\ s' \subseteq Nat
      /\ \A p \in Nat : p \in s' <=>
           \/ /\ p \in s \/ (Lies(t, p) /\ (Out(liveIn, t) \/ ReadAfter(t, p)))
              /\ t = def[1] /\ (Out(liveIn, t) \/ BI!Reads(t) # {}) => p >= BI!DefPosition
           \/ LiveAt(liveIn, t) /\ \E b \in Ring(t) : Lies(b, p)
  <2> DEFINE out == IF Out(liveIn, t) THEN BI!RightOpen(BI!From(t), BI!To(t)) ELSE {}
             read == UNION {BI!RightOpen(BI!From(t), BI!Input(t, k) + 1) : k \in BI!Reads(t)}
             all == s \cup out \cup read
             cut == IF t = def[1] /\ (Out(liveIn, t) \/ BI!Reads(t) # {})
                      THEN {p \in all : p >= BI!DefPosition} ELSE all
             ring == IF LiveAt(liveIn, t) /\ Ring(t) # {}
                       THEN BI!RightOpen(BI!From(t), BI!LoopEnd(Ring(t))) ELSE {}
  <2>1. s' = cut \cup ring
    BY SameOut DEF BI!Visit, BI!Ranges, LiveAt
  <2>2. \A p : p \in out <=> Out(liveIn, t) /\ p \in Nat /\ Lies(t, p)
    BY <1>1 DEF BI!RightOpen, Lies
  <2>3. \A p : p \in read <=> p \in Nat /\ Lies(t, p) /\ ReadAfter(t, p)
    <3>1. \A k \in BI!Reads(t) : \A p : p \in BI!RightOpen(BI!From(t), BI!Input(t, k) + 1)
                                          <=> p \in Nat /\ Lies(t, p) /\ p <= BI!Input(t, k)
      BY <1>1, <1>3 DEF BI!RightOpen, Lies
    <3>2. \A p : p \in read <=> \E k \in BI!Reads(t) : p \in BI!RightOpen(BI!From(t), BI!Input(t, k) + 1)
      OBVIOUS
    <3> HIDE DEF read
    <3> QED
      BY <3>1, <3>2 DEF ReadAfter
  <2>4. s \subseteq Nat
    BY DEF Ranged
  <2>5. ring \subseteq Nat /\ \A p \in Nat : p \in ring <=> LiveAt(liveIn, t) /\ \E b \in Ring(t) : Lies(b, p)
    <3>1. CASE LiveAt(liveIn, t) /\ Ring(t) # {}
      <4>1. t \in Headers(edges, 1)
        BY <3>1 DEF Ring
      <4>2. ring \subseteq Nat
        <5>1. \A e : BI!RightOpen(BI!From(t), e) \subseteq Nat
          BY <1>1 DEF BI!RightOpen
        <5> QED
          BY <3>1, <5>1
      <4> QED
        BY <3>1, <4>1, <4>2, EndOfRing
    <3>2. CASE ~ (LiveAt(liveIn, t) /\ Ring(t) # {})
      BY <3>2
    <3> QED
      BY <3>1, <3>2
  <2> HIDE DEF out, read, ring
  <2>6. all \subseteq Nat /\ \A p \in Nat : p \in all <=>
          p \in s \/ (Lies(t, p) /\ (Out(liveIn, t) \/ ReadAfter(t, p)))
    BY <2>2, <2>3, <2>4
  <2> HIDE DEF all
  <2>7. cut \subseteq Nat /\ \A p \in Nat : p \in cut <=>
          p \in all /\ (t = def[1] /\ (Out(liveIn, t) \/ BI!Reads(t) # {}) => p >= BI!DefPosition)
    BY <2>6
  <2> HIDE DEF cut
  <2> QED
    BY <2>1, <2>5, <2>6, <2>7
<1>8. LeastAlive(t - 1, liveIn')
  BY <1>5, VisitAlive
<1>9. Marked(t - 1, liveIn', use_pos')
  BY <1>5, <1>6, VisitMarks
<1>10. Ranged(t - 1, liveIn', s')
  <2> DEFINE R1 == s'
  <2>1. R1 \in SUBSET Nat
    BY <1>7
  <2> HIDE DEF R1
  <2>2. Ranged(t - 1, Grown(liveIn, t), R1)
    BY <1>7, <2>1, VisitRange DEF R1
  <2> QED
    BY <1>5, <2>2 DEF R1
<1> QED
  BY <1>4, <1>8, <1>9, <1>10

-----------------------------------------------------------------------------
(***************************************************************************)
(* When every block has been visited.                                      *)
(***************************************************************************)
LEMMA AliveIsNeeded ==
  ASSUME Laid, Value, NEW L, LeastAlive(0, L)
  PROVE  \A b \in 1 .. N : BI!NeedsIn(b) <=> b \in L
<1> DEFINE W == {e \in edges : e[2] # def[1]}
           Needs(b) == b # def[1] /\ \E c \in Reach(W, {b}) : Used(c)
           S == {b \in 1 .. N : Needs(b)}
<1>1. \A b : BI!NeedsIn(b) <=> Needs(b)
  <2>1. BI!Undefined = W
    BY DEF BI!Undefined, BI!DefinedIn
  <2> QED
    BY <2>1, SameFlowgraph DEF BI!NeedsIn, BI!DefinedIn, Used
<1>2. N \in Nat /\ IsFiniteSet(1 .. N) /\ edges \subseteq (1 .. N) \X (1 .. N)
  BY DEF Laid, LaidOut, Rooted
<1>3. /\ L \subseteq (1 .. N) \ {def[1]}
      /\ \A b \in 1 .. N : b # def[1] /\ Used(b) => b \in L
      /\ \A e \in edges : e[1] > 0 /\ e[1] # def[1] /\ e[2] \in L => e[1] \in L
      /\ \A Z \in SUBSET (1 .. N) : Alive(0, Z) => L \subseteq Z
  BY DEF LeastAlive, Alive
<1>4. \A b \in 1 .. N : Least(1 .. N, W, {b}, Reach(W, {b}))
  <2> TAKE b \in 1 .. N
  <2>1. W \subseteq edges /\ {b} \in SUBSET (1 .. N)
    OBVIOUS
  <2> HIDE DEF W
  <2> QED
    BY <1>2, <2>1, Ways
<1>5. \A e \in W : e \in edges /\ e[2] # def[1] /\ e[1] \in 1 .. N /\ e[2] \in 1 .. N
  BY <1>2
<1>6. \A e \in edges : e[1] \in 1 .. N /\ e[2] \in 1 .. N /\ (e[2] # def[1] => e \in W)
  BY <1>2
<1> HIDE DEF W
<1>7. L \subseteq S
  <2>1. \A b \in 1 .. N : b # def[1] /\ Used(b) => b \in S
    BY <1>4 DEF Least
  <2>2. ASSUME NEW e \in edges, e[1] # def[1], e[2] \in S PROVE e[1] \in S
    <3>1. e \in W /\ e[1] \in 1 .. N /\ e[2] \in 1 .. N
      BY <1>6, <2>2
    <3>2. Least(1 .. N, W, {e[1]}, Reach(W, {e[1]})) /\ Least(1 .. N, W, {e[2]}, Reach(W, {e[2]}))
      BY <1>4, <3>1
    <3> DEFINE Z == Reach(W, {e[1]})
    <3>3. Z \in SUBSET (1 .. N) /\ e[2] \in Z /\ \A d \in W : d[1] \in Z => d[2] \in Z
      BY <3>1, <3>2 DEF Least
    <3> HIDE DEF Z
    <3>4. Reach(W, {e[2]}) \subseteq Z
      BY <3>2, <3>3 DEF Least
    <3> QED
      BY <2>2, <3>1, <3>4 DEF Z
  <2>3. S \in SUBSET (1 .. N) /\ S \subseteq (1 .. N) \ {def[1]}
    OBVIOUS
  <2> HIDE DEF S
  <2>4. Alive(0, S)
    BY <2>1, <2>2, <2>3 DEF Alive
  <2> QED
    BY <1>3, <2>3, <2>4
<1>8. ASSUME NEW b \in 1 .. N, b # def[1], b \notin L, NEW c \in Reach(W, {b}), Used(c) PROVE FALSE
  <2> DEFINE Z == {x \in 1 .. N : x # def[1] /\ x \notin L}
  <2>1. Z \in SUBSET (1 .. N) /\ {b} \subseteq Z
    BY <1>8
  <2>2. \A e \in W : e[1] \in Z => e[2] \in Z
    BY <1>2, <1>3, <1>5
  <2>3. Least(1 .. N, W, {b}, Reach(W, {b}))
    BY <1>4
  <2> HIDE DEF Z
  <2>4. c \in Z
    BY <1>8, <2>1, <2>2, <2>3 DEF Least
  <2> QED
    BY <1>3, <1>8, <2>4 DEF Z
<1> QED
  BY <1>1, <1>7, <1>8

\* Where the value is alive, some way from the entry brings it there.
LEMMA Arrives ==
  ASSUME Laid, Value, NEW L, LeastAlive(0, L), L # {}
  PROVE  /\ def[1] = 0 => 1 \in L
         /\ def[1] # 0 => Out(L, def[1])
         /\ uses # {} \/ phi_uses # {}
<1>1. /\ N \in Nat \ {0} /\ Rooted(1 .. N, edges, 1) /\ Reach(edges, {1}) = 1 .. N
      /\ edges \subseteq (1 .. N) \X (1 .. N) /\ 1 \in 1 .. N
  BY DEF Laid, LaidOut, Rooted
<1>2. /\ L \subseteq (1 .. N) \ {def[1]}
      /\ \A e \in edges : e[1] > 0 /\ e[1] # def[1] /\ e[2] \in L => e[1] \in L
      /\ \A Z \in SUBSET (1 .. N) : Alive(0, Z) => L \subseteq Z
  BY DEF LeastAlive, Alive
<1>3. Least(1 .. N, edges, {1}, 1 .. N)
  BY <1>1, Avoided
<1>4. 1 \in L \/ \E e \in edges : e[1] \notin L /\ e[2] \in L
  <2> SUFFICES ASSUME 1 \notin L, \A e \in edges : e[1] \notin L => e[2] \notin L PROVE FALSE
    OBVIOUS
  <2> DEFINE Z == (1 .. N) \ L
  <2>1. Z \in SUBSET (1 .. N) /\ {1} \subseteq Z /\ \A e \in edges : e[1] \in Z => e[2] \in Z
    BY <1>1
  <2> HIDE DEF Z
  <2>2. 1 .. N \subseteq Z
    BY <1>3, <2>1 DEF Least
  <2> QED
    BY <1>2, <2>2 DEF Z
<1>5. 1 \in L \/ Out(L, def[1])
  <2> SUFFICES ASSUME NEW e \in edges, e[1] \notin L, e[2] \in L PROVE Out(L, def[1])
    BY <1>4
  <2>1. e[1] \in 1 .. N /\ e[1] > 0
    BY <1>1
  <2>2. e[1] = def[1]
    BY <1>2, <2>1
  <2> QED
    BY <2>2 DEF Out, Succs
<1>6. 0 \in 0 .. N
  BY <1>1
<1>7. 1 \in L => def[1] = 0
  <2> SUFFICES ASSUME 1 \in L PROVE def[1] = 0
    OBVIOUS
  <2>1. Ruled(1) /\ def[1] # 1 /\ 1 \in 1 .. N
    BY <1>1, <1>6, AliveFacts
  <2>2. def[1] < 1 /\ def[1] \in 0 .. N
    BY <2>1, UsesRuled
  <2> QED
    BY <2>2
<1>8. def[1] = 0 => 1 \in L
  <2> SUFFICES ASSUME def[1] = 0, 1 \notin L PROVE FALSE
    OBVIOUS
  <2>1. PICK e \in edges : e[1] \notin L /\ e[2] \in L
    BY <1>4
  <2>2. e[1] \in 1 .. N /\ e[1] > 0 /\ e[1] # 0
    BY <1>1
  <2> QED
    BY <1>2, <2>1, <2>2
<1>9. uses # {} \/ phi_uses # {}
  <2> SUFFICES ASSUME uses = {}, phi_uses = {} PROVE FALSE
    OBVIOUS
  <2>1. \A b : ~ Used(b)
    BY DEF Used, BI!Reads, BI!PhiUse
  <2>2. Alive(0, {})
    BY <2>1 DEF Alive
  <2> QED
    BY <1>2, <2>2
<1> QED
  BY <1>5, <1>7, <1>8, <1>9

LEMMA KeptIsNeeded ==
  ASSUME Laid, Value, LeastAlive(0, liveIn), NEW b \in 1 .. N, NEW p \in Nat
  PROVE  BI!NeededAt(b, p) <=> Kept(liveIn, b, p)
<1>1. BI!NeedsOut(b) <=> Out(liveIn, b)
  <2>1. \A c \in Succs(edges, b) : c \in 1 .. N
    BY DEF Laid, LaidOut, Rooted, Succs
  <2> QED
    BY <2>1, AliveIsNeeded, SameFlowgraph DEF BI!NeedsOut, Out
<1>2. BI!NeedsIn(b) <=> b \in liveIn
  BY AliveIsNeeded
<1>3. p \in BI!RightOpen(BI!From(b), BI!To(b)) <=> Lies(b, p)
  <2>1. b \in Nat \ {0}
    BY DEF Laid, LaidOut
  <2>2. BI!From(b) \in Nat /\ BI!To(b) \in Nat
    BY <2>1, BlockPositions
  <2> QED
    BY <2>2 DEF BI!RightOpen, Lies
<1> QED
  BY <1>1, <1>2, <1>3 DEF BI!NeededAt, Kept, ReadAfter, BI!DefinedIn

\* The uses lie where the value is kept.
LEMMA UsedIsKept ==
  ASSUME Laid, Value, NEW L, LeastAlive(0, L), NEW b \in 1 .. N, NEW p \in UsedAt(L, b)
  PROVE  Kept(L, b, p)
<1>1. N \in Nat /\ b \in Nat \ {0} /\ Length \in Nat
  BY LengthAssumption DEF Laid, LaidOut
<1>2. /\ BI!From(b) \in Nat /\ BI!To(b) = BI!From(b) + 2 * Length + 2
      /\ \A k : BI!Input(b, k) = BI!From(b) + 2 * k
  BY <1>1, BlockPositions
<1>3. \A k \in BI!Reads(b) : k \in 1 .. Length
  BY DEF BI!Reads, Value
<1>4. b # def[1] /\ Used(b) => b \in L
  <2>1. b \in 0 + 1 .. N
    BY <1>1
  <2> QED
    BY <2>1 DEF LeastAlive, Alive
<1>5. def[1] = b => /\ BI!DefPosition \in Nat
                    /\ BI!From(b) <= BI!DefPosition /\ BI!DefPosition < BI!To(b)
                    /\ BI!DefPosition <= BI!To(b) - 1
                    /\ \A k \in BI!Reads(b) : BI!DefPosition <= BI!Input(b, k)
  BY <1>1, Defined
<1>6. CASE BI!PhiUse(b) /\ p = BI!To(b) - 1
  <2>1. Lies(b, p)
    BY <1>1, <1>2, <1>6 DEF Lies
  <2> QED
    BY <1>4, <1>5, <1>6, <2>1 DEF Kept, Out, Used
<1>7. ASSUME NEW k \in BI!Reads(b), p = BI!Input(b, k) PROVE Kept(L, b, p)
  <2>1. Lies(b, p) /\ p <= BI!Input(b, k)
    BY <1>1, <1>2, <1>3, <1>7 DEF Lies
  <2>2. ReadAfter(b, p) /\ Used(b)
    BY <2>1 DEF ReadAfter, Used
  <2> QED
    BY <1>4, <1>5, <1>7, <2>1, <2>2 DEF Kept
<1>8. CASE b = def[1] /\ (Out(L, b) \/ BI!Reads(b) # {}) /\ p = BI!DefPosition
  <2>1. Lies(b, p) /\ p >= BI!DefPosition
    BY <1>5, <1>8 DEF Lies
  <2>2. Out(L, b) \/ ReadAfter(b, p)
    BY <1>5, <1>8 DEF ReadAfter
  <2> QED
    BY <1>8, <2>1, <2>2 DEF Kept
<1> QED
  BY <1>6, <1>7, <1>8 DEF UsedAt


\* Where the interval begins: at the definition, or at the entry for an argument.
LEMMA RangeBegins ==
  ASSUME Laid, Value, NEW L, LeastAlive(0, L)
  PROVE  /\ \A b \in 1 .. N, p \in Nat : Kept(L, b, p) /\ def[1] # 0 =>
              /\ BI!DefPosition \in UsedAt(L, def[1])
              /\ BI!DefPosition <= p
         /\ (uses # {} \/ phi_uses # {}) /\ def[1] = 0 => 1 \in 1 .. N /\ Kept(L, 1, 0)
         /\ \A b \in 1 .. N, p \in Nat : Kept(L, b, p) => uses # {} \/ phi_uses # {}
<1>1. /\ N \in Nat \ {0} /\ 1 \in 1 .. N /\ 0 \in 0 .. N /\ edges \subseteq (1 .. N) \X (1 .. N)
      /\ 0 + 1 = 1
  BY DEF Laid, LaidOut, Rooted
<1>2. /\ L \subseteq 1 .. N /\ \A b \in L : Ruled(b) /\ (Out(L, b) \/ BI!Reads(b) # {}) /\ b # def[1]
  BY <1>1, AliveFacts
<1>3. ASSUME NEW b \in 1 .. N, NEW p \in Nat, Kept(L, b, p), def[1] # 0
      PROVE  BI!DefPosition \in UsedAt(L, def[1]) /\ BI!DefPosition <= p
  <2>1. /\ def[1] \in 1 .. N /\ BI!DefPosition \in Nat
        /\ BI!DefPosition < BI!To(def[1])
    BY <1>3, Defined
  <2>2. CASE b = def[1]
    <3>1. Out(L, def[1]) \/ BI!Reads(def[1]) # {}
      BY <1>3, <2>2 DEF Kept, ReadAfter
    <3>2. p >= BI!DefPosition
      BY <1>3, <2>2 DEF Kept
    <3> QED
      BY <2>1, <3>1, <3>2 DEF UsedAt
  <2>3. CASE b # def[1]
    <3>1. b \in L /\ BI!From(b) <= p
      BY <1>3, <2>3 DEF Kept, Lies
    <3>2. Out(L, def[1])
      BY <1>3, <3>1, Arrives
    <3>3. def[1] < b
      BY <1>2, <2>3, <3>1, UsesRuled
    <3>4. /\ def[1] \in Nat \ {0} /\ b \in Nat \ {0}
      BY <1>1, <2>1
    <3>5. /\ BI!To(def[1]) <= BI!From(b) /\ BI!To(def[1]) \in Nat /\ BI!From(b) \in Nat
      BY <3>3, <3>4, BlockPositions
    <3>6. BI!DefPosition <= p
      BY <2>1, <3>1, <3>5
    <3> QED
      BY <2>1, <3>2, <3>6 DEF UsedAt
  <2> QED
    BY <2>2, <2>3
<1>4. ASSUME uses # {} \/ phi_uses # {}, def[1] = 0 PROVE Kept(L, 1, 0)
  <2>1. PICK b \in 1 .. N : Used(b)
    <3>1. CASE uses # {}
      <4>1. PICK u \in uses : u \in (1 .. N) \X (1 .. Length)
        BY <3>1 DEF Value
      <4>2. BI!Reads(u[1]) # {} /\ u[1] \in 1 .. N
        BY <4>1 DEF BI!Reads
      <4> QED
        BY <4>2 DEF Used
    <3>2. CASE phi_uses # {}
      <4>1. PICK e \in phi_uses : e \in edges
        BY <3>2 DEF Value
      <4>2. BI!PhiUse(e[1]) /\ e[1] \in 1 .. N
        BY <1>1, <4>1 DEF BI!PhiUse
      <4> QED
        BY <4>2 DEF Used
    <3> QED
      BY <1>4, <3>1, <3>2
  <2>2. b \in L
    <3>1. b # def[1] /\ b \in 0 + 1 .. N
      BY <1>1, <1>4
    <3> QED
      BY <2>1, <3>1 DEF LeastAlive, Alive
  <2>3. 1 \in L
    BY <1>4, <2>2, Arrives
  <2>4. Out(L, 1) \/ BI!Reads(1) # {}
    BY <1>2, <2>3
  <2>5. BI!From(1) = 0 /\ BI!To(1) = 0 + 2 * Length + 2 /\ \A k : BI!Input(1, k) = 0 + 2 * k
    BY BlockPositions
  <2>6. Lies(1, 0)
    BY <2>5, LengthAssumption DEF Lies
  <2>7. BI!Reads(1) # {} => ReadAfter(1, 0)
    <3>1. \A k \in BI!Reads(1) : k \in 1 .. Length
      BY DEF BI!Reads, Value
    <3>2. \A k \in BI!Reads(1) : 0 <= BI!Input(1, k)
      BY <2>5, <3>1, LengthAssumption
    <3> QED
      BY <3>2 DEF ReadAfter
  <2> QED
    BY <1>4, <2>3, <2>4, <2>6, <2>7 DEF Kept
<1>5. ASSUME NEW b \in 1 .. N, NEW p \in Nat, Kept(L, b, p) PROVE uses # {} \/ phi_uses # {}
  <2> SUFFICES ASSUME uses = {}, phi_uses = {} PROVE FALSE
    OBVIOUS
  <2>1. L = {}
    BY Arrives
  <2>2. ~ Out(L, b) /\ BI!Reads(b) = {}
    BY <2>1 DEF Out, BI!PhiUse, BI!Reads
  <2> QED
    BY <1>5, <2>2 DEF Kept, ReadAfter
<1> QED
  BY <1>1, <1>3, <1>4, <1>5

\* The uses, with the place where an argument arrives.
AllUses(U) == IF BI!IsArgument /\ (uses # {} \/ phi_uses # {}) THEN U \cup {0} ELSE U

LEMMA FinalLiveness ==
  ASSUME Laid, Value, LeastAlive(0, liveIn), Ranged(0, liveIn, s), NEW U, Marked(0, liveIn, U),
         use_pos = AllUses(U)
  PROVE  BI!IntervalIsLiveness
<1>1. /\ N \in Nat \ {0} /\ 0 + 1 = 1 /\ BI!Blocks = 1 .. N
      /\ \A b \in 1 .. N : b \in Nat \ {0} /\ (b = N \/ b < N)
  BY DEF Laid, LaidOut, BI!Blocks
<1>2. s \subseteq Nat /\ \A p \in Nat : p \in s <=> \E b \in 1 .. N : Kept(liveIn, b, p)
  BY <1>1 DEF Ranged
<1>3. U \subseteq Nat /\ \A p \in Nat : p \in U <=> \E b \in 1 .. N : p \in UsedAt(liveIn, b)
  BY <1>1 DEF Marked
<1>4. \A b \in 1 .. N, p \in Nat : Kept(liveIn, b, p) => p \in 0 .. BI!To(N) - 1
  <2> SUFFICES ASSUME NEW b \in 1 .. N, NEW p \in Nat, Kept(liveIn, b, p) PROVE p \in 0 .. BI!To(N) - 1
    OBVIOUS
  <2>1. p < BI!To(b)
    BY DEF Kept, Lies
  <2>2. BI!To(b) \in Nat /\ BI!To(N) \in Nat /\ BI!From(N) \in Nat /\ BI!To(N) = BI!From(N) + 2 * Length + 2
    BY <1>1, BlockPositions
  <2>3. b < N => BI!To(b) <= BI!From(N)
    BY <1>1, BlockPositions
  <2> QED
    BY <1>1, <2>1, <2>2, <2>3, LengthAssumption
<1>5. s = {p \in 0 .. BI!To(N) - 1 : \E b \in BI!Blocks : BI!NeededAt(b, p)}
  <2>1. \A p \in 0 .. BI!To(N) - 1 : p \in Nat
    <3>1. N \in Nat \ {0} => BI!To(N) \in Nat
      BY BlockPositions
    <3> QED
      BY <1>1, <3>1
  <2>2. \A b \in 1 .. N, p \in Nat : BI!NeededAt(b, p) <=> Kept(liveIn, b, p)
    BY KeptIsNeeded
  <2> QED
    BY <1>1, <1>2, <1>4, <2>1, <2>2
<1>6. liveIn = {b \in BI!Blocks : BI!NeedsIn(b)}
  <2>1. liveIn \subseteq 1 .. N
    BY <1>1 DEF LeastAlive, Alive
  <2> QED
    BY <1>1, <2>1, AliveIsNeeded
<1>7. /\ \A b \in 1 .. N, p \in Nat : Kept(liveIn, b, p) /\ def[1] # 0 =>
           BI!DefPosition \in UsedAt(liveIn, def[1]) /\ BI!DefPosition <= p
      /\ (uses # {} \/ phi_uses # {}) /\ def[1] = 0 => 1 \in 1 .. N /\ Kept(liveIn, 1, 0)
      /\ \A b \in 1 .. N, p \in Nat : Kept(liveIn, b, p) => uses # {} \/ phi_uses # {}
  BY RangeBegins
<1>8. def[1] = 0 <=> BI!IsArgument
  BY UsesRuled DEF BI!IsArgument
<1>9. U \subseteq s
  BY <1>2, <1>3, UsedIsKept
<1>10. use_pos \subseteq s
  BY <1>2, <1>7, <1>8, <1>9 DEF AllUses
<1>11. ASSUME s # {} PROVE BI!Min(s) \in use_pos
  <2>1. PICK p \in Nat, b \in 1 .. N : p \in s /\ Kept(liveIn, b, p)
    BY <1>2, <1>11
  <2>2. \E m \in use_pos : m \in s /\ \A q \in s : m <= q
    <3>1. CASE def[1] = 0
      <4>1. 0 \in s /\ 0 \in use_pos
        BY <1>2, <1>7, <1>8, <2>1, <3>1 DEF AllUses
      <4> QED
        BY <1>2, <4>1
    <3>2. CASE def[1] # 0
      <4>1. def[1] \in 1 .. N /\ BI!DefPosition \in Nat
        BY <3>2, Defined
      <4>2. BI!DefPosition \in UsedAt(liveIn, def[1])
        BY <1>7, <2>1, <3>2
      <4>3. BI!DefPosition \in U /\ BI!DefPosition \in s
        BY <1>3, <1>9, <4>1, <4>2
      <4>4. \A q \in s : BI!DefPosition <= q
        BY <1>2, <1>7, <3>2
      <4>5. BI!DefPosition \in use_pos
        BY <4>3 DEF AllUses
      <4> QED
        BY <4>3, <4>4, <4>5
    <3> QED
      BY <3>1, <3>2
  <2>3. PICK m \in use_pos : m \in s /\ \A q \in s : m <= q
    BY <2>2
  <2>4. \A x \in s : (\A q \in s : x <= q) => x = m
    BY <1>2, <2>3
  <2>5. BI!Min(s) = m
    BY <2>3, <2>4 DEF BI!Min
  <2> QED
    BY <2>3, <2>5
<1> QED
  BY <1>5, <1>6, <1>10, <1>11 DEF BI!IntervalIsLiveness


-----------------------------------------------------------------------------
(***************************************************************************)
(* The pass over the blocks.                                               *)
(***************************************************************************)
NotGiven ==
  todo = -2 /\ def = <<0, 0>> /\ uses = {} /\ phi_uses = {} /\ s = {} /\ use_pos = {} /\ liveIn = {}

\* The blocks behind todo have been visited.
Visited == Value /\ LeastAlive(todo, liveIn) /\ Ranged(todo, liveIn, s) /\ Marked(todo, liveIn, use_pos)

\* All of them, and the argument has arrived.
Complete ==
  /\ Value /\ LeastAlive(0, liveIn) /\ Ranged(0, liveIn, s)
  /\ \E U \in SUBSET Nat : Marked(0, liveIn, U) /\ use_pos = AllUses(U)

IntervalInv ==
  /\ stage # "intervals" => NotGiven
  /\ stage = "intervals" => /\ Laid /\ todo \in -2 .. N
                            /\ todo = -2 => NotGiven
                            /\ todo = -1 => Complete
                            /\ todo >= 0 => Visited

LEMMA SamePlaces ==
  ASSUME UNCHANGED <<def, uses, phi_uses>>
  PROVE  /\ \A b : BI!Reads(b)' = BI!Reads(b)
         /\ \A b : BI!PhiUse(b)' <=> BI!PhiUse(b)
         /\ \A b : BI!From(b)' = BI!From(b)
         /\ \A b : BI!To(b)' = BI!To(b)
         /\ \A b, k : BI!Input(b, k)' = BI!Input(b, k)
         /\ BI!DefPosition' = BI!DefPosition
BY DEF BI!Reads, BI!PhiUse, BI!From, BI!To, BI!Input, BI!DefPosition

LEMMA SameRanges ==
  ASSUME UNCHANGED <<N, edges, def, uses, phi_uses>>
  PROVE  /\ Laid' <=> Laid
         /\ Value' <=> Value
         /\ LeastAlive(todo, liveIn)' <=> LeastAlive(todo', liveIn')
         /\ Ranged(todo, liveIn, s)' <=> Ranged(todo', liveIn', s')
         /\ Marked(todo, liveIn, use_pos)' <=> Marked(todo', liveIn', use_pos')
<1>1. \A b : Used(b)' <=> Used(b)
  BY SamePlaces DEF Used
<1>2. LeastAlive(todo, liveIn)' <=> LeastAlive(todo', liveIn')
  BY <1>1 DEF LeastAlive, Alive
<1>3. Ranged(todo, liveIn, s)' <=> Ranged(todo', liveIn', s')
  BY SamePlaces DEF Ranged, Kept, Lies, Out, ReadAfter
<1>4. Marked(todo, liveIn, use_pos)' <=> Marked(todo', liveIn', use_pos')
  BY SamePlaces DEF Marked, UsedAt, Out
<1>5. (Laid' <=> Laid) /\ (Value' <=> Value)
  BY DEF Laid, Value, BI!Above
<1> QED
  BY <1>2, <1>3, <1>4, <1>5


\* A value is given, and nothing of the order has been visited.
LEMMA StartIntervals ==
  ASSUME Laid, NotGiven, BI!Start
  PROVE  Laid' /\ todo' = N /\ N' = N /\ Visited'
<1>1. /\ N \in Nat \ {0} /\ edges \subseteq (1 .. N) \X (1 .. N) /\ Length \in Nat
  BY LengthAssumption DEF Laid, LaidOut, Rooted
<1>2. PICK d \in {<<0, 0>>} \cup BI!Blocks \X ({0} \cup BI!Slot), k \in 0 .. MaxUse :
        /\ def' = d
        /\ uses' \in BI!kSubset(k, {u \in BI!Blocks \X BI!Slot : BI!Above(d, u)})
        /\ \E j \in 0 .. MaxUse - k : phi_uses' \in BI!kSubset(j, {e \in edges : BI!Above(d, <<e[1], Length + 1>>)})
  BY DEF BI!Start
<1>3. /\ uses' \subseteq {u \in BI!Blocks \X BI!Slot : BI!Above(d, u)}
      /\ phi_uses' \subseteq {e \in edges : BI!Above(d, <<e[1], Length + 1>>)}
  BY <1>2 DEF BI!kSubset
<1>4. todo' = N /\ N' = N /\ edges' = edges /\ s' = {} /\ use_pos' = {} /\ liveIn' = {}
  BY DEF BI!Start, NotGiven
<1>5. Laid'
  BY <1>4 DEF Laid
<1>6. Value'
  <2>1. def' = <<0, 0>> \/ def' \in (1 .. N) \X (0 .. Length)
    BY <1>1, <1>2 DEF BI!Blocks, BI!Slot
  <2>2. \A u \in uses' : u \in (1 .. N) \X (1 .. Length) /\ BI!Above(def, u)'
    BY <1>2, <1>3, <1>4 DEF BI!Above, BI!Blocks, BI!Slot
  <2>3. \A e \in phi_uses' : e \in edges /\ BI!Above(def, <<e[1], Length + 1>>)'
    BY <1>2, <1>3, <1>4 DEF BI!Above
  <2> QED
    BY <1>4, <2>1, <2>2, <2>3 DEF Value
<1>7. N + 1 .. N = {} /\ \A e \in edges : ~ e[1] > N
  BY <1>1
<1>8. (LeastAlive(todo, liveIn) /\ Ranged(todo, liveIn, s) /\ Marked(todo, liveIn, use_pos))'
  BY <1>4, <1>7 DEF LeastAlive, Alive, Ranged, Marked
<1> QED
  BY <1>4, <1>5, <1>6, <1>8 DEF Visited

LEMMA VisitIntervals ==
  ASSUME Laid, Visited, NEW b \in BI!Blocks, BI!Visit(b)
  PROVE  Laid' /\ N' = N /\ todo' = b - 1 /\ Visited'
<1>1. b = todo /\ b \in 1 .. N
  BY DEF BI!Visit, BI!Blocks
<1>2. /\ LeastAlive(b, liveIn) /\ Ranged(b, liveIn, s) /\ Marked(b, liveIn, use_pos) /\ Value
  BY <1>1 DEF Visited
<1>3. /\ LeastAlive(b - 1, liveIn') /\ Ranged(b - 1, liveIn', s') /\ Marked(b - 1, liveIn', use_pos')
      /\ todo' = b - 1 /\ UNCHANGED <<N, edges, def, uses, phi_uses>>
  BY <1>1, <1>2, VisitSteps
<1>4. LeastAlive(todo', liveIn') /\ Ranged(todo', liveIn', s') /\ Marked(todo', liveIn', use_pos')
  BY <1>3
<1> QED
  BY <1>2, <1>3, <1>4, SameRanges DEF Visited

LEMMA ArriveIntervals ==
  ASSUME Laid, Visited, BI!Arrive
  PROVE  Laid' /\ N' = N /\ todo' = -1 /\ Complete'
<1>1. /\ todo = 0 /\ todo' = -1 /\ use_pos' = AllUses(use_pos)
      /\ UNCHANGED <<N, edges, def, uses, phi_uses, s, liveIn>>
  BY DEF BI!Arrive, AllUses
<1>2. Laid' /\ Value'
  BY <1>1, SameRanges DEF Visited
<1>3. LeastAlive(0, liveIn) /\ Ranged(0, liveIn, s) /\ Marked(0, liveIn, use_pos) /\ use_pos \in SUBSET Nat
  BY <1>1 DEF Visited, Marked
<1>4. UNCHANGED <<def, uses, phi_uses>>
  BY <1>1
<1>5. LeastAlive(0, liveIn)'
  BY <1>1, <1>3, <1>4, SamePlaces DEF LeastAlive, Alive, Used
<1>6. Ranged(0, liveIn, s)'
  BY <1>1, <1>3, <1>4, SamePlaces DEF Ranged, Kept, Lies, Out, ReadAfter
<1>7. \A U : Marked(0, liveIn, U)' <=> Marked(0, liveIn, U)
  BY <1>1, <1>4, SamePlaces DEF Marked, UsedAt, Out
<1>8. \A U : AllUses(U)' = AllUses(U)
  BY <1>1 DEF AllUses, BI!IsArgument
<1>9. \E U \in SUBSET Nat : Marked(0, liveIn, U)' /\ use_pos' = AllUses(U)'
  BY <1>1, <1>3, <1>7, <1>8
<1> QED
  BY <1>1, <1>2, <1>5, <1>6, <1>9 DEF Complete

LEMMA StaysComplete ==
  ASSUME Complete, UNCHANGED <<N, edges, def, uses, phi_uses, s, use_pos, liveIn>>
  PROVE  Complete'
<1>1. PICK U \in SUBSET Nat : Marked(0, liveIn, U) /\ use_pos = AllUses(U)
  BY DEF Complete
<1>2. LeastAlive(0, liveIn)'
  BY SamePlaces DEF Complete, LeastAlive, Alive, Used
<1>3. Ranged(0, liveIn, s)'
  BY SamePlaces DEF Complete, Ranged, Kept, Lies, Out, ReadAfter
<1>4. Marked(0, liveIn, U)'
  BY <1>1, SamePlaces DEF Marked, UsedAt, Out
<1>5. use_pos' = AllUses(U)' /\ Value'
  BY <1>1, SameRanges DEF AllUses, BI!IsArgument, Complete
<1> QED
  BY <1>2, <1>3, <1>4, <1>5 DEF Complete

LEMMA IntervalStep == LoopInv /\ OrderInv /\ IntervalInv /\ [Next]_vars => IntervalInv'
<1> SUFFICES ASSUME LoopInv, OrderInv, IntervalInv, [Next]_vars PROVE IntervalInv'
  OBVIOUS
<1>1. ASSUME stage # "intervals", stage' # "intervals", UNCHANGED intervals PROVE IntervalInv'
  BY <1>1 DEF IntervalInv, NotGiven, intervals
<1>2. CASE Search
  BY <1>1, <1>2 DEF Search, Goes
<1>3. CASE EndSearch \/ SearchAtOnce
  BY <1>1, <1>3 DEF EndSearch, SearchAtOnce, Finds, Goes
<1>4. CASE Record
  <2>1. stage = "loops"
    BY <1>4 DEF Record, LoopInv, Ended
  <2> QED
    BY <1>1, <1>4, <2>1 DEF Record, Goes
<1>5. CASE Order
  BY <1>1, <1>5 DEF Order
<1>6. CASE Number
  <2> DEFINE E == {<<LO!Index(e[1]), LO!Index(e[2])>> : e \in cfg}
  <2>1. /\ stage = "order" /\ LO!Finished /\ Walk /\ NotGiven
        /\ stage' = "intervals" /\ N' = Len(linear_list) /\ edges' = E
        /\ UNCHANGED <<def, uses, phi_uses, todo, s, use_pos, liveIn>>
    BY <1>6 DEF Number, OrderInv, IntervalInv
  <2>2. LaidOut(Len(linear_list), E)
    BY <2>1, KnownLoops, OrderGives
  <2> HIDE DEF E
  <2>3. Laid' /\ NotGiven' /\ todo' = -2
    BY <2>1, <2>2 DEF Laid, NotGiven
  <2>4. N' \in Nat
    BY <2>1, <2>2 DEF LaidOut
  <2> QED
    BY <2>1, <2>3, <2>4 DEF IntervalInv
<1>7. CASE Intervals
  <2>1. stage = "intervals" /\ stage' = "intervals" /\ BI!Next /\ Laid /\ N \in Nat \ {0}
    BY <1>7 DEF Intervals, IntervalInv, Laid, LaidOut
  <2>2. CASE BI!Start
    <3>1. NotGiven
      BY <2>1, <2>2 DEF BI!Start, IntervalInv
    <3>2. Laid' /\ todo' = N /\ N' = N /\ Visited'
      BY <2>1, <2>2, <3>1, StartIntervals
    <3> QED
      BY <2>1, <3>2 DEF IntervalInv
  <2>3. ASSUME NEW b \in BI!Blocks, BI!Visit(b) PROVE IntervalInv'
    <3>1. todo = b /\ b \in 1 .. N
      BY <2>3 DEF BI!Visit, BI!Blocks
    <3>2. Visited
      BY <2>1, <3>1 DEF IntervalInv
    <3>3. Laid' /\ N' = N /\ todo' = b - 1 /\ Visited'
      BY <2>1, <2>3, <3>2, VisitIntervals
    <3>4. todo' \in -2 .. N' /\ todo' >= 0
      BY <2>1, <3>1, <3>3
    <3> QED
      BY <2>1, <3>3, <3>4 DEF IntervalInv
  <2>4. CASE BI!Arrive
    <3>1. Visited
      BY <2>1, <2>4 DEF BI!Arrive, IntervalInv
    <3>2. Laid' /\ N' = N /\ todo' = -1 /\ Complete'
      BY <2>1, <2>4, <3>1, ArriveIntervals
    <3> QED
      BY <2>1, <3>2 DEF IntervalInv
  <2> QED
    BY <2>1, <2>2, <2>3, <2>4 DEF BI!Next
<1>8. CASE UNCHANGED vars
  <2>1. stage' = stage /\ UNCHANGED <<N, edges, def, uses, phi_uses, todo, s, use_pos, liveIn>>
    BY <1>8 DEF vars, intervals
  <2>2. CASE stage # "intervals"
    BY <1>1, <1>8, <2>1, <2>2 DEF vars
  <2>3. CASE stage = "intervals"
    <3>1. Laid' <=> Laid
      BY <2>1, SameRanges
    <3>2. NotGiven' <=> NotGiven
      BY <2>1 DEF NotGiven
    <3>3. Visited' <=> Visited
      BY <2>1, SameRanges DEF Visited
    <3>4. Complete => Complete'
      BY <2>1, StaysComplete
    <3> QED
      BY <2>1, <2>3, <3>1, <3>2, <3>3, <3>4 DEF IntervalInv
  <2> QED
    BY <2>2, <2>3
<1> QED
  BY <1>2, <1>3, <1>4, <1>5, <1>6, <1>7, <1>8 DEF Next

\* The one pass over the blocks, which carries a value that is alive at the header of a loop over
\* the whole loop and iterates nothing, leaves exactly the positions and the blocks where some path
\* leads to a use of the value, whatever the graph, and the first of them is a use.
THEOREM LiveRangesExact == Spec => []IntervalIsLiveness
<1>1. Init => IntervalInv
  BY DEF Init, BI!Init, IntervalInv, NotGiven
<1>2. LoopInv /\ OrderInv /\ IntervalInv /\ [Next]_vars => IntervalInv'
  BY IntervalStep
<1>3. IntervalInv => IntervalIsLiveness
  <2> SUFFICES ASSUME IntervalInv, stage = "intervals" PROVE BI!IntervalIsLiveness
    BY DEF IntervalIsLiveness
  <2>1. CASE todo = -1
    <3>1. Laid /\ Complete
      BY <2>1 DEF IntervalInv
    <3>2. PICK U \in SUBSET Nat : Marked(0, liveIn, U) /\ use_pos = AllUses(U)
      BY <3>1 DEF Complete
    <3> QED
      BY <3>1, <3>2, FinalLiveness DEF Complete
  <2>2. CASE todo # -1
    BY <2>2 DEF BI!IntervalIsLiveness, BI!Finished
  <2> QED
    BY <2>1, <2>2
<1> QED
  BY <1>1, <1>2, <1>3, OrderInvHolds, PTL DEF Spec
=============================================================================
