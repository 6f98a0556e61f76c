-------------------------- MODULE Dominators_proof --------------------------
(***************************************************************************)
(* Dominators computes the dominators of every graph, reducible or not,    *)
(* in whatever order the neighbours of a block are taken, and while it     *)
(* does an immediate dominator only moves up.                              *)
(***************************************************************************)
EXTENDS Dominators, Flow_proof, SequenceTheorems

-----------------------------------------------------------------------------
(***************************************************************************)
(* The tree that f makes on the blocks of K, whose root is r: the blocks   *)
(* on the way up from b.  Numbers ix grow on the way.                      *)
(***************************************************************************)
Up(f, r, b) ==
  {c \in Block : \A S \in SUBSET Block : b \in S /\ (\A x \in S : x # r => f[x] \in S) => c \in S}

Tree(f, r, K, ix, N) ==
  /\ K \subseteq Block /\ r \in K /\ N \in Nat
  /\ \A x \in K : ix[x] \in 0 .. N /\ \A y \in K : ix[x] = ix[y] => x = y
  /\ \A x \in K \ {r} : f[x] \in K /\ ix[f[x]] > ix[x]

\* A block is on its own way up, which stays in the tree, and the numbers grow on it.
LEMMA UpWay ==
  ASSUME NEW f, NEW r, NEW K, NEW ix, NEW N, Tree(f, r, K, ix, N), NEW b \in K
  PROVE  /\ b \in Up(f, r, b) /\ Up(f, r, b) \subseteq K
         /\ \A c \in Up(f, r, b) : /\ c # r => f[c] \in Up(f, r, b)
                                   /\ Up(f, r, c) \subseteq Up(f, r, b)
                                   /\ c = b \/ ix[c] > ix[b]
<1>1. b \in Up(f, r, b)
  BY DEF Up, Tree
<1>2. Up(f, r, b) \subseteq K
  BY DEF Up, Tree
<1> SUFFICES ASSUME NEW c \in Up(f, r, b)
             PROVE  /\ c # r => f[c] \in Up(f, r, b)
                    /\ Up(f, r, c) \subseteq Up(f, r, b)
                    /\ c = b \/ ix[c] > ix[b]
  BY <1>1, <1>2
<1>3. ASSUME c # r PROVE f[c] \in Up(f, r, b)
  <2>1. f[c] \in Block
    BY <1>2, <1>3 DEF Tree
  <2> QED
    BY <1>3, <2>1 DEF Up
<1>4. Up(f, r, c) \subseteq Up(f, r, b)
  BY DEF Up
<1>5. c = b \/ ix[c] > ix[b]
  <2> DEFINE S == {x \in K : x = b \/ ix[x] > ix[b]}
  <2>1. b \in S /\ S \in SUBSET Block
    BY DEF Tree
  <2>2. \A x \in S : x # r => f[x] \in S
    <3> TAKE x \in S
    <3> HAVE x # r
    <3>1. f[x] \in K /\ ix[f[x]] > ix[x] /\ ix[f[x]] \in 0 .. N /\ ix[x] \in 0 .. N /\ ix[b] \in 0 .. N
      BY DEF Tree
    <3> QED
      BY <3>1
  <2> QED
    BY <2>1, <2>2 DEF Up
<1> QED
  BY <1>3, <1>4, <1>5

\* The way up from b is b and the way up from f[b].
LEMMA UpNext ==
  ASSUME NEW f, NEW r, NEW K, NEW ix, NEW N, Tree(f, r, K, ix, N), NEW b \in K
  PROVE  /\ b # r => Up(f, r, b) = {b} \cup Up(f, r, f[b]) /\ b \notin Up(f, r, f[b])
         /\ Up(f, r, r) = {r}
<1>1. ASSUME b # r PROVE Up(f, r, b) = {b} \cup Up(f, r, f[b]) /\ b \notin Up(f, r, f[b])
  <2>1. f[b] \in K /\ ix[f[b]] > ix[b] /\ ix[b] \in 0 .. N /\ ix[f[b]] \in 0 .. N
    BY <1>1 DEF Tree
  <2>2. f[b] \in Up(f, r, b) /\ b \in Up(f, r, b) /\ Up(f, r, f[b]) \subseteq Up(f, r, b)
    BY <1>1, UpWay
  <2>3. Up(f, r, b) \subseteq {b} \cup Up(f, r, f[b])
    <3> DEFINE S == {b} \cup Up(f, r, f[b])
    <3>1. S \in SUBSET Block /\ b \in S
      BY DEF Up, Tree
    <3>2. \A x \in S : x # r => f[x] \in S
      BY <2>1, UpWay
    <3> HIDE DEF S
    <3>3. Up(f, r, b) \subseteq S
      BY <3>1, <3>2 DEF Up
    <3> QED
      BY <3>3 DEF S
  <2>4. b \notin Up(f, r, f[b])
    <3>1. \A c \in Up(f, r, f[b]) : c = f[b] \/ ix[c] > ix[f[b]]
      BY <2>1, UpWay
    <3>2. \A c \in Up(f, r, f[b]) : c \in K
      BY <2>1, UpWay
    <3>3. \A c \in Up(f, r, f[b]) : ix[c] \in 0 .. N
      BY <3>2 DEF Tree
    <3> QED
      BY <2>1, <3>1, <3>3
  <2> QED
    BY <2>2, <2>3, <2>4
<1>2. Up(f, r, r) = {r}
  <2>1. r \in K /\ {r} \in SUBSET Block
    BY DEF Tree
  <2>2. Up(f, r, r) \subseteq {r}
    BY <2>1 DEF Up
  <2> QED
    BY <2>1, <2>2, UpWay
<1> QED
  BY <1>1, <1>2

\* It leads to the root, which has the largest number.
LEMMA UpRoot ==
  ASSUME NEW f, NEW r, NEW K, NEW ix, NEW N, Tree(f, r, K, ix, N), NEW b \in K
  PROVE  r \in Up(f, r, b) /\ ix[b] <= ix[r]
<1>1. N \in Nat /\ \A x \in K : ix[x] \in 0 .. N
  BY DEF Tree
<1>2. b \in Up(f, r, b) /\ \A x \in Up(f, r, b) : x \in K /\ ix[x] \in 0 .. N
  BY <1>1, UpWay
<1>3. PICK x \in Up(f, r, b) : \A y \in Up(f, r, b) : ix[y] <= ix[x]
  <2> DEFINE S == Up(f, r, b)
  <2>1. S # {} /\ \A z \in S : ix[z] \in 0 .. N
    BY <1>2
  <2> HIDE DEF S
  <2>2. \E z \in S : \A y \in S : ix[y] <= ix[z]
    BY <1>1, <2>1, Topmost
  <2> QED
    BY <2>2 DEF S
<1>4. x = r
  <2> SUFFICES ASSUME x # r PROVE FALSE
    OBVIOUS
  <2>1. f[x] \in Up(f, r, b)
    BY UpWay
  <2>2. ix[f[x]] > ix[x] /\ ix[f[x]] \in 0 .. N /\ ix[x] \in 0 .. N
    BY <1>2, <2>1 DEF Tree
  <2> QED
    BY <1>3, <2>1, <2>2
<1> QED
  BY <1>2, <1>3, <1>4

\* Two blocks on one way up lie on the way of each other, the lower below.
LEMMA UpLinear ==
  ASSUME NEW f, NEW r, NEW K, NEW ix, NEW N, Tree(f, r, K, ix, N), NEW b \in K,
         NEW c \in Up(f, r, b), NEW d \in Up(f, r, b), ix[d] <= ix[c]
  PROVE  c \in Up(f, r, d)
<1>1. c \in K /\ d \in K /\ \A x \in Up(f, r, b) : x \in K
  BY UpWay
<1>2. ix[c] \in 0 .. N /\ ix[d] \in 0 .. N
  BY <1>1 DEF Tree
<1> DEFINE S == {x \in Up(f, r, b) : x \in Up(f, r, d) \/ d \in Up(f, r, x)}
<1>3. b \in S
  BY UpWay
<1>4. S \in SUBSET Block
  BY DEF Up
<1>5. \A x \in S : x # r => f[x] \in S
  <2> TAKE x \in S
  <2> HAVE x # r
  <2>1. x \in K /\ f[x] \in Up(f, r, b)
    BY <1>1, UpWay
  <2>2. CASE x \in Up(f, r, d)
    BY <1>1, <2>1, <2>2, UpWay
  <2>3. CASE d \in Up(f, r, x)
    <3>1. d = x \/ d \in Up(f, r, f[x])
      BY <2>1, <2>3, UpNext
    <3>2. CASE d = x
      <4>1. f[x] \in Up(f, r, x)
        BY <2>1, UpWay
      <4> QED
        BY <2>1, <3>2, <4>1
    <3> QED
      BY <2>1, <3>1, <3>2
  <2> QED
    BY <2>2, <2>3
<1>6. c \in S
  <2> HIDE DEF S
  <2> QED
    BY <1>3, <1>4, <1>5 DEF Up
<1>7. CASE d \in Up(f, r, c)
  <2>1. d = c \/ ix[d] > ix[c]
    BY <1>1, <1>7, UpWay
  <2>2. d = c
    BY <1>2, <2>1
  <2> QED
    BY <1>1, <2>2, UpWay
<1> QED
  BY <1>6, <1>7

\* The place above y becomes n: y is new in the tree, or n is above where y was.
Moves(f, r, K, ix, N, y, n, g) ==
  /\ Tree(f, r, K, ix, N) /\ y \in Block \ {r} /\ n \in K
  /\ ix[y] \in 0 .. N /\ ix[n] > ix[y] /\ \A x \in K : ix[x] = ix[y] => x = y
  /\ y \in K => n \in Up(f, r, f[y])
  /\ g[y] = n /\ \A x \in K \ {y} : g[x] = f[x]

\* The ways up only lose what was between y and n, for the blocks under y.
Moved(f, r, K, ix, N, y, n, g) ==
  /\ Tree(g, r, K \cup {y}, ix, N)
  /\ Up(g, r, y) = {y} \cup Up(f, r, n)
  /\ \A b \in K :
       /\ y \notin Up(f, r, b) => Up(g, r, b) = Up(f, r, b)
       /\ Up(g, r, b) \subseteq Up(f, r, b)
       /\ \A c \in Up(f, r, b) \ Up(g, r, b) :
            y \in K /\ y \in Up(g, r, b) /\ c \in Up(f, r, y) \ Up(g, r, y) /\ ix[c] > ix[y]

\* When y gets the place n above it, further up than before or y's first, the ways up
\* that pass y get shorter and the others stay as they are.
LEMMA UpMove ==
  ASSUME NEW f, NEW r, NEW K, NEW ix, NEW N, NEW y, NEW n, NEW g, Moves(f, r, K, ix, N, y, n, g)
  PROVE  Moved(f, r, K, ix, N, y, n, g)
<1>0. /\ Tree(f, r, K, ix, N) /\ y \in Block \ {r} /\ n \in K
      /\ ix[y] \in 0 .. N /\ ix[n] > ix[y] /\ \A x \in K : ix[x] = ix[y] => x = y
      /\ y \in K => n \in Up(f, r, f[y])
      /\ g[y] = n /\ \A x \in K \ {y} : g[x] = f[x]
  BY DEF Moves
<1> USE <1>0
<1>1. Tree(g, r, K \cup {y}, ix, N)
  BY DEF Tree
<1>2. \A x \in K : ix[x] \in 0 .. N
  BY DEF Tree
<1>3. \A b \in K : Up(f, r, b) \subseteq K /\ Up(g, r, b) \subseteq K \cup {y}
  BY <1>1, UpWay
<1>4. \A b \in K : Up(g, r, b) \subseteq Up(f, r, b)
  <2> TAKE b \in K
  <2>1. b \in Up(f, r, b)
    BY UpWay
  <2>2. \A x \in Up(f, r, b) : x # r => g[x] \in Up(f, r, b)
    <3> TAKE x \in Up(f, r, b)
    <3> HAVE x # r
    <3>1. x \in K /\ f[x] \in Up(f, r, b) /\ Up(f, r, x) \subseteq Up(f, r, b)
      BY <1>3, UpWay
    <3>2. CASE x # y
      BY <3>1, <3>2
    <3>3. CASE x = y
      <4>1. n \in Up(f, r, f[y]) /\ Up(f, r, f[y]) \subseteq Up(f, r, y)
        BY <3>1, <3>3, UpNext
      <4> QED
        BY <3>1, <3>3, <4>1
    <3> QED
      BY <3>2, <3>3
  <2>3. Up(f, r, b) \in SUBSET Block
    BY DEF Up
  <2> DEFINE S == Up(f, r, b)
  <2> HIDE DEF S
  <2>4. Up(g, r, b) \subseteq S
    BY <2>1, <2>2, <2>3 DEF Up, S
  <2> QED
    BY <2>4 DEF S
<1>5. \A b \in K : y \notin Up(f, r, b) => Up(g, r, b) = Up(f, r, b)
  <2> TAKE b \in K
  <2> HAVE y \notin Up(f, r, b)
  <2> DEFINE S == Up(g, r, b)
  <2>1. S \subseteq Up(f, r, b) /\ S \in SUBSET Block
    BY <1>4 DEF Up
  <2>2. b \in S /\ \A x \in S : x # r => g[x] \in S
    BY <1>1, UpWay
  <2>3. \A x \in S : x # r => f[x] \in S
    BY <1>3, <2>1, <2>2
  <2> HIDE DEF S
  <2>4. Up(f, r, b) \subseteq S
    BY <2>1, <2>2, <2>3 DEF Up
  <2> QED
    BY <2>1, <2>4 DEF S
<1>6. Up(g, r, y) = {y} \cup Up(f, r, n)
  <2>1. y \notin Up(f, r, n)
    <3>1. \A c \in Up(f, r, n) : c = n \/ ix[c] > ix[n]
      BY UpWay
    <3> QED
      BY <1>2, <1>3, <3>1
  <2>2. Up(g, r, n) = Up(f, r, n)
    BY <1>5, <2>1
  <2> QED
    BY <1>1, <2>2, UpNext
<1>7. ASSUME NEW b \in K, NEW c \in Up(f, r, b) \ Up(g, r, b)
      PROVE  y \in K /\ y \in Up(g, r, b) /\ c \in Up(f, r, y) \ Up(g, r, y) /\ ix[c] > ix[y]
  <2> DEFINE S == {x \in Up(f, r, b) : x \in Up(g, r, b) \/ (y \in Up(g, r, b) /\ x \in Up(f, r, y))}
  <2>1. b \in S /\ S \in SUBSET Block
    <3>1. b \in Up(f, r, b)
      BY UpWay
    <3>0. b \in Up(g, r, b)
      BY <1>1, UpWay
    <3>2. Up(f, r, b) \subseteq Block
      BY DEF Up
    <3> QED
      BY <3>0, <3>1, <3>2
  <2>2. \A x \in S : x # r => f[x] \in S
    <3> TAKE x \in S
    <3> HAVE x # r
    <3>1. x \in K /\ f[x] \in Up(f, r, b)
      BY <1>3, UpWay
    <3>2. CASE x \in Up(g, r, b) /\ x # y
      <4>1. g[x] \in Up(g, r, b)
        BY <1>1, <3>2, UpWay
      <4>2. g[x] = f[x]
        BY <3>1, <3>2
      <4> QED
        BY <3>1, <4>1, <4>2
    <3>3. CASE y \in Up(g, r, b) /\ x \in Up(f, r, y)
      <4>1. y \in K
        BY <1>3, <1>4, <3>3
      <4>2. f[x] \in Up(f, r, y)
        BY <3>3, <4>1, UpWay
      <4> QED
        BY <3>1, <3>3, <4>2
    <3>4. CASE x \in Up(g, r, b) /\ x = y
      <4>1. y \in Up(f, r, y)
        BY <3>1, <3>4, UpWay
      <4> QED
        BY <3>3, <3>4, <4>1
    <3> QED
      BY <3>2, <3>3, <3>4
  <2>3. y \in Up(g, r, b) /\ c \in Up(f, r, y)
    <3> HIDE DEF S
    <3>1. c \in S
      BY <2>1, <2>2 DEF Up
    <3> QED
      BY <3>1 DEF S
  <2>4. y \in K
    BY <1>3, <1>4, <2>3
  <2>5. Up(g, r, y) \subseteq Up(g, r, b)
    BY <1>1, <2>3, UpWay
  <2>6. c # y /\ (c = y \/ ix[c] > ix[y])
    BY <2>3, <2>4, UpWay
  <2> QED
    BY <2>3, <2>4, <2>5, <2>6
<1> QED
  BY <1>1, <1>4, <1>5, <1>6, <1>7 DEF Moved

-----------------------------------------------------------------------------
(***************************************************************************)
(* Ways: the blocks that the edges of E lead to from x.                    *)
(***************************************************************************)
Way(E, x) ==
  {c \in Block : \A S \in SUBSET Block : x \in S /\ (\A e \in E : e[1] \in S => e[2] \in S) => c \in S}

\* A way begins at its block and goes on along every edge.
LEMMA WayFrom ==
  ASSUME NEW E, NEW x \in Block
  PROVE  /\ x \in Way(E, x)
         /\ \A p, q \in Block : p \in Way(E, x) /\ <<p, q>> \in E => q \in Way(E, x)
         /\ \A u \in Way(E, x) : Way(E, u) \subseteq Way(E, x)
<1>1. x \in Way(E, x)
  BY DEF Way
<1>2. ASSUME NEW p \in Block, NEW q \in Block, p \in Way(E, x), <<p, q>> \in E PROVE q \in Way(E, x)
  <2> SUFFICES ASSUME NEW S \in SUBSET Block, x \in S, \A e \in E : e[1] \in S => e[2] \in S
               PROVE  q \in S
    BY DEF Way
  <2>1. p \in S
    BY <1>2 DEF Way
  <2> QED
    BY <1>2, <2>1
<1>3. \A u \in Way(E, x) : Way(E, u) \subseteq Way(E, x)
  BY DEF Way
<1> QED
  BY <1>1, <1>2, <1>3

\* The edges that lead down in the numbers.
Below(E, ix) == {e \in E : ix[e[1]] > ix[e[2]]}

\* A way down from u passes nothing that is above u.
LEMMA WayBelow ==
  ASSUME NEW E, NEW V, V \subseteq Block, E \subseteq V \X V, NEW N \in Nat, NEW ix,
         \A x \in V : ix[x] \in 0 .. N, NEW u \in V, NEW a \in V, ix[a] > ix[u],
         NEW b \in Way(Below(E, ix), u)
  PROVE  b \in Way(F!Without(E, a), u)
<1> SUFFICES ASSUME NEW S \in SUBSET Block, u \in S,
                    \A e \in F!Without(E, a) : e[1] \in S => e[2] \in S
             PROVE  b \in S
  BY DEF Way
<1> DEFINE T == {x \in S \cap V : ix[x] <= ix[u]}
<1>1. u \in T /\ T \in SUBSET Block
  OBVIOUS
<1>2. \A e \in Below(E, ix) : e[1] \in T => e[2] \in T
  <2> TAKE e \in Below(E, ix)
  <2> HAVE e[1] \in T
  <2>1. e \in E /\ e[1] \in V /\ e[2] \in V /\ ix[e[1]] > ix[e[2]]
    BY DEF Below
  <2>2. ix[e[2]] < ix[u] /\ a \notin {e[1], e[2]}
    BY <2>1
  <2>3. e \in F!Without(E, a)
    BY <2>1, <2>2 DEF F!Without
  <2> QED
    BY <2>1, <2>2, <2>3
<1>3. b \in T
  <2> HIDE DEF T
  <2> QED
    BY <1>1, <1>2 DEF Way
<1> QED
  BY <1>3

-----------------------------------------------------------------------------
(***************************************************************************)
(* What holds between two rounds of the loop.  E are the edges between the *)
(* blocks V that the search has numbered; K are the blocks whose immediate *)
(* dominator is known, D those that this pass has been at.                 *)
(***************************************************************************)
Numbered(E, r, V, ix, N) ==
  /\ V \subseteq Block /\ r \in V /\ N \in Nat /\ E \subseteq V \X (V \ {r})
  /\ \A x \in V : ix[x] \in 1 .. N /\ \A y \in V : ix[x] = ix[y] => x = y
  /\ \A b \in V \ {r} : \E t \in V : <<t, b>> \in E /\ ix[t] > ix[b]

Seen(E, K, b) == {p \in K : <<p, b>> \in E}

\* What is on the way up from all the blocks of S.
Shared(f, r, S) == {c \in Block : \A p \in S : c \in Up(f, r, p)}

\* The place above a block is not above what its predecessors have in common.
NotAbove(E, r, f, K) == \A b \in K \ {r} : Shared(f, r, Seen(E, K, b)) \subseteq Up(f, r, b)

\* What is above a block is above its predecessors, if this pass has seen to it.
Follows(E, r, ix, f, K, D) ==
  \A b \in K \ {r} : \A t \in Seen(E, K, b) : ix[t] > ix[b] =>
    \A u \in Up(f, r, b) \ {b} : b \in D \/ u \notin D => u \in Up(f, r, t)

\* What is not above a block is avoided by a path to it.
Avoids(E, r, f, K) ==
  \A b \in K : \A a \in Block \ Up(f, r, b) : b \in Way(F!Without(E, a), r)

\* A block can be reached from those above it without going up.
Descends(E, r, ix, f, K) ==
  \A b \in K : \A u \in Up(f, r, b) : b \in Way(Below(E, ix), u)

Core(E, r, V, ix, N, f, K, D) ==
  /\ K = V \/ K = {r} \cup D
  /\ Tree(f, r, K, ix, N)
  /\ NotAbove(E, r, f, K) /\ Follows(E, r, ix, f, K, D)
  /\ Avoids(E, r, f, K) /\ Descends(E, r, ix, f, K)

\* What is above a block is above its predecessors, for the blocks that have been seen to.
Settled(E, r, f, K, D) ==
  \A b \in D \ {r} : \A p : <<p, b>> \in E => p \in K /\ Up(f, r, b) \ {b} \subseteq Up(f, r, p)

\* A round for y: n is the nearest block above the known predecessors.
Round(E, r, V, ix, N, f, K, D, y, n, g) ==
  /\ Numbered(E, r, V, ix, N) /\ Core(E, r, V, ix, N, f, K, D)
  /\ y \in V \ {r} /\ D = {b \in V : ix[b] > ix[y]}
  /\ n \in Shared(f, r, Seen(E, K, y)) /\ Shared(f, r, Seen(E, K, y)) \subseteq Up(f, r, n)
  /\ g[y] = n /\ \A x \in V \ {y} : g[x] = f[x]

\* A round moves y up, to a block that is above one of its predecessors.
LEMMA RoundUp ==
  ASSUME NEW E, NEW r, NEW V, NEW ix, NEW N, NEW f, NEW K, NEW D, NEW y, NEW n, NEW g,
         Round(E, r, V, ix, N, f, K, D, y, n, g)
  PROVE  /\ n \in K /\ ix[n] > ix[y] /\ K \subseteq V /\ y \notin D
         /\ \E t \in Seen(E, K, y) : ix[t] > ix[y] /\ n \in Up(f, r, t)
         /\ y \in K => n \in Up(f, r, f[y]) /\ (n = f[y] \/ ix[n] > ix[f[y]])
         /\ Moved(f, r, K, ix, N, y, n, g)
<1>1. /\ Tree(f, r, K, ix, N) /\ y \in V \ {r} /\ NotAbove(E, r, f, K)
      /\ n \in Shared(f, r, Seen(E, K, y)) /\ g[y] = n /\ \A x \in V \ {y} : g[x] = f[x]
      /\ K = V \/ K = {r} \cup D
      /\ D = {b \in V : ix[b] > ix[y]}
  BY DEF Round, Core
<1>2. /\ V \subseteq Block /\ r \in V /\ N \in Nat
      /\ \A x \in V : ix[x] \in 1 .. N /\ \A z \in V : ix[x] = ix[z] => x = z
  BY DEF Round, Numbered
<1>3. K \subseteq V /\ y \notin D
  BY <1>1, <1>2
<1>4. PICK t \in V : <<t, y>> \in E /\ ix[t] > ix[y]
  BY <1>1 DEF Round, Numbered
<1>5. t \in Seen(E, K, y)
  BY <1>1, <1>4 DEF Seen
<1>6. n \in Up(f, r, t) /\ t \in K
  BY <1>1, <1>5 DEF Shared, Seen
<1>7. n \in K /\ (n = t \/ ix[n] > ix[t])
  BY <1>1, <1>6, UpWay
<1>8. ix[n] > ix[y]
  BY <1>1, <1>2, <1>3, <1>4, <1>6, <1>7
<1>9. ASSUME y \in K PROVE n \in Up(f, r, f[y]) /\ (n = f[y] \/ ix[n] > ix[f[y]])
  <2>1. n \in Up(f, r, y)
    BY <1>1, <1>9 DEF NotAbove
  <2>2. n # y
    BY <1>1, <1>2, <1>8
  <2>3. n \in Up(f, r, f[y])
    BY <1>1, <1>9, <2>1, <2>2, UpNext
  <2>4. f[y] \in K
    BY <1>1, <1>9 DEF Tree
  <2> QED
    BY <1>1, <2>3, <2>4, UpWay
<1>10. /\ y \in Block \ {r} /\ ix[y] \in 0 .. N /\ \A x \in K : ix[x] = ix[y] => x = y
       /\ \A x \in K \ {y} : g[x] = f[x]
  BY <1>1, <1>2, <1>3
<1>11. y \in K => n \in Up(f, r, f[y])
  BY <1>9
<1>12. Moved(f, r, K, ix, N, y, n, g)
  <2>1. Moves(f, r, K, ix, N, y, n, g)
    BY <1>1, <1>7, <1>8, <1>10, <1>11 DEF Moves
  <2> QED
    BY <2>1, UpMove
<1> QED
  BY <1>3, <1>4, <1>5, <1>6, <1>7, <1>8, <1>9, <1>12

\* One round keeps all of it, and one that changes nothing finds the block settled.
LEMMA RoundKeeps ==
  ASSUME NEW E, NEW r, NEW V, NEW ix, NEW N, NEW f, NEW K, NEW D, NEW y, NEW n, NEW g,
         Round(E, r, V, ix, N, f, K, D, y, n, g)
  PROVE  /\ Core(E, r, V, ix, N, g, K \cup {y}, D \cup {y})
         /\ y \in K /\ f[y] = n /\ Settled(E, r, f, K, D) => Settled(E, r, f, K, D \cup {y})
<1>0. /\ Tree(f, r, K, ix, N) /\ y \in V \ {r} /\ g[y] = n
      /\ n \in Shared(f, r, Seen(E, K, y)) /\ Shared(f, r, Seen(E, K, y)) \subseteq Up(f, r, n)
      /\ K = V \/ K = {r} \cup D
      /\ D = {b \in V : ix[b] > ix[y]}
      /\ NotAbove(E, r, f, K) /\ Follows(E, r, ix, f, K, D)
      /\ Avoids(E, r, f, K) /\ Descends(E, r, ix, f, K)
  BY DEF Round, Core
<1>1. /\ V \subseteq Block /\ r \in V /\ N \in Nat /\ E \subseteq V \X (V \ {r})
      /\ \A x \in V : ix[x] \in 1 .. N /\ \A z \in V : ix[x] = ix[z] => x = z
  BY DEF Round, Numbered
<1>2. /\ n \in K /\ ix[n] > ix[y] /\ K \subseteq V /\ y \notin D
      /\ y \in K => n \in Up(f, r, f[y]) /\ (n = f[y] \/ ix[n] > ix[f[y]])
      /\ Moved(f, r, K, ix, N, y, n, g)
  BY RoundUp
<1>3. PICK top \in Seen(E, K, y) : ix[top] > ix[y] /\ n \in Up(f, r, top)
  BY RoundUp
<1>4. /\ Tree(g, r, K \cup {y}, ix, N)
      /\ Up(g, r, y) = {y} \cup Up(f, r, n)
      /\ \A b \in K :
           /\ y \notin Up(f, r, b) => Up(g, r, b) = Up(f, r, b)
           /\ Up(g, r, b) \subseteq Up(f, r, b)
           /\ \A c \in Up(f, r, b) \ Up(g, r, b) :
                y \in K /\ y \in Up(g, r, b) /\ c \in Up(f, r, y) \ Up(g, r, y) /\ ix[c] > ix[y]
  BY <1>2 DEF Moved
<1>5. NotAbove(E, r, g, K \cup {y})
  <2> SUFFICES ASSUME NEW b \in (K \cup {y}) \ {r}, NEW c \in Shared(g, r, Seen(E, K \cup {y}, b))
               PROVE  c \in Up(g, r, b)
    BY DEF NotAbove
  <2>1. c \in Shared(f, r, Seen(E, K, b))
    BY <1>4 DEF Shared, Seen
  <2>2. CASE b = y
    BY <1>0, <1>4, <2>1, <2>2
  <2>3. CASE b # y
    <3> SUFFICES ASSUME c \notin Up(g, r, b) PROVE FALSE
      OBVIOUS
    <3>1. b \in K /\ c \in Up(f, r, b)
      BY <1>0, <2>1, <2>3 DEF NotAbove
    <3>2. y \in K /\ y \in Up(g, r, b) /\ c \notin Up(g, r, y) /\ ix[c] > ix[y]
      BY <1>4, <3>1
    <3>3. PICK t \in V : <<t, b>> \in E /\ ix[t] > ix[b]
      BY <1>2, <3>1 DEF Round, Numbered
    <3>4. t \in Seen(E, K, b)
      BY <1>0, <1>2, <3>2, <3>3 DEF Seen
    <3>5. y \in Up(f, r, b) \ {b}
      BY <1>4, <2>3, <3>1, <3>2
    <3>6. y \in Up(f, r, t)
      BY <1>0, <1>2, <3>1, <3>3, <3>4, <3>5 DEF Follows
    <3>7. t \in K /\ y \in Up(g, r, t)
      BY <1>1, <1>2, <1>4, <3>2, <3>4, <3>6 DEF Seen
    <3>8. c \in Up(g, r, t)
      BY <3>4, <3>7 DEF Shared, Seen
    <3>9. c \in Up(g, r, y)
      <4>1. ix[y] <= ix[c]
        <5>1. c \in K \cup {y}
          BY <1>4, <3>7, <3>8, UpWay
        <5> QED
          BY <1>1, <1>2, <3>2, <5>1
      <4> QED
        BY <1>4, <3>7, <3>8, <4>1, UpLinear
    <3> QED
      BY <3>2, <3>9
  <2> QED
    BY <2>2, <2>3
<1>6. Follows(E, r, ix, g, K \cup {y}, D \cup {y})
  <2> SUFFICES ASSUME NEW b \in (K \cup {y}) \ {r}, NEW t \in Seen(E, K \cup {y}, b), ix[t] > ix[b],
                      NEW u \in Up(g, r, b) \ {b}, b \in D \cup {y} \/ u \notin D \cup {y}
               PROVE  u \in Up(g, r, t)
    BY DEF Follows
  <2>1. t \in V /\ b \in V /\ t \in K \cup {y} /\ <<t, b>> \in E
    BY <1>0, <1>2 DEF Seen
  <2>2. CASE b = y
    <3>1. t \in K /\ t # y
      BY <1>1, <2>1, <2>2
    <3>2. u \in Up(f, r, n)
      BY <1>4, <2>2
    <3>3. Up(f, r, n) \subseteq Up(f, r, t)
      <4>1. n \in Up(f, r, t)
        BY <1>0, <2>1, <2>2, <3>1 DEF Shared, Seen
      <4> QED
        BY <1>0, <3>1, <4>1, UpWay
    <3>4. y \notin Up(f, r, t)
      <4>1. y \in Up(f, r, t) => ix[y] > ix[t]
        BY <1>0, <3>1, UpWay
      <4> QED
        BY <1>1, <2>1, <2>2, <4>1
    <3> QED
      BY <1>4, <3>1, <3>2, <3>3, <3>4
  <2>3. CASE b # y
    <3>1. b \in K /\ u \in Up(f, r, b) \ {b} /\ (b \in D \/ u \notin D)
      BY <1>4, <2>3
    <3>2. t \in K
      <4> SUFFICES ASSUME t = y, y \notin K PROVE FALSE
        BY <2>1
      <4>1. b \in D
        BY <1>0, <3>1
      <4> QED
        BY <1>0, <1>1, <2>1, <4>1
    <3>3. u \in Up(f, r, t)
      BY <1>0, <2>1, <3>1, <3>2 DEF Follows, Seen
    <3> SUFFICES ASSUME u \notin Up(g, r, t) PROVE FALSE
      OBVIOUS
    <3>4. y \in Up(g, r, t) /\ y \in Up(f, r, t) /\ ix[u] > ix[y]
      BY <1>4, <3>2, <3>3
    <3>5. u \in V
      BY <1>0, <1>2, <3>2, <3>3, UpWay
    <3>6. b \in D
      BY <1>0, <3>1, <3>4, <3>5
    <3>7. t = y \/ ix[y] > ix[t]
      BY <1>0, <3>2, <3>4, UpWay
    <3> QED
      BY <1>0, <1>1, <2>1, <3>6, <3>7
  <2> QED
    BY <2>2, <2>3
<1>7. Descends(E, r, ix, g, K \cup {y})
  <2> SUFFICES ASSUME NEW b \in K \cup {y}, NEW u \in Up(g, r, b)
               PROVE  b \in Way(Below(E, ix), u)
    BY DEF Descends
  <2>1. CASE b \in K
    BY <1>0, <1>4, <2>1 DEF Descends
  <2>2. CASE b = y /\ u = y
    BY <1>0, <1>1, <2>2, WayFrom
  <2>3. CASE b = y /\ u # y
    <3>1. top \in K /\ <<top, y>> \in E /\ top \in Block /\ y \in Block
      BY <1>0, <1>1, <1>2, <1>3 DEF Seen
    <3>2. u \in Up(f, r, n) /\ Up(f, r, n) \subseteq Up(f, r, top)
      BY <1>0, <1>3, <1>4, <2>3, <3>1, UpWay
    <3>3. top \in Way(Below(E, ix), u)
      BY <1>0, <3>1, <3>2 DEF Descends
    <3>4. <<top, y>> \in Below(E, ix)
      BY <1>3, <3>1 DEF Below
    <3>5. u \in Block
      BY <3>2 DEF Up
    <3> QED
      BY <2>3, <3>1, <3>3, <3>4, <3>5, WayFrom
  <2> QED
    BY <2>1, <2>2, <2>3
<1>8. Avoids(E, r, g, K \cup {y})
  <2>1. ASSUME NEW a \in Block, a \notin Up(g, r, y) PROVE y \in Way(F!Without(E, a), r)
    <3>1. a # y /\ a \notin Up(f, r, n)
      BY <1>4, <2>1
    <3>2. PICK p \in Seen(E, K, y) : a \notin Up(f, r, p)
      BY <1>0, <3>1 DEF Shared
    <3>3. p \in K /\ <<p, y>> \in E /\ p \in Block /\ y \in Block /\ r \in Block
      BY <1>0, <1>1, <1>2 DEF Seen
    <3>4. p \in Up(f, r, p)
      BY <1>0, <3>3, UpWay
    <3>5. <<p, y>> \in F!Without(E, a)
      BY <3>1, <3>2, <3>3, <3>4 DEF F!Without
    <3>6. p \in Way(F!Without(E, a), r)
      BY <1>0, <3>2, <3>3 DEF Avoids
    <3> QED
      BY <3>3, <3>5, <3>6, WayFrom
  <2>2. ASSUME NEW b \in K, NEW a \in Block, a \notin Up(g, r, b) PROVE b \in Way(F!Without(E, a), r)
    <3>1. CASE a \notin Up(f, r, b)
      BY <1>0, <2>2, <3>1 DEF Avoids
    <3>2. CASE a \in Up(f, r, b)
      <4>1. /\ y \in K /\ y \in Up(f, r, b) /\ a \in Up(f, r, y) /\ a \notin Up(g, r, y)
            /\ ix[a] > ix[y]
        BY <1>4, <2>2, <3>2
      <4>2. y \in Way(F!Without(E, a), r)
        BY <2>1, <4>1
      <4>3. b \in Way(Below(E, ix), y)
        BY <1>0, <4>1 DEF Descends
      <4>4. a \in V
        BY <1>0, <1>2, <3>2, UpWay
      <4>5. E \subseteq V \X V /\ \A x \in V : ix[x] \in 0 .. N
        BY <1>1
      <4>6. b \in Way(F!Without(E, a), y)
        BY <1>0, <1>1, <4>1, <4>3, <4>4, <4>5, WayBelow
      <4> QED
        BY <1>1, <4>2, <4>6, WayFrom
    <3> QED
      BY <3>1, <3>2
  <2> QED
    BY <2>1, <2>2 DEF Avoids
<1>9. ASSUME y \in K, f[y] = n, Settled(E, r, f, K, D) PROVE Settled(E, r, f, K, D \cup {y})
  <2> SUFFICES ASSUME NEW p, <<p, y>> \in E
               PROVE  p \in K /\ Up(f, r, y) \ {y} \subseteq Up(f, r, p)
    BY <1>9 DEF Settled
  <2>1. K = V /\ p \in K
    BY <1>0, <1>1, <1>2, <1>9
  <2>2. n \in Up(f, r, p)
    BY <1>0, <2>1 DEF Shared, Seen
  <2>3. Up(f, r, n) \subseteq Up(f, r, p)
    BY <1>0, <2>1, <2>2, UpWay
  <2>4. Up(f, r, y) = {y} \cup Up(f, r, n)
    BY <1>0, <1>9, UpNext
  <2> QED
    BY <2>1, <2>3, <2>4
<1>10. K \cup {y} = V \/ K \cup {y} = {r} \cup (D \cup {y})
  BY <1>0
<1> QED
  BY <1>4, <1>5, <1>6, <1>7, <1>8, <1>9, <1>10 DEF Core

-----------------------------------------------------------------------------
\* Flow as Dominators has it and as its lemmas are about it.
LEMMA SameReach == \A E, X : F!Reach(E, X) = Reach(E, X)
BY DEF F!Reach, Reach, F!Cardinality, Cardinality

LEMMA SameCardinality == \A S : F!Cardinality(S) = Cardinality(S)
BY DEF F!Cardinality, Cardinality

\* F!Reach from one block is its way, and from no block there is none.
LEMMA ReachIsWay ==
  ASSUME NEW E, E \subseteq Block \X Block, IsFiniteSet(E), NEW x \in Block
  PROVE  F!Reach(E, {x}) = Way(E, x) /\ F!Reach(E, {}) = {}
<1> DEFINE R == F!Reach(E, {x})
<1>1. /\ x \in R /\ R \in SUBSET Block /\ \A e \in E : e[1] \in R => e[2] \in R
      /\ \A S \in SUBSET Block : x \in S /\ (\A e \in E : e[1] \in S => e[2] \in S) => R \subseteq S
  <2>1. {x} \in SUBSET Block /\ R = Reach(E, {x})
    BY SameReach
  <2>2. Least(Block, E, {x}, R)
    BY <2>1, ReachIsLeast
  <2> HIDE DEF R
  <2> QED
    BY <2>2 DEF Least
<1>2. F!Reach(E, {}) = {}
  <2>1. {} \in SUBSET Block /\ F!Reach(E, {}) = Reach(E, {})
    BY SameReach
  <2>2. Least(Block, E, {}, F!Reach(E, {}))
    BY <2>1, ReachIsLeast
  <2> QED
    BY <2>2 DEF Least
<1> HIDE DEF R
<1>3. Way(E, x) \subseteq R
  BY <1>1 DEF Way
<1>4. R \subseteq Way(E, x)
  <2> DEFINE S == Way(E, x)
  <2>1. x \in S /\ S \in SUBSET Block /\ \A e \in E : e[1] \in S => e[2] \in S
    BY WayFrom DEF Way
  <2> HIDE DEF S
  <2> QED
    BY <1>1, <2>1 DEF S
<1> QED
  BY <1>2, <1>3, <1>4 DEF R

-----------------------------------------------------------------------------
(***************************************************************************)
(* intersect finds the nearest block above two blocks, and Folded that     *)
(* above all of them.                                                      *)
(***************************************************************************)
IdomTree(K, ix, N) ==
  /\ Tree(idom, root, K, ix, N) /\ IsFiniteSet(Block) /\ N <= Cardinality(Block)
  /\ \A x \in K : ix[x] = Index(x) /\ ix[x] \in 1 .. N

Both(b1, b2) == Up(idom, root, b1) \cap Up(idom, root, b2)

\* A step of intersect keeps the blocks that both are under, and moves one of them up.
LEMMA ClimbStep ==
  ASSUME NEW K, NEW ix, NEW N, IdomTree(K, ix, N), NEW b1 \in K, NEW b2 \in K,
         NEW p, p = Climb(b1, b2)
  PROVE  /\ p \in K \X K /\ Both(p[1], p[2]) = Both(b1, b2)
         /\ b1 = b2 => p[1] = p[2]
         /\ b1 # b2 => ix[p[1]] + ix[p[2]] > ix[b1] + ix[b2]
<1>0. /\ Tree(idom, root, K, ix, N) /\ N \in Nat
      /\ \A x \in K : ix[x] = Index(x) /\ ix[x] \in 1 .. N /\ \A y \in K : ix[x] = ix[y] => x = y
      /\ \A x \in K \ {root} : idom[x] \in K /\ ix[idom[x]] > ix[x]
  BY DEF IdomTree, Tree
<1>1. ASSUME NEW x \in K, NEW y \in K, ix[x] < ix[y]
      PROVE  x # root /\ idom[x] \in K /\ ix[idom[x]] > ix[x] /\ Both(idom[x], y) = Both(x, y)
  <2>1. x # root
    <3>1. ix[y] <= ix[root]
      BY <1>0, UpRoot
    <3> QED
      BY <1>0, <1>1, <3>1
  <2>2. Up(idom, root, x) = {x} \cup Up(idom, root, idom[x])
    BY <1>0, <2>1, UpNext
  <2>3. x \notin Up(idom, root, y)
    <3>1. x \in Up(idom, root, y) => x = y \/ ix[x] > ix[y]
      BY <1>0, UpWay
    <3> QED
      BY <1>0, <1>1, <3>1
  <2> QED
    BY <1>0, <2>1, <2>2, <2>3 DEF Both
<1>2. CASE b1 = b2
  BY <1>2 DEF Climb
<1>3. CASE b1 # b2 /\ ix[b1] < ix[b2]
  <2>1. p = <<idom[b1], b2>>
    BY <1>0, <1>3 DEF Climb
  <2>2. idom[b1] \in K /\ ix[idom[b1]] > ix[b1] /\ Both(idom[b1], b2) = Both(b1, b2)
    BY <1>1, <1>3
  <2> QED
    BY <1>0, <1>3, <2>1, <2>2
<1>4. CASE b1 # b2 /\ ~ (ix[b1] < ix[b2])
  <2>0. ix[b2] < ix[b1]
    BY <1>0, <1>4
  <2>1. p = <<b1, idom[b2]>>
    BY <1>0, <1>4 DEF Climb
  <2>2. idom[b2] \in K /\ ix[idom[b2]] > ix[b2] /\ Both(idom[b2], b1) = Both(b2, b1)
    BY <1>1, <2>0
  <2>3. Both(b1, idom[b2]) = Both(b1, b2)
    BY <2>2 DEF Both
  <2> QED
    BY <1>0, <1>4, <2>1, <2>2, <2>3
<1> QED
  BY <1>2, <1>3, <1>4

Nearest(n, b1, b2) == n \in Both(b1, b2) /\ Both(b1, b2) \subseteq Up(idom, root, n)

\* They meet at the nearest block that both are under, before intersect gives up.
LEMMA Meet ==
  ASSUME NEW K, NEW ix, NEW N, IdomTree(K, ix, N), NEW b1 \in K, NEW b2 \in K
  PROVE  Nearest(intersect(b1, b2), b1, b2) /\ intersect(b1, b2) \in K
<1> DEFINE M == 2 * Cardinality(Block)
           Z == K \X K
           X == {<<b1, b2>>}
           All(d) == {Climb(p[1], p[2]) : p \in d}
           G == [d \in SUBSET Z |-> All(d)]
           IsStep(f) == f = [n \in 0 .. M |-> IF n = 0 THEN X ELSE All(f[n - 1])]
           step == CHOOSE f : IsStep(f)
<1>0. M \in Nat /\ Cardinality(Block) \in Nat /\ N \in Nat /\ N <= Cardinality(Block)
  BY FS_CardinalityType DEF IdomTree, Tree
<1>1. Tree(idom, root, K, ix, N) /\ \A x \in K : ix[x] \in 1 .. N
  BY DEF IdomTree
<1>2. \A d \in SUBSET Z : All(d) \in SUBSET Z
  BY ClimbStep
<1>3. PICK g : Grows(M, Z, X, G, g)
  <2>1. X \in SUBSET Z
    OBVIOUS
  <2>2. G \in [SUBSET Z -> SUBSET Z]
    BY <1>2
  <2> HIDE DEF G, X, M, Z
  <2> QED
    BY <1>0, <2>1, <2>2, Growth
<1>4. IsStep(g)
  <2>1. g \in [0 .. M -> SUBSET Z] /\ g[0] = X /\ \A n \in 1 .. M : g[n] = G[g[n - 1]]
    BY <1>3 DEF Grows
  <2>2. \A n \in 0 .. M : g[n] = IF n = 0 THEN X ELSE All(g[n - 1])
    <3> TAKE n \in 0 .. M
    <3>1. CASE n # 0
      <4>1. n \in 1 .. M /\ g[n - 1] \in SUBSET Z
        BY <1>0, <2>1, <3>1
      <4>2. g[n] = G[g[n - 1]] /\ G[g[n - 1]] = All(g[n - 1])
        BY <2>1, <4>1
      <4> HIDE DEF All
      <4> QED
        BY <3>1, <4>2
    <3> QED
      BY <2>1, <3>1
  <2> HIDE DEF G, X, M, Z, All
  <2> QED
    BY <2>1, <2>2
<1>5. IsStep(step)
  <2> HIDE DEF IsStep
  <2> QED
    BY <1>4
<1> HIDE DEF step
<1>6. step[0] = X
  <2>1. 0 \in 0 .. M
    BY <1>0
  <2> HIDE DEF X, M, All
  <2> QED
    BY <1>5, <2>1
<1>7. \A n \in 0 .. M - 1 : step[n + 1] = All(step[n])
  <2> TAKE n \in 0 .. M - 1
  <2>1. n + 1 \in 0 .. M /\ n + 1 # 0 /\ (n + 1) - 1 = n
    BY <1>0
  <2> HIDE DEF X, M, All
  <2> QED
    BY <1>5, <2>1
<1> DEFINE Fine(n, p) == /\ step[n] = {p} /\ Both(p[1], p[2]) = Both(b1, b2)
                         /\ p[1] = p[2] \/ ix[p[1]] + ix[p[2]] >= n + 2
           S == {n \in 0 .. M : \E p \in Z : Fine(n, p)}
<1>8. 0 \in S
  <2>1. <<b1, b2>> \in Z /\ Fine(0, <<b1, b2>>)
    BY <1>1, <1>6
  <2> HIDE DEF Fine, Z
  <2> QED
    BY <1>0, <2>1
<1>9. \A n \in 0 .. M - 1 : n \in S => n + 1 \in S
  <2> TAKE n \in 0 .. M - 1
  <2> HAVE n \in S
  <2>1. PICK p \in Z : Fine(n, p)
    OBVIOUS
  <2> DEFINE q == Climb(p[1], p[2])
  <2>2. step[n + 1] = {q}
    BY <1>7, <2>1
  <2>3. /\ q \in K \X K /\ Both(q[1], q[2]) = Both(p[1], p[2])
        /\ p[1] = p[2] => q[1] = q[2]
        /\ p[1] # p[2] => ix[q[1]] + ix[q[2]] > ix[p[1]] + ix[p[2]]
    BY ClimbStep
  <2> HIDE DEF q
  <2>4. q[1] = q[2] \/ ix[q[1]] + ix[q[2]] >= (n + 1) + 2
    BY <1>0, <1>1, <2>1, <2>3
  <2>5. Fine(n + 1, q) /\ q \in Z
    BY <2>1, <2>2, <2>3, <2>4
  <2> HIDE DEF Fine, Z
  <2> QED
    BY <1>0, <2>5
<1>10. PICK p \in Z : Fine(M, p)
  <2> HIDE DEF S, M
  <2>1. M \in S
    BY <1>0, <1>8, <1>9, Induction
  <2> QED
    BY <2>1 DEF S
<1>11. p[1] = p[2] /\ p[1] \in K
  BY <1>0, <1>1, <1>10
<1>12. intersect(b1, b2) = p[1]
  <2>1. intersect(b1, b2) = (CHOOSE q \in step[M] : TRUE)[1]
    BY DEF intersect, step
  <2>2. (CHOOSE q \in step[M] : TRUE) = p
    BY <1>10
  <2> QED
    BY <2>1, <2>2
<1>13. Both(b1, b2) = Up(idom, root, p[1]) /\ p[1] \in Up(idom, root, p[1])
  BY <1>1, <1>10, <1>11, UpWay DEF Both
<1> QED
  BY <1>11, <1>12, <1>13 DEF Nearest

\* An order of a set lists its members, all of them.
LEMMA Orders ==
  ASSUME NEW S, IsFiniteSet(S), S # {}, NEW order \in SetToSeqs(S)
  PROVE  /\ Len(order) \in Nat \ {0} /\ order \in [1 .. Len(order) -> S]
         /\ \A x \in S : \E i \in 1 .. Len(order) : order[i] = x
<1> DEFINE L == Cardinality(S)
<1>1. L \in Nat \ {0}
  BY FS_CardinalityType, FS_EmptySet
<1>2. order \in [1 .. L -> S] /\ \A i, j \in 1 .. L : i # j => order[i] # order[j]
  BY DEF SetToSeqs
<1> HIDE DEF L
<1>3. Len(order) = L
  BY <1>1, <1>2
<1>4. order \in Injection(1 .. L, S)
  BY <1>2 DEF Injection, IsInjective
<1>5. IsFiniteSet(1 .. L) /\ Cardinality(1 .. L) = L
  BY <1>1, FS_Interval
<1>6. order \in Surjection(1 .. L, S)
  BY <1>4, <1>5, FS_Injection DEF L
<1> QED
  BY <1>1, <1>2, <1>3, <1>6 DEF Surjection

\* Folded in any order, the predecessors meet at the nearest block all of them are under.
LEMMA Fold ==
  ASSUME NEW K, NEW ix, NEW N, IdomTree(K, ix, N), NEW S \in SUBSET K, IsFiniteSet(S), S # {},
         NEW order \in SetToSeqs(S)
  PROVE  /\ Folded(order) \in Shared(idom, root, S)
         /\ Shared(idom, root, S) \subseteq Up(idom, root, Folded(order))
<1> DEFINE L == Len(order)
           G == [n \in 1 .. L - 1 |-> [d \in K |-> intersect(d, order[n + 1])]]
           IsFold(f) == f = [i \in 1 .. L |-> IF i = 1 THEN order[1] ELSE intersect(f[i - 1], order[i])]
           fold == CHOOSE f : IsFold(f)
<1>0. Tree(idom, root, K, ix, N)
  BY DEF IdomTree
<1>1. /\ L \in Nat \ {0} /\ order \in [1 .. L -> S]
      /\ \A x \in S : \E i \in 1 .. L : order[i] = x
  BY Orders
<1> HIDE DEF L
<1>2. \A d \in K : \A i \in 1 .. L : Nearest(intersect(d, order[i]), d, order[i]) /\ intersect(d, order[i]) \in K
  BY <1>1, Meet
<1>3. PICK g : Loops(L - 1, K, order[1], G, g)
  <2>1. L - 1 \in Nat /\ order[1] \in K
    BY <1>1
  <2>2. \A n \in 1 .. L - 1 : \A d \in K : G[n][d] \in K
    BY <1>1, <1>2
  <2> HIDE DEF G
  <2> QED
    BY <2>1, <2>2, Recursion
<1>4. IsFold([i \in 1 .. L |-> g[i - 1]])
  <2> DEFINE h == [i \in 1 .. L |-> g[i - 1]]
  <2>1. g \in [0 .. L - 1 -> K] /\ g[0] = order[1] /\ \A n \in 1 .. L - 1 : g[n] = G[n][g[n - 1]]
    BY <1>3 DEF Loops
  <2>2. \A i \in 1 .. L : h[i] = IF i = 1 THEN order[1] ELSE intersect(h[i - 1], order[i])
    <3> TAKE i \in 1 .. L
    <3>1. CASE i # 1
      <4>1. i - 1 \in 1 .. L - 1 /\ i - 1 \in 1 .. L /\ (i - 1) - 1 \in 0 .. L - 1 /\ (i - 1) + 1 = i
        BY <1>1, <3>1
      <4>2. h[i] = g[i - 1] /\ h[i - 1] = g[(i - 1) - 1]
        BY <4>1
      <4>3. g[i - 1] = G[i - 1][g[(i - 1) - 1]] /\ g[(i - 1) - 1] \in K
        BY <2>1, <4>1
      <4>4. G[i - 1][g[(i - 1) - 1]] = intersect(g[(i - 1) - 1], order[i])
        BY <4>1, <4>3
      <4> HIDE DEF h
      <4> QED
        BY <3>1, <4>2, <4>3, <4>4
    <3>2. CASE i = 1
      BY <1>1, <2>1, <3>2
    <3> QED
      BY <3>1, <3>2
  <2>3. h = [i \in 1 .. L |-> h[i]]
    OBVIOUS
  <2> HIDE DEF h
  <2>4. IsFold(h)
    BY <2>2, <2>3
  <2> QED
    BY <2>4 DEF h
<1>5. IsFold(fold)
  <2> HIDE DEF IsFold
  <2> QED
    BY <1>4
<1> HIDE DEF fold
<1>6. fold[1] = order[1]
  BY <1>1, <1>5
<1>7. \A i \in 1 .. L - 1 : fold[i + 1] = intersect(fold[i], order[i + 1])
  <2> TAKE i \in 1 .. L - 1
  <2>1. i + 1 \in 1 .. L /\ i + 1 # 1 /\ (i + 1) - 1 = i
    BY <1>1
  <2> QED
    BY <1>5, <2>1
<1> DEFINE Fine(i) == /\ fold[i] \in K
                      /\ \A j \in 1 .. i : fold[i] \in Up(idom, root, order[j])
                      /\ \A c \in Block : (\A j \in 1 .. i : c \in Up(idom, root, order[j]))
                                            => c \in Up(idom, root, fold[i])
           T == {n \in 0 .. L - 1 : Fine(n + 1)}
<1>8. 0 \in T
  <2>1. 1 .. (0 + 1) = {1} /\ order[1] \in K /\ 0 \in 0 .. L - 1 /\ fold[0 + 1] = order[1]
    BY <1>1, <1>6
  <2>2. order[1] \in Up(idom, root, order[1])
    BY <1>0, <2>1, UpWay
  <2> QED
    BY <2>1, <2>2
<1>9. \A n \in 0 .. (L - 1) - 1 : n \in T => n + 1 \in T
  <2> TAKE n \in 0 .. (L - 1) - 1
  <2> HAVE n \in T
  <2> DEFINE i == n + 1
  <2>1. i \in 1 .. L - 1 /\ i + 1 \in 1 .. L /\ 1 .. i + 1 = (1 .. i) \cup {i + 1} /\ n + 1 \in 0 .. L - 1
    BY <1>1
  <2>2. Fine(i)
    OBVIOUS
  <2> HIDE DEF i
  <2>3. Nearest(fold[i + 1], fold[i], order[i + 1]) /\ fold[i + 1] \in K
    BY <1>2, <1>7, <2>1, <2>2
  <2>4. fold[i + 1] \in Up(idom, root, fold[i]) /\ fold[i + 1] \in Up(idom, root, order[i + 1])
    BY <2>3 DEF Nearest, Both
  <2>5. \A j \in 1 .. i : Up(idom, root, fold[i]) \subseteq Up(idom, root, order[j])
    <3> TAKE j \in 1 .. i
    <3>1. order[j] \in K /\ fold[i] \in Up(idom, root, order[j])
      BY <1>1, <2>1, <2>2
    <3> QED
      BY <1>0, <3>1, UpWay
  <2>6. \A j \in 1 .. i + 1 : fold[i + 1] \in Up(idom, root, order[j])
    BY <2>1, <2>4, <2>5
  <2>7. ASSUME NEW c \in Block, \A j \in 1 .. i + 1 : c \in Up(idom, root, order[j])
        PROVE  c \in Up(idom, root, fold[i + 1])
    <3>1. c \in Up(idom, root, fold[i]) /\ c \in Up(idom, root, order[i + 1])
      BY <2>1, <2>2, <2>7
    <3> QED
      BY <2>3, <3>1 DEF Nearest, Both
  <2>8. Fine(i + 1)
    BY <2>3, <2>6, <2>7
  <2> QED
    BY <2>1, <2>8 DEF i
<1>10. Fine(L)
  <2>1. L - 1 \in Nat
    BY <1>1
  <2>2. L - 1 \in T
    <3> HIDE DEF T
    <3> QED
      BY <1>8, <1>9, <2>1, Induction
  <2>3. (L - 1) + 1 = L
    BY <1>1
  <2> HIDE DEF Fine
  <2> QED
    BY <2>2, <2>3
<1>11. Folded(order) = fold[L]
  BY DEF Folded, fold, L
<1>12. fold[L] \in Block
  BY <1>0, <1>10 DEF Tree
<1> QED
  BY <1>1, <1>10, <1>11, <1>12 DEF Shared

-----------------------------------------------------------------------------
\* When all blocks are settled, what is above a block are its dominators.
LEMMA UpIsDominance ==
  ASSUME IsFiniteSet(Block), NEW E, NEW r, NEW V, NEW ix, NEW N, Numbered(E, r, V, ix, N),
         NEW f, Core(E, r, V, ix, N, f, V, V), Settled(E, r, f, V, V), NEW a \in V, NEW b \in V
  PROVE  F!Dominates(E, r, a, b) <=> a \in Up(f, r, b)
<1>0. /\ V \subseteq Block /\ r \in V /\ E \subseteq V \X (V \ {r})
      /\ Tree(f, r, V, ix, N) /\ Avoids(E, r, f, V)
  BY DEF Numbered, Core
<1> DEFINE W == F!Without(E, a)
<1>1. W \subseteq E /\ W \subseteq Block \X Block /\ IsFiniteSet(W)
  <2>1. W \subseteq E /\ W \in SUBSET (Block \X Block)
    BY <1>0 DEF F!Without
  <2>2. IsFiniteSet(Block \X Block)
    BY FS_Product
  <2> QED
    BY <2>1, <2>2, FS_Subset
<1>2. CASE a = b
  BY <1>0, <1>2, UpWay DEF F!Dominates
<1>3. CASE a # b /\ a = r
  <2>1. F!Reach(W, {r} \ {a}) = {}
    BY <1>0, <1>1, <1>3, ReachIsWay
  <2>2. r \in Up(f, r, b)
    BY <1>0, UpRoot
  <2> QED
    BY <1>3, <2>1, <2>2 DEF F!Dominates
<1>4. CASE a # b /\ a # r
  <2>1. F!Reach(W, {r} \ {a}) = Way(W, r)
    <3>1. {r} \ {a} = {r}
      BY <1>4
    <3> QED
      BY <1>0, <1>1, <3>1, ReachIsWay
  <2>2. ASSUME a \notin Up(f, r, b) PROVE b \in Way(W, r)
    BY <1>0, <2>2 DEF Avoids
  <2>3. ASSUME a \in Up(f, r, b) PROVE b \notin Way(W, r)
    <3> DEFINE S == {c \in V : a \notin Up(f, r, c)}
    <3>1. r \in S /\ S \in SUBSET Block
      BY <1>0, <1>4, UpNext
    <3>2. \A e \in W : e[1] \in S => e[2] \in S
      <4> TAKE e \in W
      <4> HAVE e[1] \in S
      <4>1. e \in E /\ e[2] \in V \ {r} /\ a # e[2] /\ <<e[1], e[2]>> = e
        BY <1>0, <1>1 DEF F!Without
      <4>2. Up(f, r, e[2]) \ {e[2]} \subseteq Up(f, r, e[1])
        BY <4>1 DEF Settled
      <4> QED
        BY <4>1, <4>2
    <3>3. b \notin S
      BY <2>3
    <3> HIDE DEF S
    <3> QED
      BY <3>1, <3>2, <3>3 DEF Way
  <2> QED
    BY <1>4, <2>1, <2>2, <2>3 DEF F!Dominates
<1> QED
  BY <1>2, <1>3, <1>4

-----------------------------------------------------------------------------
\* Upward goes the way up from b, to the root or to `stop`.
LEMMA UpwardIsUp ==
  ASSUME NEW V, NEW ix, NEW N, Tree(idom, root, V, ix, N), idom[root] = root, IsFiniteSet(Block),
         NEW b \in V, NEW stop
  PROVE  /\ stop \notin V => Upward(b, stop) = Up(idom, root, b)
         /\ stop \in Up(idom, root, b) =>
              Upward(b, stop) = Up(idom, root, b) \ Up(idom, root, stop)
<1> DEFINE K == Cardinality(Block)
           Z == V \ {stop}
           X == {b} \ {stop}
           Above(Y) == (UNION {{c, idom[c]} : c \in Y}) \ {stop}
           G == [Y \in SUBSET Z |-> Above(Y)]
           IsUp(f) == f = [n \in 0 .. K |-> IF n = 0 THEN X ELSE Above(f[n - 1])]
           R == CHOOSE f : IsUp(f)
<1>0. K \in Nat /\ V \in SUBSET Block /\ root \in V
  BY FS_CardinalityType DEF Tree
<1>1. \A c \in V : idom[c] \in V
  BY DEF Tree
<1>2. \A Y, z : z \in Above(Y) <=> z # stop /\ \E c \in Y : z = c \/ z = idom[c]
  <2> TAKE Y, z
  <2> DEFINE P == {{c, idom[c]} : c \in Y}
  <2>1. \A p \in P : \E c \in Y : p = {c, idom[c]}
    OBVIOUS
  <2>2. \A c \in Y : {c, idom[c]} \in P
    OBVIOUS
  <2>3. Above(Y) = (UNION P) \ {stop}
    BY Zenon
  <2> HIDE DEF P, Above
  <2>4. ASSUME NEW c \in Y, z = c \/ z = idom[c] PROVE \E p \in P : z \in p
    <3>1. {c, idom[c]} \in P /\ z \in {c, idom[c]}
      BY <2>2, <2>4
    <3> QED
      BY <3>1
  <2>5. ASSUME NEW p \in P, z \in p PROVE \E c \in Y : z = c \/ z = idom[c]
    BY <2>1, <2>5
  <2>6. z \in UNION P <=> \E p \in P : z \in p
    OBVIOUS
  <2> QED
    BY <2>3, <2>4, <2>5, <2>6
<1>3. IsFiniteSet(Z) /\ Cardinality(Z) <= K
  BY <1>0, FS_Subset
<1>4. G \in [SUBSET Z -> SUBSET Z] /\ \A Y \in SUBSET Z : Y \subseteq G[Y] /\ G[Y] \subseteq Y \cup Z
  <2>1. \A Y \in SUBSET Z : Above(Y) \in SUBSET Z /\ Y \subseteq Above(Y)
    <3> HIDE DEF Above
    <3> QED
      BY <1>1, <1>2
  <2> HIDE DEF Above
  <2> QED
    BY <2>1
<1>5. X \in SUBSET Z
  OBVIOUS
<1>6. PICK g : Grows(K, Z, X, G, g)
  <2> HIDE DEF G, K, Z, X
  <2> QED
    BY <1>0, <1>4, <1>5, Growth
<1>7. IsUp(g)
  <2>1. g \in [0 .. K -> SUBSET Z] /\ g[0] = X /\ \A n \in 1 .. K : g[n] = G[g[n - 1]]
    BY <1>6 DEF Grows
  <2>2. \A n \in 0 .. K : g[n] = IF n = 0 THEN X ELSE Above(g[n - 1])
    <3> HIDE DEF K, X, Z, Above
    <3> TAKE n \in 0 .. K
    <3>1. CASE n # 0
      <4>1. n \in 1 .. K /\ g[n - 1] \in SUBSET Z
        BY <1>0, <2>1, <3>1
      <4>2. g[n] = G[g[n - 1]] /\ G[g[n - 1]] = Above(g[n - 1])
        BY <2>1, <4>1
      <4> QED
        BY <3>1, <4>2
    <3> QED
      BY <2>1, <3>1
  <2> HIDE DEF G, X, K, Z, Above
  <2> QED
    BY <2>1, <2>2
<1>8. IsUp(R)
  <2> HIDE DEF IsUp
  <2> QED
    BY <1>7
<1>9. Upward(b, stop) = R[K]
  BY DEF Upward
<1> HIDE DEF R
<1>10. Grows(K, Z, X, G, R)
  <2> HIDE DEF X, Z, K, Above
  <2>1. R[0] = X
    <3>1. 0 \in 0 .. K
      BY <1>0
    <3> QED
      BY <1>8, <3>1
  <2>2. ASSUME NEW n \in 0 .. K - 1 PROVE R[n + 1] = Above(R[n])
    <3>1. n + 1 \in 0 .. K /\ n + 1 # 0 /\ (n + 1) - 1 = n
      BY <1>0
    <3> QED
      BY <1>8, <3>1
  <2> DEFINE T == {n \in 0 .. K : \A m \in 0 .. n : R[m] \in SUBSET Z}
  <2>3. 0 \in T
    BY <1>0, <1>5, <2>1
  <2>4. \A n \in 0 .. K - 1 : n \in T => n + 1 \in T
    <3> TAKE n \in 0 .. K - 1
    <3> HAVE n \in T
    <3>1. R[n] \in SUBSET Z
      OBVIOUS
    <3>2. R[n + 1] \in SUBSET Z
      BY <1>4, <2>2, <3>1
    <3> QED
      BY <1>0, <3>2
  <2>5. \A n \in 0 .. K : R[n] \in SUBSET Z
    <3> HIDE DEF T
    <3>1. K \in T
      BY <1>0, <2>3, <2>4, Induction
    <3> QED
      BY <3>1 DEF T
  <2>6. \A n \in 1 .. K : R[n] = G[R[n - 1]]
    <3> TAKE n \in 1 .. K
    <3>1. n - 1 \in 0 .. K - 1 /\ n - 1 \in 0 .. K /\ (n - 1) + 1 = n
      BY <1>0
    <3>2. R[n] = Above(R[n - 1]) /\ R[n - 1] \in SUBSET Z
      BY <2>2, <2>5, <3>1
    <3> QED
      BY <3>2
  <2>7. R \in [0 .. K -> SUBSET Z]
    <3>1. DOMAIN R = 0 .. K /\ R = [n \in DOMAIN R |-> R[n]]
      BY <1>8
    <3> QED
      BY <2>5, <3>1
  <2> HIDE DEF G
  <2> QED
    BY <2>1, <2>6, <2>7 DEF Grows
<1> DEFINE U == R[K]
<1>11. U \in SUBSET Z
  <2> HIDE DEF K, Z, G, X
  <2> QED
    BY <1>0, <1>10 DEF Grows
<1>12. Full(Z, X, G, U)
  <2> HIDE DEF K, Z, G, X, U
  <2>1. Grows(K, Z, X, G, R) /\ U = R[K]
    BY <1>10 DEF U
  <2>2. Full(Z, X, G, R[K])
    BY <1>0, <1>3, <1>4, <1>5, <2>1, Saturation
  <2> QED
    BY <2>1, <2>2
<1> HIDE DEF U
<1>13. X \subseteq U /\ \A c \in U : idom[c] \in U \cup {stop}
  <2>1. G[U] = U /\ X \subseteq U
    BY <1>12 DEF Full
  <2>2. Above(U) = U
    BY <1>11, <2>1
  <2> HIDE DEF Above
  <2> QED
    BY <1>2, <1>11, <2>1, <2>2
<1>14. ASSUME NEW S \in SUBSET Z, X \subseteq S, \A c \in S : idom[c] \in S \cup {stop}
       PROVE  U \subseteq S
  <2>1. \A Y \in SUBSET S : G[Y] \subseteq S
    <3> TAKE Y \in SUBSET S
    <3>1. G[Y] = Above(Y)
      OBVIOUS
    <3> HIDE DEF Above, G
    <3> QED
      BY <1>2, <1>14, <3>1
  <2> HIDE DEF G, X, Z
  <2> QED
    BY <1>12, <1>14, <2>1 DEF Full
<1>15. /\ b \in Up(idom, root, b) /\ Up(idom, root, b) \subseteq V
       /\ \A c \in Up(idom, root, b) : idom[c] \in Up(idom, root, b)
  BY UpWay
<1> DEFINE B == Up(idom, root, b)
<1>16. ASSUME stop \notin V PROVE U = B
  <2>1. U \subseteq B
    <3>1. B \in SUBSET Z /\ X \subseteq B /\ \A c \in B : idom[c] \in B \cup {stop}
      BY <1>15, <1>16
    <3> HIDE DEF B
    <3> QED
      BY <1>14, <3>1
  <2>2. b \in U /\ \A c \in U : idom[c] \in U
    BY <1>1, <1>11, <1>13, <1>16
  <2>3. U \in SUBSET Block
    BY <1>0, <1>11
  <2>4. B \subseteq U
    BY <2>2, <2>3 DEF Up
  <2> QED
    BY <2>1, <2>4
<1>17. ASSUME stop \in B PROVE U = B \ Up(idom, root, stop)
  <2> DEFINE C == Up(idom, root, stop)
             S == B \ C
  <2>1. stop \in V /\ stop \in C /\ root \in C /\ \A c \in C : idom[c] \in C
    BY <1>15, <1>17, UpWay, UpRoot
  <2>2. \A x \in V : ix[x] \in 0 .. N
    BY DEF Tree
  <2>3. S \in SUBSET Z
    BY <1>15, <2>1
  <2>4. X \subseteq S
    <3> SUFFICES ASSUME b # stop PROVE b \in S
      OBVIOUS
    <3>1. ix[stop] > ix[b]
      BY <1>15, <1>17, UpWay
    <3>2. b \in C => b = stop \/ ix[b] > ix[stop]
      BY <2>1, UpWay
    <3> QED
      BY <1>15, <2>1, <2>2, <3>1, <3>2
  <2>5. \A c \in S : idom[c] \in S \cup {stop}
    <3> TAKE c \in S
    <3> SUFFICES ASSUME idom[c] \in C PROVE idom[c] = stop
      BY <1>15
    <3>1. c \in V /\ c # stop /\ c # root /\ idom[c] \in V
      BY <1>1, <1>15, <2>1
    <3>2. ix[c] < ix[stop]
      <4> SUFFICES ASSUME ix[stop] <= ix[c] PROVE FALSE
        BY <2>1, <2>2, <3>1
      <4>1. c \in Up(idom, root, stop)
        BY <1>17, UpLinear
      <4> QED
        BY <4>1
    <3>3. stop \in Up(idom, root, c)
      BY <1>17, <2>1, <2>2, <3>1, <3>2, UpLinear
    <3>4. stop \in Up(idom, root, idom[c])
      BY <3>1, <3>3, UpNext
    <3>5. stop = idom[c] \/ ix[stop] > ix[idom[c]]
      BY <3>1, <3>4, UpWay
    <3>6. idom[c] = stop \/ ix[idom[c]] > ix[stop]
      BY <2>1, UpWay
    <3> QED
      BY <2>1, <2>2, <3>1, <3>5, <3>6
  <2>6. U \subseteq S
    <3> HIDE DEF S
    <3> QED
      BY <1>14, <2>3, <2>4, <2>5
  <2>7. B \subseteq U \cup C
    <3> DEFINE T == U \cup C
    <3>1. T \in SUBSET Block
      BY <1>0, <1>11, <2>1, UpWay
    <3>2. b \in T /\ \A c \in T : idom[c] \in T
      BY <1>13, <2>1
    <3> HIDE DEF T
    <3>3. B \subseteq T
      BY <3>1, <3>2 DEF Up
    <3> QED
      BY <3>3 DEF T
  <2> QED
    BY <2>6, <2>7
<1> QED
  BY <1>9, <1>16, <1>17 DEF U

-----------------------------------------------------------------------------
(***************************************************************************)
(* The loop begins, sees the root, and begins again.                       *)
(***************************************************************************)
LEMMA LoopBegins ==
  ASSUME NEW E, NEW r, NEW V, NEW ix, NEW N, Numbered(E, r, V, ix, N), NEW f
  PROVE  Core(E, r, V, ix, N, f, {r}, {}) /\ Settled(E, r, f, {r}, {})
<1>0. /\ V \subseteq Block /\ r \in V /\ N \in Nat
      /\ \A x \in V : ix[x] \in 1 .. N /\ \A y \in V : ix[x] = ix[y] => x = y
  BY DEF Numbered
<1>1. Tree(f, r, {r}, ix, N)
  BY <1>0 DEF Tree
<1>2. Up(f, r, r) = {r}
  BY <1>1, UpNext
<1>3. Avoids(E, r, f, {r}) /\ Descends(E, r, ix, f, {r})
  BY <1>0, <1>2, WayFrom DEF Avoids, Descends
<1>4. NotAbove(E, r, f, {r}) /\ Follows(E, r, ix, f, {r}, {}) /\ Settled(E, r, f, {r}, {})
  BY DEF NotAbove, Follows, Settled
<1> QED
  BY <1>1, <1>3, <1>4 DEF Core

LEMMA LoopRoot ==
  ASSUME NEW E, NEW r, NEW V, NEW ix, NEW N, NEW f, NEW K, NEW D, Core(E, r, V, ix, N, f, K, D)
  PROVE  /\ Core(E, r, V, ix, N, f, K, D \cup {r})
         /\ Settled(E, r, f, K, D) => Settled(E, r, f, K, D \cup {r})
<1>1. Follows(E, r, ix, f, K, D \cup {r})
  BY DEF Core, Follows
<1>2. K = V \/ K = {r} \cup (D \cup {r})
  BY DEF Core
<1> QED
  BY <1>1, <1>2 DEF Core, Settled

LEMMA LoopAgain ==
  ASSUME NEW E, NEW r, NEW V, NEW ix, NEW N, Numbered(E, r, V, ix, N), NEW f, NEW K,
         Core(E, r, V, ix, N, f, K, V)
  PROVE  K = V /\ Core(E, r, V, ix, N, f, V, {}) /\ Settled(E, r, f, K, {})
<1>1. K = V
  BY DEF Core, Numbered
<1>2. Follows(E, r, ix, f, V, {})
  BY <1>1 DEF Core, Follows
<1> QED
  BY <1>1, <1>2 DEF Core, Settled

\* When the pass comes to a block, one of its predecessors is known.
LEMMA OneIsKnown ==
  ASSUME NEW E, NEW r, NEW V, NEW ix, NEW N, Numbered(E, r, V, ix, N), NEW f, NEW K, NEW D,
         Core(E, r, V, ix, N, f, K, D), NEW y \in V \ {r}, D = {b \in V : ix[b] > ix[y]}
  PROVE  Seen(E, K, y) # {}
<1>1. PICK t \in V : <<t, y>> \in E /\ ix[t] > ix[y]
  BY DEF Numbered
<1>2. t \in K
  BY <1>1 DEF Core
<1> QED
  BY <1>1, <1>2 DEF Seen

-----------------------------------------------------------------------------
(***************************************************************************)
(* The invariant: the search, then the loop.                               *)
(***************************************************************************)
Num == Len(visit_order)
Ix == [b \in visited |-> Index(b)]
Placed == {b \in Block : idom[b] # NoBlock}
Done == {b \in visited : Ix[b] > Len(pass)}

GraphOK == root \in Block /\ cfg \subseteq Block \X (Block \ {root})

Frame == [block : Block, rest : SUBSET Block]

Ordered == visit_order \in Seq(Block) /\ \A i, j \in 1 .. Num : visit_order[i] = visit_order[j] => i = j

OnStack == {calls[i].block : i \in 1 .. Len(calls)}
After(j) == {visit_order[k] : k \in j + 1 .. Num}

\* The activations are a path from the root; a block that has got its number has a
\* predecessor that is still active or has a larger number.
Searching ==
  /\ Ordered /\ calls \in Seq(Frame)
  /\ visited = After(0) \cup OnStack /\ OnStack \cap After(0) = {} /\ root \in visited
  /\ \A i, j \in 1 .. Len(calls) : calls[i].block = calls[j].block => i = j
  /\ \A i \in 1 .. Len(calls) :
       /\ \A c \in calls[i].rest : <<calls[i].block, c>> \in cfg
       /\ IF i = 1 THEN calls[i].block = root ELSE <<calls[i - 1].block, calls[i].block>> \in cfg
  /\ \A j \in 1 .. Num : visit_order[j] # root =>
       \E t \in OnStack \cup After(j) : <<t, visit_order[j]>> \in cfg
  /\ idom = [b \in Block |-> NoBlock] /\ pass = <<>> /\ dom_frontier = <<>>

Improving ==
  /\ calls = <<>> /\ blocks = visited /\ Ordered /\ visited = After(0)
  /\ Numbered(cfg, root, visited, Ix, Num)
  /\ pass \in Seq(Block) /\ Len(pass) <= Num
  /\ \A i \in 1 .. Len(pass) : pass[i] = visit_order[Len(pass) + 1 - i]
  /\ changed \in BOOLEAN /\ idom \in [Block -> visited \cup {NoBlock}] /\ idom[root] = root
  /\ Core(cfg, root, visited, Ix, Num, idom, Placed, Done)
  /\ changed = FALSE => Settled(cfg, root, idom, Placed, Done)
  /\ (dom_frontier # <<>> => pass = <<>> /\ changed = FALSE) /\ FrontierIsFrontier

Inv == GraphOK /\ (Searching \/ Improving)

\* Every numbered block has one number, and there are no more numbers than blocks.
LEMMA Numbers ==
  ASSUME GraphAssumption, Ordered, visited = After(0)
  PROVE  /\ Num \in Nat /\ Num <= Cardinality(Block)
         /\ \A i \in 1 .. Num : visit_order[i] \in visited /\ Index(visit_order[i]) = i
         /\ \A b \in visited : Index(b) \in 1 .. Num /\ visit_order[Index(b)] = b /\ Ix[b] = Index(b)
         /\ visited \subseteq Block
<1>1. Num \in Nat /\ DOMAIN visit_order = 1 .. Num /\ visit_order \in [1 .. Num -> Block]
  BY DEF Ordered, Num
<1>2. \A i, j \in 1 .. Num : visit_order[i] = visit_order[j] => i = j
  BY DEF Ordered
<1>3. Num <= Cardinality(Block)
  <2>1. visit_order \in Injection(1 .. Num, Block)
    BY <1>1, <1>2 DEF Injection, IsInjective
  <2>2. Cardinality(1 .. Num) = Num
    BY <1>1, FS_Interval
  <2> QED
    BY <2>1, <2>2, FS_Injection DEF GraphAssumption
<1>4. visited = {visit_order[k] : k \in 1 .. Num}
  BY DEF After
<1>5. ASSUME NEW i \in 1 .. Num PROVE visit_order[i] \in visited /\ Index(visit_order[i]) = i
  BY <1>1, <1>2, <1>4 DEF Index
<1>6. ASSUME NEW b \in visited PROVE Index(b) \in 1 .. Num /\ visit_order[Index(b)] = b
  BY <1>4, <1>5
<1> QED
  BY <1>1, <1>3, <1>4, <1>5, <1>6 DEF Ix

\* The search begins at a root that no edge enters, for either of the two graphs.
LEMMA InitInv ==
  ASSUME GraphAssumption, Init
  PROVE  Inv
<1>1. GraphOK
  <2>1. ASSUME NEW G \in F!Graphs(Block, Entry) PROVE G \subseteq Block \X (Block \ {Entry})
    <3>1. PICK x : /\ x \in [Block -> {S \in SUBSET (Block \ {Entry}) : Cardinality(S) <= 2}]
                   /\ G = UNION {{<<b, c>> : c \in x[b]} : b \in Block}
      BY SameCardinality DEF F!Graphs
    <3>2. \A b \in Block : x[b] \subseteq Block \ {Entry}
      BY <3>1
    <3>3. \A e \in G : \E b \in Block : \E c \in x[b] : e = <<b, c>>
      BY <3>1
    <3> QED
      BY <3>2, <3>3
  <2>2. PICK input \in Inputs : cfg = input[1] /\ root = input[2]
    BY DEF Init
  <2>3. CASE \E G \in F!Graphs(Block, Entry) : input = <<G, Entry>>
    BY <2>1, <2>2, <2>3 DEF GraphOK, GraphAssumption
  <2>4. CASE \E G \in F!Graphs(Block, Entry), t \in Block :
               input = <<F!Reversed(G), t>> /\ F!Succs(G, t) = {}
    <3>1. PICK G \in F!Graphs(Block, Entry), t \in Block :
                 input = <<F!Reversed(G), t>> /\ F!Succs(G, t) = {}
      BY <2>4
    <3>2. G \subseteq Block \X Block
      BY <2>1
    <3>3. \A e \in G : e[1] # t
      <4> SUFFICES ASSUME NEW e \in G, e[1] = t PROVE FALSE
        OBVIOUS
      <4>1. e[2] \in F!Succs(G, t)
        BY DEF F!Succs
      <4> QED
        BY <3>1, <4>1
    <3>4. F!Reversed(G) \subseteq Block \X (Block \ {t})
      BY <3>2, <3>3 DEF F!Reversed
    <3> QED
      BY <2>2, <3>1, <3>4 DEF GraphOK
  <2> QED
    BY <2>3, <2>4 DEF Inputs
<1>2. Searching
  <2>1. /\ calls = <<[block |-> root, rest |-> F!Succs(cfg, root)]>>
        /\ visited = {root} /\ visit_order = <<>> /\ idom = [b \in Block |-> NoBlock]
        /\ pass = <<>> /\ dom_frontier = <<>>
    BY DEF Init
  <2>2. root \in Block /\ F!Succs(cfg, root) \subseteq Block
        /\ \A c \in F!Succs(cfg, root) : <<root, c>> \in cfg
    BY <1>1 DEF GraphOK, F!Succs
  <2>3. Num = 0 /\ 1 .. Num = {} /\ After(0) = {} /\ Ordered
    BY <2>1 DEF Num, After, Ordered
  <2>4. /\ Len(calls) = 1 /\ 1 .. Len(calls) = {1} /\ calls \in Seq(Frame)
        /\ calls[1].block = root /\ calls[1].rest = F!Succs(cfg, root)
    <3> DEFINE first == [block |-> root, rest |-> F!Succs(cfg, root)]
    <3>1. first \in Frame /\ first.block = root /\ first.rest = F!Succs(cfg, root)
      BY <2>2 DEF Frame
    <3>2. calls = <<first>>
      BY <2>1
    <3> HIDE DEF first
    <3> QED
      BY <3>1, <3>2
  <2>5. OnStack = {root}
    BY <2>4 DEF OnStack
  <2> QED
    BY <2>1, <2>2, <2>3, <2>4, <2>5 DEF Searching
<1> QED
  BY <1>1, <1>2 DEF Inv

\* A call of visit_block makes the path longer or comes to nothing.
LEMMA CallInv ==
  ASSUME GraphAssumption, GraphOK, Searching, NEW b, Call(b)
  PROVE  GraphOK' /\ Searching'
<1> DEFINE L == Len(calls)
           back == [calls EXCEPT ![L].rest = @ \ {b}]
<1>0. /\ calls \in Seq(Frame) /\ L \in Nat \ {0}
      /\ b \in calls[L].rest
  BY DEF Searching, Call, Top, Last
<1>1. /\ calls' = IF b \in visited THEN back ELSE Append(back, [block |-> b, rest |-> F!Succs(cfg, b)])
      /\ visited' = visited \cup {b}
      /\ UNCHANGED <<cfg, root, visit_order, idom, pass, dom_frontier>>
  BY DEF Call
<1>2. calls[L] \in Frame /\ b \in Block /\ <<calls[L].block, b>> \in cfg
  <2>1. L \in 1 .. L
    BY <1>0
  <2>2. calls[L] \in Frame
    BY <1>0, <2>1
  <2> QED
    BY <1>0, <2>1, <2>2 DEF Searching, Frame
<1>3. /\ back \in Seq(Frame) /\ Len(back) = L
      /\ \A i \in 1 .. L : back[i].block = calls[i].block /\ back[i].rest \subseteq calls[i].rest
  <2> DEFINE new == [calls[L] EXCEPT !.rest = @ \ {b}]
  <2>1. new \in Frame /\ new.block = calls[L].block /\ new.rest \subseteq calls[L].rest
    BY <1>2 DEF Frame
  <2>2. back = [calls EXCEPT ![L] = new]
    OBVIOUS
  <2> HIDE DEF new, back
  <2>3. back \in Seq(Frame) /\ Len(back) = L /\ \A i \in 1 .. L : back[i] = IF i = L THEN new ELSE calls[i]
    BY <1>0, <2>1, <2>2
  <2> QED
    BY <2>1, <2>3
<1> HIDE DEF back, L
<1>4. /\ F!Succs(cfg, b) \subseteq Block /\ \A c \in F!Succs(cfg, b) : <<b, c>> \in cfg
  BY DEF GraphOK, F!Succs
<1>5. GraphOK' /\ Num' = Num /\ Ordered' /\ \A j : After(j)' = After(j)
  BY <1>1 DEF GraphOK, Num, Ordered, Searching, After
<1>6. CASE b \in visited
  <2>1. calls' = back /\ visited' = visited
    BY <1>1, <1>6
  <2>2. OnStack' = OnStack
    BY <1>3, <2>1 DEF OnStack, L
  <2>3. \A i \in 1 .. L :
          /\ \A c \in back[i].rest : <<back[i].block, c>> \in cfg
          /\ IF i = 1 THEN back[i].block = root ELSE <<back[i - 1].block, back[i].block>> \in cfg
    <3> TAKE i \in 1 .. L
    <3>1. i # 1 => i - 1 \in 1 .. L
      BY <1>0
    <3> QED
      BY <1>3, <3>1 DEF Searching, L
  <2>4. \A i, j \in 1 .. L : back[i].block = back[j].block => i = j
    BY <1>3 DEF Searching, L
  <2>5. /\ visited = After(0) \cup OnStack /\ OnStack \cap After(0) = {} /\ root \in visited
        /\ \A j \in 1 .. Num : visit_order[j] # root =>
             \E t \in OnStack \cup After(j) : <<t, visit_order[j]>> \in cfg
        /\ idom = [c \in Block |-> NoBlock] /\ pass = <<>> /\ dom_frontier = <<>>
    BY DEF Searching
  <2> QED
    BY <1>1, <1>3, <1>5, <2>1, <2>2, <2>3, <2>4, <2>5 DEF Searching
<1>7. CASE b \notin visited
  <2>1. /\ calls' \in Seq(Frame) /\ Len(calls') = L + 1
        /\ \A i \in 1 .. L : calls'[i].block = calls[i].block /\ calls'[i].rest \subseteq calls[i].rest
        /\ calls'[L + 1].block = b /\ calls'[L + 1].rest = F!Succs(cfg, b)
    <3> DEFINE new == [block |-> b, rest |-> F!Succs(cfg, b)]
    <3>1. new \in Frame /\ new.block = b /\ new.rest = F!Succs(cfg, b)
      BY <1>2, <1>4 DEF Frame
    <3>2. calls' = Append(back, new)
      BY <1>1, <1>7
    <3> HIDE DEF new
    <3>3. /\ calls' \in Seq(Frame) /\ Len(calls') = L + 1 /\ calls'[L + 1] = new
          /\ \A i \in 1 .. L : calls'[i] = back[i]
      BY <1>0, <1>3, <3>1, <3>2
    <3> QED
      BY <1>3, <3>1, <3>3
  <2>2. 1 .. Len(calls') = (1 .. L) \cup {L + 1} /\ L + 1 # 1 /\ (L + 1) - 1 = L /\ L \in 1 .. L
    BY <1>0, <2>1
  <2>3. OnStack' = OnStack \cup {b}
    BY <2>1, <2>2 DEF OnStack, L
  <2>4. b \notin OnStack /\ b \notin After(0)
    BY <1>7 DEF Searching
  <2>5. \A i, j \in 1 .. Len(calls') : calls'[i].block = calls'[j].block => i = j
    <3>1. \A i \in 1 .. L : calls'[i].block # b
      BY <2>1, <2>4 DEF OnStack, L
    <3> QED
      BY <2>1, <2>2, <3>1 DEF Searching, L
  <2>6. \A i \in 1 .. Len(calls') :
          /\ \A c \in calls'[i].rest : <<calls'[i].block, c>> \in cfg
          /\ IF i = 1 THEN calls'[i].block = root ELSE <<calls'[i - 1].block, calls'[i].block>> \in cfg
    <3>1. ASSUME NEW i \in 1 .. L
          PROVE  /\ \A c \in calls'[i].rest : <<calls'[i].block, c>> \in cfg
                 /\ IF i = 1 THEN calls'[i].block = root
                             ELSE <<calls'[i - 1].block, calls'[i].block>> \in cfg
      <4>1. i # 1 => i - 1 \in 1 .. L
        BY <1>0
      <4> QED
        BY <2>1, <4>1 DEF Searching, L
    <3>2. \A c \in calls'[L + 1].rest : <<calls'[L + 1].block, c>> \in cfg
      BY <1>4, <2>1
    <3>3. <<calls'[(L + 1) - 1].block, calls'[L + 1].block>> \in cfg
      BY <1>2, <2>1, <2>2
    <3> QED
      BY <2>2, <3>1, <3>2, <3>3
  <2>7. /\ visited' = After(0) \cup OnStack' /\ OnStack' \cap After(0) = {} /\ root \in visited'
        /\ \A j \in 1 .. Num : visit_order[j] # root =>
             \E t \in OnStack' \cup After(j) : <<t, visit_order[j]>> \in cfg
    BY <1>1, <2>3, <2>4 DEF Searching
  <2>8. idom = [c \in Block |-> NoBlock] /\ pass = <<>> /\ dom_frontier = <<>>
    BY DEF Searching
  <2> QED
    BY <1>1, <1>5, <2>1, <2>5, <2>6, <2>7, <2>8 DEF Searching
<1> QED
  BY <1>5, <1>6, <1>7

\* The end of a call gives the last block of the path the next number.
LEMMA NumberInv ==
  ASSUME GraphAssumption, GraphOK, Searching, Number
  PROVE  GraphOK' /\ Searching'
<1> DEFINE L == Len(calls)
           b == calls[L].block
<1>0. calls \in Seq(Frame) /\ L \in Nat \ {0} /\ L \in 1 .. L
  BY DEF Searching, Number
<1>1. /\ visit_order' = Append(visit_order, b) /\ calls' = SubSeq(calls, 1, L - 1)
      /\ UNCHANGED <<cfg, root, visited, idom, pass, dom_frontier>>
  BY DEF Number, Top, Last, Front
<1> HIDE DEF L
<1>2. b \in Block /\ b \in OnStack
  <2>1. calls[L] \in Frame
    BY <1>0 DEF L
  <2> QED
    BY <1>0, <2>1 DEF OnStack, L, Frame
<1>3. /\ calls' \in Seq(Frame) /\ Len(calls') = L - 1
      /\ \A i \in 1 .. L - 1 : calls'[i] = calls[i]
  <2>1. \A i \in 1 .. L - 1 : calls[i] \in Frame
    BY <1>0 DEF L
  <2>2. L - 1 \in Int /\ (IF 1 <= L - 1 THEN (L - 1) - 1 + 1 ELSE 0) = L - 1
    BY <1>0
  <2>3. /\ calls' \in Seq(Frame) /\ Len(calls') = IF 1 <= L - 1 THEN (L - 1) - 1 + 1 ELSE 0
        /\ \A i \in 1 .. (L - 1) - 1 + 1 : calls'[i] = calls[1 + i - 1]
    BY <1>1, <2>1, <2>2, SubSeqProperties
  <2> QED
    BY <1>0, <2>2, <2>3
<1>4. Num \in Nat /\ visit_order \in Seq(Block)
  BY DEF Searching, Ordered, Num
<1>5. /\ visit_order' \in Seq(Block) /\ Num' = Num + 1 /\ visit_order'[Num + 1] = b
      /\ \A i \in 1 .. Num : visit_order'[i] = visit_order[i]
  BY <1>1, <1>2, <1>4 DEF Num
<1> HIDE DEF b
<1>6. 1 .. L = (1 .. L - 1) \cup {L} /\ 1 .. Num + 1 = (1 .. Num) \cup {Num + 1}
  BY <1>0, <1>4
<1>7. OnStack' = OnStack \ {b}
  <2>1. \A i \in 1 .. L - 1 : calls[i].block # b
    BY <1>0, <1>6 DEF Searching, b, L
  <2> QED
    BY <1>3, <1>6, <2>1 DEF OnStack, b, L
<1>8. \A j \in 0 .. Num : After(j)' = After(j) \cup {b}
  <2> TAKE j \in 0 .. Num
  <2>1. After(j)' = {visit_order'[k] : k \in j + 1 .. Num + 1}
    BY <1>5 DEF After
  <2>2. j + 1 .. Num + 1 = (j + 1 .. Num) \cup {Num + 1} /\ j + 1 .. Num \subseteq 1 .. Num
    BY <1>4
  <2> QED
    BY <1>5, <2>1, <2>2 DEF After
<1>9. Ordered'
  <2>1. \A i \in 1 .. Num : visit_order[i] # b
    <3>1. b \notin After(0)
      BY <1>2 DEF Searching
    <3> QED
      BY <3>1 DEF After
  <2>2. \A i, j \in 1 .. Num : visit_order[i] = visit_order[j] => i = j
    BY DEF Ordered, Searching
  <2>3. ASSUME NEW i \in 1 .. Num + 1, NEW j \in 1 .. Num + 1, visit_order'[i] = visit_order'[j]
        PROVE  i = j
    <3>1. (i \in 1 .. Num \/ i = Num + 1) /\ (j \in 1 .. Num \/ j = Num + 1)
      BY <1>6
    <3> QED
      BY <1>5, <2>1, <2>2, <2>3, <3>1
  <2> QED
    BY <1>5, <2>3 DEF Ordered
<1>10. visited' = After(0)' \cup OnStack' /\ OnStack' \cap After(0)' = {} /\ root' \in visited'
  BY <1>1, <1>2, <1>4, <1>7, <1>8 DEF Searching
<1>11. \A i, j \in 1 .. Len(calls') : calls'[i].block = calls'[j].block => i = j
  BY <1>3, <1>6 DEF Searching, L
<1>12. \A i \in 1 .. Len(calls') :
         /\ \A c \in calls'[i].rest : <<calls'[i].block, c>> \in cfg
         /\ IF i = 1 THEN calls'[i].block = root ELSE <<calls'[i - 1].block, calls'[i].block>> \in cfg
  <2> TAKE i \in 1 .. Len(calls')
  <2>1. i \in 1 .. L /\ i \in 1 .. L - 1 /\ (i # 1 => i - 1 \in 1 .. L - 1)
    BY <1>0, <1>3
  <2> QED
    BY <1>3, <2>1 DEF Searching, L
<1>13. \A j \in 1 .. Num' : visit_order'[j] # root =>
         \E t \in OnStack' \cup After(j)' : <<t, visit_order'[j]>> \in cfg
  <2>1. ASSUME NEW j \in 1 .. Num, visit_order'[j] # root
        PROVE  \E t \in OnStack' \cup After(j)' : <<t, visit_order'[j]>> \in cfg
    <3>1. \E t \in OnStack \cup After(j) : <<t, visit_order[j]>> \in cfg
      BY <1>5, <2>1 DEF Searching
    <3>2. After(j)' = After(j) \cup {b}
      BY <1>4, <1>8
    <3> QED
      BY <1>5, <1>7, <3>1, <3>2
  <2>2. ASSUME b # root PROVE \E t \in OnStack' : <<t, b>> \in cfg
    <3>1. L # 1 /\ <<calls[L - 1].block, b>> \in cfg
      BY <1>0, <2>2 DEF Searching, b, L
    <3>2. L - 1 \in 1 .. L - 1
      BY <1>0, <3>1
    <3>3. calls[L - 1].block \in OnStack'
      BY <1>3, <3>2 DEF OnStack
    <3> QED
      BY <3>1, <3>3
  <2> QED
    BY <1>5, <1>6, <2>1, <2>2
<1>14. idom = [c \in Block |-> NoBlock] /\ pass = <<>> /\ dom_frontier = <<>>
  BY DEF Searching
<1>15. GraphOK'
  BY <1>1 DEF GraphOK
<1> QED
  BY <1>1, <1>3, <1>9, <1>10, <1>11, <1>12, <1>13, <1>14, <1>15 DEF Searching

\* A pass is the post-order, backwards.
LEMMA OrderIs ==
  ASSUME Ordered
  PROVE  /\ Order \in Seq(Block) /\ Len(Order) = Num /\ Num \in Nat
         /\ \A i \in 1 .. Num : Order[i] = visit_order[Num + 1 - i]
<1>1. Num \in Nat /\ visit_order \in [1 .. Num -> Block]
  BY DEF Ordered, Num
<1>2. Order = [i \in 1 .. Num |-> visit_order[(Num - i) + 1]]
  BY DEF Order, Reverse, Num
<1>3. \A i \in 1 .. Num : (Num - i) + 1 = Num + 1 - i /\ (Num - i) + 1 \in 1 .. Num
  BY <1>1
<1>4. Order \in [1 .. Num -> Block] /\ \A i \in 1 .. Num : Order[i] = visit_order[Num + 1 - i]
  BY <1>1, <1>2, <1>3
<1> HIDE DEF Num, Order
<1> QED
  BY <1>1, <1>4

\* The search ends with every block but the root under a predecessor of a larger number.
LEMMA PruneInv ==
  ASSUME GraphAssumption, GraphOK, Searching, Prune
  PROVE  GraphOK' /\ Improving'
<1>1. /\ calls = <<>> /\ calls' = <<>> /\ blocks' = visited
      /\ cfg' = {e \in cfg : e[1] \in visited /\ e[2] \in visited}
      /\ idom' = [idom EXCEPT ![root] = root] /\ pass' = Order /\ changed' = FALSE
      /\ UNCHANGED <<root, visited, visit_order, dom_frontier>>
  BY DEF Prune
<1>2. /\ Ordered /\ root \in visited /\ idom = [b \in Block |-> NoBlock] /\ dom_frontier = <<>>
      /\ \A j \in 1 .. Num : visit_order[j] # root =>
           \E t \in OnStack \cup After(j) : <<t, visit_order[j]>> \in cfg
  BY DEF Searching
<1>3. visited = After(0) /\ OnStack = {}
  <2>1. 1 .. Len(calls) = {}
    BY <1>1
  <2>2. OnStack = {}
    BY <2>1 DEF OnStack
  <2> QED
    BY <2>2 DEF Searching
<1>4. /\ Num \in Nat /\ Num <= Cardinality(Block)
      /\ \A i \in 1 .. Num : visit_order[i] \in visited /\ Index(visit_order[i]) = i
      /\ \A b \in visited : Index(b) \in 1 .. Num /\ visit_order[Index(b)] = b /\ Ix[b] = Index(b)
      /\ visited \subseteq Block
  BY <1>2, <1>3, Numbers
<1>5. Ix' = Ix /\ Num' = Num /\ Ordered' /\ After(0)' = After(0)
  BY <1>1, <1>2 DEF Ix, Num, Ordered, After, Index
<1>6. /\ Order \in Seq(Block) /\ Len(Order) = Num
      /\ \A i \in 1 .. Num : Order[i] = visit_order[Num + 1 - i]
  BY <1>2, OrderIs
<1>7. Numbered(cfg', root, visited, Ix, Num)
  <2>1. cfg' \subseteq visited \X (visited \ {root})
    BY <1>1 DEF GraphOK
  <2>2. \A x \in visited : Ix[x] \in 1 .. Num /\ \A y \in visited : Ix[x] = Ix[y] => x = y
    BY <1>4
  <2>3. ASSUME NEW b \in visited \ {root} PROVE \E t \in visited : <<t, b>> \in cfg' /\ Ix[t] > Ix[b]
    <3> DEFINE j == Index(b)
    <3>1. j \in 1 .. Num /\ visit_order[j] = b /\ Ix[b] = j
      BY <1>4
    <3> HIDE DEF j
    <3>2. PICK t \in After(j) : <<t, b>> \in cfg
      BY <1>2, <1>3, <3>1
    <3>3. PICK k \in j + 1 .. Num : t = visit_order[k]
      BY DEF After
    <3>4. k \in 1 .. Num /\ k > j
      BY <1>4, <3>1
    <3>5. t \in visited /\ Ix[t] = k
      BY <1>4, <3>3, <3>4
    <3> QED
      BY <1>1, <3>1, <3>2, <3>4, <3>5
  <2> QED
    BY <1>2, <1>4, <2>1, <2>2, <2>3 DEF Numbered
<1>8. idom' \in [Block -> visited \cup {NoBlock}] /\ idom'[root] = root /\ Placed' = {root}
  <2>1. root \in Block /\ NoBlock \notin Block
    BY DEF GraphOK, GraphAssumption
  <2>2. \A b \in Block : idom'[b] = IF b = root THEN root ELSE NoBlock
    BY <1>1, <1>2, <2>1
  <2>3. idom' \in [Block -> visited \cup {NoBlock}]
    BY <1>1, <1>2, <2>1
  <2> QED
    BY <2>1, <2>2, <2>3 DEF Placed
<1>9. Done' = {}
  BY <1>1, <1>4, <1>5, <1>6 DEF Done
<1>10. /\ Core(cfg', root, visited, Ix, Num, idom', {root}, {})
       /\ Settled(cfg', root, idom', {root}, {})
  BY <1>7, LoopBegins
<1>11. GraphOK' /\ FrontierIsFrontier'
  BY <1>1, <1>2 DEF GraphOK, FrontierIsFrontier, Finished
<1>12. /\ Numbered(cfg, root, visited, Ix, Num)'
       /\ Core(cfg, root, visited, Ix, Num, idom, Placed, Done)'
       /\ (changed = FALSE => Settled(cfg, root, idom, Placed, Done))'
  BY <1>1, <1>5, <1>7, <1>8, <1>9, <1>10
<1>13. /\ calls' = <<>> /\ blocks' = visited' /\ visited' = After(0)' /\ changed' \in BOOLEAN
       /\ (dom_frontier # <<>> => pass = <<>> /\ changed = FALSE)'
  BY <1>1, <1>2, <1>3, <1>5
<1>14. /\ pass' \in Seq(Block) /\ Len(pass') <= Num'
       /\ \A i \in 1 .. Len(pass') : pass'[i] = visit_order'[Len(pass') + 1 - i]
  BY <1>1, <1>4, <1>5, <1>6
<1> QED
  BY <1>1, <1>5, <1>8, <1>11, <1>12, <1>13, <1>14 DEF Improving

\* What the loop knows of the blocks, in one place.
LEMMA LoopFacts ==
  ASSUME GraphAssumption, Improving
  PROVE  /\ Num \in Nat /\ Num <= Cardinality(Block) /\ Len(pass) \in 0 .. Num
         /\ \A i \in 1 .. Num : visit_order[i] \in visited /\ Ix[visit_order[i]] = i
         /\ \A b \in visited : Ix[b] \in 1 .. Num /\ Ix[b] = Index(b)
         /\ visited \subseteq Block /\ root \in visited /\ IsFiniteSet(Block) /\ NoBlock \notin Block
         /\ Placed \subseteq visited
         /\ IdomTree(Placed, Ix, Num)
<1>1. /\ Num \in Nat /\ Num <= Cardinality(Block)
      /\ \A i \in 1 .. Num : visit_order[i] \in visited /\ Index(visit_order[i]) = i
      /\ \A b \in visited : Index(b) \in 1 .. Num /\ visit_order[Index(b)] = b /\ Ix[b] = Index(b)
      /\ visited \subseteq Block
  BY Numbers DEF Improving
<1>2. Len(pass) \in 0 .. Num
  BY <1>1 DEF Improving
<1>3. root \in visited /\ IsFiniteSet(Block) /\ NoBlock \notin Block
  BY DEF Improving, Numbered, GraphAssumption
<1>4. Tree(idom, root, Placed, Ix, Num) /\ (Placed = visited \/ Placed = {root} \cup Done)
  BY DEF Improving, Core
<1>5. Placed \subseteq visited
  BY <1>3, <1>4 DEF Done
<1>6. IdomTree(Placed, Ix, Num)
  BY <1>1, <1>3, <1>4, <1>5 DEF IdomTree
<1> QED
  BY <1>1, <1>2, <1>3, <1>5, <1>6

\* The block a pass is at, and those it has been at.
LEMMA PassAt ==
  ASSUME GraphAssumption, Improving, Improve
  PROVE  /\ Head(pass) \in visited /\ Ix[Head(pass)] = Len(pass)
         /\ Done = {x \in visited : Ix[x] > Ix[Head(pass)]}
         /\ Done' = Done \cup {Head(pass)}
         /\ pass' \in Seq(Block) /\ Len(pass') \in Nat /\ Len(pass') <= Num
         /\ \A i \in 1 .. Len(pass') : pass'[i] = visit_order[Len(pass') + 1 - i]
<1> DEFINE L == Len(pass)
<1>1. /\ Num \in Nat /\ L \in 0 .. Num
      /\ \A i \in 1 .. Num : visit_order[i] \in visited /\ Ix[visit_order[i]] = i
      /\ \A x \in visited : Ix[x] \in 1 .. Num /\ \A y \in visited : Ix[x] = Ix[y] => x = y
  BY LoopFacts DEF Improving, Numbered
<1>2. pass \in Seq(Block) /\ pass # <<>> /\ pass' = Tail(pass) /\ UNCHANGED <<visited, visit_order>>
  BY DEF Improving, Improve
<1>3. L \in 1 .. Num /\ Head(pass) = pass[1] /\ Len(pass') = L - 1 /\ pass' \in Seq(Block)
      /\ \A i \in 1 .. L - 1 : pass'[i] = pass[i + 1]
  BY <1>1, <1>2
<1>4. \A i \in 1 .. L : pass[i] = visit_order[L + 1 - i]
  BY DEF Improving
<1> HIDE DEF L
<1>5. Head(pass) = visit_order[L]
  <2>1. 1 \in 1 .. L /\ L + 1 - 1 = L
    BY <1>1, <1>3
  <2> QED
    BY <1>3, <1>4, <2>1
<1>6. Head(pass) \in visited /\ Ix[Head(pass)] = L
  BY <1>1, <1>3, <1>5
<1>7. Ix' = Ix
  BY <1>2 DEF Ix, Index
<1>8. Done' = {x \in visited : Ix[x] > L - 1}
  BY <1>2, <1>3, <1>7 DEF Done
<1>9. Done = {x \in visited : Ix[x] > L}
  BY DEF Done, L
<1>10. \A x \in visited : Ix[x] > L - 1 <=> Ix[x] > L \/ x = Head(pass)
  BY <1>1, <1>3, <1>6
<1>11. \A i \in 1 .. L - 1 : pass'[i] = visit_order[(L - 1) + 1 - i]
  <2> TAKE i \in 1 .. L - 1
  <2>1. i + 1 \in 1 .. L /\ L + 1 - (i + 1) = (L - 1) + 1 - i
    BY <1>1, <1>3
  <2> QED
    BY <1>3, <1>4, <2>1
<1> QED
  BY <1>1, <1>3, <1>6, <1>8, <1>9, <1>10, <1>11 DEF L

\* An improvement is a round: the fold ends at the nearest block above the known predecessors.
LEMMA ImproveRound ==
  ASSUME GraphAssumption, GraphOK, Improving, Improve, Head(pass) # root
  PROVE  \E n : /\ Round(cfg, root, visited, Ix, Num, idom, Placed, Done, Head(pass), n, idom')
                /\ idom' = [idom EXCEPT ![Head(pass)] = n]
                /\ changed' = (changed \/ idom[Head(pass)] # n)
<1> DEFINE b == Head(pass)
<1>1. /\ Num \in Nat /\ visited \subseteq Block /\ IsFiniteSet(Block) /\ Placed \subseteq visited
      /\ IdomTree(Placed, Ix, Num)
  BY LoopFacts
<1>2. b \in visited \ {root} /\ Done = {x \in visited : Ix[x] > Ix[b]}
  BY PassAt
<1>3. /\ Numbered(cfg, root, visited, Ix, Num)
      /\ Core(cfg, root, visited, Ix, Num, idom, Placed, Done)
      /\ idom \in [Block -> visited \cup {NoBlock}]
  BY DEF Improving
<1>4. PICK order \in SetToSeqs(Known(b)) :
        /\ idom' = [idom EXCEPT ![b] = Folded(order)]
        /\ changed' = (changed \/ idom[b] # idom'[b])
  BY DEF Improve
<1> HIDE DEF b
<1>5. Known(b) = Seen(cfg, Placed, b)
  BY DEF Known, Seen, Placed, F!Preds, GraphOK
<1> DEFINE S == Seen(cfg, Placed, b)
<1>6. S # {}
  BY <1>2, <1>3, OneIsKnown
<1>7. S \in SUBSET Placed /\ IsFiniteSet(S)
  <2>1. S \in SUBSET Placed /\ S \in SUBSET Block
    BY <1>1 DEF Seen
  <2> QED
    BY <1>1, <2>1, FS_Subset
<1> HIDE DEF S
<1>8. Folded(order) \in Shared(idom, root, S) /\ Shared(idom, root, S) \subseteq Up(idom, root, Folded(order))
  BY <1>1, <1>4, <1>5, <1>6, <1>7, Fold DEF S
<1>9. idom'[b] = Folded(order) /\ \A x \in visited \ {b} : idom'[x] = idom[x]
  BY <1>1, <1>2, <1>3, <1>4
<1>10. Round(cfg, root, visited, Ix, Num, idom, Placed, Done, b, Folded(order), idom')
  BY <1>2, <1>3, <1>8, <1>9 DEF Round, S
<1> QED
  BY <1>4, <1>9, <1>10 DEF b

\* A look at one block, the root or another.
LEMMA ImproveInv ==
  ASSUME GraphAssumption, GraphOK, Improving, Improve
  PROVE  GraphOK' /\ Improving'
<1> DEFINE b == Head(pass)
<1>1. /\ calls' = <<>> /\ dom_frontier = <<>> /\ blocks = visited /\ Ordered /\ visited = After(0)
      /\ pass # <<>>
      /\ UNCHANGED <<cfg, root, blocks, visited, visit_order, dom_frontier>>
  BY DEF Improving, Improve
<1>2. Ix' = Ix /\ Num' = Num /\ Ordered' /\ After(0)' = After(0) /\ GraphOK'
  BY <1>1 DEF Ix, Num, Ordered, After, Index, GraphOK
<1>3. /\ b \in visited /\ Done' = Done \cup {b}
      /\ pass' \in Seq(Block) /\ Len(pass') <= Num
      /\ \A i \in 1 .. Len(pass') : pass'[i] = visit_order[Len(pass') + 1 - i]
  BY PassAt
<1>4. /\ Placed \subseteq visited /\ visited \subseteq Block /\ NoBlock \notin Block /\ root \in visited
  BY LoopFacts
<1>5. /\ Numbered(cfg, root, visited, Ix, Num)
      /\ Core(cfg, root, visited, Ix, Num, idom, Placed, Done)
      /\ changed = FALSE => Settled(cfg, root, idom, Placed, Done)
      /\ changed \in BOOLEAN /\ idom \in [Block -> visited \cup {NoBlock}] /\ idom[root] = root
  BY DEF Improving
<1>6. /\ Core(cfg, root, visited, Ix, Num, idom', Placed', Done')
      /\ changed' = FALSE => Settled(cfg, root, idom', Placed', Done')
      /\ changed' \in BOOLEAN /\ idom' \in [Block -> visited \cup {NoBlock}] /\ idom'[root] = root
  <2>1. CASE b = root
    <3>1. idom' = idom /\ changed' = changed /\ Placed' = Placed
      BY <2>1 DEF Improve, Placed
    <3>2. /\ Core(cfg, root, visited, Ix, Num, idom, Placed, Done \cup {root})
          /\ Settled(cfg, root, idom, Placed, Done) => Settled(cfg, root, idom, Placed, Done \cup {root})
      BY <1>5, LoopRoot
    <3> QED
      BY <1>3, <1>5, <2>1, <3>1, <3>2
  <2>2. CASE b # root
    <3>1. PICK n : /\ Round(cfg, root, visited, Ix, Num, idom, Placed, Done, b, n, idom')
                   /\ idom' = [idom EXCEPT ![b] = n]
                   /\ changed' = (changed \/ idom[b] # n)
      BY <2>2, ImproveRound
    <3> HIDE DEF b
    <3>2. n \in Placed
      BY <3>1, RoundUp
    <3>3. /\ Core(cfg, root, visited, Ix, Num, idom', Placed \cup {b}, Done \cup {b})
          /\ b \in Placed /\ idom[b] = n /\ Settled(cfg, root, idom, Placed, Done) =>
               Settled(cfg, root, idom, Placed, Done \cup {b})
      BY <3>1, RoundKeeps
    <3>4. \A x \in Block : idom'[x] = IF x = b THEN n ELSE idom[x]
      BY <1>5, <3>1
    <3>5. Placed' = Placed \cup {b}
      BY <1>3, <1>4, <3>2, <3>4 DEF Placed
    <3>6. idom' \in [Block -> visited \cup {NoBlock}] /\ idom'[root] = root /\ changed' \in BOOLEAN
      BY <1>4, <1>5, <2>2, <3>1, <3>2, <3>4
    <3>7. ASSUME changed' = FALSE PROVE Settled(cfg, root, idom', Placed', Done')
      <4>1. changed = FALSE /\ idom[b] = n
        BY <1>5, <3>1, <3>7
      <4>2. b \in Placed /\ idom' = idom
        BY <1>3, <1>4, <1>5, <3>1, <3>2, <4>1 DEF Placed
      <4>3. Placed \cup {b} = Placed
        BY <4>2
      <4> QED
        BY <1>3, <1>5, <3>3, <3>5, <4>1, <4>2, <4>3
    <3> QED
      BY <1>3, <3>3, <3>5, <3>6, <3>7
  <2> QED
    BY <2>1, <2>2
<1>7. (dom_frontier # <<>> => pass = <<>> /\ changed = FALSE)' /\ FrontierIsFrontier'
  BY <1>1 DEF FrontierIsFrontier, Finished
<1>8. /\ Numbered(cfg, root, visited, Ix, Num)'
      /\ Core(cfg, root, visited, Ix, Num, idom, Placed, Done)'
      /\ (changed = FALSE => Settled(cfg, root, idom, Placed, Done))'
  BY <1>1, <1>2, <1>5, <1>6
<1>9. /\ pass' \in Seq(Block) /\ Len(pass') <= Num'
      /\ \A i \in 1 .. Len(pass') : pass'[i] = visit_order'[Len(pass') + 1 - i]
  BY <1>1, <1>2, <1>3
<1> QED
  BY <1>1, <1>2, <1>6, <1>7, <1>8, <1>9 DEF Improving

\* A pass is over: it has been at every block, so every block has its place.
LEMMA PassOver ==
  ASSUME GraphAssumption, Improving, pass = <<>>
  PROVE  /\ Placed = visited /\ Done = visited
         /\ Core(cfg, root, visited, Ix, Num, idom, visited, visited)
         /\ Core(cfg, root, visited, Ix, Num, idom, visited, {})
         /\ Settled(cfg, root, idom, visited, {})
<1>1. \A x \in visited : Ix[x] \in 1 .. Num
  BY LoopFacts
<1>2. Done = visited
  BY <1>1 DEF Done
<1>3. Numbered(cfg, root, visited, Ix, Num) /\ Core(cfg, root, visited, Ix, Num, idom, Placed, visited)
  BY <1>2 DEF Improving
<1> QED
  BY <1>2, <1>3, LoopAgain

\* Another pass.
LEMMA RepeatInv ==
  ASSUME GraphAssumption, GraphOK, Improving, Repeat
  PROVE  GraphOK' /\ Improving'
<1>1. /\ calls' = <<>> /\ pass = <<>> /\ dom_frontier = <<>> /\ pass' = Order /\ changed' = FALSE
      /\ UNCHANGED <<cfg, root, blocks, calls, visited, visit_order, idom, dom_frontier>>
  BY DEF Improving, Repeat
<1>2. /\ Placed = visited /\ Core(cfg, root, visited, Ix, Num, idom, visited, {})
      /\ Settled(cfg, root, idom, visited, {})
  BY <1>1, PassOver
<1>3. Ix' = Ix /\ Num' = Num /\ After(0)' = After(0) /\ GraphOK' /\ Placed' = Placed
  BY <1>1 DEF Ix, Num, After, Index, GraphOK, Placed
<1>4. /\ blocks = visited /\ Ordered /\ visited = After(0)
      /\ Numbered(cfg, root, visited, Ix, Num)
      /\ idom \in [Block -> visited \cup {NoBlock}] /\ idom[root] = root
  BY DEF Improving
<1>5. /\ Num \in Nat /\ Order \in Seq(Block) /\ Len(Order) = Num
      /\ \A i \in 1 .. Num : Order[i] = visit_order[Num + 1 - i]
  BY <1>4, OrderIs
<1>6. \A x \in visited : Ix[x] \in 1 .. Num
  BY LoopFacts
<1>7. Done' = {}
  BY <1>1, <1>3, <1>5, <1>6 DEF Done
<1>8. Ordered' /\ FrontierIsFrontier'
  BY <1>1, <1>4 DEF Ordered, Num, FrontierIsFrontier, Finished
<1>9. /\ Numbered(cfg, root, visited, Ix, Num)'
      /\ Core(cfg, root, visited, Ix, Num, idom, Placed, Done)'
      /\ (changed = FALSE => Settled(cfg, root, idom, Placed, Done))'
  BY <1>1, <1>2, <1>3, <1>4, <1>7
<1>10. /\ pass' \in Seq(Block) /\ Len(pass') <= Num'
       /\ \A i \in 1 .. Len(pass') : pass'[i] = visit_order'[Len(pass') + 1 - i]
  BY <1>1, <1>3, <1>5
<1> QED
  BY <1>1, <1>3, <1>4, <1>8, <1>9, <1>10 DEF Improving

\* When a pass has changed nothing, what is above a block is what dominates it.
LEMMA InTheEnd ==
  ASSUME GraphAssumption, Improving, pass = <<>>, changed = FALSE
  PROVE  /\ Tree(idom, root, visited, Ix, Num) /\ Numbered(cfg, root, visited, Ix, Num)
         /\ NotAbove(cfg, root, idom, visited) /\ Settled(cfg, root, idom, visited, visited)
         /\ \A a, b \in visited : Dom(a, b) <=> a \in Up(idom, root, b)
<1>1. /\ Placed = visited /\ Done = visited
      /\ Core(cfg, root, visited, Ix, Num, idom, visited, visited)
  BY PassOver
<1>2. Numbered(cfg, root, visited, Ix, Num) /\ Settled(cfg, root, idom, visited, visited)
  BY <1>1 DEF Improving
<1>3. \A a, b \in visited : F!Dominates(cfg, root, a, b) <=> a \in Up(idom, root, b)
  BY <1>1, <1>2, UpIsDominance DEF GraphAssumption
<1> QED
  BY <1>1, <1>2, <1>3 DEF Core, Dom

\* The frontier of a block is where its dominance ends.
LEMMA FrontierFound ==
  ASSUME GraphAssumption, Improving, pass = <<>>, changed = FALSE, NEW a \in visited, NEW b \in visited
  PROVE  JoinsAt(b) /\ (\E p \in F!Preds(cfg, b) : a \in Under(p, b)) <=>
           (\E p \in F!Preds(cfg, b) : Dom(a, p)) /\ ~ (Dom(a, b) /\ a # b)
<1> DEFINE P == F!Preds(cfg, b)
           q == idom[b]
<1>1. /\ Tree(idom, root, visited, Ix, Num) /\ Numbered(cfg, root, visited, Ix, Num)
      /\ NotAbove(cfg, root, idom, visited) /\ Settled(cfg, root, idom, visited, visited)
      /\ \A x, y \in visited : Dom(x, y) <=> x \in Up(idom, root, y)
  BY InTheEnd
<1>2. /\ visited \subseteq Block /\ IsFiniteSet(Block) /\ idom[root] = root
      /\ cfg \subseteq visited \X (visited \ {root})
      /\ \A x \in visited : Ix[x] \in 1 .. Num
  BY <1>1, LoopFacts DEF Improving, Numbered
<1>3. P = {p \in visited : <<p, b>> \in cfg}
  BY <1>2 DEF F!Preds
<1> HIDE DEF P
<1>4. CASE b = root
  BY <1>2, <1>3, <1>4 DEF P
<1>5. CASE b # root
  <2>1. /\ q \in visited /\ Ix[q] > Ix[b]
        /\ Up(idom, root, b) = {b} \cup Up(idom, root, q) /\ b \notin Up(idom, root, q)
    <3>1. q \in visited /\ Ix[q] > Ix[b]
      BY <1>1, <1>5 DEF Tree
    <3> QED
      BY <1>1, <1>5, <3>1, UpNext
  <2> HIDE DEF q
  <2>2. ASSUME NEW p \in P
        PROVE  q \in Up(idom, root, p) /\ Upward(p, q) = Up(idom, root, p) \ Up(idom, root, q)
    <3>1. p \in visited /\ <<p, b>> \in cfg
      BY <1>3
    <3>2. Up(idom, root, b) \ {b} \subseteq Up(idom, root, p)
      BY <1>1, <1>5, <3>1 DEF Settled
    <3>3. q \in Up(idom, root, q)
      BY <1>1, <2>1, UpWay
    <3>4. q \in Up(idom, root, p)
      BY <2>1, <3>2, <3>3
    <3> QED
      BY <1>1, <1>2, <3>1, <3>4, UpwardIsUp
  <2>3. Dom(a, b) /\ a # b <=> a \in Up(idom, root, q)
    BY <1>1, <2>1
  <2>4. (\E p \in P : a \in Under(p, b)) <=> (\E p \in P : Dom(a, p)) /\ ~ (Dom(a, b) /\ a # b)
    BY <1>1, <1>3, <2>2, <2>3 DEF Under, q
  <2>5. ASSUME ~ JoinsAt(b), NEW p \in P, Dom(a, p)
        PROVE  Dom(a, b) /\ a # b
    <3>1. IsFiniteSet(P)
      BY <1>2, <1>3, FS_Subset
    <3>2. Cardinality(P) \in Nat /\ ~ (Cardinality(P) >= 2)
      BY <2>5, <3>1, FS_CardinalityType DEF JoinsAt, P
    <3>3. Cardinality(P) = 0 \/ Cardinality(P) = 1
      BY <3>2
    <3>4. P = {p}
      BY <3>1, <3>3, FS_EmptySet, FS_Singleton
    <3>5. PICK t \in visited : <<t, b>> \in cfg /\ Ix[t] > Ix[b]
      BY <1>1, <1>5 DEF Numbered
    <3>6. p \in visited /\ Ix[p] > Ix[b]
      BY <1>3, <3>4, <3>5
    <3>7. a \in Up(idom, root, p)
      BY <1>1, <2>5, <3>6
    <3>8. a = p \/ Ix[a] > Ix[p]
      BY <1>1, <3>6, <3>7, UpWay
    <3>9. a # b
      BY <1>2, <3>6, <3>8
    <3>10. Seen(cfg, visited, b) = {p}
      BY <1>3, <3>4 DEF Seen
    <3>11. a \in Shared(idom, root, Seen(cfg, visited, b))
      BY <1>2, <3>7, <3>10 DEF Shared
    <3>12. a \in Up(idom, root, b)
      BY <1>1, <1>5, <3>11 DEF NotAbove
    <3> QED
      BY <1>1, <3>9, <3>12
  <2> QED
    BY <2>4, <2>5 DEF P
<1> QED
  BY <1>4, <1>5

\* The frontiers are generated from a tree that is right.
LEMMA GenerateInv ==
  ASSUME GraphAssumption, GraphOK, Improving, Generate
  PROVE  GraphOK' /\ Improving'
<1>1. /\ pass = <<>> /\ changed = FALSE /\ blocks = visited
      /\ dom_frontier' = [a \in blocks |->
           {b \in blocks : JoinsAt(b) /\ \E p \in F!Preds(cfg, b) : a \in Under(p, b)}]
      /\ UNCHANGED <<cfg, root, blocks, calls, visited, visit_order, idom, pass, changed>>
  BY DEF Generate, Improving, Again
<1>2. \A a \in blocks : dom_frontier'[a] =
        {b \in blocks : (\E p \in F!Preds(cfg, b) : Dom(a, p)) /\ ~ (Dom(a, b) /\ a # b)}
  BY <1>1, FrontierFound
<1>3. FrontierIsFrontier'
  BY <1>1, <1>2 DEF FrontierIsFrontier, Dom
<1>4. Ix' = Ix /\ Num' = Num /\ After(0)' = After(0) /\ GraphOK' /\ Placed' = Placed /\ Done' = Done
  BY <1>1 DEF Ix, Num, After, Index, GraphOK, Placed, Done
<1>5. Ordered'
  BY <1>1 DEF Improving, Ordered, Num
<1>6. /\ Numbered(cfg, root, visited, Ix, Num)'
      /\ Core(cfg, root, visited, Ix, Num, idom, Placed, Done)'
      /\ (changed = FALSE => Settled(cfg, root, idom, Placed, Done))'
  BY <1>1, <1>4 DEF Improving
<1> QED
  BY <1>1, <1>3, <1>4, <1>5, <1>6 DEF Improving

\* Every step keeps the invariant.
LEMMA NextInv ==
  ASSUME GraphAssumption, Inv, [Next]_vars
  PROVE  Inv'
<1>1. CASE UNCHANGED vars
  <2>1. /\ UNCHANGED <<cfg, root, blocks, calls, visited, visit_order, idom, pass, changed, dom_frontier>>
        /\ GraphOK
    BY <1>1 DEF vars, Inv
  <2>2. /\ Ix' = Ix /\ Num' = Num /\ (\A j : After(j)' = After(j)) /\ GraphOK'
        /\ Placed' = Placed /\ Done' = Done /\ OnStack' = OnStack
    BY <2>1 DEF Ix, Num, After, Index, GraphOK, Placed, Done, OnStack
  <2>3. Ordered => Ordered'
    BY <2>1 DEF Ordered, Num
  <2>4. CASE Searching
    BY <2>1, <2>2, <2>3, <2>4 DEF Inv, Searching
  <2>5. CASE Improving
    <3>1. FrontierIsFrontier'
      BY <2>1, <2>5 DEF Improving, FrontierIsFrontier, Finished, Dom
    <3>2. /\ Numbered(cfg, root, visited, Ix, Num)'
          /\ Core(cfg, root, visited, Ix, Num, idom, Placed, Done)'
          /\ (changed = FALSE => Settled(cfg, root, idom, Placed, Done))'
      BY <2>1, <2>2, <2>5 DEF Improving
    <3> QED
      BY <2>1, <2>2, <2>3, <2>5, <3>1, <3>2 DEF Improving, Inv
  <2> QED
    BY <2>4, <2>5 DEF Inv
<1>2. GraphOK /\ (Searching => idom[root] = NoBlock /\ pass = <<>>)
      /\ (Improving => idom[root] = root /\ calls = <<>>) /\ root # NoBlock
  BY DEF Inv, GraphOK, GraphAssumption, Searching, Improving
<1>3. CASE \E b \in Block : Call(b)
  <2>1. PICK b \in Block : Call(b)
    BY <1>3
  <2>2. Searching
    BY <1>2, <2>1 DEF Call, Inv
  <2> QED
    BY <1>2, <2>1, <2>2, CallInv DEF Inv
<1>4. CASE Number
  <2>1. Searching
    BY <1>2, <1>4 DEF Number, Inv
  <2> QED
    BY <1>2, <1>4, <2>1, NumberInv DEF Inv
<1>5. CASE Prune
  <2>1. Searching
    BY <1>2, <1>5 DEF Prune, Inv
  <2> QED
    BY <1>2, <1>5, <2>1, PruneInv DEF Inv
<1>6. CASE Improve
  <2>1. Improving
    BY <1>2, <1>6 DEF Improve, Inv
  <2> QED
    BY <1>2, <1>6, <2>1, ImproveInv DEF Inv
<1>7. CASE Repeat
  <2>1. Improving
    BY <1>2, <1>7 DEF Repeat, Inv
  <2> QED
    BY <1>2, <1>7, <2>1, RepeatInv DEF Inv
<1>8. CASE Generate
  <2>1. Improving
    BY <1>2, <1>8 DEF Generate, Inv
  <2> QED
    BY <1>2, <1>8, <2>1, GenerateInv DEF Inv
<1> QED
  BY <1>1, <1>3, <1>4, <1>5, <1>6, <1>7, <1>8 DEF Next

-----------------------------------------------------------------------------
\* What follows from the invariant.
LEMMA DominatorsFound ==
  ASSUME GraphAssumption, Inv
  PROVE  DominatesIsDominance
<1> SUFFICES ASSUME dom_frontier # <<>>, NEW a \in blocks, NEW b \in blocks
             PROVE  is_dominator(b, a) <=> Dom(a, b) /\ a # b
  BY DEF DominatesIsDominance, Finished
<1>1. Improving /\ blocks = visited /\ pass = <<>> /\ changed = FALSE /\ idom[root] = root
  BY DEF Inv, Searching, Improving
<1>2. /\ Tree(idom, root, visited, Ix, Num)
      /\ \A x, y \in visited : Dom(x, y) <=> x \in Up(idom, root, y)
  BY <1>1, InTheEnd
<1>3. IsFiniteSet(Block) /\ NoBlock \notin visited
  BY <1>1, LoopFacts
<1>4. CASE b = root
  <2>1. Up(idom, root, b) = {b}
    BY <1>1, <1>2, <1>4, UpNext
  <2> QED
    BY <1>1, <1>2, <1>4, <2>1 DEF is_dominator
<1>5. CASE b # root
  <2>1. idom[b] \in visited
    BY <1>1, <1>2, <1>5 DEF Tree
  <2>2. Up(idom, root, b) = {b} \cup Up(idom, root, idom[b]) /\ b \notin Up(idom, root, idom[b])
    BY <1>1, <1>2, <1>5, UpNext
  <2>3. Upward(idom[b], NoBlock) = Up(idom, root, idom[b])
    BY <1>1, <1>2, <1>3, <2>1, UpwardIsUp
  <2> QED
    BY <1>1, <1>2, <1>5, <2>2, <2>3 DEF is_dominator
<1> QED
  BY <1>4, <1>5

LEMMA FrontiersFound ==
  ASSUME GraphAssumption, Inv
  PROVE  FrontierIsFrontier
  BY DEF Inv, Searching, Improving, FrontierIsFrontier, Finished

\* What OnlyClimbs says of one step.
Climbing ==
  \A b \in Block \ {root} :
    idom'[b] # idom[b] =>
      /\ Index(b) < Index(idom'[b])
      /\ idom[b] # NoBlock => Index(idom[b]) < Index(idom'[b])

\* A step that changes a place makes it higher.
LEMMA StepClimbs ==
  ASSUME GraphAssumption, Inv, [Next]_vars
  PROVE  Climbing
<1>1. CASE Improve
  <2> SUFFICES ASSUME NEW b \in Block \ {root}, idom'[b] # idom[b]
               PROVE  /\ Index(b) < Index(idom'[b])
                      /\ idom[b] # NoBlock => Index(idom[b]) < Index(idom'[b])
    BY DEF Climbing
  <2>1. Improving /\ GraphOK
    <3>1. pass # <<>>
      BY <1>1 DEF Improve
    <3> QED
      BY <3>1 DEF Inv, Searching
  <2>2. Head(pass) # root
    BY <1>1 DEF Improve
  <2>3. PICK n : /\ Round(cfg, root, visited, Ix, Num, idom, Placed, Done, Head(pass), n, idom')
                 /\ idom' = [idom EXCEPT ![Head(pass)] = n]
                 /\ changed' = (changed \/ idom[Head(pass)] # n)
    BY <1>1, <2>1, <2>2, ImproveRound
  <2>4. b = Head(pass) /\ idom'[b] = n
    BY <2>1, <2>3 DEF Improving
  <2>5. /\ n \in Placed /\ Ix[n] > Ix[b]
        /\ b \in Placed => n = idom[b] \/ Ix[n] > Ix[idom[b]]
    BY <2>3, <2>4, RoundUp
  <2>6. b \in visited
    BY <1>1, <2>1, <2>4, PassAt
  <2>7. /\ Placed \subseteq visited
        /\ \A x \in visited : Ix[x] \in 1 .. Num /\ Ix[x] = Index(x)
        /\ Tree(idom, root, Placed, Ix, Num)
    BY <2>1, LoopFacts DEF IdomTree
  <2>8. Index(b) < Index(n)
    BY <2>5, <2>6, <2>7
  <2>9. ASSUME idom[b] # NoBlock PROVE Index(idom[b]) < Index(n)
    <3>1. b \in Placed
      BY <2>9 DEF Placed
    <3>2. idom[b] \in Placed /\ Ix[n] > Ix[idom[b]]
      BY <2>4, <2>5, <2>7, <3>1 DEF Tree
    <3> QED
      BY <2>5, <2>7, <3>2
  <2> QED
    BY <2>4, <2>8, <2>9
<1>2. CASE Prune
  BY <1>2 DEF Prune, Climbing, Inv, Searching, Improving
<1>3. CASE UNCHANGED idom
  BY <1>3 DEF Climbing
<1>4. Improve \/ Prune \/ UNCHANGED idom
  BY DEF Next, vars, Call, Number, Repeat, Generate
<1> QED
  BY <1>1, <1>2, <1>3, <1>4
=============================================================================
