----------------------------- MODULE Flow_proof -----------------------------
(***************************************************************************)
(* Facts about control-flow graphs: what Reach computes is the least set   *)
(* that is closed under the edges.  It is defined by a recursive function, *)
(* so the facts about counting that the other proofs use are here too.     *)
(***************************************************************************)
EXTENDS Flow, FiniteSetTheorems, TLAPS

\* Counting up to K reaches K.
LEMMA Induction ==
  ASSUME NEW K \in Nat, NEW S, 0 \in S, \A n \in 0 .. K - 1 : n \in S => n + 1 \in S
  PROVE  K \in S
<1> DEFINE T == {0 .. x : x \in {n \in 0 .. K : n \notin S}}
<1> SUFFICES ASSUME K \notin S PROVE FALSE
  OBVIOUS
<1>0. T # {}
  OBVIOUS
<1>1. T \subseteq FiniteSubsetsOf(Nat)
  <2>1. \A x \in 0 .. K : IsFiniteSet(0 .. x) /\ 0 .. x \in SUBSET Nat
    BY FS_Interval
  <2> QED
    BY <2>1 DEF FiniteSubsetsOf
<1>2. PICK X \in T : \A Y \in T : <<Y, X>> \notin StrictSubsetOrdering(Nat)
  <2>1. IsWellFoundedOn(StrictSubsetOrdering(Nat), FiniteSubsetsOf(Nat))
    BY FS_StrictSubsetOrderingWellFounded
  <2> HIDE DEF T
  <2> QED
    BY <1>0, <1>1, <2>1, WFMin
<1>3. PICK m \in 0 .. K : X = 0 .. m /\ m \notin S
  OBVIOUS
<1>4. m - 1 \in 0 .. K - 1 /\ m - 1 \notin S
  BY <1>3
<1>5. 0 .. m - 1 \in T
  BY <1>4
<1>6. 0 .. m - 1 \subseteq 0 .. m /\ 0 .. m - 1 # 0 .. m
  BY <1>4
<1> HIDE DEF T
<1>7. <<0 .. m - 1, 0 .. m>> \in StrictSubsetOrdering(Nat)
  BY <1>4, <1>6 DEF StrictSubsetOrdering
<1> QED
  BY <1>2, <1>3, <1>5, <1>7

\* Of finitely many numbers one is the largest.
LEMMA Topmost ==
  ASSUME NEW N \in Nat, NEW S, S # {}, NEW ix, \A x \in S : ix[x] \in 0 .. N
  PROVE  \E x \in S : \A y \in S : ix[y] <= ix[x]
<1> SUFFICES ASSUME \A x \in S : \E y \in S : ix[y] > ix[x] PROVE FALSE
  OBVIOUS
<1> DEFINE Z == {n \in 0 .. N + 1 : \E x \in S : ix[x] >= n}
<1>1. 0 \in Z
  OBVIOUS
<1>2. \A n \in 0 .. (N + 1) - 1 : n \in Z => n + 1 \in Z
  <2> TAKE n \in 0 .. (N + 1) - 1
  <2> HAVE n \in Z
  <2>1. PICK x \in S : ix[x] >= n
    OBVIOUS
  <2>2. PICK y \in S : ix[y] > ix[x]
    OBVIOUS
  <2>3. ix[y] >= n + 1
    BY <2>1, <2>2
  <2> QED
    BY <2>3
<1> HIDE DEF Z
<1>3. N + 1 \in Z
  BY <1>1, <1>2, Induction
<1> QED
  BY <1>3 DEF Z

\* What a loop that is written as a function on 0 .. K computes.
Loops(K, D, X, G, g) ==
  g \in [0 .. K -> D] /\ g[0] = X /\ \A n \in 1 .. K : g[n] = G[n][g[n - 1]]

\* There always is such a function.
LEMMA Recursion ==
  ASSUME NEW K \in Nat, NEW D, NEW X \in D, NEW G, \A n \in 1 .. K : \A d \in D : G[n][d] \in D
  PROVE  \E g : Loops(K, D, X, G, g)
<1> DEFINE Good(k, g) == g[0] = X /\ \A n \in 1 .. k : g[n] = G[n][g[n - 1]]
           S == {k \in 0 .. K : \E g \in [0 .. k -> D] : Good(k, g)}
<1>1. 0 \in S
  <2> DEFINE h == [n \in 0 .. 0 |-> X]
  <2>1. h \in [0 .. 0 -> D] /\ h[0] = X /\ \A n \in 1 .. 0 : h[n] = G[n][h[n - 1]]
    OBVIOUS
  <2> HIDE DEF h
  <2> QED
    BY <2>1
<1>2. \A k \in 0 .. K - 1 : k \in S => k + 1 \in S
  <2> TAKE k \in 0 .. K - 1
  <2> HAVE k \in S
  <2>1. PICK g \in [0 .. k -> D] : Good(k, g)
    OBVIOUS
  <2> DEFINE h == [n \in 0 .. k + 1 |-> IF n = k + 1 THEN G[n][g[k]] ELSE g[n]]
  <2>2. g[k] \in D /\ G[k + 1][g[k]] \in D
    OBVIOUS
  <2>3. h \in [0 .. k + 1 -> D]
    BY <2>2
  <2>4. h[0] = X
    BY <2>1
  <2>5. \A n \in 1 .. k + 1 : h[n] = G[n][h[n - 1]]
    BY <2>1
  <2> HIDE DEF h
  <2> QED
    BY <2>3, <2>4, <2>5
<1> HIDE DEF S
<1>3. K \in S
  BY <1>1, <1>2, Induction
<1> QED
  BY <1>3 DEF S, Loops

-----------------------------------------------------------------------------
Grows(K, Z, X, G, g) ==
  g \in [0 .. K -> SUBSET Z] /\ g[0] = X /\ \A n \in 1 .. K : g[n] = G[g[n - 1]]

Full(Z, X, G, R) ==
  /\ X \subseteq R /\ G[R] = R
  /\ \A S \in SUBSET Z : X \subseteq S /\ (\A Y \in SUBSET S : G[Y] \subseteq S) => R \subseteq S

\* A set that grows inside a finite one, as often as that one has members, is full.
LEMMA Saturation ==
  ASSUME NEW K \in Nat, NEW Z, NEW U, IsFiniteSet(U), Cardinality(U) <= K, NEW X \in SUBSET Z,
         NEW G \in [SUBSET Z -> SUBSET Z], \A Y \in SUBSET Z : Y \subseteq G[Y] /\ G[Y] \subseteq Y \cup U,
         NEW g, Grows(K, Z, X, G, g)
  PROVE  Full(Z, X, G, g[K])
<1>0. g \in [0 .. K -> SUBSET Z] /\ g[0] = X /\ \A n \in 1 .. K : g[n] = G[g[n - 1]]
  BY DEF Grows
<1> USE <1>0
<1>1. X \subseteq g[K] /\ G[g[K]] = g[K]
  <2> DEFINE T == {n \in 0 .. K : /\ X \subseteq g[n]
                                  /\ G[g[n]] = g[n] \/ Cardinality(g[n] \cap U) >= n}
  <2>0. \A Y : IsFiniteSet(Y \cap U) /\ Cardinality(Y \cap U) \in Nat
    BY FS_Intersection, FS_CardinalityType
  <2>1. 0 \in T
    <3>1. Cardinality(g[0] \cap U) \in Nat
      BY <2>0
    <3>2. Cardinality(g[0] \cap U) >= 0 /\ X \subseteq g[0] /\ 0 \in 0 .. K
      BY <3>1
    <3> QED
      BY <3>2
  <2>2. \A n \in 0 .. K - 1 : n \in T => n + 1 \in T
    <3> TAKE n \in 0 .. K - 1
    <3> HAVE n \in T
    <3>1. g[n + 1] = G[g[n]] /\ g[n] \in SUBSET Z /\ g[n + 1] \in SUBSET Z
      OBVIOUS
    <3>2. X \subseteq g[n + 1]
      BY <3>1
    <3>3. CASE G[g[n]] = g[n]
      BY <3>1, <3>2, <3>3
    <3>4. CASE G[g[n]] # g[n]
      <4>1. PICK z \in U : z \in g[n + 1] /\ z \notin g[n]
        BY <3>1, <3>4
      <4>2. (g[n] \cap U) \cup {z} \subseteq g[n + 1] \cap U
        BY <3>1, <4>1
      <4>3. Cardinality((g[n] \cap U) \cup {z}) = Cardinality(g[n] \cap U) + 1
        BY <2>0, <4>1, FS_AddElement
      <4>4. Cardinality((g[n] \cap U) \cup {z}) <= Cardinality(g[n + 1] \cap U)
        BY <2>0, <4>2, FS_Subset
      <4>5. Cardinality(g[n] \cap U) >= n
        BY <3>4
      <4>6. Cardinality(g[n] \cap U) \in Nat /\ Cardinality(g[n + 1] \cap U) \in Nat
        BY <2>0
      <4>7. Cardinality(g[n + 1] \cap U) >= n + 1
        BY <4>3, <4>4, <4>5, <4>6
      <4> QED
        BY <3>2, <4>7
    <3> QED
      BY <3>3, <3>4
  <2>3. K \in T
    <3> HIDE DEF T
    <3> QED
      BY <2>1, <2>2, Induction
  <2>4. X \subseteq g[K] /\ (G[g[K]] = g[K] \/ Cardinality(g[K] \cap U) >= K)
    BY <2>3
  <2>5. g[K] \in SUBSET Z
    OBVIOUS
  <2>6. g[K] \subseteq G[g[K]] /\ G[g[K]] \subseteq g[K] \cup U
    BY <2>5
  <2> HIDE DEF T
  <2>7. CASE Cardinality(g[K] \cap U) >= K
    <3>1. g[K] \cap U \in SUBSET U /\ Cardinality(g[K] \cap U) = Cardinality(U)
      BY <2>0, <2>7, FS_Subset, FS_CardinalityType
    <3>2. g[K] \cap U = U
      BY <3>1, FS_Subset
    <3> QED
      BY <2>4, <2>6, <3>2
  <2> QED
    BY <2>4, <2>7
<1>2. ASSUME NEW S \in SUBSET Z, X \subseteq S, \A Y \in SUBSET S : G[Y] \subseteq S
      PROVE  g[K] \subseteq S
  <2> DEFINE T == {n \in 0 .. K : g[n] \subseteq S}
  <2>1. 0 \in T
    BY <1>2
  <2>2. \A n \in 0 .. K - 1 : n \in T => n + 1 \in T
    <3> TAKE n \in 0 .. K - 1
    <3> HAVE n \in T
    <3>1. g[n + 1] = G[g[n]] /\ g[n] \in SUBSET S
      OBVIOUS
    <3> QED
      BY <1>2, <3>1
  <2> HIDE DEF T
  <2>3. K \in T
    BY <2>1, <2>2, Induction
  <2> QED
    BY <2>3 DEF T
<1> QED
  BY <1>1, <1>2 DEF Full

\* A set can be made to grow that often.
LEMMA Growth ==
  ASSUME NEW K \in Nat, NEW Z, NEW X \in SUBSET Z, NEW G \in [SUBSET Z -> SUBSET Z]
  PROVE  \E g : Grows(K, Z, X, G, g)
<1> DEFINE D == SUBSET Z
           H == [n \in 1 .. K |-> G]
<1>1. X \in D /\ \A n \in 1 .. K : \A d \in D : H[n][d] \in D
  OBVIOUS
<1>2. \E g : Loops(K, D, X, H, g)
  <2> HIDE DEF D, H
  <2> QED
    BY <1>1, Recursion
<1>3. \A n \in 1 .. K : H[n] = G
  OBVIOUS
<1> HIDE DEF D, H
<1>4. PICK g : Loops(K, D, X, H, g)
  BY <1>2
<1>5. g \in [0 .. K -> D] /\ g[0] = X /\ \A n \in 1 .. K : g[n] = G[g[n - 1]]
  BY <1>3, <1>4 DEF Loops
<1> QED
  BY <1>5 DEF D, Grows

\* What Flow computes is where the ways lead.
Onward(E, Y) == {e[2] : e \in {f \in E : f[1] \in Y}}

\* R is the least set that holds X and what E leads to from it.
Least(B, E, X, R) ==
  /\ X \subseteq R /\ R \subseteq B
  /\ \A e \in E : e[1] \in R => e[2] \in R
  /\ \A S \in SUBSET B : X \subseteq S /\ (\A e \in E : e[1] \in S => e[2] \in S) => R \subseteq S

\* Reach computes it.
LEMMA ReachIsLeast ==
  ASSUME NEW B, NEW E, E \subseteq B \X B, IsFiniteSet(E), NEW X \in SUBSET B
  PROVE  Least(B, E, X, Reach(E, X))
<1> DEFINE K == Cardinality(E)
           Z == B
           U == {e[2] : e \in E}
           G == [Y \in SUBSET Z |-> Y \cup Onward(E, Y)]
           IsR(f) == f = [n \in 0 .. K |-> IF n = 0 THEN X ELSE f[n - 1] \cup Onward(E, f[n - 1])]
<1>1. K \in Nat
  BY FS_CardinalityType
<1>2. G \in [SUBSET Z -> SUBSET Z] /\ \A Y \in SUBSET Z : Y \subseteq G[Y] /\ G[Y] \subseteq Y \cup U
  <2>1. \A Y \in SUBSET Z : Onward(E, Y) \subseteq U /\ Onward(E, Y) \subseteq Z
    BY DEF Onward
  <2> QED
    BY <2>1
<1>3. IsFiniteSet(U) /\ Cardinality(U) <= K
  <2>1. [e \in E |-> e[2]] \in Surjection(E, U)
    BY DEF Surjection
  <2> QED
    BY <2>1, FS_Surjection
<1>4. PICK g : Grows(K, Z, X, G, g)
  <2>1. X \in SUBSET Z
    OBVIOUS
  <2> HIDE DEF G, K, Z
  <2> QED
    BY <1>1, <1>2, <2>1, Growth
<1>5. IsR(g)
  <2>1. g \in [0 .. K -> SUBSET Z] /\ g[0] = X /\ \A n \in 1 .. K : g[n] = G[g[n - 1]]
    BY <1>4 DEF Grows
  <2>2. \A n \in 0 .. K : g[n] = IF n = 0 THEN X ELSE g[n - 1] \cup Onward(E, g[n - 1])
    <3> TAKE n \in 0 .. K
    <3>1. CASE n # 0
      <4>1. n \in 1 .. K /\ g[n - 1] \in SUBSET Z
        BY <1>1, <2>1, <3>1
      <4>2. g[n] = G[g[n - 1]] /\ G[g[n - 1]] = g[n - 1] \cup Onward(E, g[n - 1])
        BY <2>1, <4>1
      <4> QED
        BY <3>1, <4>2
    <3> QED
      BY <2>1, <3>1
  <2> HIDE DEF G, K, Z
  <2> QED
    BY <2>1, <2>2
<1>6. ASSUME NEW R, IsR(R) PROVE Grows(K, Z, X, G, R)
  <2>0. \A n \in 0 .. K : R[n] = IF n = 0 THEN X ELSE R[n - 1] \cup Onward(E, R[n - 1])
    BY <1>6
  <2>1. R[0] = X /\ \A n \in 1 .. K : R[n] = R[n - 1] \cup Onward(E, R[n - 1])
    <3> HIDE DEF K, IsR
    <3>1. R[0] = X
      <4>1. 0 \in 0 .. K
        BY <1>1
      <4>2. R[0] = IF 0 = 0 THEN X ELSE R[0 - 1] \cup Onward(E, R[0 - 1])
        BY <2>0, <4>1
      <4> QED
        BY <4>2
    <3>2. ASSUME NEW n \in 1 .. K PROVE R[n] = R[n - 1] \cup Onward(E, R[n - 1])
      <4>1. n \in 0 .. K /\ n # 0
        BY <1>1
      <4> QED
        BY <2>0, <4>1
    <3> QED
      BY <3>1, <3>2
  <2> DEFINE T == {n \in 0 .. K : \A m \in 0 .. n : R[m] \in SUBSET Z}
  <2>2. 0 \in T
    BY <1>1, <2>1
  <2>3. \A n \in 0 .. K - 1 : n \in T => n + 1 \in T
    <3> TAKE n \in 0 .. K - 1
    <3> HAVE n \in T
    <3>1. n + 1 \in 1 .. K /\ R[n] \in SUBSET Z
      BY <1>1
    <3>2. R[n + 1] = R[n] \cup Onward(E, R[n])
      BY <2>1, <3>1
    <3>3. Onward(E, R[n]) \subseteq Z
      BY DEF Onward
    <3> HIDE DEF K, Z
    <3> QED
      BY <1>1, <3>1, <3>2, <3>3
  <2>4. \A n \in 0 .. K : R[n] \in SUBSET Z
    <3> HIDE DEF T, K
    <3>1. K \in T
      BY <1>1, <2>2, <2>3, Induction
    <3> QED
      BY <3>1 DEF T
  <2>5. \A n \in 1 .. K : R[n] = G[R[n - 1]]
    <3> TAKE n \in 1 .. K
    <3>1. R[n - 1] \in SUBSET Z
      BY <1>1, <2>4
    <3> QED
      BY <2>1, <3>1
  <2>6. R \in [0 .. K -> SUBSET Z]
    <3>1. DOMAIN R = 0 .. K /\ R = [n \in DOMAIN R |-> R[n]]
      BY <1>6
    <3> HIDE DEF K, Z
    <3> QED
      BY <2>4, <3>1
  <2> HIDE DEF G, K, Z
  <2> QED
    BY <2>1, <2>5, <2>6 DEF Grows
<1> DEFINE R == CHOOSE f : IsR(f)
<1>7. Grows(K, Z, X, G, R)
  <2> HIDE DEF G, K, Z, IsR
  <2> QED
    BY <1>5, <1>6
<1>8. Reach(E, X) = R[K]
  BY DEF Reach, Onward
<1>9. Full(Z, X, G, R[K])
  <2>1. X \in SUBSET Z
    OBVIOUS
  <2> HIDE DEF G, K, Z, R, U
  <2> QED
    BY <1>1, <1>2, <1>3, <1>7, <2>1, Saturation
<1>10. X \subseteq R[K] /\ R[K] \in SUBSET B
  <2>1. R[K] \in SUBSET Z
    <3> HIDE DEF K, Z, R
    <3> QED
      BY <1>1, <1>7 DEF Grows
  <2>2. X \subseteq R[K]
    <3> HIDE DEF K, Z, G, R
    <3> QED
      BY <1>9 DEF Full
  <2> QED
    BY <2>1, <2>2
<1>11. \A e \in E : e[1] \in R[K] => e[2] \in R[K]
  <2>1. G[R[K]] = R[K]
    <3> HIDE DEF K, Z, G, R
    <3> QED
      BY <1>9 DEF Full
  <2>2. Onward(E, R[K]) \subseteq R[K]
    <3> HIDE DEF K, R
    <3> QED
      BY <1>10, <2>1
  <2> HIDE DEF K, R
  <2> QED
    BY <2>2 DEF Onward
<1>12. ASSUME NEW S \in SUBSET B, X \subseteq S, \A e \in E : e[1] \in S => e[2] \in S
       PROVE  R[K] \subseteq S
  <2>1. \A Y \in SUBSET S : G[Y] \subseteq S
    <3> TAKE Y \in SUBSET S
    <3>1. Onward(E, Y) \subseteq S
      BY <1>12 DEF Onward
    <3> QED
      BY <3>1
  <2>2. S \in SUBSET Z
    OBVIOUS
  <2> HIDE DEF K, Z, G, R
  <2> QED
    BY <1>9, <1>12, <2>1, <2>2 DEF Full
<1> HIDE DEF R, K
<1> QED
  BY <1>8, <1>10, <1>11, <1>12 DEF Least

-----------------------------------------------------------------------------
(***************************************************************************)
(* Dominance and natural loops, by the sets that edges do not leave.       *)
(***************************************************************************)
\* Edges among finitely many blocks, all out of blocks that r leads to.
Rooted(B, E, r) ==
  /\ IsFiniteSet(B) /\ r \in B /\ E \subseteq B \X B
  /\ \A e \in E : e[1] \in Reach(E, {r})

\* What is reached without passing a.
Avoiding(E, r, a) == Reach(Without(E, a), {r} \ {a})

LEMMA Ways ==
  ASSUME NEW B, NEW E, NEW D, IsFiniteSet(B), E \subseteq B \X B, D \subseteq E, NEW X \in SUBSET B
  PROVE  Least(B, D, X, Reach(D, X))
<1>1. IsFiniteSet(D)
  <2>1. IsFiniteSet(B \X B)
    BY FS_Product
  <2> QED
    BY <2>1, FS_Subset
<1> QED
  BY <1>1, ReachIsLeast

\* What it means to be reached at all, and without a.
LEMMA Avoided ==
  ASSUME NEW B, NEW E, NEW r, Rooted(B, E, r), NEW a
  PROVE  /\ Least(B, E, {r}, Reach(E, {r}))
         /\ r # a => r \in Avoiding(E, r, a)
         /\ Avoiding(E, r, a) \subseteq B /\ a \notin Avoiding(E, r, a)
         /\ \A e \in E : e[1] \in Avoiding(E, r, a) /\ e[2] # a => e[2] \in Avoiding(E, r, a)
         /\ \A S \in SUBSET B : /\ r # a => r \in S
                                /\ \A e \in E : e[1] \in S /\ e[1] # a /\ e[2] # a => e[2] \in S
                                => Avoiding(E, r, a) \subseteq S
<1> DEFINE W == Without(E, a)
           A == Avoiding(E, r, a)
<1>0. IsFiniteSet(B) /\ E \subseteq B \X B /\ r \in B /\ {r} \in SUBSET B /\ {r} \ {a} \in SUBSET B
  BY DEF Rooted
<1>1. W \subseteq E /\ \A e \in E : e \in W <=> e[1] # a /\ e[2] # a
  BY DEF Without
<1>2. Least(B, E, {r}, Reach(E, {r}))
  BY <1>0, Ways
<1>3. Least(B, W, {r} \ {a}, A)
  <2> HIDE DEF W
  <2>1. Least(B, W, {r} \ {a}, Reach(W, {r} \ {a}))
    BY <1>0, <1>1, Ways
  <2> QED
    BY <2>1 DEF Avoiding, W
<1> HIDE DEF W, A
<1>4. a \notin A
  <2> DEFINE S == B \ {a}
  <2>1. {r} \ {a} \subseteq S /\ \A e \in W : e[1] \in S => e[2] \in S
    BY <1>0, <1>1
  <2>2. S \in SUBSET B
    OBVIOUS
  <2> HIDE DEF S
  <2>3. A \subseteq S
    BY <1>3, <2>1, <2>2 DEF Least
  <2> QED
    BY <2>3 DEF S
<1>5. r # a => r \in A
  BY <1>3 DEF Least
<1>6. \A e \in E : e[1] \in A /\ e[2] # a => e[2] \in A
  BY <1>1, <1>3, <1>4 DEF Least
<1>7. ASSUME NEW S \in SUBSET B, r # a => r \in S,
             \A e \in E : e[1] \in S /\ e[1] # a /\ e[2] # a => e[2] \in S
      PROVE  A \subseteq S
  <2>1. {r} \ {a} \subseteq S /\ \A e \in W : e[1] \in S => e[2] \in S
    BY <1>1, <1>7
  <2> QED
    BY <1>3, <2>1 DEF Least
<1> QED
  BY <1>2, <1>3, <1>4, <1>5, <1>6, <1>7 DEF A, Least

\* What dominates a block dominates its predecessors, or is the block.
LEMMA DominatesBefore ==
  ASSUME NEW B, NEW E, NEW r, Rooted(B, E, r), NEW a, NEW e \in E, Dominates(E, r, a, e[2]), e[2] # a
  PROVE  Dominates(E, r, a, e[1])
<1>1. e[2] \notin Avoiding(E, r, a)
  BY DEF Dominates, Avoiding
<1>2. e[1] \notin Avoiding(E, r, a)
  BY <1>1, Avoided
<1> QED
  BY <1>2 DEF Dominates, Avoiding

LEMMA DominatesLeads ==
  ASSUME NEW B, NEW E, NEW r, Rooted(B, E, r), NEW a \in B, NEW b \in Reach(E, {r}), Dominates(E, r, a, b)
  PROVE  b \in Reach(E, {a})
<1> DEFINE A == Avoiding(E, r, a)
           R == Reach(E, {a})
           V == Reach(E, {r})
           S == A \cup R
<1>1. Least(B, E, {a}, R)
  <2>1. IsFiniteSet(B) /\ E \subseteq B \X B /\ {a} \in SUBSET B
    BY DEF Rooted
  <2> QED
    BY <2>1, Ways
<1>2. /\ Least(B, E, {r}, V) /\ A \subseteq B /\ (r # a => r \in A)
      /\ \A e \in E : e[1] \in A /\ e[2] # a => e[2] \in A
  BY Avoided
<1> HIDE DEF A, R, V
<1>3. S \in SUBSET B /\ r \in S /\ \A e \in E : e[1] \in S => e[2] \in S
  BY <1>1, <1>2 DEF Least
<1>4. V \subseteq S
  <2> HIDE DEF S
  <2> QED
    BY <1>2, <1>3 DEF Least
<1>5. b \in S
  BY <1>4 DEF V
<1>6. b = a \/ b \notin A
  BY DEF Dominates, A, Avoiding
<1>7. b \in R
  BY <1>1, <1>5, <1>6 DEF Least
<1> QED
  BY <1>7 DEF R

LEMMA DominatesOneWay ==
  ASSUME NEW B, NEW E, NEW r, Rooted(B, E, r), NEW a, NEW b \in Reach(E, {r}),
         Dominates(E, r, a, b), Dominates(E, r, b, a)
  PROVE  a = b
<1> SUFFICES ASSUME a # b PROVE FALSE
  OBVIOUS
<1> DEFINE A == Avoiding(E, r, a)
           Z == Avoiding(E, r, b)
           S == A \cap Z
           V == Reach(E, {r})
<1>1. b \notin A /\ a \notin Z
  BY DEF Dominates, Avoiding
<1>2. /\ Least(B, E, {r}, V) /\ A \subseteq B /\ (r # a => r \in A) /\ a \notin A
      /\ \A e \in E : e[1] \in A /\ e[2] # a => e[2] \in A
  BY Avoided
<1>3. /\ Z \subseteq B /\ (r # b => r \in Z) /\ b \notin Z
      /\ \A e \in E : e[1] \in Z /\ e[2] # b => e[2] \in Z
  BY Avoided
<1> HIDE DEF A, Z, V
<1>4. r \in S /\ S \in SUBSET B
  BY <1>1, <1>2, <1>3
<1>5. \A e \in E : e[1] \in S => e[2] \in S
  <2> TAKE e \in E
  <2> HAVE e[1] \in S
  <2>1. e[2] # a
    <3>1. e[2] # b => e[2] \in Z
      BY <1>3
    <3> QED
      BY <1>1, <3>1
  <2>2. e[2] # b
    <3>1. e[2] # a => e[2] \in A
      BY <1>2
    <3> QED
      BY <1>1, <3>1
  <2> QED
    BY <1>2, <1>3, <2>1, <2>2
<1>6. V \subseteq S
  <2> HIDE DEF S
  <2> QED
    BY <1>2, <1>4, <1>5 DEF Least
<1> QED
  BY <1>1, <1>6 DEF V

-----------------------------------------------------------------------------
\* A graph without cycles has a first block in any set of blocks.
LEMMA First ==
  ASSUME NEW B, NEW E, IsFiniteSet(B), E \subseteq B \X B, Acyclic(E), NEW C \in SUBSET B, C # {}
  PROVE  \E h \in C : \A e \in E : e[2] = h => e[1] \notin C
<1> DEFINE R(x) == Reach(E, {x})
           ix == [x \in B |-> Cardinality(R(x))]
           K == Cardinality(B)
<1>1. \A x \in B : Least(B, E, {x}, R(x))
  BY Ways
<1>2. \A e \in E : e[1] \in B /\ e[2] \in B /\ e[1] \notin R(e[2])
  BY DEF Acyclic
<1> HIDE DEF R
<1>3. \A x \in B : /\ x \in R(x) /\ R(x) \subseteq B /\ \A e \in E : e[1] \in R(x) => e[2] \in R(x)
                   /\ \A S \in SUBSET B : x \in S /\ (\A e \in E : e[1] \in S => e[2] \in S) => R(x) \subseteq S
  BY <1>1 DEF Least
<1>4. K \in Nat /\ \A x \in B : IsFiniteSet(R(x)) /\ Cardinality(R(x)) \in Nat /\ Cardinality(R(x)) <= K
  <2>1. K \in Nat
    BY FS_CardinalityType
  <2>2. \A x \in B : IsFiniteSet(R(x)) /\ Cardinality(R(x)) <= K
    BY <1>3, FS_Subset
  <2> QED
    BY <2>1, <2>2, FS_CardinalityType
<1>5. \A x \in C : ix[x] \in 0 .. K
  BY <1>4
<1>6. PICK h \in C : \A y \in C : ix[y] <= ix[h]
  <2> HIDE DEF ix, K
  <2> QED
    BY <1>4, <1>5, Topmost
<1>7. \A e \in E : e[2] = h => e[1] \notin C
  <2> SUFFICES ASSUME NEW e \in E, e[2] = h, e[1] \in C PROVE FALSE
    OBVIOUS
  <2>1. e[1] \in B /\ h \in B /\ e[1] \notin R(h)
    BY <1>2
  <2>2. h \in R(e[1]) /\ e[1] \in R(e[1])
    BY <1>3, <2>1
  <2>3. R(h) \subseteq R(e[1])
    <3>1. R(e[1]) \in SUBSET B /\ \A f \in E : f[1] \in R(e[1]) => f[2] \in R(e[1])
      BY <1>3, <2>1
    <3> QED
      BY <1>3, <2>1, <2>2, <3>1
  <2>4. R(h) # R(e[1])
    BY <2>1, <2>2
  <2>5. Cardinality(R(h)) < Cardinality(R(e[1]))
    <3>1. /\ IsFiniteSet(R(e[1])) /\ Cardinality(R(h)) \in Nat /\ Cardinality(R(e[1])) \in Nat
      BY <1>4, <2>1
    <3>2. Cardinality(R(h)) <= Cardinality(R(e[1])) /\ (Cardinality(R(h)) = Cardinality(R(e[1])) => R(h) = R(e[1]))
      BY <2>3, <3>1, FS_Subset
    <3> QED
      BY <2>4, <3>1, <3>2
  <2>6. ix[e[1]] <= ix[h]
    BY <1>6, <2>1
  <2> QED
    BY <1>4, <2>1, <2>5, <2>6
<1> QED
  BY <1>7

\* From every block of C an edge leads on in C until all of C is seen.
Strong(E, C) ==
  \A S \in SUBSET C : S # {} /\ (\A e \in E : e[1] \in S /\ e[2] \in C => e[2] \in S) => S = C

\* In a reducible graph one block of such a set dominates the others.
LEMMA Header ==
  ASSUME NEW B, NEW E, NEW r, Rooted(B, E, r), Reducible(E, r), NEW C \in SUBSET B, C # {}, Strong(E, C)
  PROVE  \E h \in C : \A c \in C : Dominates(E, r, h, c)
<1> DEFINE F == E \ BackEdges(E, r)
<1>1. IsFiniteSet(B) /\ E \subseteq B \X B /\ F \subseteq B \X B /\ Acyclic(F)
  BY DEF Rooted, Reducible
<1>2. PICK h \in C : \A e \in F : e[2] = h => e[1] \notin C
  <2> HIDE DEF F
  <2> QED
    BY <1>1, First
<1> DEFINE S == {c \in C : ~ Dominates(E, r, h, c)}
<1>3. h \notin S
  BY DEF Dominates
<1>4. \A e \in E : e[1] \in S /\ e[2] \in C => e[2] \in S
  <2> SUFFICES ASSUME NEW e \in E, e[1] \in S, e[2] \in C, Dominates(E, r, h, e[2]) PROVE FALSE
    OBVIOUS
  <2>1. CASE e[2] = h
    <3>1. e \notin F
      BY <1>2, <2>1
    <3>2. Dominates(E, r, e[2], e[1])
      BY <3>1 DEF BackEdges
    <3> QED
      BY <2>1, <3>2
  <2>2. CASE e[2] # h
    BY <2>2, DominatesBefore
  <2> QED
    BY <2>1, <2>2
<1>5. S = {}
  <2>1. S \in SUBSET C
    OBVIOUS
  <2> HIDE DEF S
  <2> QED
    BY <1>3, <1>4, <2>1 DEF Strong
<1> QED
  BY <1>5

-----------------------------------------------------------------------------
\* A natural loop: nothing enters it but over its header, which dominates it.
LEMMA LoopEntry ==
  ASSUME NEW B, NEW E, NEW r, Rooted(B, E, r), NEW h \in Reach(E, {r})
  PROVE  /\ h \in NaturalLoop(E, r, h) /\ NaturalLoop(E, r, h) \subseteq Reach(E, {r})
         /\ \A b \in NaturalLoop(E, r, h) : Dominates(E, r, h, b)
         /\ \A e \in E : e[2] \in NaturalLoop(E, r, h) /\ (e[2] # h \/ Dominates(E, r, h, e[1]))
                         => e[1] \in NaturalLoop(E, r, h)
<1> DEFINE L == NaturalLoop(E, r, h)
           ends == {e[1] : e \in {back \in BackEdges(E, r) : back[2] = h}}
           W == Without(E, h)
           R(b) == Reach(W, {b})
           H == Reach(E, {h})
           V == Reach(E, {r})
           A == Avoiding(E, r, h)
<1>0. IsFiniteSet(B) /\ E \subseteq B \X B /\ r \in B /\ V \subseteq B /\ Least(B, E, {r}, V)
  <2>1. Least(B, E, {r}, V)
    BY Avoided
  <2> QED
    BY <2>1 DEF Rooted, Least
<1>1. h \in B
  BY <1>0
<1>2. Least(B, E, {h}, H)
  BY <1>0, <1>1, Ways
<1>3. W \subseteq E /\ \A e \in E : e \in W <=> e[1] # h /\ e[2] # h
  BY DEF Without
<1>4. \A b \in B : Least(B, W, {b}, R(b))
  BY <1>0, <1>3, Ways
<1>5. L = {h} \cup {b \in H : ends \cap R(b) # {}}
  BY DEF NaturalLoop
<1>6. /\ (r # h => r \in A) /\ A \subseteq B /\ h \notin A
      /\ \A e \in E : e[1] \in A /\ e[2] # h => e[2] \in A
  BY Avoided
<1>7. \A a \in ends : Dominates(E, r, h, a) /\ a \in V
  <2> TAKE a \in ends
  <2>1. PICK e \in BackEdges(E, r) : e[2] = h /\ a = e[1]
    OBVIOUS
  <2> QED
    BY <2>1 DEF BackEdges, Rooted
<1>8. \A b \in B : b \notin A => Dominates(E, r, h, b)
  BY DEF Dominates, Avoiding
<1>9. \A b \in B : Dominates(E, r, h, b) /\ b # h => b \notin A
  BY DEF Dominates, Avoiding
<1>10. \A e \in E : e[1] \in V /\ e[2] \in V
  BY <1>0 DEF Rooted, Least
<1>11. \A b \in V : Dominates(E, r, h, b) => b \in H
  BY <1>1, DominatesLeads
<1>12. \A e \in E : e[2] = h /\ Dominates(E, r, h, e[1]) => e[1] \in ends
  BY DEF BackEdges
<1>13. \A e \in E : Dominates(E, r, h, e[2]) /\ e[2] # h => Dominates(E, r, h, e[1])
  BY DominatesBefore
<1> HIDE DEF L, ends, W, R, H, V, A
<1>14. H \subseteq V
  BY <1>0, <1>1, <1>2 DEF Least, V
<1>15. ASSUME NEW b \in B, b \in A PROVE R(b) \subseteq A
  <2>1. \A e \in W : e[1] \in A => e[2] \in A
    BY <1>3, <1>6
  <2> QED
    BY <1>4, <1>6, <1>15, <2>1 DEF Least
<1>16. ASSUME NEW b \in L PROVE Dominates(E, r, h, b)
  <2>1. CASE b = h
    BY <2>1 DEF Dominates
  <2>2. CASE b # h
    <3>1. b \in H /\ b \in B
      BY <1>0, <1>5, <1>14, <2>2
    <3>2. PICK a \in ends : a \in R(b)
      BY <1>5, <2>2
    <3>3. a # h
      <4> DEFINE S == B \ {h}
      <4>1. b \in S /\ S \in SUBSET B /\ \A e \in W : e[1] \in S => e[2] \in S
        BY <1>0, <1>3, <2>2, <3>1
      <4> HIDE DEF S
      <4>2. R(b) \subseteq S
        BY <1>4, <3>1, <4>1 DEF Least
      <4> QED
        BY <3>2, <4>2 DEF S
    <3>4. a \notin A
      BY <1>0, <1>7, <1>9, <3>3
    <3>5. b \notin A
      BY <1>15, <3>1, <3>2, <3>4
    <3> QED
      BY <1>8, <3>1, <3>5
  <2> QED
    BY <2>1, <2>2
<1>17. h \in L /\ L \subseteq V
  BY <1>5, <1>14 DEF V
<1>18. ASSUME NEW e \in E, e[2] \in L, e[2] # h \/ Dominates(E, r, h, e[1]) PROVE e[1] \in L
  <2>1. Dominates(E, r, h, e[1])
    BY <1>13, <1>16, <1>18
  <2>2. e[1] \in H /\ e[1] \in B
    BY <1>0, <1>10, <1>11, <2>1
  <2>3. e[1] \in R(e[1])
    BY <1>4, <2>2 DEF Least
  <2>4. CASE e[1] = h
    BY <1>17, <2>4
  <2>5. CASE e[2] = h
    BY <1>5, <1>12, <2>1, <2>2, <2>3, <2>5
  <2>6. CASE e[1] # h /\ e[2] # h
    <3>1. PICK a \in ends : a \in R(e[2])
      BY <1>5, <1>18, <2>6
    <3>2. e \in W /\ e[2] \in B
      BY <1>0, <1>3, <2>6
    <3>3. R(e[2]) \subseteq R(e[1])
      <4> DEFINE S == R(e[1])
      <4>1. S \in SUBSET B /\ e[2] \in S /\ \A f \in W : f[1] \in S => f[2] \in S
        BY <1>4, <2>2, <2>3, <3>2 DEF Least
      <4> HIDE DEF S
      <4>2. R(e[2]) \subseteq S
        BY <1>4, <3>2, <4>1 DEF Least
      <4> QED
        BY <4>2 DEF S
    <3> QED
      BY <1>5, <2>2, <3>1, <3>3
  <2> QED
    BY <2>4, <2>5, <2>6
<1> QED
  BY <1>16, <1>17, <1>18 DEF L, V

\* A natural loop leads from its header to all of it, and back.
LEMMA LoopStrong ==
  ASSUME NEW B, NEW E, NEW r, Rooted(B, E, r), NEW h \in Reach(E, {r})
  PROVE  Strong(E, NaturalLoop(E, r, h))
<1> DEFINE L == NaturalLoop(E, r, h)
           ends == {e[1] : e \in {back \in BackEdges(E, r) : back[2] = h}}
           W == Without(E, h)
           R(b) == Reach(W, {b})
           H == Reach(E, {h})
           V == Reach(E, {r})
           Q == {b \in B : ends \cap R(b) # {}}
<1>0. IsFiniteSet(B) /\ E \subseteq B \X B /\ V \subseteq B
  <2>1. Least(B, E, {r}, V)
    BY Avoided
  <2> QED
    BY <2>1 DEF Rooted, Least
<1>1. h \in B
  BY <1>0
<1>2. Least(B, E, {h}, H)
  BY <1>0, <1>1, Ways
<1>3. W \subseteq E /\ \A e \in E : e \in W <=> e[1] # h /\ e[2] # h
  BY DEF Without
<1>4. \A b \in B : Least(B, W, {b}, R(b))
  BY <1>0, <1>3, Ways
<1>5. L = {h} \cup {b \in H : ends \cap R(b) # {}}
  BY DEF NaturalLoop
<1>6. \A a \in ends : \E e \in E : e[1] = a /\ e[2] = h
  BY DEF BackEdges
<1> HIDE DEF L, ends, W, R, H, V
<1>7. L = {h} \cup (H \cap Q) /\ H \subseteq B /\ h \in L
  BY <1>2, <1>5 DEF Least
<1>8. \A e \in W : e[2] \in Q => e[1] \in Q
  <2> TAKE e \in W
  <2> HAVE e[2] \in Q
  <2>1. e[1] \in B /\ e[2] \in B /\ e[1] \in R(e[1]) /\ e[2] \in R(e[2])
    BY <1>0, <1>3, <1>4 DEF Least
  <2>2. R(e[2]) \subseteq R(e[1])
    <3> DEFINE S == R(e[1])
    <3>1. S \in SUBSET B /\ e[2] \in S /\ \A f \in W : f[1] \in S => f[2] \in S
      BY <1>4, <2>1 DEF Least
    <3> HIDE DEF S
    <3>2. R(e[2]) \subseteq S
      BY <1>4, <2>1, <3>1 DEF Least
    <3> QED
      BY <3>2 DEF S
  <2> QED
    BY <2>1, <2>2
<1>9. ASSUME NEW S \in SUBSET L, S # {}, \A e \in E : e[1] \in S /\ e[2] \in L => e[2] \in S
      PROVE  S = L
  <2>1. h \in S
    <3> SUFFICES ASSUME h \notin S PROVE FALSE
      OBVIOUS
    <3>1. PICK b \in S : b \in H /\ b \in Q
      BY <1>7, <1>9
    <3>2. PICK a \in ends : a \in R(b)
      BY <3>1
    <3> DEFINE T(x) == S \cup {z \in B : x \notin R(z)}
    <3>3. b \in T(a) /\ T(a) \in SUBSET B /\ b \in B
      BY <1>7, <3>1
    <3>4. \A e \in W : e[1] \in T(a) => e[2] \in T(a)
      <4> TAKE e \in W
      <4>1. e[1] \in B /\ e[2] \in B /\ e \in E /\ e[2] # h
        BY <1>0, <1>3
      <4>2. CASE e[1] \in S
        <5>1. e[1] \in H /\ e[2] \in H
          BY <1>2, <1>7, <1>9, <4>1, <4>2 DEF Least
        <5>2. CASE a \in R(e[2])
          <6>1. e[2] \in L
            BY <1>7, <4>1, <5>1, <5>2
          <6> QED
            BY <1>9, <4>1, <4>2, <6>1
        <5> QED
          BY <4>1, <5>2
      <4>3. CASE a \notin R(e[1])
        <5>1. a \notin R(e[2])
          <6> SUFFICES ASSUME a \in R(e[2]) PROVE FALSE
            OBVIOUS
          <6> DEFINE Z == R(e[1])
          <6>1. Z \in SUBSET B /\ e[2] \in Z /\ \A f \in W : f[1] \in Z => f[2] \in Z
            BY <1>4, <4>1 DEF Least
          <6> HIDE DEF Z
          <6>2. R(e[2]) \subseteq Z
            BY <1>4, <4>1, <6>1 DEF Least
          <6> QED
            BY <4>3, <6>2 DEF Z
        <5> QED
          BY <4>1, <5>1
      <4> QED
        BY <4>2, <4>3
    <3> DEFINE X == T(a)
    <3>5. X \in SUBSET B /\ b \in X /\ \A e \in W : e[1] \in X => e[2] \in X
      BY <3>3, <3>4
    <3>6. a \in X
      <4> HIDE DEF X
      <4>1. R(b) \subseteq X
        BY <1>4, <3>3, <3>5 DEF Least
      <4> QED
        BY <3>2, <4>1
    <3>7. a \in S
      <4>1. a \in B /\ a \in R(a)
        <5>1. a \in B
          BY <3>5, <3>6
        <5> HIDE DEF X
        <5> QED
          BY <1>4, <5>1 DEF Least
      <4> QED
        BY <3>6, <4>1
    <3>8. PICK e \in E : e[1] = a /\ e[2] = h
      BY <1>6
    <3> QED
      BY <1>7, <1>9, <3>7, <3>8
  <2> DEFINE X == S \cup (B \ (Q \cup {h}))
  <2>2. X \in SUBSET B /\ h \in X
    <3>1. S \subseteq B
      BY <1>1, <1>7, <1>9
    <3> QED
      BY <2>1, <3>1
  <2>3. \A e \in E : e[1] \in X /\ e[1] \in H => e[2] \in X
    <3> TAKE e \in E
    <3> HAVE e[1] \in X /\ e[1] \in H
    <3>1. e[1] \in B /\ e[2] \in B /\ e[2] \in H
      BY <1>0, <1>2 DEF Least
    <3>2. CASE e[2] = h
      BY <2>1, <3>2
    <3>3. CASE e[2] # h /\ e[1] \in S
      BY <1>7, <1>9, <3>1, <3>3
    <3>4. CASE e[2] # h /\ e[1] \notin S
      <4>1. e \in W /\ e[1] \notin Q
        BY <1>3, <2>1, <3>4
      <4> QED
        BY <1>8, <3>1, <3>4, <4>1
    <3> QED
      BY <3>2, <3>3, <3>4
  <2>4. H \subseteq X
    <3> DEFINE Z == X \cap H
    <3>1. Z \in SUBSET B /\ h \in Z /\ \A e \in E : e[1] \in Z => e[2] \in Z
      BY <1>2, <2>2, <2>3 DEF Least
    <3> HIDE DEF Z
    <3>2. H \subseteq Z
      BY <1>2, <3>1 DEF Least
    <3> QED
      BY <3>2 DEF Z
  <2> QED
    BY <1>7, <1>9, <2>1, <2>4
<1> QED
  BY <1>9 DEF Strong, L

\* Whatever leads from one block to the next and back, under its block h, is in its loop.
LEMMA LoopWhole ==
  ASSUME NEW B, NEW E, NEW r, Rooted(B, E, r), NEW C \in SUBSET Reach(E, {r}), Strong(E, C),
         NEW h \in C, \A c \in C : Dominates(E, r, h, c)
  PROVE  C \subseteq NaturalLoop(E, r, h)
<1> DEFINE L == NaturalLoop(E, r, h)
           S == C \ L
<1>1. /\ h \in L
      /\ \A e \in E : e[2] \in L /\ (e[2] # h \/ Dominates(E, r, h, e[1])) => e[1] \in L
  BY LoopEntry
<1> HIDE DEF L
<1>2. S \in SUBSET C /\ h \notin S /\ \A e \in E : e[1] \in S /\ e[2] \in C => e[2] \in S
  BY <1>1
<1>3. S = {}
  <2> HIDE DEF S
  <2> QED
    BY <1>2 DEF Strong
<1> QED
  BY <1>3 DEF L

\* What has a part in a loop but not its header is inside.
LEMMA LoopInside ==
  ASSUME NEW B, NEW E, NEW r, Rooted(B, E, r), NEW C \in SUBSET Reach(E, {r}), Strong(E, C),
         NEW h \in Reach(E, {r}), h \notin C, NEW b \in C, b \in NaturalLoop(E, r, h)
  PROVE  C \subseteq NaturalLoop(E, r, h)
<1> DEFINE L == NaturalLoop(E, r, h)
           S == C \ L
<1>1. \A e \in E : e[2] \in L /\ (e[2] # h \/ Dominates(E, r, h, e[1])) => e[1] \in L
  BY LoopEntry
<1> HIDE DEF L
<1>2. S \in SUBSET C /\ b \notin S /\ \A e \in E : e[1] \in S /\ e[2] \in C => e[2] \in S
  BY <1>1 DEF L
<1>3. S = {}
  <2> HIDE DEF S
  <2> QED
    BY <1>2 DEF Strong
<1> QED
  BY <1>3 DEF L

-----------------------------------------------------------------------------
(***************************************************************************)
(* A graph that is carried to another one, with new names for the blocks.  *)
(***************************************************************************)
\* What is reached without a is carried to what is reached without the name of a.
LEMMA CarriedWays ==
  ASSUME NEW B, NEW E, NEW r, Rooted(B, E, r), NEW C, NEW D, NEW q, Rooted(C, D, q),
         NEW g \in [B -> C], g[r] = q, \A e \in E : <<g[e[1]], g[e[2]]>> \in D,
         NEW a \in B, \A x \in B : g[x] = g[a] => x = a
  PROVE  \A x \in Avoiding(E, r, a) : g[x] \in Avoiding(D, q, g[a])
<1> DEFINE A == Avoiding(D, q, g[a])
           S == {x \in B : g[x] \in A}
<1>1. r \in B /\ E \subseteq B \X B
  BY DEF Rooted
<1>2. /\ q # g[a] => q \in A
      /\ \A e \in D : e[1] \in A /\ e[2] # g[a] => e[2] \in A
  BY Avoided
<1>3. r # a => r \in S
  BY <1>1, <1>2
<1>4. ASSUME NEW e \in E, e[1] \in S, e[1] # a, e[2] # a PROVE e[2] \in S
  <2>1. <<g[e[1]], g[e[2]]>> \in D /\ e[2] \in B /\ g[e[1]] \in A /\ g[e[2]] # g[a]
    BY <1>1, <1>4
  <2> HIDE DEF A
  <2>2. g[e[2]] \in A
    BY <1>2, <2>1
  <2> QED
    BY <2>1, <2>2
<1>5. S \in SUBSET B
  OBVIOUS
<1> HIDE DEF S
<1>6. \A Z \in SUBSET B : /\ r # a => r \in Z
                          /\ \A e \in E : e[1] \in Z /\ e[1] # a /\ e[2] # a => e[2] \in Z
                          => Avoiding(E, r, a) \subseteq Z
  BY Avoided
<1>7. Avoiding(E, r, a) \subseteq S
  BY <1>3, <1>4, <1>5, <1>6
<1> QED
  BY <1>7 DEF S

\* A strong set is carried to a strong set.
LEMMA CarriedStrong ==
  ASSUME NEW E, NEW D, NEW g, NEW C, Strong(E, C),
         \A e \in E : e[1] \in C /\ e[2] \in C => <<g[e[1]], g[e[2]]>> \in D,
         NEW G, G = {g[x] : x \in C}
  PROVE  Strong(D, G)
<1> SUFFICES ASSUME NEW S \in SUBSET {g[x] : x \in C}, S # {},
                    \A d \in D : d[1] \in S /\ d[2] \in {g[x] : x \in C} => d[2] \in S
             PROVE  S = {g[x] : x \in C}
  BY DEF Strong
<1> DEFINE P == {x \in C : g[x] \in S}
<1>1. P \in SUBSET C /\ P # {}
  OBVIOUS
<1>2. ASSUME NEW e \in E, e[1] \in P, e[2] \in C PROVE e[2] \in P
  <2>1. <<g[e[1]], g[e[2]]>> \in D /\ g[e[1]] \in S /\ g[e[2]] \in {g[x] : x \in C}
    BY <1>2
  <2> QED
    BY <1>2, <2>1
<1> HIDE DEF P
<1>3. P = C
  BY <1>1, <1>2 DEF Strong
<1> QED
  BY <1>3 DEF P
=============================================================================
