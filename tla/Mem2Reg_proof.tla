---------------------------- MODULE Mem2Reg_proof ----------------------------
(***************************************************************************)
(* Mem2Reg for every set of blocks, graph and code.  The dominators it is  *)
(* given are those of the definition: Dominators_proof has the argument;   *)
(* what is left is that nothing disturbs the result before it is used, and *)
(* that they are not computed a second time.  From the tree, the frontiers *)
(* and the phis these put in, rename's stacks are scoped, what replaces a  *)
(* load is the definition that reaches it, and the program the pass leaves *)
(* has, at every load, the value of the program it was given.              *)
(***************************************************************************)
EXTENDS Mem2Reg, FiniteSetTheorems, SequenceTheorems, TLAPS

\* The same module as D, with what is proved about it.
DP == INSTANCE Dominators_proof WITH calls <- visits

LEMMA SameInit == D!Init <=> DP!Init
  BY DEF D!Init, DP!Init, D!Inputs, DP!Inputs, D!F!Graphs, DP!F!Graphs, D!F!Reversed,
         DP!F!Reversed, D!F!Succs, DP!F!Succs, D!Cardinality, DP!Cardinality,
         D!F!Cardinality, DP!F!Cardinality

LEMMA SameCall == \A b : D!Call(b) <=> DP!Call(b)
  BY DEF D!Call, DP!Call, D!Top, DP!Top, D!Last, DP!Last, D!F!Succs, DP!F!Succs

LEMMA SameNumber == D!Number <=> DP!Number
  BY DEF D!Number, DP!Number, D!Top, DP!Top, D!Last, DP!Last, D!Front, DP!Front

LEMMA SamePrune == D!Prune <=> DP!Prune
  BY DEF D!Prune, DP!Prune, D!Order, DP!Order, D!Reverse, DP!Reverse

LEMMA SameImprove == D!Improve <=> DP!Improve
  BY DEF D!Improve, DP!Improve, D!SetToSeqs, DP!SetToSeqs, D!Known, DP!Known,
         D!Folded, DP!Folded, D!intersect, DP!intersect, D!Climb, DP!Climb,
         D!Index, DP!Index, D!F!Preds, DP!F!Preds, D!Cardinality, DP!Cardinality

LEMMA SameRepeat == D!Repeat <=> DP!Repeat
  BY DEF D!Repeat, DP!Repeat, D!Order, DP!Order, D!Reverse, DP!Reverse, D!Again, DP!Again

LEMMA SameGenerate == D!Generate <=> DP!Generate
  BY DEF D!Generate, DP!Generate, D!Again, DP!Again, D!JoinsAt, DP!JoinsAt, D!Under, DP!Under,
         D!Upward, DP!Upward, D!F!Preds, DP!F!Preds, D!Cardinality, DP!Cardinality

LEMMA SameNext == D!Next <=> DP!Next
  BY SameCall, SameNumber, SamePrune, SameImprove, SameRepeat, SameGenerate
     DEF D!Next, DP!Next

LEMMA SameDominance == D!DominatesIsDominance <=> DP!DominatesIsDominance
  BY DEF D!DominatesIsDominance, DP!DominatesIsDominance, D!is_dominator, DP!is_dominator,
         D!Dom, DP!Dom, D!Upward, DP!Upward, D!Finished, DP!Finished,
         D!F!Dominates, DP!F!Dominates, D!F!Reach, DP!F!Reach, D!F!Without, DP!F!Without,
         D!Cardinality, DP!Cardinality, D!F!Cardinality, DP!F!Cardinality

LEMMA SameFrontier == D!FrontierIsFrontier <=> DP!FrontierIsFrontier
  BY DEF D!FrontierIsFrontier, DP!FrontierIsFrontier, D!Dom, DP!Dom, D!Finished, DP!Finished,
         D!F!Dominates, DP!F!Dominates, D!F!Preds, DP!F!Preds, D!F!Reach, DP!F!Reach,
         D!F!Without, DP!F!Without, D!F!Cardinality, DP!F!Cardinality

-----------------------------------------------------------------------------
\* Once the pass looks at the code, no step of Dominators can be taken.
MInv ==
  /\ root \in Block
  /\ code = <<>> => DP!Inv
  /\ code # <<>> => visits = <<>> /\ pass = <<>> /\ idom[root] = root /\ dom_frontier # <<>>

LEMMA Graph == DP!GraphAssumption
  BY NullAssumption DEF D!GraphAssumption, DP!GraphAssumption, D!IsFiniteSet, DP!IsFiniteSet

LEMMA InitMInv == Init => MInv
<1> SUFFICES ASSUME Init PROVE MInv
  OBVIOUS
<1>1. DP!Init /\ code = <<>>
  BY SameInit DEF Init
<1>2. DP!Inv
  BY <1>1, Graph, DP!InitInv
<1> QED
  BY <1>1, <1>2 DEF MInv, DP!Inv, DP!GraphOK

LEMMA NextMInv == MInv /\ [Next]_vars => MInv'
<1> SUFFICES ASSUME MInv, [Next]_vars PROVE MInv'
  OBVIOUS
<1>1. CASE ComputeDominators
  <2>1. DP!Next /\ code' = code
    BY <1>1, SameNext DEF ComputeDominators
  <2>2. CASE code = <<>>
    <3>1. DP!Inv'
      BY <2>1, <2>2, Graph, DP!NextInv DEF MInv
    <3> QED
      BY <2>1, <2>2, <3>1 DEF MInv, DP!Inv, DP!GraphOK
  <2>3. CASE code # <<>>
    <3>1. root # NoBlock
      BY NullAssumption DEF D!GraphAssumption, MInv
    <3> QED
      BY <1>1, <2>3, <3>1 DEF ComputeDominators, MInv, D!Next, D!Call, D!Number, D!Prune, D!Improve,
         D!Repeat, D!Generate
  <2> QED
    BY <2>2, <2>3
<1>2. CASE Collect
  <2>1. /\ dom_frontier # <<>> /\ code = <<>> /\ code' \in [blocks -> Codes(Cardinality(blocks))]
        /\ UNCHANGED <<root, visits, pass, idom, dom_frontier>>
    BY <1>2 DEF Collect, D!Finished
  <2>2. visits = <<>> /\ pass = <<>> /\ idom[root] = root /\ root \in blocks
    BY <2>1 DEF MInv, DP!Inv, DP!Searching, DP!Improving, DP!Numbered
  <2>3. code' # <<>>
    BY <2>1, <2>2
  <2> QED
    BY <2>1, <2>2, <2>3 DEF MInv
<1>3. CASE UNCHANGED <<domVars, code>>
  <2>1. /\ UNCHANGED DP!vars /\ code' = code /\ root' = root
        /\ UNCHANGED <<visits, pass, idom, dom_frontier>>
    BY <1>3 DEF domVars, DP!vars
  <2>2. DP!Inv => DP!Inv'
    BY <2>1, Graph, DP!NextInv
  <2> QED
    BY <2>1, <2>2 DEF MInv
<1>4. ComputeDominators \/ Collect \/ UNCHANGED <<domVars, code>>
  BY DEF Next, vars, InsertPhis, Start, Recur, Enter, Return, Load, Store, Goto
<1> QED
  BY <1>1, <1>2, <1>3, <1>4

-----------------------------------------------------------------------------
(***************************************************************************)
(* When Mem2Reg, or a pass over the reversed graph, begins to use them,    *)
(* is_dominator and the frontiers are what the definition of dominance     *)
(* says, for graphs of any size and shape.                                 *)
(***************************************************************************)
THEOREM Dominance == Spec => []DominatesIsDominance
<1>1. MInv => DominatesIsDominance
  BY Graph, DP!DominatorsFound, DP!FrontiersFound, SameDominance, SameFrontier
     DEF MInv, DominatesIsDominance
<1> QED
  BY <1>1, InitMInv, NextMInv, PTL DEF Spec

\* What OnlyClimbs says of one step.
LEMMA StepOnlyClimbs ==
  ASSUME MInv, [Next]_vars
  PROVE  \A b \in Block \ {root} :
           idom'[b] # idom[b] =>
             /\ D!Index(b) < D!Index(idom'[b])
             /\ idom[b] # NoBlock => D!Index(idom[b]) < D!Index(idom'[b])
<1>1. CASE code = <<>> /\ ComputeDominators
  <2>1. DP!Inv /\ DP!Next
    BY <1>1, SameNext DEF ComputeDominators, MInv
  <2>2. DP!Climbing
    BY <2>1, Graph, DP!StepClimbs
  <2> QED
    BY <2>2 DEF DP!Climbing, DP!Index, D!Index
<1>2. CASE UNCHANGED idom
  BY <1>2
<1>3. CASE code # <<>> /\ ComputeDominators
  <2>1. root # NoBlock
    BY NullAssumption DEF D!GraphAssumption, MInv
  <2> QED
    BY <1>3, <2>1 DEF ComputeDominators, MInv, D!Next, D!Call, D!Number, D!Prune, D!Improve,
         D!Repeat, D!Generate
<1>4. ComputeDominators \/ UNCHANGED idom
  BY DEF Next, vars, domVars, Collect, InsertPhis, Start, Recur, Enter, Return, Load, Store, Goto
<1> QED
  BY <1>1, <1>2, <1>3, <1>4

(***************************************************************************)
(* On the way there an immediate dominator only moves up the post-order,   *)
(* so the passes come to an end.                                           *)
(***************************************************************************)
THEOREM Climbs == Spec => OnlyClimbs
<1>1. MInv /\ [Next]_vars =>
        [\A b \in Block \ {root} :
           idom'[b] # idom[b] =>
             /\ D!Index(b) < D!Index(idom'[b])
             /\ idom[b] # NoBlock => D!Index(idom[b]) < D!Index(idom'[b])]_(D!vars)
  BY StepOnlyClimbs
<1> QED
  BY <1>1, InitMInv, NextMInv, PTL DEF Spec, OnlyClimbs, D!OnlyClimbs

-----------------------------------------------------------------------------
(***************************************************************************)
(* Sequences of sequences, and the folds that rename is written with.      *)
(***************************************************************************)
\* FlattenSeq computes step by step.
LEMMA FlattenNext ==
  ASSUME NEW T, NEW n \in Nat, NEW s \in [1 .. n -> Seq(T)]
  PROVE  /\ FlattenSeq(s) \in Seq(T)
         /\ n = 0 => FlattenSeq(s) = <<>>
         /\ n # 0 => FlattenSeq(s) = FlattenSeq([i \in 1 .. n - 1 |-> s[i]]) \o s[n]
<1> DEFINE IsFlat(q, f) == f = [i \in 1 .. Len(q) |-> IF i = 1 THEN q[i] ELSE f[i - 1] \o q[i]]
           Flat(q) == CHOOSE f : IsFlat(q, f)
<1>1. \A q : Len(q) # 0 => FlattenSeq(q) = Flat(q)[Len(q)]
  BY DEF FlattenSeq
<1>2. \A q : Len(q) = 0 => FlattenSeq(q) = q
  BY DEF FlattenSeq
<1> HIDE DEF Flat
<1>3. ASSUME NEW m \in Nat \ {0}, NEW q \in [1 .. m -> Seq(T)]
      PROVE  /\ \A i \in 1 .. m : Flat(q)[i] \in Seq(T)
             /\ Flat(q)[1] = q[1] /\ \A i \in 2 .. m : Flat(q)[i] = Flat(q)[i - 1] \o q[i]
  <2> DEFINE G == [i \in 1 .. m - 1 |-> [d \in Seq(T) |-> d \o q[i + 1]]]
  <2>0. Len(q) = m
    OBVIOUS
  <2>1. PICK g : DP!Loops(m - 1, Seq(T), q[1], G, g)
    <3>1. m - 1 \in Nat /\ q[1] \in Seq(T) /\ \A i \in 1 .. m - 1 : \A d \in Seq(T) : G[i][d] \in Seq(T)
      OBVIOUS
    <3> HIDE DEF G
    <3> QED
      BY <3>1, DP!Recursion
  <2>2. g \in [0 .. m - 1 -> Seq(T)] /\ g[0] = q[1] /\ \A i \in 1 .. m - 1 : g[i] = G[i][g[i - 1]]
    BY <2>1 DEF DP!Loops
  <2>3. \A i \in 1 .. m - 1 : g[i] = g[i - 1] \o q[i + 1]
    <3> TAKE i \in 1 .. m - 1
    <3>1. i - 1 \in 0 .. m - 1
      OBVIOUS
    <3>2. g[i - 1] \in Seq(T) /\ g[i] = G[i][g[i - 1]]
      BY <2>2, <3>1
    <3> QED
      BY <3>2
  <2> DEFINE h == [i \in 1 .. m |-> g[i - 1]]
  <2>4. \A i \in 1 .. m : h[i] = IF i = 1 THEN q[i] ELSE h[i - 1] \o q[i]
    <3> TAKE i \in 1 .. m
    <3>1. CASE i = 1
      BY <2>2, <3>1
    <3>2. CASE i # 1
      <4>1. i - 1 \in 1 .. m - 1 /\ i - 1 \in 1 .. m /\ (i - 1) + 1 = i
        BY <3>2
      <4>2. g[i - 1] = g[(i - 1) - 1] \o q[i]
        BY <2>3, <4>1
      <4> QED
        BY <3>2, <4>1, <4>2
    <3> QED
      BY <3>1, <3>2
  <2>5. h = [i \in 1 .. m |-> h[i]]
    OBVIOUS
  <2> HIDE DEF h
  <2>6. IsFlat(q, h)
    BY <2>0, <2>4, <2>5
  <2>7. IsFlat(q, Flat(q))
    <3> HIDE DEF IsFlat
    <3> QED
      BY <2>6 DEF Flat
  <2>8. Flat(q)[1] = q[1] /\ \A i \in 2 .. m : Flat(q)[i] = Flat(q)[i - 1] \o q[i]
    <3> DEFINE f == Flat(q)
    <3>1. f = [i \in 1 .. m |-> IF i = 1 THEN q[i] ELSE f[i - 1] \o q[i]]
      BY <2>0, <2>7
    <3> HIDE DEF f
    <3>2. f[1] = q[1]
      BY <3>1
    <3>3. \A i \in 2 .. m : f[i] = f[i - 1] \o q[i]
      <4> TAKE i \in 2 .. m
      <4>1. i \in 1 .. m /\ i # 1
        OBVIOUS
      <4> QED
        BY <3>1, <4>1
    <3> QED
      BY <3>2, <3>3 DEF f
  <2> DEFINE S == {k \in 0 .. m - 1 : Flat(q)[k + 1] \in Seq(T)}
  <2>9. 0 \in S
    BY <2>8
  <2>10. \A k \in 0 .. (m - 1) - 1 : k \in S => k + 1 \in S
    <3> TAKE k \in 0 .. (m - 1) - 1
    <3> HAVE k \in S
    <3>1. (k + 1) + 1 \in 2 .. m /\ ((k + 1) + 1) - 1 = k + 1 /\ Flat(q)[k + 1] \in Seq(T)
      OBVIOUS
    <3>2. Flat(q)[(k + 1) + 1] = Flat(q)[k + 1] \o q[(k + 1) + 1]
      BY <2>8, <3>1
    <3>3. q[(k + 1) + 1] \in Seq(T)
      BY <3>1
    <3>4. Flat(q)[(k + 1) + 1] \in Seq(T)
      BY <3>1, <3>2, <3>3, ConcatProperties
    <3> QED
      BY <3>4
  <2>11. ASSUME NEW i \in 1 .. m PROVE Flat(q)[i] \in Seq(T)
    <3> DEFINE Z == {k \in 0 .. m - 1 : k \in S}
    <3> HIDE DEF S
    <3>1. \A k \in 0 .. (i - 1) - 1 : k \in S => k + 1 \in S
      BY <2>10
    <3>2. i - 1 \in S
      BY <2>9, <3>1, DP!Induction
    <3> QED
      BY <3>2 DEF S
  <2> QED
    BY <2>8, <2>11
<1> HIDE DEF IsFlat
<1>4. CASE n = 0
  <2>1. s = <<>> /\ Len(s) = 0
    BY <1>4
  <2>2. FlattenSeq(s) = <<>>
    BY <1>2, <2>1
  <2>3. <<>> \in Seq(T)
    OBVIOUS
  <2> QED
    BY <1>4, <2>2, <2>3
<1>5. CASE n # 0
  <2> DEFINE p == [i \in 1 .. n - 1 |-> s[i]]
  <2>1. Len(s) = n /\ FlattenSeq(s) = Flat(s)[n]
    BY <1>1, <1>5
  <2>2. /\ \A i \in 1 .. n : Flat(s)[i] \in Seq(T)
        /\ Flat(s)[1] = s[1] /\ \A i \in 2 .. n : Flat(s)[i] = Flat(s)[i - 1] \o s[i]
    BY <1>3, <1>5
  <2>3. CASE n = 1
    <3>1. p = <<>> /\ FlattenSeq(p) = p
      BY <1>2, <2>3
    <3>2. <<>> \o s[1] = s[1] /\ s[1] \in Seq(T)
      BY <2>3, ConcatEmptySeq
    <3> QED
      BY <2>1, <2>2, <2>3, <3>1, <3>2
  <2>4. CASE n # 1
    <3> DEFINE m == n - 1
    <3>1. m \in Nat \ {0} /\ p \in [1 .. m -> Seq(T)] /\ Len(p) = m
      BY <1>5, <2>4
    <3>2. Flat(p)[1] = p[1] /\ \A i \in 2 .. m : Flat(p)[i] = Flat(p)[i - 1] \o p[i]
      BY <1>3, <3>1
    <3> DEFINE S == {k \in 0 .. m - 1 : Flat(p)[k + 1] = Flat(s)[k + 1]}
    <3>3. 0 \in S
      BY <2>2, <3>1, <3>2
    <3>4. \A k \in 0 .. (m - 1) - 1 : k \in S => k + 1 \in S
      <4> TAKE k \in 0 .. (m - 1) - 1
      <4> HAVE k \in S
      <4> DEFINE j == (k + 1) + 1
      <4>1. j \in 2 .. m /\ j \in 2 .. n /\ j - 1 = k + 1 /\ k + 1 \in 0 .. m - 1 /\ p[j] = s[j]
        BY <3>1
      <4>2. Flat(p)[k + 1] = Flat(s)[k + 1]
        OBVIOUS
      <4> HIDE DEF j, p
      <4>3. Flat(p)[j] = Flat(p)[j - 1] \o p[j]
        BY <3>2, <4>1, Zenon
      <4>4. Flat(s)[j] = Flat(s)[j - 1] \o s[j]
        BY <2>2, <4>1, Zenon
      <4>5. Flat(p)[j] = Flat(s)[j]
        BY <4>1, <4>2, <4>3, <4>4, Zenon
      <4> QED
        BY <4>1, <4>5 DEF j
    <3> HIDE DEF S
    <3>5. m - 1 \in S
      BY <3>1, <3>3, <3>4, DP!Induction
    <3>6. Flat(p)[m] = Flat(s)[m]
      BY <3>1, <3>5 DEF S
    <3>7. FlattenSeq(p) = Flat(p)[m]
      BY <1>1, <3>1
    <3>8. Flat(s)[n] = Flat(s)[m] \o s[n]
      <4>1. n \in 2 .. n
        BY <1>5, <2>4
      <4> QED
        BY <2>2, <4>1
    <3> HIDE DEF p
    <3>9. FlattenSeq(s) = FlattenSeq(p) \o s[n]
      BY <2>1, <3>6, <3>7, <3>8
    <3>10. Flat(s)[n] \in Seq(T)
      <4>1. n \in 1 .. n
        BY <1>5
      <4> QED
        BY <2>2, <4>1
    <3> QED
      BY <1>5, <2>1, <3>9, <3>10 DEF p
  <2> QED
    BY <2>3, <2>4
<1> QED
  BY <1>4, <1>5

\* What is last in two sequences put together.
LEMMA LastOfTwo ==
  ASSUME NEW T, NEW a \in Seq(T), NEW b \in Seq(T)
  PROVE  /\ a \o b \in Seq(T)
         /\ b = <<>> => a \o b = a
         /\ b # <<>> => a \o b # <<>> /\ Last(a \o b) = Last(b)
         /\ a # <<>> => a \o b # <<>>
<1>1. /\ a \o b \in Seq(T) /\ Len(a \o b) = Len(a) + Len(b) /\ Len(a) \in Nat /\ Len(b) \in Nat
      /\ \A i \in 1 .. Len(a) + Len(b) : (a \o b)[i] = IF i <= Len(a) THEN a[i] ELSE b[i - Len(a)]
  BY ConcatProperties
<1>2. ASSUME b # <<>> PROVE a \o b # <<>> /\ Last(a \o b) = Last(b)
  <2>1. Len(b) \in Nat \ {0}
    BY <1>2, EmptySeq
  <2>2. (a \o b)[Len(a) + Len(b)] = b[Len(b)]
    BY <1>1, <2>1
  <2> QED
    BY <1>1, <2>1, <2>2 DEF Last
<1>3. ASSUME a # <<>> PROVE a \o b # <<>>
  <2>1. Len(a) \in Nat \ {0}
    BY <1>3, EmptySeq
  <2> QED
    BY <1>1, <2>1
<1>4. b = <<>> => a \o b = a
  BY ConcatEmptySeq
<1> QED
  BY <1>1, <1>2, <1>3, <1>4

\* The last of a sequence of sequences put together is the last of the last that has any.
LEMMA FlattenLast ==
  ASSUME NEW T, NEW n \in Nat, NEW s \in [1 .. n -> Seq(T)]
  PROVE  /\ FlattenSeq(s) = <<>> => \A i \in 1 .. n : s[i] = <<>>
         /\ FlattenSeq(s) # <<>> =>
              \E i \in 1 .. n : /\ s[i] # <<>> /\ \A j \in i + 1 .. n : s[j] = <<>>
                                /\ Last(FlattenSeq(s)) = Last(s[i])
<1> DEFINE P(m) == [i \in 1 .. m |-> s[i]]
           Nil(m) == FlattenSeq(P(m)) = <<>> => \A i \in 1 .. m : s[i] = <<>>
           Tip(m) == FlattenSeq(P(m)) # <<>> =>
                       \E i \in 1 .. m : /\ s[i] # <<>> /\ \A j \in i + 1 .. m : s[j] = <<>>
                                         /\ Last(FlattenSeq(P(m))) = Last(s[i])
           S == {m \in 0 .. n : Nil(m) /\ Tip(m)}
<1>1. 0 \in S
  <2>1. 0 \in Nat /\ P(0) \in [1 .. 0 -> Seq(T)]
    OBVIOUS
  <2> HIDE DEF P
  <2>2. FlattenSeq(P(0)) = <<>>
    BY <2>1, FlattenNext
  <2> QED
    BY <2>2
<1>2. \A m \in 0 .. n - 1 : m \in S => m + 1 \in S
  <2> TAKE m \in 0 .. n - 1
  <2> HAVE m \in S
  <2>1. Nil(m) /\ Tip(m)
    OBVIOUS
  <2>2. /\ m \in Nat /\ m + 1 \in Nat /\ m + 1 # 0 /\ (m + 1) - 1 = m
        /\ P(m) \in [1 .. m -> Seq(T)] /\ P(m + 1) \in [1 .. m + 1 -> Seq(T)]
        /\ [i \in 1 .. m |-> P(m + 1)[i]] = P(m) /\ P(m + 1)[m + 1] = s[m + 1] /\ s[m + 1] \in Seq(T)
    OBVIOUS
  <2> DEFINE a == FlattenSeq(P(m))
             b == s[m + 1]
             c == FlattenSeq(P(m + 1))
  <2> HIDE DEF P
  <2>3. a \in Seq(T)
    BY <2>2, FlattenNext
  <2>4. c = a \o b
    <3>1. c = FlattenSeq([i \in 1 .. (m + 1) - 1 |-> P(m + 1)[i]]) \o P(m + 1)[m + 1]
      BY <2>2, FlattenNext
    <3> QED
      BY <2>2, <3>1
  <2>5. /\ b = <<>> => c = a
        /\ b # <<>> => c # <<>> /\ Last(c) = Last(b)
    <3>1. b \in Seq(T)
      BY <2>2
    <3> HIDE DEF a, b, c
    <3> QED
      BY <2>3, <2>4, <3>1, LastOfTwo
  <2>6. CASE b = <<>>
    <3>1. \A j \in 1 .. m + 1 : j \in 1 .. m \/ j = m + 1
      BY <2>2
    <3>2. Nil(m + 1)
      BY <2>1, <2>5, <2>6, <3>1
    <3>3. Tip(m + 1)
      <4> SUFFICES ASSUME a # <<>>
                   PROVE  \E i \in 1 .. m + 1 : /\ s[i] # <<>> /\ \A j \in i + 1 .. m + 1 : s[j] = <<>>
                                                /\ Last(a) = Last(s[i])
        BY <2>5, <2>6
      <4>1. PICK i \in 1 .. m : /\ s[i] # <<>> /\ \A j \in i + 1 .. m : s[j] = <<>>
                                /\ Last(a) = Last(s[i])
        BY <2>1
      <4>2. i \in 1 .. m + 1 /\ \A j \in i + 1 .. m + 1 : j \in i + 1 .. m \/ j = m + 1
        OBVIOUS
      <4> QED
        BY <2>6, <4>1, <4>2
    <3> QED
      BY <2>2, <3>2, <3>3
  <2>7. CASE b # <<>>
    <3>1. m + 1 \in 1 .. m + 1 /\ (m + 1) + 1 .. m + 1 = {}
      BY <2>2
    <3>2. Tip(m + 1)
      BY <2>5, <2>7, <3>1
    <3>3. Nil(m + 1)
      BY <2>5, <2>7
    <3> QED
      BY <2>2, <3>2, <3>3
  <2> QED
    BY <2>6, <2>7
<1> HIDE DEF S
<1>3. n \in S
  BY <1>1, <1>2, DP!Induction
<1>4. P(n) = s
  OBVIOUS
<1> HIDE DEF P
<1> QED
  BY <1>3, <1>4 DEF S

\* A fold over the indices of a sequence, whose step i is G[i]: there is a function that the
\* definition describes.
Folds(n, Z, base, G, h) ==
  /\ h = [s \in SUBSET (1 .. n) |-> IF s = {} THEN base ELSE G[Max(s)][h[s \ {Max(s)}]]]
  /\ \A s \in SUBSET (1 .. n) : h[s] \in Z

LEMMA FoldExists ==
  ASSUME NEW n \in Nat, NEW Z, NEW base \in Z, NEW G, \A i \in 1 .. n : \A d \in Z : G[i][d] \in Z
  PROVE  \E h : Folds(n, Z, base, G, h)
<1> DEFINE Good(k, h) == \A s \in SUBSET (1 .. k) :
                           h[s] \in Z /\ h[s] = IF s = {} THEN base ELSE G[Max(s)][h[s \ {Max(s)}]]
           S == {k \in 0 .. n : \E h : h = [s \in SUBSET (1 .. k) |-> h[s]] /\ Good(k, h)}
<1>1. 0 \in S
  <2> DEFINE h == [s \in SUBSET (1 .. 0) |-> base]
  <2>1. h = [s \in SUBSET (1 .. 0) |-> h[s]] /\ \A s \in SUBSET (1 .. 0) : h[s] = base /\ s = {}
    OBVIOUS
  <2> HIDE DEF h
  <2>2. Good(0, h)
    <3> TAKE s \in SUBSET (1 .. 0)
    <3>1. s = {} /\ h[s] = base
      BY <2>1
    <3> QED
      BY <3>1
  <2> HIDE DEF Good
  <2> QED
    BY <2>1, <2>2
<1>2. \A k \in 0 .. n - 1 : k \in S => k + 1 \in S
  <2> TAKE k \in 0 .. n - 1
  <2> HAVE k \in S
  <2>1. PICK h : h = [s \in SUBSET (1 .. k) |-> h[s]] /\ Good(k, h)
    OBVIOUS
  <2> DEFINE g == [s \in SUBSET (1 .. k + 1) |-> IF k + 1 \in s THEN G[k + 1][h[s \ {k + 1}]] ELSE h[s]]
  <2>2. k + 1 \in 1 .. n /\ k + 1 \notin 1 .. k /\ k \in Nat
    OBVIOUS
  <2>3. \A s \in SUBSET (1 .. k + 1) : s \ {k + 1} \in SUBSET (1 .. k)
    <3> TAKE s \in SUBSET (1 .. k + 1)
    <3>1. \A i \in 1 .. k + 1 : i \in 1 .. k \/ i = k + 1
      OBVIOUS
    <3> QED
      BY <3>1
  <2>4. \A s \in SUBSET (1 .. k + 1) : g[s] = IF k + 1 \in s THEN G[k + 1][h[s \ {k + 1}]] ELSE h[s]
    OBVIOUS
  <2>5. g = [s \in SUBSET (1 .. k + 1) |-> g[s]]
    OBVIOUS
  <2> HIDE DEF g
  <2>6. ASSUME NEW s \in SUBSET (1 .. k + 1)
        PROVE  g[s] \in Z /\ g[s] = IF s = {} THEN base ELSE G[Max(s)][g[s \ {Max(s)}]]
    <3>1. CASE k + 1 \in s
      <4>1. Max(s) = k + 1
        <5>1. \A y \in s : k + 1 >= y
          OBVIOUS
        <5>2. \A x \in s : (\A y \in s : x >= y) => x = k + 1
          BY <3>1
        <5> DEFINE Q(x) == \A y \in s : x >= y
        <5>3. Q(k + 1) /\ \A x \in s : Q(x) => x = k + 1
          BY <5>1, <5>2
        <5>4. Max(s) = CHOOSE x \in s : Q(x)
          BY DEF Max
        <5> HIDE DEF Q
        <5> QED
          BY <3>1, <5>3, <5>4
      <4>2. s \ {k + 1} \in SUBSET (1 .. k) /\ s \ {k + 1} \in SUBSET (1 .. k + 1) /\ k + 1 \notin s \ {k + 1}
        BY <2>3
      <4>3. g[s \ {k + 1}] = h[s \ {k + 1}] /\ h[s \ {k + 1}] \in Z
        BY <2>1, <2>4, <4>2
      <4>4. g[s] = G[k + 1][h[s \ {k + 1}]]
        BY <2>4, <3>1
      <4>5. G[k + 1][h[s \ {k + 1}]] \in Z
        BY <2>2, <4>3
      <4> QED
        BY <3>1, <4>1, <4>3, <4>4, <4>5
    <3>2. CASE k + 1 \notin s
      <4>1. s \in SUBSET (1 .. k)
        BY <2>3, <3>2
      <4>2. g[s] = h[s] /\ h[s] \in Z /\ h[s] = IF s = {} THEN base ELSE G[Max(s)][h[s \ {Max(s)}]]
        BY <2>1, <2>4, <3>2, <4>1
      <4>3. s \ {Max(s)} \in SUBSET (1 .. k + 1) /\ k + 1 \notin s \ {Max(s)}
        BY <3>2
      <4>4. g[s \ {Max(s)}] = h[s \ {Max(s)}]
        BY <2>4, <4>3
      <4> QED
        BY <4>2, <4>4
    <3> QED
      BY <3>1, <3>2
  <2>7. Good(k + 1, g)
    BY <2>6
  <2> HIDE DEF Good
  <2> QED
    BY <2>5, <2>7
<1> HIDE DEF S
<1>3. n \in S
  BY <1>1, <1>2, DP!Induction
<1>4. PICK h : h = [s \in SUBSET (1 .. n) |-> h[s]] /\ Good(n, h)
  BY <1>3 DEF S
<1>5. h = [s \in SUBSET (1 .. n) |-> IF s = {} THEN base ELSE G[Max(s)][h[s \ {Max(s)}]]]
  BY <1>4
<1> QED
  BY <1>4, <1>5 DEF Folds

LEMMA MaxIn ==
  ASSUME NEW n \in Nat, NEW s \in SUBSET (1 .. n), s # {}
  PROVE  Max(s) \in s /\ \A y \in s : Max(s) >= y
<1>1. \E x \in s : \A y \in s : x >= y
  <2> DEFINE ix == [x \in s |-> x]
  <2>1. \A x \in s : ix[x] \in 0 .. n
    OBVIOUS
  <2>2. \A x \in s : ix[x] = x
    OBVIOUS
  <2> HIDE DEF ix
  <2>3. \E x \in s : \A y \in s : ix[y] <= ix[x]
    BY <2>1, DP!Topmost
  <2> QED
    BY <2>2, <2>3
<1> QED
  BY <1>1 DEF Max

LEMMA MaxOfInterval ==
  ASSUME NEW k \in Nat
  PROVE  1 .. k + 1 # {} /\ Max(1 .. k + 1) = k + 1 /\ (1 .. k + 1) \ {k + 1} = 1 .. k
<1>1. 1 .. k + 1 # {} /\ (1 .. k + 1) \ {k + 1} = 1 .. k /\ k + 1 \in 1 .. k + 1
  OBVIOUS
<1>2. Max(1 .. k + 1) \in 1 .. k + 1 /\ \A y \in 1 .. k + 1 : Max(1 .. k + 1) >= y
  <2> DEFINE s == 1 .. k + 1
  <2>1. k + 1 \in Nat /\ s \in SUBSET (1 .. k + 1) /\ s # {}
    OBVIOUS
  <2> HIDE DEF s
  <2>2. Max(s) \in s /\ \A y \in s : Max(s) >= y
    BY <2>1, MaxIn
  <2> QED
    BY <2>2 DEF s
<1>3. Max(1 .. k + 1) >= k + 1
  BY <1>1, <1>2
<1> QED
  BY <1>1, <1>2, <1>3

-----------------------------------------------------------------------------
(***************************************************************************)
(* What rename does to one block.                                          *)
(***************************************************************************)
Names == {NoName} \cup (Block \X (Nat \cup Var))
Stacks == UNION {[W -> Seq(Names)] : W \in SUBSET Var}
Replacements == UNION {[K -> Names] : K \in SUBSET (Block \X Nat)}
Held(st, v) == IF v \in DOMAIN st THEN st[v] ELSE <<>>

LEMMA HeldType == \A st \in Stacks : DOMAIN st \subseteq Var /\ \A v : Held(st, v) \in Seq(Names)
  BY DEF Stacks, Held

\* A push appends to one stack.
LEMMA PushHeld ==
  ASSUME NEW st \in Stacks, NEW v \in Var, NEW name \in Names
  PROVE  /\ Push(st, v, name) \in Stacks
         /\ \A w : Held(Push(st, v, name), w) = Held(st, w) \o (IF w = v THEN <<name>> ELSE <<>>)
<1> DEFINE W == DOMAIN st \cup {v}
           q == Push(st, v, name)
<1>1. DOMAIN st \subseteq Var /\ \A w \in DOMAIN st : st[w] \in Seq(Names)
  BY DEF Stacks
<1>2. q = [w \in W |-> IF w # v THEN st[w] ELSE IF v \in DOMAIN st THEN Append(st[v], name) ELSE <<name>>]
  BY DEF Push
<1>3. \A w \in W : q[w] \in Seq(Names)
  <2> TAKE w \in W
  <2>1. v \in DOMAIN st => Append(st[v], name) \in Seq(Names)
    BY <1>1
  <2>2. <<name>> \in Seq(Names)
    OBVIOUS
  <2> QED
    BY <1>1, <1>2, <2>1, <2>2
<1>4. q \in [W -> Seq(Names)] /\ W \in SUBSET Var
  BY <1>1, <1>2, <1>3
<1>5. q \in Stacks
  BY <1>4 DEF Stacks
<1>6. ASSUME NEW w PROVE Held(q, w) = Held(st, w) \o (IF w = v THEN <<name>> ELSE <<>>)
  <2>0. Held(st, w) \in Seq(Names)
    BY HeldType
  <2>1. CASE w = v /\ v \in DOMAIN st
    <3>1. Held(q, w) = Append(st[v], name) /\ Held(st, w) = st[v]
      BY <1>2, <2>1 DEF Held
    <3>2. st[v] \in Seq(Names)
      BY <1>1, <2>1
    <3>3. Append(st[v], name) = st[v] \o <<name>>
      BY <3>2, AppendIsConcat
    <3> QED
      BY <2>1, <3>1, <3>3
  <2>2. CASE w = v /\ v \notin DOMAIN st
    <3>1. Held(q, w) = <<name>> /\ Held(st, w) = <<>>
      BY <1>2, <2>2 DEF Held
    <3>2. <<>> \o <<name>> = <<name>>
      <4>1. <<name>> \in Seq(Names)
        OBVIOUS
      <4> QED
        BY <4>1, ConcatEmptySeq
    <3> QED
      BY <2>2, <3>1, <3>2
  <2>3. CASE w # v
    <3>1. Held(q, w) = Held(st, w)
      BY <1>2, <2>3 DEF Held
    <3>2. Held(st, w) \o <<>> = Held(st, w)
      BY <2>0, ConcatEmptySeq
    <3> QED
      BY <2>3, <3>1, <3>2
  <2> QED
    BY <2>1, <2>2, <2>3
<1> QED
  BY <1>5, <1>6

\* The stacks once the phis of a block are pushed, in whatever order they are.
PhisOn(b, base, X) == FoldLeft(LAMBDA s, v : Push(s, v, <<b, v>>), base, SetToSeq(X))

LEMMA PhisPushed ==
  ASSUME NEW b \in Block, NEW base \in Stacks, NEW X \in SUBSET Var
  PROVE  /\ PhisOn(b, base, X) \in Stacks
         /\ \A w : Held(PhisOn(b, base, X), w) =
                   Held(base, w) \o (IF w \in X THEN << <<b, w>> >> ELSE <<>>)
<1> DEFINE q == SetToSeq(X)
           m == Cardinality(X)
<1>1. IsFiniteSet(X) /\ m \in Nat
  BY VarAssumption, FS_Subset, FS_CardinalityType
<1>2. /\ q \in [1 .. m -> X] /\ \A i, j \in 1 .. m : q[i] = q[j] => i = j
      /\ \A w \in X : \E i \in 1 .. m : q[i] = w
  <2>1. \E f \in [1 .. m -> X] : IsInjective(f)
    <3>1. PICK f : f \in Bijection(1 .. m, X)
      <4>1. ExistsBijection(1 .. m, X)
        BY <1>1, FS_NatBijection, FS_CountingElements
      <4> QED
        BY <4>1 DEF ExistsBijection
    <3> QED
      BY <3>1 DEF Bijection, Injection, IsInjective
  <2>2. q \in [1 .. m -> X] /\ IsInjective(q)
    BY <2>1 DEF SetToSeq
  <2> HIDE DEF q, m
  <2>3. \A i, j \in 1 .. m : q[i] = q[j] => i = j
    BY <2>2 DEF IsInjective
  <2>4. q \in Injection(1 .. m, X)
    BY <2>2, <2>3 DEF Injection, IsInjective
  <2>5. IsFiniteSet(1 .. m) /\ Cardinality(1 .. m) = m
    BY <1>1, FS_Interval
  <2>6. q \in Surjection(1 .. m, X)
    BY <1>1, <2>4, <2>5, FS_Injection DEF m
  <2> QED
    BY <2>2, <2>3, <2>6 DEF Surjection
<1> HIDE DEF m
<1> DEFINE IsFold(f) == f = [s \in SUBSET DOMAIN q |-> IF s = {} THEN base
                               ELSE LET x == Max(s) IN Push(f[s \ {x}], q[x], <<b, q[x]>>)]
           fold == CHOOSE f : IsFold(f)
           st == fold[DOMAIN q]
<1>3. PhisOn(b, base, X) = st
  BY DEF PhisOn, FoldLeft, MapThenFoldSet
<1> HIDE DEF q
<1>4. DOMAIN q = 1 .. m
  BY <1>2
<1> DEFINE Add(i, d) == Push(d, q[i], <<b, q[i]>>)
           G == [i \in 1 .. m |-> [d \in Stacks |-> Add(i, d)]]
<1>5. ASSUME NEW i \in 1 .. m, NEW d \in Stacks
      PROVE  /\ Add(i, d) \in Stacks /\ q[i] \in Var
             /\ \A w : Held(Add(i, d), w) = Held(d, w) \o (IF w = q[i] THEN << <<b, q[i]>> >> ELSE <<>>)
  <2>1. q[i] \in Var /\ <<b, q[i]>> \in Names
    BY <1>2 DEF Names
  <2> QED
    BY <2>1, PushHeld
<1>6. PICK h : Folds(m, Stacks, base, G, h)
  <2>1. \A i \in 1 .. m : \A d \in Stacks : G[i][d] \in Stacks
    BY <1>5
  <2> HIDE DEF G
  <2> QED
    BY <1>1, <2>1, FoldExists
<1>7. /\ h = [s \in SUBSET (1 .. m) |-> IF s = {} THEN base ELSE G[Max(s)][h[s \ {Max(s)}]]]
      /\ \A s \in SUBSET (1 .. m) : h[s] \in Stacks
  <2> HIDE DEF G
  <2> QED
    BY <1>6 DEF Folds
<1>8. IsFold(h)
  <2>1. ASSUME NEW s \in SUBSET (1 .. m)
        PROVE  h[s] = IF s = {} THEN base ELSE Add(Max(s), h[s \ {Max(s)}])
    <3>1. CASE s # {}
      <4>1. Max(s) \in 1 .. m /\ s \ {Max(s)} \in SUBSET (1 .. m)
        BY <1>1, <3>1, MaxIn
      <4>2. h[s \ {Max(s)}] \in Stacks
        BY <1>7, <4>1
      <4>3. G[Max(s)][h[s \ {Max(s)}]] = Add(Max(s), h[s \ {Max(s)}])
        BY <4>1, <4>2
      <4> HIDE DEF G, Add
      <4> QED
        BY <1>7, <3>1, <4>3
    <3>2. CASE s = {}
      BY <1>7, <3>2
    <3> QED
      BY <3>1, <3>2
  <2>2. h = [s \in SUBSET (1 .. m) |-> h[s]]
    BY <1>7
  <2> QED
    BY <1>4, <2>1, <2>2
<1>9. IsFold(fold)
  <2> HIDE DEF IsFold
  <2> QED
    BY <1>8
<1> HIDE DEF fold
<1>10. fold[{}] = base
  BY <1>4, <1>9
<1>11. \A k \in 0 .. m - 1 : fold[1 .. k + 1] = Add(k + 1, fold[1 .. k])
  <2> TAKE k \in 0 .. m - 1
  <2>1. k \in Nat /\ 1 .. k + 1 \in SUBSET (1 .. m)
    BY <1>1
  <2>2. 1 .. k + 1 # {} /\ Max(1 .. k + 1) = k + 1 /\ (1 .. k + 1) \ {k + 1} = 1 .. k
    BY <2>1, MaxOfInterval
  <2> DEFINE s == 1 .. k + 1
  <2>3. s \in SUBSET (1 .. m) /\ s # {} /\ Max(s) = k + 1 /\ s \ {k + 1} = 1 .. k
    BY <2>1, <2>2
  <2> HIDE DEF s
  <2>4. fold[s] = Push(fold[s \ {Max(s)}], q[Max(s)], <<b, q[Max(s)]>>)
    BY <1>4, <1>9, <2>3
  <2> QED
    BY <2>3, <2>4 DEF s
<1> HIDE DEF IsFold, Add
<1> DEFINE Some(k, w) == \E i \in 1 .. k : q[i] = w
           Fine(k) == /\ fold[1 .. k] \in Stacks
                      /\ \A w : Held(fold[1 .. k], w) =
                                Held(base, w) \o (IF Some(k, w) THEN << <<b, w>> >> ELSE <<>>)
           S == {k \in 0 .. m : Fine(k)}
<1>12. 0 \in S
  <2>1. 1 .. 0 = {} /\ \A w : ~ Some(0, w)
    OBVIOUS
  <2>2. \A w : Held(base, w) \o <<>> = Held(base, w)
    BY HeldType, ConcatEmptySeq
  <2> HIDE DEF Some
  <2>3. fold[1 .. 0] = base /\ Fine(0)
    BY <1>10, <2>1, <2>2
  <2> QED
    BY <1>1, <2>3
<1>13. \A k \in 0 .. m - 1 : k \in S => k + 1 \in S
  <2> TAKE k \in 0 .. m - 1
  <2> HAVE k \in S
  <2>1. Fine(k) /\ k + 1 \in 1 .. m /\ k + 1 \in 0 .. m
    BY <1>1
  <2>2. /\ fold[1 .. k + 1] \in Stacks
        /\ \A w : Held(fold[1 .. k + 1], w) =
                  Held(fold[1 .. k], w) \o (IF w = q[k + 1] THEN << <<b, q[k + 1]>> >> ELSE <<>>)
    BY <1>5, <1>11, <2>1
  <2>3. ASSUME NEW w
        PROVE  Held(fold[1 .. k + 1], w) = Held(base, w) \o (IF Some(k + 1, w) THEN << <<b, w>> >> ELSE <<>>)
    <3>1. Some(k + 1, w) <=> Some(k, w) \/ w = q[k + 1]
      <4>1. \A i \in 1 .. k + 1 : i \in 1 .. k \/ i = k + 1
        OBVIOUS
      <4>2. \A i \in 1 .. k : i \in 1 .. k + 1
        OBVIOUS
      <4> QED
        BY <2>1, <4>1, <4>2
    <3>2. ~ (Some(k, w) /\ w = q[k + 1])
      <4>1. ASSUME NEW i \in 1 .. k PROVE q[i] # q[k + 1]
        <5>1. i \in 1 .. m /\ i # k + 1
          BY <1>1
        <5> QED
          BY <1>2, <2>1, <5>1
      <4> QED
        BY <4>1
    <3>3. Held(base, w) \in Seq(Names) /\ <<>> \in Seq(Names)
      BY HeldType
    <3>4. Held(base, w) \o <<>> = Held(base, w)
      BY <3>3, ConcatEmptySeq
    <3>5. Held(fold[1 .. k], w) = Held(base, w) \o (IF Some(k, w) THEN << <<b, w>> >> ELSE <<>>)
      BY <2>1
    <3> DEFINE a == Held(fold[1 .. k], w)
    <3>6. a \in Seq(Names)
      BY <2>1, HeldType
    <3>7. a \o <<>> = a
      BY <3>6, ConcatEmptySeq
    <3> HIDE DEF Some
    <3> QED
      BY <2>2, <3>1, <3>2, <3>4, <3>5, <3>7
  <2>4. Fine(k + 1)
    BY <2>2, <2>3
  <2> QED
    BY <2>1, <2>4
<1> HIDE DEF S
<1>14. m \in S
  BY <1>1, <1>12, <1>13, DP!Induction
<1>15. st = fold[1 .. m] /\ Fine(m)
  BY <1>4, <1>14 DEF S
<1>16. \A w : Some(m, w) <=> w \in X
  BY <1>2
<1> HIDE DEF Some
<1>17. /\ st \in Stacks
       /\ \A w : Held(st, w) = Held(base, w) \o (IF w \in X THEN << <<b, w>> >> ELSE <<>>)
  BY <1>15, <1>16
<1> QED
  BY <1>3, <1>17

-----------------------------------------------------------------------------
CodeOK ==
  /\ blocks \subseteq Block /\ DOMAIN code = blocks
  /\ \A b \in blocks :
       /\ code[b] \in Seq(Instruction)
       /\ \A k \in DOMAIN code[b] : code[b][k].op = "store" =>
            /\ code[b][k].from \in 0 .. k - 1
            /\ code[b][k].from # 0 => \A j \in code[b][k].from .. k - 1 : code[b][j].op = "load"

LEMMA InstructionAt ==
  ASSUME CodeOK, NEW b \in blocks
  PROVE  /\ b \in Block /\ Len(code[b]) \in Nat /\ DOMAIN code[b] = 1 .. Len(code[b])
         /\ \A k \in DOMAIN code[b] : /\ code[b][k].op \in {"load", "store"}
                                      /\ code[b][k].lval \in Var /\ code[b][k].from \in Nat
<1>1. code[b] \in Seq(Instruction) /\ b \in Block
  BY DEF CodeOK
<1>2. \A k \in DOMAIN code[b] : code[b][k] \in Instruction
  BY <1>1
<1> QED
  BY <1>1, <1>2 DEF Instruction

\* What instruction k of b pushes on the stack of v; and what b has pushed after k of them.
Part(b, k, v, rep) ==
  IF code[b][k].op = "store" /\ code[b][k].lval = v THEN <<Written(b, k, rep)>> ELSE <<>>
PhiPart(b, v) == IF v \in PhiVars(b) THEN << <<b, v>> >> ELSE <<>>
Parts(b, k, v, rep) == FlattenSeq([j \in 1 .. k |-> Part(b, j, v, rep)])
Pushed(b, k, v, rep) == PhiPart(b, v) \o Parts(b, k, v, rep)

LEMMA WrittenName ==
  ASSUME CodeOK, NEW b \in blocks, NEW k \in DOMAIN code[b], NEW rep \in Replacements
  PROVE  Written(b, k, rep) \in Names
<1>1. b \in Block /\ k \in Nat
  BY InstructionAt
<1>2. \A p \in DOMAIN rep : rep[p] \in Names
  BY DEF Replacements
<1> QED
  BY <1>1, <1>2 DEF Written, Names

LEMMA PartType ==
  ASSUME CodeOK, NEW b \in blocks, NEW rep \in Replacements, NEW v
  PROVE  /\ \A k \in DOMAIN code[b] : Part(b, k, v, rep) \in Seq(Names)
         /\ PhiPart(b, v) \in Seq(Names)
<1>1. \A k \in DOMAIN code[b] : Written(b, k, rep) \in Names
  BY WrittenName
<1>2. \A n \in Names : <<n>> \in Seq(Names)
  OBVIOUS
<1>3. <<>> \in Seq(Names)
  OBVIOUS
<1>4. \A w \in PhiVars(b) : <<b, w>> \in Names
  BY DEF CodeOK, Names, PhiVars
<1> QED
  BY <1>1, <1>2, <1>3, <1>4 DEF Part, PhiPart

LEMMA PartsNext ==
  ASSUME CodeOK, NEW b \in blocks, NEW rep \in Replacements, NEW v, NEW k \in 0 .. Len(code[b])
  PROVE  /\ Parts(b, k, v, rep) \in Seq(Names) /\ Pushed(b, k, v, rep) \in Seq(Names)
         /\ k = 0 => Parts(b, k, v, rep) = <<>>
         /\ k # 0 => Parts(b, k, v, rep) = Parts(b, k - 1, v, rep) \o Part(b, k, v, rep)
<1> DEFINE s == [j \in 1 .. k |-> Part(b, j, v, rep)]
<1>1. s \in [1 .. k -> Seq(Names)] /\ k \in Nat
  <2>1. \A j \in 1 .. k : Part(b, j, v, rep) \in Seq(Names)
    <3>1. \A j \in 1 .. k : j \in DOMAIN code[b]
      BY InstructionAt
    <3> QED
      BY <3>1, PartType
  <2> QED
    BY <2>1, InstructionAt
<1>2. k # 0 => k \in 1 .. k /\ s[k] = Part(b, k, v, rep) /\ \A j \in 1 .. k - 1 : s[j] = Part(b, j, v, rep)
  BY <1>1
<1>3. k # 0 => [j \in 1 .. k - 1 |-> s[j]] = [j \in 1 .. k - 1 |-> Part(b, j, v, rep)]
  BY <1>2
<1> HIDE DEF s
<1>4. /\ FlattenSeq(s) \in Seq(Names)
      /\ k = 0 => FlattenSeq(s) = <<>>
      /\ k # 0 => FlattenSeq(s) = FlattenSeq([j \in 1 .. k - 1 |-> s[j]]) \o s[k]
  BY <1>1, FlattenNext
<1>5. Parts(b, k, v, rep) = FlattenSeq(s)
  BY DEF Parts, s
<1>6. Pushed(b, k, v, rep) \in Seq(Names)
  BY <1>4, <1>5, PartType, ConcatProperties DEF Pushed
<1> QED
  BY <1>2, <1>3, <1>4, <1>5, <1>6 DEF Parts

\* Two replacements that agree on the loads before k push the same.
Agree(b, k, r1, r2) ==
  \A i \in 1 .. k - 1 : /\ <<b, i>> \in DOMAIN r1 <=> <<b, i>> \in DOMAIN r2
                        /\ <<b, i>> \in DOMAIN r1 => r1[<<b, i>>] = r2[<<b, i>>]

LEMMA PartsSame ==
  ASSUME CodeOK, NEW b \in blocks, NEW k \in 0 .. Len(code[b]), NEW r1, NEW r2, Agree(b, k, r1, r2)
  PROVE  /\ \A j \in 1 .. k : code[b][j].op = "store" => Written(b, j, r1) = Written(b, j, r2)
         /\ \A v : \A j \in 0 .. k : Parts(b, j, v, r1) = Parts(b, j, v, r2)
         /\ \A v : \A j \in 0 .. k : Pushed(b, j, v, r1) = Pushed(b, j, v, r2)
<1>1. ASSUME NEW j \in 1 .. k, code[b][j].op = "store" PROVE Written(b, j, r1) = Written(b, j, r2)
  <2>1. j \in DOMAIN code[b]
    BY InstructionAt
  <2>2. code[b][j].from \in 0 .. j - 1
    BY <1>1, <2>1 DEF CodeOK
  <2>3. code[b][j].from = 0 \/ code[b][j].from \in 1 .. k - 1
    BY <2>2
  <2> QED
    BY <2>3 DEF Written, Agree
<1>2. \A v : \A j \in 1 .. k : Part(b, j, v, r1) = Part(b, j, v, r2)
  BY <1>1 DEF Part
<1>3. ASSUME NEW v, NEW j \in 0 .. k PROVE Parts(b, j, v, r1) = Parts(b, j, v, r2)
  <2>1. \A i \in 1 .. j : Part(b, i, v, r1) = Part(b, i, v, r2)
    BY <1>2, InstructionAt
  <2> QED
    BY <2>1 DEF Parts
<1> QED
  BY <1>1, <1>3 DEF Pushed

-----------------------------------------------------------------------------
States == [stacks : Stacks, replaced : Replacements]

\* rep has what s has, and of b at most the places of `more` besides.
Extends(rep, old, b, more) ==
  /\ DOMAIN old \subseteq DOMAIN rep /\ DOMAIN rep \subseteq DOMAIN old \cup {<<b, j>> : j \in more}
  /\ \A p \in DOMAIN old : rep[p] = old[p]

\* A load gets the last name of a stack that has one.
Gets(rep, p, stack) ==
  /\ stack # <<>> => p \in DOMAIN rep
  /\ p \in DOMAIN rep => rep[p] = IF stack = <<>> THEN NoName ELSE Last(stack)

LEMMA LastType ==
  ASSUME NEW T, NEW a \in Seq(T), a # <<>>
  PROVE  Last(a) \in T
<1>1. Len(a) \in Nat \ {0}
  BY EmptySeq
<1> QED
  BY <1>1 DEF Last

LEMMA RewriteStep ==
  ASSUME CodeOK, NEW b \in blocks, NEW k \in DOMAIN code[b], NEW s \in States
  PROVE  LET r == Rewrite(b, s, k)
         IN  /\ r \in States
             /\ \A w : Held(r.stacks, w) = Held(s.stacks, w) \o Part(b, k, w, s.replaced)
             /\ Extends(r.replaced, s.replaced, b, {k})
             /\ code[b][k].op = "load" /\ <<b, k>> \notin DOMAIN s.replaced =>
                  Gets(r.replaced, <<b, k>>, Held(s.stacks, code[b][k].lval))
             /\ code[b][k].op # "load" => r.replaced = s.replaced
<1> DEFINE v == code[b][k].lval
           r == Rewrite(b, s, k)
           name == Written(b, k, s.replaced)
           f == [place \in {<<b, k>>} |-> Back(s.stacks, v)]
<1>1. /\ code[b][k].op \in {"load", "store"} /\ v \in Var /\ b \in Block /\ k \in Nat
      /\ s.stacks \in Stacks /\ s.replaced \in Replacements
  BY InstructionAt DEF States
<1>2. ASSUME NEW w PROVE Held(s.stacks, w) \in Seq(Names) /\ Held(s.stacks, w) \o <<>> = Held(s.stacks, w)
  BY <1>1, HeldType, ConcatEmptySeq
<1>3. CASE code[b][k].op = "store"
  <2>1. r = [s EXCEPT !.stacks = Push(s.stacks, v, name)]
    BY <1>3 DEF Rewrite
  <2>2. name \in Names
    BY <1>1, WrittenName
  <2> HIDE DEF name, v
  <2>3. /\ Push(s.stacks, v, name) \in Stacks
        /\ \A w : Held(Push(s.stacks, v, name), w) = Held(s.stacks, w) \o (IF w = v THEN <<name>> ELSE <<>>)
    BY <1>1, <2>2, PushHeld
  <2>4. r \in States /\ r.stacks = Push(s.stacks, v, name) /\ r.replaced = s.replaced
    BY <2>1, <2>3 DEF States
  <2>5. \A w : Part(b, k, w, s.replaced) = IF w = v THEN <<name>> ELSE <<>>
    BY <1>3 DEF Part, name, v
  <2> HIDE DEF r
  <2>6. \A w : Held(r.stacks, w) = Held(s.stacks, w) \o Part(b, k, w, s.replaced)
    BY <2>3, <2>4, <2>5
  <2>7. Extends(r.replaced, s.replaced, b, {k})
    BY <2>4 DEF Extends
  <2>8. code[b][k].op # "load"
    BY <1>3
  <2> QED
    BY <2>4, <2>6, <2>7, <2>8 DEF r
<1>4. CASE code[b][k].op = "load" /\ v \in DOMAIN s.stacks
  <2>1. r = [s EXCEPT !.replaced = Joined(s.replaced, f)]
    BY <1>4 DEF Rewrite
  <2>2. Back(s.stacks, v) = IF Held(s.stacks, v) = <<>> THEN NoName ELSE Last(Held(s.stacks, v))
    BY <1>4 DEF Back, Held
  <2>3. Back(s.stacks, v) \in Names
    BY <1>2, <2>2, LastType DEF Names
  <2> DEFINE g == Joined(s.replaced, f)
  <2>4. /\ DOMAIN g = DOMAIN s.replaced \cup {<<b, k>>}
        /\ \A p \in DOMAIN s.replaced : g[p] = s.replaced[p]
        /\ <<b, k>> \notin DOMAIN s.replaced => g[<<b, k>>] = Back(s.stacks, v)
    BY DEF Joined
  <2>5. g \in Replacements
    <3>1. DOMAIN s.replaced \in SUBSET (Block \X Nat) /\ \A p \in DOMAIN s.replaced : s.replaced[p] \in Names
      BY <1>1 DEF Replacements
    <3>2. DOMAIN g \in SUBSET (Block \X Nat) /\ \A p \in DOMAIN g : g[p] \in Names
      <4> HIDE DEF g
      <4> QED
        BY <1>1, <2>3, <2>4, <3>1
    <3>3. g = [p \in DOMAIN g |-> g[p]]
      BY DEF Joined
    <3> HIDE DEF g
    <3>4. g \in [DOMAIN g -> Names]
      BY <3>2, <3>3
    <3> QED
      BY <3>2, <3>4 DEF Replacements
  <2> HIDE DEF g, f
  <2>6. r \in States /\ r.stacks = s.stacks /\ r.replaced = g
    BY <1>1, <2>1, <2>5 DEF States, g
  <2>7. \A w : Part(b, k, w, s.replaced) = <<>>
    BY <1>4 DEF Part
  <2> HIDE DEF r
  <2>8. \A w : Held(r.stacks, w) = Held(s.stacks, w) \o Part(b, k, w, s.replaced)
    BY <1>2, <2>6, <2>7
  <2>9. Extends(r.replaced, s.replaced, b, {k})
    BY <2>4, <2>6 DEF Extends
  <2>10. <<b, k>> \notin DOMAIN s.replaced => Gets(r.replaced, <<b, k>>, Held(s.stacks, v))
    BY <2>2, <2>4, <2>6 DEF Gets
  <2> QED
    BY <1>4, <2>6, <2>8, <2>9, <2>10 DEF r
<1>5. CASE code[b][k].op = "load" /\ v \notin DOMAIN s.stacks
  <2>1. r = s
    BY <1>5 DEF Rewrite
  <2>2. \A w : Part(b, k, w, s.replaced) = <<>>
    BY <1>5 DEF Part
  <2>3. Held(s.stacks, v) = <<>>
    BY <1>5 DEF Held
  <2>4. Extends(s.replaced, s.replaced, b, {k})
    BY DEF Extends
  <2>5. <<b, k>> \notin DOMAIN s.replaced => Gets(s.replaced, <<b, k>>, Held(s.stacks, v))
    BY <2>3 DEF Gets
  <2> HIDE DEF r
  <2> QED
    BY <1>2, <1>5, <2>1, <2>2, <2>4, <2>5 DEF r
<1> QED
  BY <1>1, <1>3, <1>4, <1>5

LEMMA PushedNext ==
  ASSUME CodeOK, NEW b \in blocks, NEW rep \in Replacements, NEW v, NEW k \in 1 .. Len(code[b]),
         NEW a \in Seq(Names)
  PROVE  a \o Pushed(b, k, v, rep) = (a \o Pushed(b, k - 1, v, rep)) \o Part(b, k, v, rep)
<1> DEFINE x == PhiPart(b, v)
           y == Parts(b, k - 1, v, rep)
           z == Part(b, k, v, rep)
<1>1. Len(code[b]) \in Nat /\ k \in 0 .. Len(code[b]) /\ k - 1 \in 0 .. Len(code[b]) /\ k # 0 /\ k \in DOMAIN code[b]
  BY InstructionAt
<1>2. x \in Seq(Names) /\ y \in Seq(Names) /\ z \in Seq(Names)
  BY <1>1, PartType, PartsNext
<1>3. Parts(b, k, v, rep) = y \o z
  BY <1>1, PartsNext
<1>4. Pushed(b, k, v, rep) = x \o (y \o z) /\ Pushed(b, k - 1, v, rep) = x \o y
  BY <1>3 DEF Pushed
<1> HIDE DEF x, y, z
<1> DEFINE u == x \o y
<1>5. u \in Seq(Names)
  BY <1>2
<1>6. x \o (y \o z) = u \o z
  BY <1>2, SMTT(30)
<1> HIDE DEF u
<1>7. a \o (u \o z) = (a \o u) \o z
  BY <1>2, <1>5, SMTT(30)
<1>8. a \o Pushed(b, k, v, rep) = (a \o u) \o z
  BY <1>4, <1>6, <1>7, Zenon
<1> QED
  BY <1>4, <1>8, Zenon DEF u, z

\* The stacks and replacements when the call for b has rewritten the block.
LEMMA BlockRewritten ==
  ASSUME CodeOK, NEW b \in blocks, var_to_val_stack \in Stacks, replaced \in Replacements,
         \A p \in DOMAIN replaced : p[1] # b
  PROVE  LET r == Rewritten(b)
             H(k, w) == Held(var_to_val_stack, w) \o Pushed(b, k, w, r.replaced)
         IN  /\ r \in States
             /\ \A w : Held(r.stacks, w) = H(Len(code[b]), w)
             /\ Extends(r.replaced, replaced, b, DOMAIN code[b])
             /\ \A k \in DOMAIN code[b] :
                  IF code[b][k].op = "load" THEN Gets(r.replaced, <<b, k>>, H(k - 1, code[b][k].lval))
                  ELSE <<b, k>> \notin DOMAIN r.replaced
<1> DEFINE m == Len(code[b])
           base == var_to_val_stack
           st == PhisOn(b, base, PhiVars(b))
           s0 == [stacks |-> st, replaced |-> replaced]
           q == [k \in DOMAIN code[b] |-> k]
           IsFold(f) == f = [s \in SUBSET DOMAIN q |-> IF s = {} THEN s0
                               ELSE LET x == Max(s) IN Rewrite(b, f[s \ {x}], q[x])]
           fold == CHOOSE f : IsFold(f)
<1>1. Rewritten(b) = fold[DOMAIN q]
  BY DEF Rewritten, PhisOn, FoldLeft, MapThenFoldSet
<1>2. b \in Block /\ m \in Nat /\ DOMAIN code[b] = 1 .. m /\ DOMAIN q = 1 .. m /\ \A k \in 1 .. m : q[k] = k
  BY InstructionAt
<1>3. /\ st \in Stacks
      /\ \A w : Held(st, w) = Held(base, w) \o PhiPart(b, w)
  <2>1. PhiVars(b) \in SUBSET Var
    BY DEF PhiVars
  <2> HIDE DEF m
  <2> QED
    BY <1>2, <2>1, PhisPushed DEF PhiPart
<1> HIDE DEF st
<1>4. s0 \in States /\ s0.stacks = st /\ s0.replaced = replaced
  BY <1>3 DEF States
<1> HIDE DEF s0, q, m
<1> DEFINE G == [i \in 1 .. m |-> [d \in States |-> Rewrite(b, d, i)]]
<1>5. \A i \in 1 .. m : \A d \in States : Rewrite(b, d, i) \in States
  BY <1>2, RewriteStep
<1>6. PICK h : Folds(m, States, s0, G, h)
  <2>1. \A i \in 1 .. m : \A d \in States : G[i][d] \in States
    BY <1>5
  <2> HIDE DEF G
  <2> QED
    BY <1>2, <1>4, <2>1, FoldExists
<1>7. /\ h = [s \in SUBSET (1 .. m) |-> IF s = {} THEN s0 ELSE G[Max(s)][h[s \ {Max(s)}]]]
      /\ \A s \in SUBSET (1 .. m) : h[s] \in States
  <2> HIDE DEF G
  <2> QED
    BY <1>6 DEF Folds
<1>8. IsFold(h)
  <2>1. ASSUME NEW s \in SUBSET (1 .. m)
        PROVE  h[s] = IF s = {} THEN s0 ELSE Rewrite(b, h[s \ {Max(s)}], q[Max(s)])
    <3>1. CASE s # {}
      <4>1. Max(s) \in 1 .. m /\ s \ {Max(s)} \in SUBSET (1 .. m)
        BY <1>2, <3>1, MaxIn
      <4>2. h[s \ {Max(s)}] \in States /\ q[Max(s)] = Max(s)
        BY <1>2, <1>7, <4>1
      <4>3. G[Max(s)][h[s \ {Max(s)}]] = Rewrite(b, h[s \ {Max(s)}], Max(s))
        BY <4>1, <4>2
      <4> HIDE DEF G
      <4> QED
        BY <1>7, <3>1, <4>2, <4>3
    <3>2. CASE s = {}
      BY <1>7, <3>2
    <3> QED
      BY <3>1, <3>2
  <2>2. h = [s \in SUBSET (1 .. m) |-> h[s]]
    BY <1>7
  <2> QED
    BY <1>2, <2>1, <2>2
<1>9. IsFold(fold)
  <2> HIDE DEF IsFold
  <2> QED
    BY <1>8
<1> HIDE DEF fold
<1>10. fold[{}] = s0
  BY <1>2, <1>9
<1>11. \A k \in 0 .. m - 1 : fold[1 .. k + 1] = Rewrite(b, fold[1 .. k], k + 1)
  <2> TAKE k \in 0 .. m - 1
  <2>1. k \in Nat /\ 1 .. k + 1 \in SUBSET (1 .. m) /\ k + 1 \in 1 .. m
    BY <1>2
  <2>2. 1 .. k + 1 # {} /\ Max(1 .. k + 1) = k + 1 /\ (1 .. k + 1) \ {k + 1} = 1 .. k
    BY <2>1, MaxOfInterval
  <2> DEFINE s == 1 .. k + 1
  <2>3. s \in SUBSET (1 .. m) /\ s # {} /\ Max(s) = k + 1 /\ s \ {k + 1} = 1 .. k /\ q[k + 1] = k + 1
    BY <1>2, <2>1, <2>2
  <2> HIDE DEF s
  <2>4. fold[s] = Rewrite(b, fold[s \ {Max(s)}], q[Max(s)])
    BY <1>2, <1>9, <2>3
  <2> QED
    BY <2>3, <2>4 DEF s
<1> HIDE DEF IsFold, G
<1> DEFINE H(k, w, rep) == Held(base, w) \o Pushed(b, k, w, rep)
           Deed(j, rep) == IF code[b][j].op = "load" THEN Gets(rep, <<b, j>>, H(j - 1, code[b][j].lval, rep))
                           ELSE <<b, j>> \notin DOMAIN rep
           Fine(k) == /\ fold[1 .. k] \in States
                      /\ Extends(fold[1 .. k].replaced, replaced, b, 1 .. k)
                      /\ \A w : Held(fold[1 .. k].stacks, w) = H(k, w, fold[1 .. k].replaced)
                      /\ \A j \in 1 .. k : Deed(j, fold[1 .. k].replaced)
           S == {k \in 0 .. m : Fine(k)}
<1>12. \A w : Held(base, w) \in Seq(Names)
  BY HeldType
<1>13. Fine(0)
  <2>1. 1 .. 0 = {} /\ 0 \in 0 .. m
    BY <1>2
  <2>2. fold[1 .. 0] = s0
    BY <1>10, <2>1
  <2>3. Extends(replaced, replaced, b, 1 .. 0)
    BY DEF Extends
  <2>4. \A w : Held(st, w) = H(0, w, replaced)
    <3> TAKE w
    <3>1. Parts(b, 0, w, replaced) = <<>>
      BY <2>1, PartsNext DEF m
    <3>2. PhiPart(b, w) \o <<>> = PhiPart(b, w)
      BY PartType, ConcatEmptySeq
    <3> QED
      BY <1>3, <3>1, <3>2 DEF Pushed
  <2> HIDE DEF H, Deed
  <2>5. \A j \in 1 .. 0 : Deed(j, replaced)
    BY <2>1
  <2> QED
    BY <1>4, <2>2, <2>3, <2>4, <2>5
<1>14. ASSUME NEW k \in 0 .. m - 1, Fine(k) PROVE Fine(k + 1)
  <2> DEFINE t == fold[1 .. k]
             u == fold[1 .. k + 1]
             i == k + 1
  <2>1. k \in 0 .. m /\ i \in 1 .. m /\ i \in DOMAIN code[b] /\ i \in 0 .. Len(code[b]) /\ i - 1 = k /\ k \in Nat
    BY <1>2 DEF m
  <2>2. t \in States /\ u = Rewrite(b, t, i)
    BY <1>11, <1>14
  <2>3. /\ u \in States
        /\ \A w : Held(u.stacks, w) = Held(t.stacks, w) \o Part(b, i, w, t.replaced)
        /\ Extends(u.replaced, t.replaced, b, {i})
        /\ code[b][i].op = "load" /\ <<b, i>> \notin DOMAIN t.replaced =>
             Gets(u.replaced, <<b, i>>, Held(t.stacks, code[b][i].lval))
        /\ code[b][i].op # "load" => u.replaced = t.replaced
    <3> HIDE DEF t, u, i
    <3> QED
      BY <2>1, <2>2, RewriteStep
  <2>4. Extends(t.replaced, replaced, b, 1 .. k)
    BY <1>14
  <2>5. \A w : Held(t.stacks, w) = H(k, w, t.replaced)
    BY <1>14
  <2>6. \A j \in 1 .. k : Deed(j, t.replaced)
    BY <1>14
  <2>7. t.replaced \in Replacements /\ u.replaced \in Replacements
    BY <2>2, <2>3 DEF States
  <2> HIDE DEF t, u, i
  <2>8. <<b, i>> \notin DOMAIN t.replaced
    <3>1. \A j \in 1 .. k : <<b, j>> # <<b, i>>
      BY <2>1 DEF i
    <3> QED
      BY <2>4, <3>1 DEF Extends
  <2>9. Extends(u.replaced, replaced, b, 1 .. i)
    <3>1. \A j \in 1 .. k : j \in 1 .. i
      BY <2>1 DEF i
    <3>2. i \in 1 .. i
      BY <2>1
    <3> QED
      BY <2>3, <2>4, <3>1, <3>2 DEF Extends
  <2>10. \A j \in 1 .. i - 1 : /\ <<b, j>> \in DOMAIN t.replaced <=> <<b, j>> \in DOMAIN u.replaced
                               /\ <<b, j>> \in DOMAIN t.replaced => t.replaced[<<b, j>>] = u.replaced[<<b, j>>]
    <3> TAKE j \in 1 .. i - 1
    <3>1. <<b, j>> # <<b, i>>
      BY <2>1
    <3> QED
      BY <2>3, <3>1 DEF Extends
  <2>11. \A v : \A j \in 0 .. i : Pushed(b, j, v, t.replaced) = Pushed(b, j, v, u.replaced)
    <3> DEFINE rt == t.replaced
               ru == u.replaced
    <3>1. Agree(b, i, rt, ru)
      BY <2>10 DEF Agree
    <3> HIDE DEF rt, ru
    <3>2. \A v : \A j \in 0 .. i : Pushed(b, j, v, rt) = Pushed(b, j, v, ru)
      BY <2>1, <3>1, PartsSame
    <3> QED
      BY <3>2 DEF rt, ru
  <2>12. \A w : \A j \in 0 .. i : H(j, w, t.replaced) = H(j, w, u.replaced)
    BY <2>11
  <2>13. \A w : Held(u.stacks, w) = H(i, w, u.replaced)
    <3> TAKE w
    <3>1. i \in 1 .. Len(code[b]) /\ i \in 0 .. i
      BY <2>1 DEF m
    <3>2. H(i, w, t.replaced) = H(i - 1, w, t.replaced) \o Part(b, i, w, t.replaced)
      BY <1>12, <2>7, <3>1, PushedNext
    <3> HIDE DEF H
    <3> QED
      BY <2>1, <2>3, <2>5, <2>12, <3>1, <3>2
  <2>14. ASSUME NEW j \in 1 .. k PROVE Deed(j, u.replaced)
    <3>1. Deed(j, t.replaced) /\ j - 1 \in 0 .. i /\ <<b, j>> # <<b, i>> /\ j \in 1 .. i - 1
      BY <2>1, <2>6 DEF i
    <3>2. \A w : H(j - 1, w, t.replaced) = H(j - 1, w, u.replaced)
      BY <2>12, <3>1
    <3> HIDE DEF H
    <3> QED
      BY <2>10, <3>1, <3>2 DEF Gets
  <2>15. Deed(i, u.replaced)
    <3>1. \A w : Held(t.stacks, w) = H(i - 1, w, u.replaced)
      <4>1. i - 1 \in 0 .. i
        BY <2>1
      <4> HIDE DEF H
      <4> QED
        BY <2>1, <2>5, <2>12, <4>1
    <3> HIDE DEF H
    <3> QED
      BY <2>3, <2>8, <3>1
  <2>16. \A j \in 1 .. i : Deed(j, u.replaced)
    <3>1. \A j \in 1 .. i : j \in 1 .. k \/ j = i
      BY <2>1 DEF i
    <3> HIDE DEF Deed
    <3> QED
      BY <2>14, <2>15, <3>1
  <2> HIDE DEF H, Deed
  <2> QED
    BY <2>3, <2>9, <2>13, <2>16 DEF u, i
<1> HIDE DEF Fine
<1>15. 0 \in S
  BY <1>2, <1>13
<1>16. \A k \in 0 .. m - 1 : k \in S => k + 1 \in S
  BY <1>2, <1>14
<1> HIDE DEF S
<1>17. m \in S
  BY <1>2, <1>15, <1>16, DP!Induction
<1>18. Rewritten(b) = fold[1 .. m] /\ Fine(m)
  BY <1>1, <1>2, <1>17 DEF S
<1> QED
  BY <1>2, <1>18 DEF m, Fine

\* Return pops as many as the call has pushed.
LEMMA PoppedIsPushed ==
  ASSUME CodeOK, NEW b \in blocks, NEW rep \in Replacements, NEW v
  PROVE  Popped(b, v) \in Nat /\ Len(Pushed(b, Len(code[b]), v, rep)) = Popped(b, v)
<1> DEFINE m == Len(code[b])
           Till(k) == {j \in 1 .. k : code[b][j].op = "store" /\ code[b][j].lval = v}
           Good(k) == /\ IsFiniteSet(Till(k))
                      /\ Len(Parts(b, k, v, rep)) = Cardinality(Till(k))
           S == {k \in 0 .. m : Good(k)}
<1>1. m \in Nat /\ DOMAIN code[b] = 1 .. m
  BY InstructionAt
<1>2. 0 \in S
  <2>1. Till(0) = {}
    OBVIOUS
  <2>2. Parts(b, 0, v, rep) = <<>>
    BY <1>1, PartsNext
  <2>3. IsFiniteSet(Till(0)) /\ Cardinality(Till(0)) = 0
    BY <2>1, FS_EmptySet
  <2> QED
    BY <1>1, <2>2, <2>3
<1>3. \A k \in 0 .. m - 1 : k \in S => k + 1 \in S
  <2> TAKE k \in 0 .. m - 1
  <2> HAVE k \in S
  <2> DEFINE i == k + 1
  <2>1. k \in Nat /\ i \in 1 .. m /\ i \in 0 .. m /\ i - 1 = k /\ i # 0 /\ k \in 0 .. m
    BY <1>1
  <2>2. IsFiniteSet(Till(k)) /\ Len(Parts(b, k, v, rep)) = Cardinality(Till(k)) /\ i \notin Till(k)
        /\ Cardinality(Till(k)) \in Nat
    <3>1. IsFiniteSet(Till(k)) /\ Len(Parts(b, k, v, rep)) = Cardinality(Till(k)) /\ i \notin Till(k)
      BY <2>1
    <3> HIDE DEF Till
    <3> QED
      BY <3>1, FS_CardinalityType
  <2>3. Parts(b, i, v, rep) = Parts(b, k, v, rep) \o Part(b, i, v, rep)
    BY <2>1, PartsNext DEF m
  <2>4. Parts(b, k, v, rep) \in Seq(Names) /\ Part(b, i, v, rep) \in Seq(Names)
    BY <1>1, <2>1, PartsNext, PartType DEF m
  <2>5. Len(Parts(b, i, v, rep)) = Len(Parts(b, k, v, rep)) + Len(Part(b, i, v, rep))
    BY <2>3, <2>4, ConcatProperties
  <2>6. \A j \in 1 .. i : j \in 1 .. k \/ j = i
    BY <2>1
  <2>7. \A j \in 1 .. k : j \in 1 .. i
    BY <2>1
  <2>8. CASE code[b][i].op = "store" /\ code[b][i].lval = v
    <3>1. Till(i) = Till(k) \cup {i}
      BY <2>1, <2>6, <2>7, <2>8
    <3>2. Len(Part(b, i, v, rep)) = 1
      BY <2>8 DEF Part
    <3> HIDE DEF Till, i
    <3>3. IsFiniteSet(Till(i)) /\ Cardinality(Till(i)) = Cardinality(Till(k)) + 1
      BY <2>2, <3>1, FS_AddElement
    <3> QED
      BY <2>1, <2>2, <2>5, <3>2, <3>3 DEF i
  <2>9. CASE ~ (code[b][i].op = "store" /\ code[b][i].lval = v)
    <3>1. Till(i) = Till(k)
      BY <2>6, <2>7, <2>9
    <3>2. Len(Part(b, i, v, rep)) = 0
      BY <2>9 DEF Part
    <3> HIDE DEF Till, i
    <3>3. Good(i)
      BY <2>2, <2>5, <3>1, <3>2
    <3> QED
      BY <2>1, <3>3 DEF i
  <2> QED
    BY <2>8, <2>9
<1> HIDE DEF S
<1>4. m \in S
  BY <1>1, <1>2, <1>3, DP!Induction
<1>5. Stores(b, v) = Till(m)
  BY <1>1 DEF Stores
<1>6. Len(Parts(b, m, v, rep)) = Cardinality(Stores(b, v)) /\ Cardinality(Stores(b, v)) \in Nat
  <2>1. Good(m)
    BY <1>4 DEF S
  <2> HIDE DEF Till
  <2> QED
    BY <1>5, <2>1, FS_CardinalityType
<1>7. Len(PhiPart(b, v)) = Cardinality({v} \cap PhiVars(b)) /\ Cardinality({v} \cap PhiVars(b)) \in Nat
  <2>1. CASE v \in PhiVars(b)
    <3>1. {v} \cap PhiVars(b) = {v}
      BY <2>1
    <3>2. Cardinality({v}) = 1
      BY FS_Singleton
    <3> QED
      BY <2>1, <3>1, <3>2 DEF PhiPart
  <2>2. CASE v \notin PhiVars(b)
    <3>1. {v} \cap PhiVars(b) = {}
      BY <2>2
    <3>2. Cardinality({}) = 0
      BY FS_EmptySet
    <3> QED
      BY <2>2, <3>1, <3>2 DEF PhiPart
  <2> QED
    BY <2>1, <2>2
<1>8. PhiPart(b, v) \in Seq(Names) /\ Parts(b, m, v, rep) \in Seq(Names)
  BY <1>1, PartType, PartsNext DEF m
<1>9. Len(Pushed(b, m, v, rep)) = Len(PhiPart(b, v)) + Len(Parts(b, m, v, rep))
  BY <1>8, ConcatProperties DEF Pushed
<1> QED
  BY <1>6, <1>7, <1>9 DEF Popped, m

-----------------------------------------------------------------------------
(***************************************************************************)
(* The tree that the walk is over, and where the phis are.                 *)
(***************************************************************************)
Over(b) == DP!Up(idom, Entry, b)
Kids == [a \in blocks |-> {b \in blocks \ {a} : idom[b] = a}]
IsTree(ix, N) == DP!Tree(idom, Entry, blocks, ix, N)

Shape ==
  /\ root = Entry /\ Entry \in blocks /\ blocks \subseteq Block /\ idom[Entry] = Entry
  /\ cfg \subseteq blocks \X (blocks \ {Entry})
  /\ dom_tree_succ_blocks = Kids
  /\ \E ix, N : IsTree(ix, N)
  /\ \A e \in cfg : Over(e[2]) \ {e[2]} \subseteq Over(e[1])
  /\ \A a \in blocks : dom_frontier[a] =
       {b \in blocks : (\E p \in blocks : <<p, b>> \in cfg /\ a \in Over(p)) /\ ~ (a \in Over(b) /\ a # b)}

\* A block that defines a variable has been seen to, or is still to be.
Defines(b, v) == v \in PhiVars(b) \/ Stores(b, v) # {}
PhisOK ==
  /\ phis \subseteq blocks \X Var /\ todo \in [Var -> SUBSET blocks]
  /\ \A b \in blocks, v \in Var :
       Defines(b, v) => b \in todo[v] \/ \A c \in dom_frontier[b] : <<c, v>> \in phis

\* Collect finds the tree finished.
LEMMA ShapeFound ==
  ASSUME MInv, code = <<>>, D!Finished, root = Entry, dom_tree_succ_blocks = Kids
  PROVE  Shape
<1>1. DP!GraphAssumption /\ DP!Inv /\ dom_frontier # <<>>
  BY Graph DEF MInv, D!Finished
<1>2. DP!Improving /\ blocks = visited /\ pass = <<>> /\ changed = FALSE /\ idom[root] = root
  BY <1>1 DEF DP!Inv, DP!Searching, DP!Improving
<1>3. /\ DP!Tree(idom, root, visited, DP!Ix, DP!Num) /\ DP!Numbered(cfg, root, visited, DP!Ix, DP!Num)
      /\ DP!Settled(cfg, root, idom, visited, visited)
      /\ \A a, b \in visited : DP!Dom(a, b) <=> a \in DP!Up(idom, root, b)
  BY <1>1, <1>2, DP!InTheEnd
<1>4. Entry \in blocks /\ blocks \subseteq Block /\ cfg \subseteq blocks \X (blocks \ {Entry})
  BY <1>2, <1>3 DEF DP!Numbered
<1>5. \E ix, N : IsTree(ix, N)
  <2> DEFINE ix == DP!Ix
             N == DP!Num
  <2>1. IsTree(ix, N)
    BY <1>2, <1>3 DEF IsTree
  <2> HIDE DEF ix, N
  <2> QED
    BY <2>1
<1>6. \A e \in cfg : Over(e[2]) \ {e[2]} \subseteq Over(e[1])
  <2> TAKE e \in cfg
  <2>1. e[1] \in blocks /\ e[2] \in blocks \ {Entry} /\ <<e[1], e[2]>> = e
    BY <1>4
  <2>2. DP!Up(idom, root, e[2]) \ {e[2]} \subseteq DP!Up(idom, root, e[1])
    BY <1>2, <1>3, <2>1 DEF DP!Settled
  <2> QED
    BY <2>2 DEF Over
<1>7. \A a \in blocks : dom_frontier[a] =
        {b \in blocks : (\E p \in blocks : <<p, b>> \in cfg /\ a \in Over(p)) /\ ~ (a \in Over(b) /\ a # b)}
  <2>1. DP!FrontierIsFrontier
    BY <1>1, DP!FrontiersFound
  <2> TAKE a \in blocks
  <2>2. dom_frontier[a] = {b \in blocks : /\ \E p \in DP!F!Preds(cfg, b) : DP!Dom(a, p)
                                          /\ ~ (DP!Dom(a, b) /\ a # b)}
    BY <1>1, <2>1 DEF DP!FrontierIsFrontier, DP!Finished
  <2>3. ASSUME NEW b \in blocks PROVE DP!F!Preds(cfg, b) = {p \in blocks : <<p, b>> \in cfg}
    BY <1>4 DEF DP!F!Preds
  <2>4. \A p \in blocks : DP!Dom(a, p) <=> a \in Over(p)
    BY <1>2, <1>3 DEF Over
  <2>5. ASSUME NEW b \in blocks
        PROVE  /\ (\E p \in DP!F!Preds(cfg, b) : DP!Dom(a, p)) <=> \E p \in blocks : <<p, b>> \in cfg /\ a \in Over(p)
               /\ DP!Dom(a, b) <=> a \in Over(b)
    BY <2>3, <2>4
  <2> QED
    BY <2>2, <2>5
<1> QED
  BY <1>2, <1>4, <1>5, <1>6, <1>7 DEF Shape

Untouched ==
  /\ phis = {} /\ todo = <<>> /\ calls = <<>> /\ var_to_val_stack = <<>> /\ replaced = <<>>
  /\ pairs = <<>> /\ at = <<>> /\ stored = {}

Static ==
  /\ dom_frontier # <<>> => dom_tree_succ_blocks = Kids
  /\ code = <<>> => Untouched
  /\ code # <<>> => Shape /\ CodeOK /\ PhisOK

LEMMA InitStatic == Init => Static
  BY DEF Init, D!Init, Static, Untouched

\* Every sequence that a block can have is in order.
LEMMA CodesInOrder ==
  ASSUME Shape, NEW cs \in [blocks -> Codes(Cardinality(blocks))], code' = cs, blocks' = blocks
  PROVE  CodeOK'
<1>1. /\ IsFiniteSet(Block) /\ blocks \subseteq Block /\ Entry \in blocks
  <2>1. DP!IsFiniteSet(Block)
    BY Graph DEF DP!GraphAssumption
  <2>2. IsFiniteSet(Block)
    BY <2>1 DEF DP!IsFiniteSet, IsFiniteSet
  <2> QED
    BY <2>2 DEF Shape
<1>2. Cardinality(blocks) \in 1 .. Cardinality(Block)
  <2>1. IsFiniteSet(blocks) /\ Cardinality(blocks) <= Cardinality(Block) /\ Cardinality(Block) \in Nat
    BY <1>1, FS_Subset, FS_CardinalityType
  <2>2. Cardinality(blocks) \in Nat /\ Cardinality(blocks) # 0
    BY <1>1, <2>1, FS_CardinalityType, FS_EmptySet
  <2> QED
    BY <2>1, <2>2
<1>3. ASSUME NEW b \in blocks
      PROVE  /\ cs[b] \in Seq(Instruction)
             /\ \A k \in DOMAIN cs[b] : cs[b][k].op = "store" =>
                  /\ cs[b][k].from \in 0 .. k - 1
                  /\ cs[b][k].from # 0 => \A j \in cs[b][k].from .. k - 1 : cs[b][j].op = "load"
  <2> DEFINE c == cs[b]
  <2>1. c \in Codes(Cardinality(blocks))
    OBVIOUS
  <2> HIDE DEF c
  <2>2. /\ c \in Seq(Instruction)
        /\ \A k \in DOMAIN c :
             \/ c[k] \in {load(v) : v \in Var}
             \/ \E v \in Var, i \in 0 .. k - 1 :
                  /\ c[k] = store(v, i)
                  /\ i # 0 => c[i].op = "load" /\ \A j \in i .. k - 1 : c[j].op = "load"
    BY <1>2, <2>1, CodesAssumption
  <2>3. ASSUME NEW k \in DOMAIN c, c[k].op = "store"
        PROVE  /\ c[k].from \in 0 .. k - 1
               /\ c[k].from # 0 => \A j \in c[k].from .. k - 1 : c[j].op = "load"
    <3>1. c[k] \notin {load(v) : v \in Var}
      BY <2>3 DEF load
    <3>2. PICK v \in Var, i \in 0 .. k - 1 :
            /\ c[k] = store(v, i)
            /\ i # 0 => c[i].op = "load" /\ \A j \in i .. k - 1 : c[j].op = "load"
      BY <2>2, <3>1
    <3>3. c[k].from = i
      BY <3>2 DEF store
    <3> QED
      BY <3>2, <3>3
  <2> QED
    BY <2>2, <2>3 DEF c
<1>4. DOMAIN cs = blocks
  OBVIOUS
<1> QED
  BY <1>1, <1>3, <1>4 DEF CodeOK

LEMMA SameShape ==
  ASSUME UNCHANGED <<domVars, code>>
  PROVE  /\ Shape' <=> Shape
         /\ CodeOK' <=> CodeOK
         /\ \A b : Over(b)' = Over(b)
         /\ Kids' = Kids
         /\ \A b, v : Stores(b, v)' = Stores(b, v)
<1>1. UNCHANGED <<cfg, root, blocks, idom, dom_frontier, dom_tree_succ_blocks>> /\ code' = code
  BY DEF domVars
<1>2. \A b : Over(b)' = Over(b)
  BY <1>1 DEF Over
<1>3. Kids' = Kids
  BY <1>1 DEF Kids
<1>4. \A ix, N : IsTree(ix, N)' <=> IsTree(ix, N)
  BY <1>1 DEF IsTree
<1>5. Shape' <=> Shape
  <2>1. (\E ix, N : IsTree(ix, N))' <=> \E ix, N : IsTree(ix, N)
    BY <1>4
  <2>2. (\A e \in cfg : Over(e[2]) \ {e[2]} \subseteq Over(e[1]))'
          <=> \A e \in cfg : Over(e[2]) \ {e[2]} \subseteq Over(e[1])
    BY <1>1, <1>2
  <2> DEFINE InFrontier(a, b) == (\E p \in blocks : <<p, b>> \in cfg /\ a \in Over(p)) /\ ~ (a \in Over(b) /\ a # b)
  <2>3. \A a, b : InFrontier(a, b)' <=> InFrontier(a, b)
    BY <1>1, <1>2
  <2> HIDE DEF InFrontier
  <2>4. (\A a \in blocks : dom_frontier[a] = {b \in blocks : InFrontier(a, b)})'
          <=> \A a \in blocks : dom_frontier[a] = {b \in blocks : InFrontier(a, b)}
    BY <1>1, <2>3
  <2>5. (\A a \in blocks : dom_frontier[a] =
           {b \in blocks : (\E p \in blocks : <<p, b>> \in cfg /\ a \in Over(p)) /\ ~ (a \in Over(b) /\ a # b)})'
          <=> \A a \in blocks : dom_frontier[a] =
           {b \in blocks : (\E p \in blocks : <<p, b>> \in cfg /\ a \in Over(p)) /\ ~ (a \in Over(b) /\ a # b)}
    BY <2>4 DEF InFrontier
  <2> QED
    BY <1>1, <1>3, <2>1, <2>2, <2>5 DEF Shape
<1>6. CodeOK' <=> CodeOK
  BY <1>1 DEF CodeOK
<1>7. \A b, v : Stores(b, v)' = Stores(b, v)
  BY <1>1 DEF Stores
<1> QED
  BY <1>2, <1>3, <1>5, <1>6, <1>7

\* The phis of a frontier go in.
LEMMA InsertKeeps ==
  ASSUME Shape, PhisOK, NEW v \in Var, NEW b \in Block, InsertPhis(v, b)
  PROVE  PhisOK'
<1> DEFINE new == {c \in dom_frontier[b] : <<c, v>> \notin phis}
<1>1. /\ b \in todo[v] /\ phis' = phis \cup (new \X {v})
      /\ todo' = [todo EXCEPT ![v] = (@ \ {b}) \cup new] /\ UNCHANGED <<domVars, code>>
  BY DEF InsertPhis, Queued
<1>2. blocks' = blocks /\ dom_frontier' = dom_frontier /\ \A x, w : Stores(x, w)' = Stores(x, w)
  BY <1>1, SameShape DEF domVars
<1>3. b \in blocks /\ new \subseteq blocks /\ phis \subseteq blocks \X Var /\ todo \in [Var -> SUBSET blocks]
  BY <1>1 DEF PhisOK, Shape
<1>4. \A c \in dom_frontier[b] : <<c, v>> \in phis'
  BY <1>1
<1>5. phis \subseteq phis' /\ \A x, w : <<x, w>> \in phis' => <<x, w>> \in phis \/ (w = v /\ x \in new)
  BY <1>1
<1> HIDE DEF new
<1>6. /\ todo' \in [Var -> SUBSET blocks]
      /\ \A w \in Var : \A x : x \in todo[w] => x \in todo'[w] \/ (w = v /\ x = b)
      /\ new \subseteq todo'[v]
  BY <1>1, <1>3
<1>7. ASSUME NEW x \in blocks, NEW w \in Var, Defines(x, w)'
      PROVE  x \in todo'[w] \/ \A c \in dom_frontier[x] : <<c, w>> \in phis'
  <2>1. CASE Defines(x, w)
    <3>1. x \in todo[w] \/ \A c \in dom_frontier[x] : <<c, w>> \in phis
      BY <2>1 DEF PhisOK
    <3> QED
      BY <1>4, <1>5, <1>6, <3>1
  <2>2. CASE ~ Defines(x, w)
    <3>1. <<x, w>> \in phis' /\ <<x, w>> \notin phis
      BY <1>2, <1>7, <2>2 DEF Defines, PhiVars
    <3> QED
      BY <1>5, <1>6, <3>1
  <2> QED
    BY <2>1, <2>2
<1>8. phis' \subseteq blocks \X Var
  BY <1>1, <1>3
<1> QED
  BY <1>2, <1>6, <1>7, <1>8 DEF PhisOK

LEMMA NextStatic == MInv /\ Static /\ [Next]_vars => Static'
<1> SUFFICES ASSUME MInv, Static, [Next]_vars PROVE Static'
  OBVIOUS
<1>1. CASE ComputeDominators
  <2>1. DP!Next /\ UNCHANGED <<code, work, at, stored>>
    BY <1>1, SameNext DEF ComputeDominators
  <2>2. code = <<>>
    <3> SUFFICES ASSUME code # <<>> PROVE FALSE
      OBVIOUS
    <3>1. root # NoBlock
      BY NullAssumption DEF D!GraphAssumption, MInv
    <3> QED
      BY <1>1, <3>1 DEF ComputeDominators, MInv, D!Next, D!Call, D!Number, D!Prune, D!Improve,
         D!Repeat, D!Generate
  <2>3. Untouched'
    BY <2>1, <2>2 DEF Static, Untouched, work
  <2>4. CASE dom_frontier = <<>>
    <3>1. dom_frontier' # <<>> => D!Generate
      BY <1>1, <2>4 DEF ComputeDominators, D!Next, D!Call, D!Number, D!Prune, D!Improve, D!Repeat
    <3>2. D!Generate => dom_tree_succ_blocks' = Kids'
      BY DEF D!Generate, Kids
    <3> QED
      BY <2>1, <2>2, <2>3, <3>1, <3>2 DEF Static
  <2>5. CASE dom_frontier # <<>>
    <3>1. DP!Improving /\ pass = <<>> /\ changed = FALSE /\ calls = <<>> /\ visits = <<>> /\ idom[root] = root
      BY <2>2, <2>5 DEF MInv, DP!Inv, DP!Searching, DP!Improving, Static, Untouched
    <3>2. root # NoBlock
      BY NullAssumption DEF D!GraphAssumption, MInv
    <3> QED
      BY <1>1, <2>5, <3>1, <3>2 DEF ComputeDominators, D!Next, D!Call, D!Number, D!Prune, D!Improve,
         D!Repeat, D!Generate
  <2> QED
    BY <2>4, <2>5
<1>2. CASE Collect
  <2>1. /\ D!Finished /\ root = Entry /\ code = <<>>
        /\ code' \in [blocks -> Codes(Cardinality(blocks))]
        /\ todo' = [v \in Var |-> {b \in blocks : Stores(b, v)' # {}}]
        /\ UNCHANGED <<cfg, root, blocks, idom, dom_frontier, dom_tree_succ_blocks, phis>>
    BY <1>2 DEF Collect
  <2>2. Shape /\ dom_tree_succ_blocks = Kids /\ phis = {}
    BY <2>1, ShapeFound DEF Static, Untouched, D!Finished
  <2>3. (\A b : Over(b)' = Over(b)) /\ Kids' = Kids /\ \A ix, N : IsTree(ix, N)' <=> IsTree(ix, N)
    BY <2>1 DEF Over, Kids, IsTree
  <2>4. Shape'
    BY <2>1, <2>2, <2>3 DEF Shape
  <2>5. CodeOK'
    BY <2>1, <2>2, CodesInOrder
  <2>6. PhisOK'
    <3>1. \A b, v : Defines(b, v)' => Stores(b, v)' # {}
      BY <2>1, <2>2 DEF Defines, PhiVars
    <3>2. todo' \in [Var -> SUBSET blocks] /\ phis' = {} /\ blocks' = blocks
      BY <2>1, <2>2
    <3>3. \A b \in blocks, v \in Var : Stores(b, v)' # {} => b \in todo'[v]
      BY <2>1
    <3> QED
      BY <3>1, <3>2, <3>3 DEF PhisOK
  <2>7. code' # <<>>
    <3>1. Entry \in DOMAIN code'
      BY <2>1, <2>2 DEF Shape
    <3> QED
      BY <3>1
  <2> QED
    BY <2>1, <2>2, <2>3, <2>4, <2>5, <2>6, <2>7 DEF Static
<1>3. CASE UNCHANGED <<domVars, code>> /\ \E v \in Var, b \in Block : InsertPhis(v, b)
  <2>1. code # <<>>
    BY <1>3 DEF InsertPhis
  <2>2. PhisOK'
    BY <1>3, <2>1, InsertKeeps DEF Static
  <2> QED
    BY <1>3, <2>1, <2>2, SameShape DEF Static, domVars
<1>4. CASE UNCHANGED <<domVars, code, todo, phis>> /\ code # <<>>
  <2>1. PhisOK'
    <3>1. /\ UNCHANGED <<blocks, phis, todo, dom_frontier>> /\ PhisOK
          /\ \A b, v : Stores(b, v)' = Stores(b, v)
      BY <1>4, SameShape DEF Static, domVars
    <3>2. \A b, v : Defines(b, v)' <=> Defines(b, v)
      BY <3>1 DEF Defines, PhiVars
    <3> QED
      BY <3>1, <3>2 DEF PhisOK
  <2> QED
    BY <1>4, <2>1, SameShape DEF Static, domVars
<1>5. CASE UNCHANGED <<domVars, code, todo, phis>> /\ code = <<>> /\ ~ ComputeDominators /\ ~ Collect
  <2>1. code = <<>> /\ calls = <<>> /\ at = <<>> /\ Untouched
    BY <1>5 DEF Static, Untouched
  <2>2. UNCHANGED vars
    BY <1>5, <2>1 DEF Next, InsertPhis, Start, Recur, Return, Load, Store, Goto, Ongoing
  <2>3. Untouched' /\ Kids' = Kids /\ UNCHANGED <<code, dom_frontier, dom_tree_succ_blocks>>
    BY <1>5, <2>1, <2>2, SameShape DEF Untouched, vars, work, domVars
  <2> QED
    BY <2>1, <2>3 DEF Static
<1>6. \/ ComputeDominators \/ Collect \/ UNCHANGED <<domVars, code, todo, phis>>
      \/ UNCHANGED <<domVars, code>> /\ \E v \in Var, b \in Block : InsertPhis(v, b)
  BY DEF Next, vars, work, InsertPhis, Start, Recur, Enter, Return, Load, Store, Goto
<1> QED
  BY <1>1, <1>2, <1>3, <1>4, <1>5, <1>6

-----------------------------------------------------------------------------
(***************************************************************************)
(* The walk of rename over the tree.                                       *)
(***************************************************************************)
LEMMA TreeFacts ==
  ASSUME Shape, NEW b \in blocks
  PROVE  /\ b \in Over(b) /\ Over(b) \subseteq blocks /\ Entry \in Over(b) /\ Over(Entry) = {Entry}
         /\ \A c \in Over(b) : Over(c) \subseteq Over(b) /\ (b \in Over(c) => c = b)
         /\ \A c, d \in Over(b) : c \in Over(d) \/ d \in Over(c)
         /\ \A c \in Kids[b] : /\ c \in blocks /\ c # Entry /\ c \notin Over(b) /\ Over(c) = {c} \cup Over(b)
                               /\ \A a \in blocks : c \in Kids[a] => a = b
         /\ \A c \in Over(b) : c # b => \E d \in Kids[c] : d \in Over(b)
<1>1. PICK ix, N : IsTree(ix, N)
  BY DEF Shape
<1>2. /\ DP!Tree(idom, Entry, blocks, ix, N) /\ Entry \in blocks /\ idom[Entry] = Entry
  BY <1>1 DEF Shape, IsTree
<1>3. N \in Nat /\ \A x \in blocks : ix[x] \in 0 .. N
  BY <1>2 DEF DP!Tree
<1>4. ASSUME NEW x \in blocks
      PROVE  /\ x \in Over(x) /\ Over(x) \subseteq blocks /\ Entry \in Over(x)
             /\ \A c \in Over(x) : /\ c # Entry => idom[c] \in Over(x)
                                   /\ Over(c) \subseteq Over(x) /\ (c = x \/ ix[c] > ix[x])
             /\ x # Entry => Over(x) = {x} \cup Over(idom[x]) /\ x \notin Over(idom[x])
             /\ Over(Entry) = {Entry}
             /\ \A c, d \in Over(x) : ix[d] <= ix[c] => c \in Over(d)
             /\ x # Entry => idom[x] \in blocks /\ ix[idom[x]] > ix[x]
  <2>1. /\ x \in Over(x) /\ Over(x) \subseteq blocks
        /\ \A c \in Over(x) : /\ c # Entry => idom[c] \in Over(x)
                              /\ Over(c) \subseteq Over(x) /\ (c = x \/ ix[c] > ix[x])
    BY <1>2, DP!UpWay DEF Over
  <2>2. Entry \in Over(x)
    BY <1>2, DP!UpRoot DEF Over
  <2>3. /\ x # Entry => Over(x) = {x} \cup Over(idom[x]) /\ x \notin Over(idom[x])
        /\ Over(Entry) = {Entry}
    BY <1>2, DP!UpNext DEF Over
  <2>4. \A c, d \in Over(x) : ix[d] <= ix[c] => c \in Over(d)
    BY <1>2, DP!UpLinear DEF Over
  <2>5. x # Entry => idom[x] \in blocks /\ ix[idom[x]] > ix[x]
    BY <1>2 DEF DP!Tree
  <2> QED
    BY <2>1, <2>2, <2>3, <2>4, <2>5
<1>5. \A c \in Over(b) : Over(c) \subseteq Over(b) /\ (b \in Over(c) => c = b)
  <2> TAKE c \in Over(b)
  <2>1. c \in blocks
    BY <1>4
  <2>2. b \in Over(c) => c = b
    <3> SUFFICES ASSUME b \in Over(c), c # b PROVE FALSE
      OBVIOUS
    <3>1. ix[c] > ix[b] /\ ix[b] > ix[c]
      BY <1>4, <2>1
    <3> QED
      BY <1>3, <2>1, <3>1
  <2> QED
    BY <1>4, <2>2
<1>6. \A c, d \in Over(b) : c \in Over(d) \/ d \in Over(c)
  <2> TAKE c, d \in Over(b)
  <2>1. c \in blocks /\ d \in blocks
    BY <1>4
  <2>2. ix[d] <= ix[c] \/ ix[c] <= ix[d]
    BY <1>3, <2>1
  <2> QED
    BY <1>4, <2>2
<1>7. \A c \in Kids[b] : /\ c \in blocks /\ c # Entry /\ c \notin Over(b) /\ Over(c) = {c} \cup Over(b)
                         /\ \A a \in blocks : c \in Kids[a] => a = b
  <2> TAKE c \in Kids[b]
  <2>1. c \in blocks \ {b} /\ idom[c] = b /\ c # Entry
    BY <1>2 DEF Kids
  <2> QED
    BY <1>4, <2>1 DEF Kids
<1>8. \A c \in Over(b) : c # b => \E d \in Kids[c] : d \in Over(b)
  <2> SUFFICES ASSUME NEW c \in Over(b), c # b PROVE \E d \in Kids[c] : d \in Over(b)
    OBVIOUS
  <2> DEFINE S == {x \in Over(b) : c \in Over(x) /\ x # c}
  <2>1. b \in S /\ S \subseteq blocks /\ c \in blocks
    BY <1>4
  <2>2. PICK y \in S : \A x \in S : ix[x] <= ix[y]
    <3>1. S # {} /\ \A x \in S : ix[x] \in 0 .. N
      BY <1>3, <2>1
    <3> HIDE DEF S
    <3> QED
      BY <1>3, <3>1, DP!Topmost
  <2>3. y \in Over(b) /\ y \in blocks /\ c \in Over(y) /\ y # c
    BY <2>1
  <2>4. y # Entry
    BY <1>4, <2>3
  <2>5. idom[y] \in Over(b) /\ c \in Over(idom[y]) /\ idom[y] \in blocks /\ ix[idom[y]] > ix[y]
    BY <1>4, <2>3, <2>4
  <2>6. idom[y] = c
    <3>1. idom[y] \notin S
      BY <1>3, <2>2, <2>3, <2>5
    <3> QED
      BY <2>5, <3>1
  <2> QED
    BY <2>1, <2>3, <2>6 DEF Kids
<1> QED
  BY <1>4, <1>5, <1>6, <1>7, <1>8

\* The calls in progress: the blocks on the way from the entry to one block, with the
\* children that wait.
Walk(cs) ==
  /\ cs \in Seq([block : blocks, rest : SUBSET blocks])
  /\ \A n \in 1 .. Len(cs) :
       /\ cs[n].rest \subseteq Kids[cs[n].block]
       /\ IF n = 1 THEN cs[n].block = Entry ELSE cs[n].block \in Kids[cs[n - 1].block] \ cs[n - 1].rest
       /\ Over(cs[n].block) = {cs[i].block : i \in 1 .. n}
       /\ \A i \in 1 .. n - 1 : cs[i].block # cs[n].block

Left(cs) == {x \in blocks : \E n \in 1 .. Len(cs) : Over(x) \cap cs[n].rest # {}}

LEMMA WalkFacts ==
  ASSUME Shape, NEW cs, Walk(cs)
  PROVE  /\ Len(cs) \in Nat /\ DOMAIN cs = 1 .. Len(cs)
         /\ \A n \in 1 .. Len(cs) : cs[n].block \in blocks /\ cs[n].rest \in SUBSET blocks
         /\ \A n, i \in 1 .. Len(cs) : cs[i].block = cs[n].block => i = n
         /\ \A n, i \in 1 .. Len(cs) : cs[i].block \notin cs[n].rest
         /\ \A n \in 1 .. Len(cs) : cs[n].block \notin Left(cs)
<1>1. /\ Len(cs) \in Nat /\ DOMAIN cs = 1 .. Len(cs)
      /\ \A n \in 1 .. Len(cs) : cs[n].block \in blocks /\ cs[n].rest \in SUBSET blocks
  <2> DEFINE T == [block : blocks, rest : SUBSET blocks]
  <2>1. cs \in Seq(T)
    BY DEF Walk
  <2> HIDE DEF T
  <2>2. Len(cs) \in Nat /\ DOMAIN cs = 1 .. Len(cs) /\ \A n \in 1 .. Len(cs) : cs[n] \in T
    BY <2>1
  <2> QED
    BY <2>2 DEF T
<1>2. \A n, i \in 1 .. Len(cs) : cs[i].block = cs[n].block => i = n
  <2> TAKE n, i \in 1 .. Len(cs)
  <2>1. i < n => cs[i].block # cs[n].block
    <3>1. i < n => i \in 1 .. n - 1
      BY <1>1
    <3> QED
      BY <3>1 DEF Walk
  <2>2. n < i => cs[i].block # cs[n].block
    <3>1. n < i => n \in 1 .. i - 1
      BY <1>1
    <3> QED
      BY <3>1 DEF Walk
  <2> QED
    BY <1>1, <2>1, <2>2
<1>3. \A n, i \in 1 .. Len(cs) : cs[i].block \notin cs[n].rest
  <2> SUFFICES ASSUME NEW n \in 1 .. Len(cs), NEW i \in 1 .. Len(cs), cs[i].block \in cs[n].rest PROVE FALSE
    OBVIOUS
  <2>1. cs[i].block \in Kids[cs[n].block] /\ cs[n].block \in blocks
    BY <1>1 DEF Walk
  <2>2. cs[i].block # Entry /\ \A a \in blocks : cs[i].block \in Kids[a] => a = cs[n].block
    BY <2>1, TreeFacts
  <2>3. i # 1 /\ cs[i].block \in Kids[cs[i - 1].block] \ cs[i - 1].rest
    BY <2>2 DEF Walk
  <2>4. i - 1 \in 1 .. Len(cs)
    BY <1>1, <2>3
  <2>5. i - 1 = n
    BY <1>1, <1>2, <2>2, <2>3, <2>4
  <2> QED
    BY <2>3, <2>5
<1>4. ASSUME NEW n \in 1 .. Len(cs) PROVE cs[n].block \notin Left(cs)
  <2>1. ASSUME NEW m \in 1 .. Len(cs) PROVE Over(cs[n].block) \cap cs[m].rest = {}
    <3>1. Over(cs[n].block) = {cs[i].block : i \in 1 .. n}
      BY DEF Walk
    <3>2. \A i \in 1 .. n : i \in 1 .. Len(cs)
      BY <1>1
    <3> QED
      BY <1>3, <3>1, <3>2
  <2> QED
    BY <2>1 DEF Left
<1> QED
  BY <1>1, <1>2, <1>3, <1>4

\* A call is made for the entry, or for a child that no longer waits.
LEMMA WalkAppend ==
  ASSUME Shape, NEW cs, Walk(cs), NEW b \in blocks,
         IF cs = <<>> THEN b = Entry ELSE b \in Kids[Last(cs).block] \ Last(cs).rest
  PROVE  Walk(Append(cs, [block |-> b, rest |-> Kids[b]]))
<1> DEFINE r == [block |-> b, rest |-> Kids[b]]
           L == Len(cs)
           w == Append(cs, r)
<1>1. /\ L \in Nat /\ \A n \in 1 .. L : cs[n].block \in blocks
      /\ \A n, i \in 1 .. L : cs[i].block = cs[n].block => i = n
  BY WalkFacts
<1>2. r \in [block : blocks, rest : SUBSET blocks] /\ cs \in Seq([block : blocks, rest : SUBSET blocks])
  BY DEF Kids, Walk
<1> HIDE DEF r
<1>3. /\ w \in Seq([block : blocks, rest : SUBSET blocks]) /\ Len(w) = L + 1
      /\ \A n \in 1 .. L : w[n] = cs[n]
      /\ w[L + 1] = r
  BY <1>2
<1> HIDE DEF w
<1>4. r.block = b /\ r.rest = Kids[b]
  BY DEF r
<1>5. /\ Over(b) = {w[i].block : i \in 1 .. L + 1}
      /\ \A i \in 1 .. L : cs[i].block # b
      /\ L + 1 # 1 => b \in Kids[cs[L].block] \ cs[L].rest
      /\ L + 1 = 1 => b = Entry
  <2>1. CASE cs = <<>>
    <3>1. L = 0 /\ b = Entry
      BY <2>1
    <3>2. Over(b) = {b}
      BY <3>1, TreeFacts
    <3> QED
      BY <1>3, <1>4, <3>1, <3>2
  <2>2. CASE cs # <<>>
    <3>1. L # 0 /\ L \in 1 .. L /\ Last(cs) = cs[L]
      BY <1>1, <1>2, <2>2, EmptySeq DEF Last
    <3>2. b \in Kids[cs[L].block] \ cs[L].rest
      BY <2>2, <3>1
    <3>3. b \notin Over(cs[L].block) /\ Over(b) = {b} \cup Over(cs[L].block)
      BY <1>1, <3>1, <3>2, TreeFacts
    <3>4. Over(cs[L].block) = {cs[i].block : i \in 1 .. L}
      BY <3>1 DEF Walk
    <3>5. \A i \in 1 .. L + 1 : i \in 1 .. L \/ i = L + 1
      BY <1>1
    <3>6. \A i \in 1 .. L : i \in 1 .. L + 1
      BY <1>1
    <3>7. L + 1 \in 1 .. L + 1
      BY <1>1
    <3>8. {w[i].block : i \in 1 .. L + 1} = {b} \cup {cs[i].block : i \in 1 .. L}
      BY <1>3, <1>4, <3>5, <3>6, <3>7
    <3>9. \A i \in 1 .. L : cs[i].block # b
      BY <3>3, <3>4
    <3>10. L + 1 # 1
      BY <1>1, <3>1
    <3>11. Over(b) = {w[i].block : i \in 1 .. L + 1}
      BY <3>3, <3>4, <3>8
    <3> QED
      BY <3>2, <3>9, <3>10, <3>11
  <2> QED
    BY <2>1, <2>2
<1>6. ASSUME NEW n \in 1 .. L + 1
      PROVE  /\ w[n].rest \subseteq Kids[w[n].block]
             /\ IF n = 1 THEN w[n].block = Entry ELSE w[n].block \in Kids[w[n - 1].block] \ w[n - 1].rest
             /\ Over(w[n].block) = {w[i].block : i \in 1 .. n}
             /\ \A i \in 1 .. n - 1 : w[i].block # w[n].block
  <2>1. CASE n \in 1 .. L
    <3>1. /\ cs[n].rest \subseteq Kids[cs[n].block]
          /\ IF n = 1 THEN cs[n].block = Entry ELSE cs[n].block \in Kids[cs[n - 1].block] \ cs[n - 1].rest
          /\ Over(cs[n].block) = {cs[i].block : i \in 1 .. n}
          /\ \A i \in 1 .. n - 1 : cs[i].block # cs[n].block
      BY <2>1 DEF Walk
    <3>2. (\A i \in 1 .. n : w[i] = cs[i]) /\ w[n] = cs[n] /\ (\A i \in 1 .. n - 1 : w[i] = cs[i])
          /\ (n # 1 => w[n - 1] = cs[n - 1])
      BY <1>1, <1>3, <2>1
    <3>3. {w[i].block : i \in 1 .. n} = {cs[i].block : i \in 1 .. n}
      BY <3>2
    <3> QED
      BY <3>1, <3>2, <3>3
  <2>2. CASE n = L + 1
    <3>1. w[n] = r /\ (n # 1 => w[n - 1] = cs[L]) /\ \A i \in 1 .. n - 1 : i \in 1 .. L /\ w[i] = cs[i]
      BY <1>1, <1>3, <2>2
    <3> QED
      BY <1>4, <1>5, <2>2, <3>1
  <2> QED
    BY <1>1, <2>1, <2>2
<1>7. Walk(w)
  BY <1>3, <1>6 DEF Walk
<1> QED
  BY <1>7 DEF w, r

\* The call for the entry leaves every other block.
LEMMA LeftStart ==
  ASSUME Shape
  PROVE  /\ Walk(<<>>) /\ Left(<<>>) = {}
         /\ Left(Append(<<>>, [block |-> Entry, rest |-> Kids[Entry]])) = blocks \ {Entry}
<1> DEFINE r == [block |-> Entry, rest |-> Kids[Entry]]
           w == Append(<<>>, r)
<1>1. Entry \in blocks
  BY DEF Shape
<1>2. Len(w) = 1 /\ w[1].rest = Kids[Entry] /\ 1 .. 1 = {1}
  OBVIOUS
<1> HIDE DEF w
<1>3. ASSUME NEW x \in blocks PROVE Over(x) \cap Kids[Entry] # {} <=> x # Entry
  <2>1. /\ Entry \in Over(x) /\ Over(Entry) = {Entry}
        /\ x # Entry => \E d \in Kids[Entry] : d \in Over(x)
    BY TreeFacts
  <2>2. Entry \notin Kids[Entry]
    BY <1>1, TreeFacts
  <2> QED
    BY <2>1, <2>2
<1>4. Left(w) = blocks \ {Entry}
  BY <1>2, <1>3 DEF Left
<1>5. Walk(<<>>) /\ Left(<<>>) = {}
  <2> DEFINE T == [block : blocks, rest : SUBSET blocks]
  <2> HIDE DEF T
  <2>1. Len(<<>>) = 0 /\ 1 .. 0 = {} /\ <<>> \in Seq(T)
    OBVIOUS
  <2>2. 1 .. Len(<<>>) = {} /\ <<>> \in Seq([block : blocks, rest : SUBSET blocks])
    BY <2>1 DEF T
  <2>3. Walk(<<>>)
    BY <2>2 DEF Walk
  <2>4. Left(<<>>) = {}
    BY <2>2 DEF Left
  <2> QED
    BY <2>3, <2>4
<1> QED
  BY <1>4, <1>5 DEF w

\* A call for a child: that child, and nothing below it, has been entered.
Without(cs, b) == [cs EXCEPT ![Len(cs)].rest = @ \ {b}]

Taken(cs, b, w) ==
  /\ Walk(w) /\ w # <<>> /\ Len(w) = Len(cs)
  /\ \A n \in 1 .. Len(cs) : /\ w[n].block = cs[n].block
                             /\ w[n].rest = IF n = Len(cs) THEN cs[n].rest \ {b} ELSE cs[n].rest
  /\ b \in blocks /\ b \in cs[Len(cs)].rest /\ Len(cs) \in 1 .. Len(cs)
  /\ b \in Kids[Last(w).block] \ Last(w).rest

LEMMA WithoutFacts ==
  ASSUME Shape, NEW cs, Walk(cs), cs # <<>>, NEW b \in Last(cs).rest
  PROVE  Taken(cs, b, Without(cs, b))
<1> DEFINE L == Len(cs)
           T == [block : blocks, rest : SUBSET blocks]
           w == Without(cs, b)
<1>1. cs \in Seq(T)
  BY DEF Walk
<1>2. L \in Nat \ {0} /\ L \in 1 .. L /\ Last(cs) = cs[L] /\ cs[L] \in T /\ DOMAIN cs = 1 .. L
  <2> HIDE DEF T
  <2>1. L \in Nat \ {0}
    BY <1>1, EmptySeq
  <2> QED
    BY <1>1, <2>1 DEF Last
<1>3. b \in cs[L].rest /\ cs[L].rest \in SUBSET blocks /\ b \in blocks
  BY <1>2
<1> DEFINE t == [cs[L] EXCEPT !.rest = @ \ {b}]
<1>4. t \in T /\ t.block = cs[L].block /\ t.rest = cs[L].rest \ {b}
  BY <1>2
<1>5. w = [cs EXCEPT ![L] = t]
  BY DEF Without
<1> HIDE DEF t, w
<1>6. w \in Seq(T) /\ Len(w) = L /\ \A n \in 1 .. L : w[n] = IF n = L THEN t ELSE cs[n]
  <2> HIDE DEF T
  <2> QED
    BY <1>1, <1>2, <1>4, <1>5
<1>7. \A n \in 1 .. L : w[n].block = cs[n].block /\ w[n].rest = IF n = L THEN cs[n].rest \ {b} ELSE cs[n].rest
  BY <1>4, <1>6
<1>8. w # <<>> /\ Last(w) = w[L]
  BY <1>2, <1>6 DEF Last
<1>9. b \in Kids[Last(w).block] \ Last(w).rest
  <2>1. cs[L].rest \subseteq Kids[cs[L].block]
    BY <1>2 DEF Walk
  <2> QED
    BY <1>2, <1>3, <1>7, <1>8, <2>1
<1>10. ASSUME NEW n \in 1 .. L
       PROVE  /\ w[n].rest \subseteq Kids[w[n].block]
              /\ IF n = 1 THEN w[n].block = Entry ELSE w[n].block \in Kids[w[n - 1].block] \ w[n - 1].rest
              /\ Over(w[n].block) = {w[i].block : i \in 1 .. n}
              /\ \A i \in 1 .. n - 1 : w[i].block # w[n].block
  <2>1. /\ cs[n].rest \subseteq Kids[cs[n].block]
        /\ IF n = 1 THEN cs[n].block = Entry ELSE cs[n].block \in Kids[cs[n - 1].block] \ cs[n - 1].rest
        /\ Over(cs[n].block) = {cs[i].block : i \in 1 .. n}
        /\ \A i \in 1 .. n - 1 : cs[i].block # cs[n].block
    BY DEF Walk
  <2>2. (\A i \in 1 .. n : w[i].block = cs[i].block) /\ (\A i \in 1 .. n - 1 : w[i].block = cs[i].block)
    <3>1. (\A i \in 1 .. n : i \in 1 .. L) /\ \A i \in 1 .. n - 1 : i \in 1 .. L
      BY <1>2
    <3> QED
      BY <1>7, <3>1
  <2>3. {w[i].block : i \in 1 .. n} = {cs[i].block : i \in 1 .. n}
    BY <2>2
  <2>4. n # 1 => w[n - 1].block = cs[n - 1].block /\ w[n - 1].rest = cs[n - 1].rest
    <3>1. n # 1 => n - 1 \in 1 .. L /\ n - 1 # L
      BY <1>2
    <3> QED
      BY <1>7, <3>1
  <2>5. w[n].rest \subseteq Kids[w[n].block] /\ w[n].block = cs[n].block
    BY <1>7, <2>1
  <2>6. \A i \in 1 .. n - 1 : w[i].block # w[n].block
    BY <2>1, <2>2, <2>5
  <2> QED
    BY <2>1, <2>3, <2>4, <2>5, <2>6
<1>11. Walk(w)
  BY <1>6, <1>10 DEF Walk
<1> QED
  BY <1>2, <1>3, <1>6, <1>7, <1>8, <1>9, <1>11 DEF Taken, w

LEMMA LeftRecur ==
  ASSUME Shape, NEW cs, Walk(cs), cs # <<>>, NEW b \in Last(cs).rest
  PROVE  /\ \A x \in blocks : b \in Over(x) => x \in Left(cs)
         /\ Left(Append(Without(cs, b), [block |-> b, rest |-> Kids[b]])) = Left(cs) \ {b}
<1> DEFINE L == Len(cs)
           T == [block : blocks, rest : SUBSET blocks]
           w == Without(cs, b)
           r == [block |-> b, rest |-> Kids[b]]
           a == Append(w, r)
<1>1. /\ Walk(w) /\ w # <<>> /\ Len(w) = L
      /\ \A n \in 1 .. L : w[n].rest = IF n = L THEN cs[n].rest \ {b} ELSE cs[n].rest
      /\ b \in blocks /\ b \in cs[L].rest /\ L \in 1 .. L
      /\ b \in Kids[Last(w).block] \ Last(w).rest
  <2>1. Taken(cs, b, w)
    BY WithoutFacts
  <2> HIDE DEF w
  <2> QED
    BY <2>1 DEF Taken
<1>2. Walk(a)
  <2> HIDE DEF w
  <2> QED
    BY <1>1, WalkAppend
<1> HIDE DEF w
<1>3. w \in Seq(T) /\ r \in T /\ r.rest = Kids[b] /\ r.block = b
  BY <1>1 DEF Walk, Kids
<1> HIDE DEF r
<1>4. /\ Len(a) = L + 1 /\ a[L + 1] = r /\ \A n \in 1 .. L : a[n] = w[n]
      /\ L + 1 \in 1 .. L + 1
  <2> HIDE DEF T
  <2> QED
    BY <1>1, <1>3
<1> HIDE DEF a
<1>5. b \notin Left(a)
  <2>1. a[L + 1].block \notin Left(a)
    BY <1>2, <1>4, WalkFacts
  <2> QED
    BY <1>3, <1>4, <2>1
<1>6. \A x \in blocks : b \in Over(x) => x \in Left(cs)
  BY <1>1 DEF Left
<1>7. ASSUME NEW x \in Left(a) PROVE x \in Left(cs)
  <2>1. PICK n \in 1 .. L + 1 : Over(x) \cap a[n].rest # {}
    BY <1>4 DEF Left
  <2>2. x \in blocks
    BY DEF Left
  <2>3. CASE n \in 1 .. L
    <3>1. a[n].rest \subseteq cs[n].rest
      BY <1>1, <1>4, <2>3
    <3> QED
      BY <2>1, <2>2, <2>3, <3>1 DEF Left
  <2>4. CASE n = L + 1
    <3>1. PICK c \in Kids[b] : c \in Over(x)
      BY <1>3, <1>4, <2>1, <2>4
    <3>2. b \in Over(c) /\ c \in blocks
      BY <1>1, <3>1, TreeFacts
    <3>3. b \in Over(x)
      BY <2>2, <3>1, <3>2, TreeFacts
    <3> QED
      BY <1>6, <2>2, <3>3
  <2>5. n \in 1 .. L \/ n = L + 1
    BY <1>1
  <2> QED
    BY <2>3, <2>4, <2>5
<1>8. ASSUME NEW x \in Left(cs), x # b PROVE x \in Left(a)
  <2>1. PICK n \in 1 .. L : Over(x) \cap cs[n].rest # {}
    BY DEF Left
  <2>2. x \in blocks
    BY DEF Left
  <2>3. PICK c \in Over(x) : c \in cs[n].rest
    BY <2>1
  <2>4. CASE n = L /\ c = b
    <3>1. PICK d \in Kids[b] : d \in Over(x)
      BY <1>8, <2>2, <2>4, TreeFacts
    <3>2. d \in a[L + 1].rest
      BY <1>3, <1>4, <3>1
    <3> QED
      BY <1>4, <2>2, <3>1, <3>2 DEF Left
  <2>5. CASE ~ (n = L /\ c = b)
    <3>1. c \in a[n].rest
      BY <1>1, <1>4, <2>3, <2>5
    <3>2. n \in 1 .. L + 1
      BY <1>1
    <3> QED
      BY <1>4, <2>2, <2>3, <3>1, <3>2 DEF Left
  <2> QED
    BY <2>4, <2>5
<1>9. Left(a) = Left(cs) \ {b}
  BY <1>5, <1>7, <1>8
<1> QED
  BY <1>6, <1>9 DEF a, w, r

\* A call that returns has entered everything below its block.
LEMMA LeftReturn ==
  ASSUME Shape, NEW cs, Walk(cs), cs # <<>>, Last(cs).rest = {}
  PROVE  /\ Walk(Front(cs)) /\ Left(Front(cs)) = Left(cs) /\ Len(Front(cs)) = Len(cs) - 1
         /\ \A n \in 1 .. Len(cs) - 1 : Front(cs)[n] = cs[n]
         /\ Len(cs) \in 1 .. Len(cs) /\ Last(cs) = cs[Len(cs)]
<1> DEFINE L == Len(cs)
           T == [block : blocks, rest : SUBSET blocks]
           w == Front(cs)
<1>1. cs \in Seq(T)
  BY DEF Walk
<1> HIDE DEF T
<1>2. L \in Nat \ {0} /\ L \in 1 .. L /\ Last(cs) = cs[L]
  <2>1. L \in Nat \ {0}
    BY <1>1, EmptySeq
  <2> QED
    BY <2>1 DEF Last
<1>3. w \in Seq(T) /\ Len(w) = L - 1 /\ \A n \in 1 .. L - 1 : w[n] = cs[n]
  <2>1. w = SubSeq(cs, 1, L - 1)
    BY DEF Front
  <2>2. 1 \in 1 .. Len(cs) + 1 /\ L - 1 \in 0 .. Len(cs) /\ L - 1 \in Nat
    BY <1>2
  <2> HIDE DEF w
  <2>3. \A n \in 1 .. L - 1 : n \in 1 .. Len(cs)
    BY <1>2
  <2>4. w = [n \in 1 .. L - 1 |-> cs[n]]
    <3>1. w = [n \in 1 .. (L - 1) - 1 + 1 |-> cs[n + 1 - 1]]
      BY <2>1 DEF SubSeq
    <3> QED
      BY <1>2, <3>1
  <2>5. \A n \in 1 .. L - 1 : w[n] \in T
    BY <1>1, <2>3, <2>4
  <2> QED
    BY <2>2, <2>4, <2>5
<1> HIDE DEF w
<1>4. \A n \in 1 .. L - 1 : n \in 1 .. L
  BY <1>2
<1>5. \A n \in 1 .. L : n \in 1 .. L - 1 \/ n = L
  BY <1>2
<1>6. Left(w) = Left(cs)
  <2>1. ASSUME NEW x PROVE (\E n \in 1 .. Len(w) : Over(x) \cap w[n].rest # {})
                            <=> \E n \in 1 .. Len(cs) : Over(x) \cap cs[n].rest # {}
    BY <1>2, <1>3, <1>4, <1>5
  <2> QED
    BY <2>1 DEF Left
<1>7. ASSUME NEW n \in 1 .. L - 1
      PROVE  /\ w[n].rest \subseteq Kids[w[n].block]
             /\ IF n = 1 THEN w[n].block = Entry ELSE w[n].block \in Kids[w[n - 1].block] \ w[n - 1].rest
             /\ Over(w[n].block) = {w[i].block : i \in 1 .. n}
             /\ \A i \in 1 .. n - 1 : w[i].block # w[n].block
  <2>1. /\ cs[n].rest \subseteq Kids[cs[n].block]
        /\ IF n = 1 THEN cs[n].block = Entry ELSE cs[n].block \in Kids[cs[n - 1].block] \ cs[n - 1].rest
        /\ Over(cs[n].block) = {cs[i].block : i \in 1 .. n}
        /\ \A i \in 1 .. n - 1 : cs[i].block # cs[n].block
    BY <1>4 DEF Walk
  <2>2. (\A i \in 1 .. n : w[i] = cs[i]) /\ (\A i \in 1 .. n - 1 : w[i] = cs[i]) /\ w[n] = cs[n]
        /\ (n # 1 => w[n - 1] = cs[n - 1])
    <3>1. /\ \A i \in 1 .. n : i \in 1 .. L - 1
          /\ \A i \in 1 .. n - 1 : i \in 1 .. n
          /\ n \in 1 .. n /\ (n # 1 => n - 1 \in 1 .. n)
      BY <1>2
    <3>2. \A i \in 1 .. L - 1 : w[i] = cs[i]
      BY <1>3
    <3>3. \A i \in 1 .. n : w[i] = cs[i]
      BY <3>1, <3>2, Zenon
    <3> QED
      BY <3>1, <3>3, Zenon
  <2>3. {w[i].block : i \in 1 .. n} = {cs[i].block : i \in 1 .. n}
    BY <2>2
  <2> QED
    BY <2>1, <2>2, <2>3
<1>8. Walk(w)
  BY <1>3, <1>7 DEF Walk, T
<1> QED
  BY <1>2, <1>3, <1>6, <1>8 DEF w

-----------------------------------------------------------------------------
(***************************************************************************)
(* The stacks during the walk.                                             *)
(***************************************************************************)
\* What block b pushes on the stack of v, and what the first n calls have left there.
All(b, v, rep) == Pushed(b, Len(code[b]), v, rep)
Pile(cs, n, v, rep) == FlattenSeq([i \in 1 .. n |-> All(cs[i].block, v, rep)])

Stacked(cs, st, rep) ==
  /\ st \in Stacks /\ rep \in Replacements
  /\ \A v : Held(st, v) = Pile(cs, Len(cs), v, rep)

LEMMA AllType ==
  ASSUME CodeOK, NEW b \in blocks, NEW rep \in Replacements, NEW v
  PROVE  /\ All(b, v, rep) \in Seq(Names)
         /\ \A k \in 0 .. Len(code[b]) : Pushed(b, k, v, rep) \in Seq(Names)
<1>1. Len(code[b]) \in 0 .. Len(code[b])
  BY InstructionAt
<1> QED
  BY <1>1, PartsNext DEF All

LEMMA PileNext ==
  ASSUME CodeOK, NEW rep \in Replacements, NEW n \in Nat, NEW cs,
         \A i \in 1 .. n : cs[i].block \in blocks, NEW v
  PROVE  /\ Pile(cs, n, v, rep) \in Seq(Names)
         /\ n = 0 => Pile(cs, n, v, rep) = <<>>
         /\ n # 0 => Pile(cs, n, v, rep) = Pile(cs, n - 1, v, rep) \o All(cs[n].block, v, rep)
<1> DEFINE s == [i \in 1 .. n |-> All(cs[i].block, v, rep)]
<1>1. \A i \in 1 .. n : All(cs[i].block, v, rep) \in Seq(Names)
  BY AllType
<1>2. s \in [1 .. n -> Seq(Names)]
  BY <1>1
<1>3. n # 0 => s[n] = All(cs[n].block, v, rep) /\ [i \in 1 .. n - 1 |-> s[i]] = [i \in 1 .. n - 1 |-> All(cs[i].block, v, rep)]
  OBVIOUS
<1> HIDE DEF s
<1>4. /\ FlattenSeq(s) \in Seq(Names)
      /\ n = 0 => FlattenSeq(s) = <<>>
      /\ n # 0 => FlattenSeq(s) = FlattenSeq([i \in 1 .. n - 1 |-> s[i]]) \o s[n]
  BY <1>2, FlattenNext
<1> QED
  BY <1>3, <1>4 DEF Pile, s

LEMMA PileSame ==
  ASSUME CodeOK, NEW r1, NEW r2, NEW n \in Nat, NEW c1, NEW c2,
         \A i \in 1 .. n : /\ c1[i].block \in blocks /\ c2[i].block = c1[i].block
                           /\ Agree(c1[i].block, Len(code[c1[i].block]), r1, r2)
  PROVE  \A v : Pile(c1, n, v, r1) = Pile(c2, n, v, r2)
<1>1. ASSUME NEW i \in 1 .. n, NEW v PROVE All(c1[i].block, v, r1) = All(c2[i].block, v, r2)
  <2> DEFINE b == c1[i].block
             k == Len(code[b])
  <2>1. b \in blocks /\ c2[i].block = b /\ Agree(b, k, r1, r2)
    OBVIOUS
  <2> HIDE DEF b
  <2>2. k \in 0 .. Len(code[b]) /\ k \in 0 .. k
    BY <2>1, InstructionAt
  <2> HIDE DEF k
  <2>3. Pushed(b, k, v, r1) = Pushed(b, k, v, r2)
    BY <2>1, <2>2, PartsSame
  <2> QED
    BY <2>1, <2>3 DEF All, b, k
<1> TAKE v
<1>2. [i \in 1 .. n |-> All(c1[i].block, v, r1)] = [i \in 1 .. n |-> All(c2[i].block, v, r2)]
  BY <1>1
<1> QED
  BY <1>2 DEF Pile

\* What the call for b does to the stacks and the loads.
LEMMA StackEnter ==
  ASSUME Shape, CodeOK, NEW cs, Walk(cs), Stacked(cs, var_to_val_stack, replaced), NEW b \in blocks,
         \A n \in 1 .. Len(cs) : cs[n].block # b, \A p \in DOMAIN replaced : p[1] # b
  PROVE  LET r == Rewritten(b)
             Seen(k, v) == Pile(cs, Len(cs), v, r.replaced) \o Pushed(b, k, v, r.replaced)
         IN  /\ Stacked(Append(cs, [block |-> b, rest |-> Kids[b]]), r.stacks, r.replaced)
             /\ Extends(r.replaced, replaced, b, DOMAIN code[b])
             /\ \A k \in DOMAIN code[b] :
                  IF code[b][k].op = "load" THEN Gets(r.replaced, <<b, k>>, Seen(k - 1, code[b][k].lval))
                  ELSE <<b, k>> \notin DOMAIN r.replaced
             /\ \A v : Held(r.stacks, v) = Seen(Len(code[b]), v)
<1> DEFINE r == Rewritten(b)
           rep == r.replaced
           L == Len(cs)
           T == [block : blocks, rest : SUBSET blocks]
           c == [block |-> b, rest |-> Kids[b]]
           a == Append(cs, c)
<1>1. /\ var_to_val_stack \in Stacks /\ replaced \in Replacements
      /\ \A v : Held(var_to_val_stack, v) = Pile(cs, L, v, replaced)
  BY DEF Stacked
<1>2. /\ r \in States
      /\ \A w : Held(r.stacks, w) = Held(var_to_val_stack, w) \o Pushed(b, Len(code[b]), w, rep)
      /\ Extends(rep, replaced, b, DOMAIN code[b])
      /\ \A k \in DOMAIN code[b] :
           IF code[b][k].op = "load"
           THEN Gets(rep, <<b, k>>, Held(var_to_val_stack, code[b][k].lval) \o Pushed(b, k - 1, code[b][k].lval, rep))
           ELSE <<b, k>> \notin DOMAIN rep
  BY <1>1, BlockRewritten
<1> HIDE DEF r
<1>3. rep \in Replacements /\ r.stacks \in Stacks
  BY <1>2 DEF States
<1>4. L \in Nat /\ \A n \in 1 .. L : cs[n].block \in blocks
  BY WalkFacts
<1>5. \A n \in 1 .. L : Agree(cs[n].block, Len(code[cs[n].block]), replaced, rep)
  <2>1. ASSUME NEW x, x # b, NEW i
        PROVE  /\ <<x, i>> \in DOMAIN replaced <=> <<x, i>> \in DOMAIN rep
               /\ <<x, i>> \in DOMAIN replaced => replaced[<<x, i>>] = rep[<<x, i>>]
    <3>1. \A j \in DOMAIN code[b] : <<x, i>> # <<b, j>>
      BY <2>1
    <3> QED
      BY <1>2, <3>1 DEF Extends
  <2> QED
    BY <2>1 DEF Agree
<1>6. \A v : Pile(cs, L, v, replaced) = Pile(cs, L, v, rep)
  BY <1>4, <1>5, PileSame
<1>7. \A v : Held(var_to_val_stack, v) = Pile(cs, L, v, rep)
  BY <1>1, <1>6
<1>8. Stacked(a, r.stacks, rep)
  <2>1. cs \in Seq(T) /\ c \in T /\ c.block = b
    BY DEF Walk, Kids
  <2> HIDE DEF c, T
  <2>2. Len(a) = L + 1 /\ a[L + 1] = c /\ \A n \in 1 .. L : a[n] = cs[n]
    BY <2>1
  <2> HIDE DEF a
  <2>3. \A i \in 1 .. L + 1 : a[i].block \in blocks
    <3>1. \A i \in 1 .. L + 1 : i \in 1 .. L \/ i = L + 1
      BY <1>4
    <3> QED
      BY <1>4, <2>1, <2>2, <3>1
  <2>4. \A v : Pile(a, L, v, rep) = Pile(cs, L, v, rep)
    <3>1. \A v : [i \in 1 .. L |-> All(a[i].block, v, rep)] = [i \in 1 .. L |-> All(cs[i].block, v, rep)]
      BY <2>2
    <3> QED
      BY <3>1 DEF Pile
  <2>5. ASSUME NEW v PROVE Pile(a, L + 1, v, rep) = Pile(cs, L, v, rep) \o All(b, v, rep)
    <3>1. L + 1 \in Nat /\ L + 1 # 0 /\ (L + 1) - 1 = L
      BY <1>4
    <3>2. Pile(a, L + 1, v, rep) = Pile(a, (L + 1) - 1, v, rep) \o All(a[L + 1].block, v, rep)
      BY <1>3, <2>3, <3>1, PileNext
    <3> QED
      BY <2>1, <2>2, <2>4, <3>1, <3>2
  <2>6. \A v : Held(r.stacks, v) = Pile(a, L + 1, v, rep)
    BY <1>2, <1>7, <2>5 DEF All
  <2> QED
    BY <1>3, <2>2, <2>6 DEF Stacked
<1> QED
  BY <1>2, <1>7, <1>8 DEF r

\* What the return of the last call does to the stacks.
LEMMA StackReturn ==
  ASSUME Shape, CodeOK, NEW cs, Walk(cs), cs # <<>>, Last(cs).rest = {}, NEW st, NEW rep, Stacked(cs, st, rep)
  PROVE  Stacked(Front(cs), [v \in DOMAIN st |-> SubSeq(st[v], 1, Len(st[v]) - Popped(Last(cs).block, v))], rep)
<1> DEFINE L == Len(cs)
           b == Last(cs).block
           w == Front(cs)
           new == [v \in DOMAIN st |-> SubSeq(st[v], 1, Len(st[v]) - Popped(b, v))]
<1>1. /\ Len(w) = L - 1 /\ (\A n \in 1 .. L - 1 : w[n] = cs[n]) /\ L \in 1 .. L /\ Last(cs) = cs[L]
  BY LeftReturn
<1>2. /\ st \in Stacks /\ rep \in Replacements /\ \A v : Held(st, v) = Pile(cs, L, v, rep)
  BY DEF Stacked
<1>3. L \in Nat /\ \A n \in 1 .. L : cs[n].block \in blocks
  BY WalkFacts
<1>4. b \in blocks /\ L # 0 /\ L - 1 \in Nat /\ cs[L].block = b
  BY <1>1, <1>3
<1> HIDE DEF w
<1>5. ASSUME NEW v
      PROVE  /\ Pile(cs, L, v, rep) = Pile(cs, L - 1, v, rep) \o All(b, v, rep)
             /\ Pile(cs, L - 1, v, rep) \in Seq(Names) /\ All(b, v, rep) \in Seq(Names)
             /\ Len(All(b, v, rep)) = Popped(b, v) /\ Popped(b, v) \in Nat
  <2>1. \A i \in 1 .. L - 1 : cs[i].block \in blocks
    BY <1>3
  <2>2. Pile(cs, L - 1, v, rep) \in Seq(Names)
    BY <1>2, <1>4, <2>1, PileNext
  <2>3. Pile(cs, L, v, rep) = Pile(cs, L - 1, v, rep) \o All(cs[L].block, v, rep)
    BY <1>2, <1>3, <1>4, PileNext
  <2> HIDE DEF b
  <2>4. All(b, v, rep) \in Seq(Names)
    BY <1>2, <1>4, AllType
  <2>5. Popped(b, v) \in Nat /\ Len(All(b, v, rep)) = Popped(b, v)
    BY <1>2, <1>4, PoppedIsPushed DEF All
  <2> QED
    BY <1>4, <2>2, <2>3, <2>4, <2>5
<1> HIDE DEF b
<1>6. ASSUME NEW x \in Seq(Names), NEW y \in Seq(Names)
      PROVE  SubSeq(x \o y, 1, Len(x \o y) - Len(y)) = x
  <2>1. Len(x) \in Nat /\ Len(y) \in Nat /\ Len(x \o y) = Len(x) + Len(y)
        /\ \A i \in 1 .. Len(x) : (x \o y)[i] = x[i]
    BY ConcatProperties
  <2> DEFINE z == x \o y
             n == Len(x)
  <2> HIDE DEF z
  <2>2. SubSeq(z, 1, n) = [i \in 1 .. n - 1 + 1 |-> z[i + 1 - 1]]
    BY DEF SubSeq
  <2>3. SubSeq(z, 1, n) = [i \in 1 .. n |-> x[i]]
    <3>1. n - 1 + 1 = n /\ \A i \in 1 .. n : i + 1 - 1 = i
      BY <2>1
    <3> QED
      BY <2>1, <2>2, <3>1 DEF z
  <2>4. x = [i \in 1 .. n |-> x[i]]
    OBVIOUS
  <2>5. Len(z) - Len(y) = n
    BY <2>1 DEF z
  <2> QED
    BY <2>3, <2>4, <2>5 DEF z
<1>7. ASSUME NEW v PROVE Held(new, v) = Pile(cs, L - 1, v, rep)
  <2>1. CASE v \in DOMAIN st
    <3>1. st[v] = Pile(cs, L - 1, v, rep) \o All(b, v, rep)
      BY <1>2, <1>5, <2>1 DEF Held
    <3>2. SubSeq(st[v], 1, Len(st[v]) - Popped(b, v)) = Pile(cs, L - 1, v, rep)
      BY <1>5, <1>6, <3>1
    <3> QED
      BY <2>1, <3>2 DEF Held
  <2>2. CASE v \notin DOMAIN st
    <3>1. Pile(cs, L - 1, v, rep) \o All(b, v, rep) = <<>>
      BY <1>2, <1>5, <2>2 DEF Held
    <3>2. Pile(cs, L - 1, v, rep) = <<>>
      BY <1>5, <3>1, LastOfTwo
    <3> QED
      BY <2>2, <3>2 DEF Held
  <2> QED
    BY <2>1, <2>2
<1>8. new \in Stacks
  <2>1. DOMAIN new = DOMAIN st /\ DOMAIN st \in SUBSET Var
    BY <1>2, HeldType
  <2>2. \A v \in DOMAIN st : new[v] \in Seq(Names)
    <3> TAKE v \in DOMAIN st
    <3>1. new[v] = Held(new, v)
      BY DEF Held
    <3> HIDE DEF new
    <3> QED
      BY <1>5, <1>7, <3>1
  <2>3. new = [v \in DOMAIN st |-> new[v]]
    OBVIOUS
  <2> HIDE DEF new
  <2>4. new \in [DOMAIN st -> Seq(Names)]
    BY <2>2, <2>3
  <2> QED
    BY <2>1, <2>4 DEF Stacks
<1>9. \A v : Pile(w, L - 1, v, rep) = Pile(cs, L - 1, v, rep)
  <2>1. \A v : [i \in 1 .. L - 1 |-> All(w[i].block, v, rep)] = [i \in 1 .. L - 1 |-> All(cs[i].block, v, rep)]
    BY <1>1
  <2> QED
    BY <2>1 DEF Pile
<1> HIDE DEF new
<1>10. Stacked(w, new, rep)
  BY <1>1, <1>2, <1>7, <1>8, <1>9 DEF Stacked
<1> QED
  BY <1>10 DEF w, new, b

-----------------------------------------------------------------------------
(***************************************************************************)
(* The name a variable has at a place of the program: the last one that a  *)
(* block of the way to it in the tree, or its own block before the place,  *)
(* has pushed.                                                             *)
(***************************************************************************)
\* What block y pushes that can be seen after k instructions of b.
Upto(y, b, k, v, rep) == Pushed(y, IF y = b THEN k ELSE Len(code[y]), v, rep)

Name(rep, b, k, v, nm) ==
  \E z \in Over(b) : /\ Upto(z, b, k, v, rep) # <<>> /\ nm = Last(Upto(z, b, k, v, rep))
                     /\ \A q \in Over(b) : Upto(q, b, k, v, rep) # <<>> => q \in Over(z)

\* Such a name was bound before, or was never bound.
Before(nm, b, k) ==
  \/ nm = NoName
  \/ /\ nm \in Block \X (Nat \cup Var) /\ nm[1] \in Over(b)
     /\ nm[1] = b /\ nm[2] \in Nat => nm[2] <= k

\* One instruction more.
Grows(b, k, v, rep) ==
  IF code[b][k].op = "store" /\ code[b][k].lval = v
  THEN Pushed(b, k, v, rep) # <<>> /\ Last(Pushed(b, k, v, rep)) = Written(b, k, rep)
  ELSE Pushed(b, k, v, rep) = Pushed(b, k - 1, v, rep)

LEMMA OneMore ==
  ASSUME CodeOK, NEW b \in blocks, NEW rep \in Replacements, NEW v
  PROVE  /\ Pushed(b, 0, v, rep) = PhiPart(b, v)
         /\ \A k \in 1 .. Len(code[b]) : Grows(b, k, v, rep)
<1>1. Len(code[b]) \in Nat /\ DOMAIN code[b] = 1 .. Len(code[b])
  BY InstructionAt
<1>2. Pushed(b, 0, v, rep) = PhiPart(b, v)
  <2>1. Parts(b, 0, v, rep) = <<>>
    BY <1>1, PartsNext
  <2>2. PhiPart(b, v) \o <<>> = PhiPart(b, v)
    BY PartType, ConcatEmptySeq
  <2> QED
    BY <2>1, <2>2 DEF Pushed
<1>3. ASSUME NEW k \in 1 .. Len(code[b]) PROVE Grows(b, k, v, rep)
  <2> DEFINE x == Pushed(b, k - 1, v, rep)
             y == Pushed(b, k, v, rep)
             z == Part(b, k, v, rep)
  <2>1. k \in 0 .. Len(code[b]) /\ k - 1 \in 0 .. Len(code[b]) /\ k \in DOMAIN code[b]
    BY <1>1
  <2>2. x \in Seq(Names) /\ y \in Seq(Names) /\ z \in Seq(Names)
    BY <2>1, PartType, AllType
  <2>3. <<>> \in Seq(Names)
    OBVIOUS
  <2>4. <<>> \o y = (<<>> \o x) \o z
    BY <2>3, PushedNext
  <2> HIDE DEF x, y, z
  <2>5. <<>> \o y = y /\ <<>> \o x = x
    BY <2>2, ConcatEmptySeq
  <2>6. /\ z = <<>> => y = x
        /\ z # <<>> => y # <<>> /\ Last(y) = Last(z)
    <3>1. y = x \o z
      BY <2>4, <2>5
    <3>2. /\ z = <<>> => x \o z = x
          /\ z # <<>> => x \o z # <<>> /\ Last(x \o z) = Last(z)
      BY <2>2, LastOfTwo
    <3> QED
      BY <3>1, <3>2
  <2>7. CASE code[b][k].op = "store" /\ code[b][k].lval = v
    <3>1. z = <<Written(b, k, rep)>>
      BY <2>7 DEF z, Part
    <3>2. z # <<>> /\ Last(z) = Written(b, k, rep)
      BY <3>1 DEF Last
    <3> QED
      BY <2>6, <2>7, <3>2 DEF y, Grows
  <2>8. CASE ~ (code[b][k].op = "store" /\ code[b][k].lval = v)
    <3>1. z = <<>>
      BY <2>8 DEF z, Part
    <3> QED
      BY <2>6, <2>8, <3>1 DEF y, x, Grows
  <2> QED
    BY <2>7, <2>8
<1> QED
  BY <1>2, <1>3

\* A block that pushes on the stack of v is one that defines v.
LEMMA AllDefines ==
  ASSUME CodeOK, NEW b \in blocks, NEW rep \in Replacements, NEW v, All(b, v, rep) # <<>>
  PROVE  Defines(b, v)
<1> SUFFICES ASSUME ~ Defines(b, v) PROVE FALSE
  OBVIOUS
<1>1. Stores(b, v) = {} /\ {v} \cap PhiVars(b) = {}
  BY DEF Defines
<1>2. Cardinality(Stores(b, v)) = 0 /\ Cardinality({v} \cap PhiVars(b)) = 0
  BY <1>1, FS_EmptySet
<1>3. Len(All(b, v, rep)) = 0
  BY <1>2, PoppedIsPushed DEF All, Popped
<1>4. All(b, v, rep) \in Seq(Names)
  BY AllType
<1> QED
  BY <1>3, <1>4, EmptySeq

\* What the call for b finds on a stack is the name.
LEMMA NameOnStack ==
  ASSUME Shape, CodeOK, NEW cs, NEW b \in blocks, Walk(cs), Walk(Append(cs, [block |-> b, rest |-> Kids[b]])),
         NEW rep \in Replacements, NEW k \in 0 .. Len(code[b]), NEW v
  PROVE  LET st == Pile(cs, Len(cs), v, rep) \o Pushed(b, k, v, rep)
         IN  /\ st \in Seq(Names)
             /\ \A nm : Name(rep, b, k, v, nm) => st # <<>> /\ Last(st) = nm
             /\ st # <<>> => \E z \in Over(b) : /\ Upto(z, b, k, v, rep) # <<>>
                                                /\ Last(st) = Last(Upto(z, b, k, v, rep))
<1> DEFINE st == Pile(cs, Len(cs), v, rep) \o Pushed(b, k, v, rep)
           L == Len(cs)
           T == [block : blocks, rest : SUBSET blocks]
           c == [block |-> b, rest |-> Kids[b]]
           a == Append(cs, c)
           U(y) == Upto(y, b, k, v, rep)
<1>1. L \in Nat /\ (\A n \in 1 .. L : cs[n].block \in blocks)
  BY WalkFacts
<1>2. cs \in Seq(T) /\ c \in T /\ c.block = b
  BY DEF Walk, Kids
<1> HIDE DEF c, T
<1>3. Len(a) = L + 1 /\ a[L + 1] = c /\ \A n \in 1 .. L : a[n] = cs[n]
  BY <1>2
<1>4. Walk(a)
  BY DEF c
<1> HIDE DEF a
<1>5. /\ \A n \in 1 .. L + 1 : a[n].block \in blocks
      /\ \A n, i \in 1 .. L + 1 : a[i].block = a[n].block => i = n
  BY <1>3, <1>4, WalkFacts
<1>6. L + 1 \in 1 .. L + 1 /\ a[L + 1].block = b /\ \A n \in 1 .. L : n \in 1 .. L + 1 /\ n # L + 1
  BY <1>1, <1>2, <1>3
<1>7. \A n \in 1 .. L + 1 : Over(a[n].block) = {a[i].block : i \in 1 .. n}
  BY <1>3, <1>4 DEF Walk
<1>8. Over(b) = {a[i].block : i \in 1 .. L + 1}
  BY <1>6, <1>7
<1> DEFINE s == [n \in 1 .. L + 1 |-> U(a[n].block)]
<1>9. \A n \in 1 .. L + 1 : s[n] = U(a[n].block) /\ s[n] \in Seq(Names)
  <2> TAKE n \in 1 .. L + 1
  <2> DEFINE y == a[n].block
  <2>1. y \in blocks
    BY <1>5
  <2> HIDE DEF y
  <2>2. U(y) \in Seq(Names)
    BY <2>1, AllType DEF Upto, All
  <2> QED
    BY <2>2 DEF y
<1>10. s \in [1 .. L + 1 -> Seq(Names)]
  BY <1>9
<1>11. s[L + 1] = Pushed(b, k, v, rep) /\ \A n \in 1 .. L : s[n] = All(cs[n].block, v, rep)
  <2>1. s[L + 1] = Pushed(b, k, v, rep)
    BY <1>6 DEF Upto
  <2>2. ASSUME NEW n \in 1 .. L PROVE s[n] = All(cs[n].block, v, rep)
    <3>1. n \in 1 .. L + 1 /\ a[n].block # b /\ a[n] = cs[n]
      BY <1>3, <1>5, <1>6
    <3> QED
      BY <3>1 DEF Upto, All
  <2> QED
    BY <2>1, <2>2
<1> HIDE DEF s, U
<1>12. FlattenSeq(s) = st
  <2>1. L + 1 \in Nat /\ L + 1 # 0 /\ (L + 1) - 1 = L
    BY <1>1
  <2>2. FlattenSeq(s) = FlattenSeq([i \in 1 .. (L + 1) - 1 |-> s[i]]) \o s[L + 1]
    BY <1>10, <2>1, FlattenNext
  <2>3. [i \in 1 .. L |-> s[i]] = [i \in 1 .. L |-> All(cs[i].block, v, rep)]
    BY <1>11
  <2> QED
    BY <1>11, <2>1, <2>2, <2>3 DEF Pile
<1>13. /\ st \in Seq(Names)
       /\ st = <<>> => \A i \in 1 .. L + 1 : s[i] = <<>>
       /\ st # <<>> => \E i \in 1 .. L + 1 : /\ s[i] # <<>> /\ \A j \in i + 1 .. L + 1 : s[j] = <<>>
                                             /\ Last(st) = Last(s[i])
  <2>1. L + 1 \in Nat
    BY <1>1
  <2> HIDE DEF st
  <2>2. st \in Seq(Names)
    BY <1>10, <1>12, <2>1, FlattenNext
  <2>3. /\ FlattenSeq(s) = <<>> => \A i \in 1 .. L + 1 : s[i] = <<>>
        /\ FlattenSeq(s) # <<>> =>
             \E i \in 1 .. L + 1 : /\ s[i] # <<>> /\ \A j \in i + 1 .. L + 1 : s[j] = <<>>
                                   /\ Last(FlattenSeq(s)) = Last(s[i])
    BY <1>10, <2>1, FlattenLast, Zenon
  <2> QED
    BY <1>12, <2>2, <2>3, Zenon
<1> HIDE DEF st
<1>14. ASSUME NEW nm, Name(rep, b, k, v, nm) PROVE st # <<>> /\ Last(st) = nm
  <2>1. PICK z \in Over(b) : /\ U(z) # <<>> /\ nm = Last(U(z))
                             /\ \A q \in Over(b) : U(q) # <<>> => q \in Over(z)
    BY <1>14 DEF Name, U
  <2>2. PICK n \in 1 .. L + 1 : z = a[n].block
    BY <1>8
  <2>3. s[n] # <<>> /\ nm = Last(s[n])
    BY <1>9, <2>1, <2>2
  <2>4. st # <<>>
    BY <1>13, <2>3
  <2>5. PICK i \in 1 .. L + 1 : /\ s[i] # <<>> /\ \A j \in i + 1 .. L + 1 : s[j] = <<>>
                                /\ Last(st) = Last(s[i])
    BY <1>13, <2>4
  <2>6. n <= i
    <3>1. n \notin i + 1 .. L + 1
      BY <2>3, <2>5
    <3> QED
      BY <1>1, <3>1
  <2>7. i <= n
    <3>1. a[i].block \in Over(b) /\ U(a[i].block) # <<>>
      BY <1>8, <1>9, <2>5
    <3>2. a[i].block \in Over(a[n].block)
      BY <2>1, <2>2, <3>1
    <3>3. PICK j \in 1 .. n : a[i].block = a[j].block
      <4>1. Over(a[n].block) = {a[j].block : j \in 1 .. n}
        BY <1>7
      <4> QED
        BY <3>2, <4>1
    <3>4. j \in 1 .. L + 1
      BY <1>1
    <3>5. i = j
      BY <1>5, <3>3, <3>4
    <3> QED
      BY <3>5
  <2>8. i = n
    BY <2>6, <2>7
  <2> QED
    BY <2>3, <2>4, <2>5, <2>8
<1>15. ASSUME st # <<>>
       PROVE  \E z \in Over(b) : U(z) # <<>> /\ Last(st) = Last(U(z))
  <2>1. PICK i \in 1 .. L + 1 : s[i] # <<>> /\ Last(st) = Last(s[i])
    BY <1>13, <1>15
  <2>2. a[i].block \in Over(b) /\ s[i] = U(a[i].block)
    BY <1>8, <1>9
  <2> QED
    BY <2>1, <2>2
<1> QED
  BY <1>13, <1>14, <1>15 DEF st, U

\* Before is kept down the tree and by what comes later.
LEMMA BeforeDown ==
  ASSUME Shape, NEW b \in blocks, NEW z \in Over(b), NEW nm, NEW j \in Nat, NEW k \in Nat,
         Before(nm, z, j), z = b => j <= k
  PROVE  Before(nm, b, k)
<1>1. z \in blocks /\ Over(z) \subseteq Over(b) /\ (b \in Over(z) => z = b)
  BY TreeFacts
<1>2. CASE z = b
  BY <1>2 DEF Before
<1>3. CASE z # b
  BY <1>1, <1>3 DEF Before
<1> QED
  BY <1>2, <1>3

LEMMA NamesBefore ==
  ASSUME Shape, CodeOK, NEW b \in blocks, NEW rep \in Replacements, NEW v, NEW m \in 0 .. Len(code[b]),
         \A i \in 1 .. m - 1 : <<b, i>> \in DOMAIN rep => Before(rep[<<b, i>>], b, i - 1)
  PROVE  \A k \in 0 .. m : Pushed(b, k, v, rep) # <<>> => Before(Last(Pushed(b, k, v, rep)), b, k)
<1> DEFINE P(k) == Pushed(b, k, v, rep) # <<>> => Before(Last(Pushed(b, k, v, rep)), b, k)
           S == {k \in 0 .. m : P(k)}
<1>1. /\ Len(code[b]) \in Nat /\ m \in Nat /\ b \in Block /\ b \in Over(b)
      /\ DOMAIN code[b] = 1 .. Len(code[b])
  BY InstructionAt, TreeFacts
<1>2. P(0)
  <2>1. CASE v \in PhiVars(b)
    <3>1. Pushed(b, 0, v, rep) = << <<b, v>> >>
      BY <2>1, OneMore DEF PhiPart
    <3>2. Last(Pushed(b, 0, v, rep)) = <<b, v>>
      <4>1. \A x : Last(<<x>>) = x
        BY DEF Last
      <4> QED
        BY <3>1, <4>1
    <3>3. v \in Var /\ v \notin Nat
      BY <2>1, CodesAssumption DEF PhiVars
    <3> QED
      BY <1>1, <3>2, <3>3 DEF Before
  <2>2. CASE v \notin PhiVars(b)
    BY <2>2, OneMore DEF PhiPart
  <2> QED
    BY <2>1, <2>2
<1>3. ASSUME NEW k \in 0 .. m - 1, P(k) PROVE P(k + 1)
  <2> DEFINE i == k + 1
  <2>1. i \in 1 .. Len(code[b]) /\ i \in 1 .. m /\ i \in DOMAIN code[b] /\ i - 1 = k /\ k \in Nat /\ i \in Nat
    BY <1>1
  <2> HIDE DEF i
  <2>2. CASE code[b][i].op = "store" /\ code[b][i].lval = v
    <3>1. Last(Pushed(b, i, v, rep)) = Written(b, i, rep)
      BY <2>1, <2>2, OneMore DEF Grows
    <3>2. Before(Written(b, i, rep), b, i)
      <4> DEFINE f == code[b][i].from
      <4>1. f \in 0 .. i - 1
        BY <2>1, <2>2 DEF CodeOK
      <4> HIDE DEF f
      <4>2. CASE f = 0
        <5>1. Written(b, i, rep) = <<b, i>>
          BY <4>2 DEF Written, f
        <5> QED
          BY <1>1, <2>1, <5>1 DEF Before
      <4>3. CASE f # 0 /\ <<b, f>> \notin DOMAIN rep
        <5>1. Written(b, i, rep) = NoName
          BY <4>3 DEF Written, f
        <5> QED
          BY <5>1 DEF Before
      <4>4. CASE f # 0 /\ <<b, f>> \in DOMAIN rep
        <5>1. Written(b, i, rep) = rep[<<b, f>>]
          BY <4>4 DEF Written, f
        <5>2. f \in 1 .. m - 1 /\ f - 1 \in Nat /\ f - 1 <= i
          BY <2>1, <4>1, <4>4
        <5>3. Before(rep[<<b, f>>], b, f - 1)
          BY <4>4, <5>2
        <5> QED
          BY <1>1, <2>1, <5>1, <5>2, <5>3, BeforeDown
      <4> QED
        BY <4>2, <4>3, <4>4
    <3> QED
      BY <3>1, <3>2 DEF i
  <2>3. CASE ~ (code[b][i].op = "store" /\ code[b][i].lval = v)
    <3>1. Pushed(b, i, v, rep) = Pushed(b, k, v, rep)
      <4>1. Grows(b, i, v, rep)
        BY <2>1, OneMore
      <4> QED
        BY <2>1, <2>3, <4>1 DEF Grows
    <3>2. k <= i
      BY <2>1
    <3>3. \A nm : Before(nm, b, k) => Before(nm, b, i)
      BY <1>1, <2>1, <3>2, BeforeDown
    <3> QED
      BY <1>3, <3>1, <3>3 DEF i
  <2> QED
    BY <2>2, <2>3
<1>4. 0 \in S
  BY <1>1, <1>2
<1>5. \A k \in 0 .. m - 1 : k \in S => k + 1 \in S
  BY <1>1, <1>3
<1> HIDE DEF P
<1>6. \A k \in 0 .. m : P(k)
  <2> TAKE k \in 0 .. m
  <2> HIDE DEF S
  <2>1. k \in Nat /\ \A i \in 0 .. k - 1 : i \in S => i + 1 \in S
    BY <1>1, <1>5
  <2>2. k \in S
    BY <1>4, <2>1, DP!Induction
  <2> QED
    BY <2>2 DEF S
<1> QED
  BY <1>6 DEF P

\* Every name in the place of a load was bound before it.
Founded(rep) == \A q \in DOMAIN rep : rep[q] \in Names /\ Before(rep[q], q[1], q[2] - 1)

LEMMA EnterFounded ==
  ASSUME Shape, CodeOK, NEW cs, Walk(cs), Stacked(cs, var_to_val_stack, replaced), NEW b \in blocks,
         \A n \in 1 .. Len(cs) : cs[n].block # b, \A p \in DOMAIN replaced : p[1] # b,
         Walk(Append(cs, [block |-> b, rest |-> Kids[b]])), Founded(replaced)
  PROVE  Founded(Rewritten(b).replaced)
<1> DEFINE r == Rewritten(b)
           rep == r.replaced
           Seen(k, v) == Pile(cs, Len(cs), v, rep) \o Pushed(b, k, v, rep)
           m == Len(code[b])
<1>1. /\ Stacked(Append(cs, [block |-> b, rest |-> Kids[b]]), r.stacks, rep)
      /\ Extends(rep, replaced, b, DOMAIN code[b])
      /\ \A k \in DOMAIN code[b] :
           IF code[b][k].op = "load" THEN Gets(rep, <<b, k>>, Seen(k - 1, code[b][k].lval))
           ELSE <<b, k>> \notin DOMAIN rep
  BY StackEnter
<1>2. rep \in Replacements
  BY <1>1 DEF Stacked
<1> HIDE DEF r, m
<1>3. m \in Nat /\ DOMAIN code[b] = 1 .. m /\ b \in Over(b) /\ Over(b) \subseteq blocks
  BY InstructionAt, TreeFacts DEF m
<1> DEFINE S == {k \in 0 .. m : \A j \in 1 .. k : <<b, j>> \in DOMAIN rep => Before(rep[<<b, j>>], b, j - 1)}
<1>4. 0 \in S
  BY <1>3
<1>5. \A k \in 0 .. m - 1 : k \in S => k + 1 \in S
  <2> TAKE k \in 0 .. m - 1
  <2> HAVE k \in S
  <2>1. \A j \in 1 .. k : <<b, j>> \in DOMAIN rep => Before(rep[<<b, j>>], b, j - 1)
    OBVIOUS
  <2>2. k + 1 \in DOMAIN code[b] /\ (k + 1) - 1 = k /\ k \in Nat /\ k \in 0 .. Len(code[b])
        /\ \A j \in 1 .. k - 1 : j \in 1 .. k
    BY <1>3 DEF m
  <2>3. ASSUME <<b, k + 1>> \in DOMAIN rep PROVE Before(rep[<<b, k + 1>>], b, k)
    <3> DEFINE v == code[b][k + 1].lval
    <3>1. rep[<<b, k + 1>>] = IF Seen(k, v) = <<>> THEN NoName ELSE Last(Seen(k, v))
      BY <1>1, <2>2, <2>3 DEF Gets
    <3> HIDE DEF v
    <3>2. Seen(k, v) # <<>> => \E z \in Over(b) : /\ Upto(z, b, k, v, rep) # <<>>
                                                   /\ Last(Seen(k, v)) = Last(Upto(z, b, k, v, rep))
      BY <1>2, <2>2, NameOnStack
    <3> HIDE DEF Seen
    <3>3. ASSUME Seen(k, v) # <<>> PROVE Before(Last(Seen(k, v)), b, k)
      <4>1. PICK z \in Over(b) : /\ Upto(z, b, k, v, rep) # <<>>
                                 /\ Last(Seen(k, v)) = Last(Upto(z, b, k, v, rep))
        BY <3>2, <3>3
      <4>2. CASE z = b
        <5>1. Upto(z, b, k, v, rep) = Pushed(b, k, v, rep)
          BY <4>2 DEF Upto
        <5>2. \A i \in 1 .. k - 1 : <<b, i>> \in DOMAIN rep => Before(rep[<<b, i>>], b, i - 1)
          BY <2>1, <2>2
        <5>3. \A j \in 0 .. k : Pushed(b, j, v, rep) # <<>> => Before(Last(Pushed(b, j, v, rep)), b, j)
          BY <1>2, <2>2, <5>2, NamesBefore
        <5>4. k \in 0 .. k
          BY <2>2
        <5> QED
          BY <4>1, <5>1, <5>3, <5>4
      <4>3. CASE z # b
        <5> DEFINE n == Len(code[z])
        <5>1. z \in blocks /\ n \in Nat /\ n \in 0 .. n
          BY <1>3, InstructionAt
        <5>2. Upto(z, b, k, v, rep) = Pushed(z, n, v, rep)
          BY <4>3 DEF Upto
        <5>3. \A i \in 1 .. n - 1 : <<z, i>> \in DOMAIN rep => Before(rep[<<z, i>>], z, i - 1)
          <6> TAKE i \in 1 .. n - 1
          <6> HAVE <<z, i>> \in DOMAIN rep
          <6>1. \A j \in DOMAIN code[b] : <<z, i>> # <<b, j>>
            BY <4>3
          <6>2. <<z, i>> \in DOMAIN replaced /\ rep[<<z, i>>] = replaced[<<z, i>>]
            BY <1>1, <6>1 DEF Extends
          <6> QED
            BY <6>2 DEF Founded
        <5>4. \A j \in 0 .. n : Pushed(z, j, v, rep) # <<>> => Before(Last(Pushed(z, j, v, rep)), z, j)
          BY <1>2, <5>1, <5>3, NamesBefore
        <5>5. Before(Last(Seen(k, v)), z, n)
          BY <4>1, <5>1, <5>2, <5>4
        <5> QED
          BY <2>2, <4>3, <5>1, <5>5, BeforeDown
      <4> QED
        BY <4>2, <4>3
    <3>4. Before(NoName, b, k)
      BY DEF Before
    <3> QED
      BY <3>1, <3>3, <3>4
  <2>4. \A j \in 1 .. k + 1 : j \in 1 .. k \/ j = k + 1
    BY <2>2
  <2>5. \A j \in 1 .. k + 1 : <<b, j>> \in DOMAIN rep => Before(rep[<<b, j>>], b, j - 1)
    <3> TAKE j \in 1 .. k + 1
    <3> HAVE <<b, j>> \in DOMAIN rep
    <3> QED
      BY <2>1, <2>2, <2>3, <2>4
  <2> QED
    BY <1>3, <2>5
<1> HIDE DEF S
<1>6. m \in S
  BY <1>3, <1>4, <1>5, DP!Induction
<1>7. ASSUME NEW q \in DOMAIN rep PROVE rep[q] \in Names /\ Before(rep[q], q[1], q[2] - 1)
  <2>0. rep[q] \in Names
    BY <1>2 DEF Replacements
  <2>1. CASE q \in DOMAIN replaced
    <3>1. rep[q] = replaced[q]
      BY <1>1, <2>1 DEF Extends
    <3> QED
      BY <2>0, <2>1, <3>1 DEF Founded
  <2>2. CASE q \notin DOMAIN replaced
    <3>1. PICK j \in DOMAIN code[b] : q = <<b, j>>
      BY <1>1, <2>2 DEF Extends
    <3>2. Before(rep[<<b, j>>], b, j - 1)
      BY <1>3, <1>6, <3>1 DEF S
    <3> QED
      BY <2>0, <3>1, <3>2
  <2> QED
    BY <2>1, <2>2
<1>8. Founded(rep)
  BY <1>7 DEF Founded
<1> QED
  BY <1>8 DEF r

\* Names depend on the replacements in the blocks above only.
LEMMA NameSame ==
  ASSUME Shape, CodeOK, NEW b \in blocks, NEW k \in 0 .. Len(code[b]), NEW r1, NEW r2,
         \A z \in Over(b) : Agree(z, Len(code[z]), r1, r2)
  PROVE  \A v, nm : Name(r1, b, k, v, nm) <=> Name(r2, b, k, v, nm)
<1>1. ASSUME NEW z \in Over(b), NEW v PROVE Upto(z, b, k, v, r1) = Upto(z, b, k, v, r2)
  <2> DEFINE n == Len(code[z])
             j == IF z = b THEN k ELSE n
  <2>1. z \in blocks
    BY TreeFacts
  <2>2. n \in 0 .. Len(code[z]) /\ j \in 0 .. n
    BY <2>1, InstructionAt
  <2>3. Agree(z, n, r1, r2)
    OBVIOUS
  <2> HIDE DEF n, j
  <2>4. Pushed(z, j, v, r1) = Pushed(z, j, v, r2)
    BY <2>1, <2>2, <2>3, PartsSame
  <2> QED
    BY <2>4 DEF Upto, j, n
<1> QED
  BY <1>1 DEF Name

-----------------------------------------------------------------------------
\* The blocks in X are done: their loads have the names of their variables, and so have
\* the phis of their successors.
Loads(rep, X) ==
  \A b \in X : \A k \in DOMAIN code[b] : \A nm :
    code[b][k].op = "load" /\ Name(rep, b, k - 1, code[b][k].lval, nm) =>
      <<b, k>> \in DOMAIN rep /\ rep[<<b, k>>] = nm
Operands(rep, prs, X) ==
  \A b \in X : \A p \in phis : \A nm :
    <<b, p[1]>> \in cfg /\ Name(rep, b, Len(code[b]), p[2], nm) =>
      <<p, b>> \in DOMAIN prs /\ prs[<<p, b>>] = nm
Done(rep, prs, X) ==
  /\ \A q \in DOMAIN rep : q[1] \in X
  /\ \A x \in DOMAIN prs : x[2] \in X
  /\ Loads(rep, X) /\ Operands(rep, prs, X)

Given(b, st) == Joined(pairs, [x \in {<<p, b>> : p \in Filled(b, st)} |-> Last(st[x[1][2]])])

LEMMA GivenFacts ==
  ASSUME NEW b, NEW st, \A x \in DOMAIN pairs : x[2] # b
  PROVE  /\ \A x \in DOMAIN Given(b, st) : x \in DOMAIN pairs \/ x[2] = b
         /\ \A x \in DOMAIN pairs : x \in DOMAIN Given(b, st) /\ Given(b, st)[x] = pairs[x]
         /\ \A p \in Filled(b, st) : <<p, b>> \in DOMAIN Given(b, st) /\ Given(b, st)[<<p, b>>] = Last(st[p[2]])
<1> DEFINE K == {<<p, b>> : p \in Filled(b, st)}
           f == [x \in K |-> Last(st[x[1][2]])]
           g == Given(b, st)
<1>1. g = [x \in DOMAIN pairs \cup K |-> IF x \in DOMAIN pairs THEN pairs[x] ELSE f[x]]
  BY DEF Given, Joined
<1>2. ASSUME NEW p \in Filled(b, st) PROVE <<p, b>> \in K /\ <<p, b>> \notin DOMAIN pairs /\ f[<<p, b>>] = Last(st[p[2]])
  <2>1. <<p, b>> \in K
    OBVIOUS
  <2>2. <<p, b>> \notin DOMAIN pairs
    <3>1. <<p, b>>[2] = b
      OBVIOUS
    <3> QED
      BY <3>1
  <2> QED
    BY <2>1, <2>2
<1>3. \A x \in K : x[2] = b
  OBVIOUS
<1> HIDE DEF K, f, g
<1> QED
  BY <1>1, <1>2, <1>3 DEF g

LEMMA EnterDone ==
  ASSUME Shape, CodeOK, NEW cs, Walk(cs), Stacked(cs, var_to_val_stack, replaced), NEW b \in blocks,
         \A n \in 1 .. Len(cs) : cs[n].block # b, \A p \in DOMAIN replaced : p[1] # b,
         Walk(Append(cs, [block |-> b, rest |-> Kids[b]])),
         NEW X \in SUBSET blocks, \A x \in X : b \notin Over(x), Done(replaced, pairs, X)
  PROVE  Done(Rewritten(b).replaced, Given(b, Rewritten(b).stacks), X \cup {b})
<1> DEFINE r == Rewritten(b)
           rep == r.replaced
           st == r.stacks
           prs == Given(b, st)
           Seen(k, v) == Pile(cs, Len(cs), v, rep) \o Pushed(b, k, v, rep)
<1>1. /\ Stacked(Append(cs, [block |-> b, rest |-> Kids[b]]), st, rep)
      /\ Extends(rep, replaced, b, DOMAIN code[b])
      /\ \A k \in DOMAIN code[b] :
           IF code[b][k].op = "load" THEN Gets(rep, <<b, k>>, Seen(k - 1, code[b][k].lval))
           ELSE <<b, k>> \notin DOMAIN rep
      /\ \A v : Held(st, v) = Seen(Len(code[b]), v)
  BY StackEnter
<1>2. rep \in Replacements
  BY <1>1 DEF Stacked
<1> HIDE DEF r
<1>3. b \notin X
  BY TreeFacts
<1>4. /\ \A x \in DOMAIN prs : x \in DOMAIN pairs \/ x[2] = b
      /\ \A x \in DOMAIN pairs : x \in DOMAIN prs /\ prs[x] = pairs[x]
      /\ \A p \in Filled(b, st) : <<p, b>> \in DOMAIN prs /\ prs[<<p, b>>] = Last(st[p[2]])
  <2>1. \A x \in DOMAIN pairs : x[2] # b
    BY <1>3 DEF Done
  <2> HIDE DEF st
  <2> QED
    BY <2>1, GivenFacts
<1>5. \A k \in 0 .. Len(code[b]) : \A v, nm : Name(rep, b, k, v, nm) => Seen(k, v) # <<>> /\ Last(Seen(k, v)) = nm
  BY <1>2, NameOnStack
<1>6. \A z : z # b => \A i : /\ <<z, i>> \in DOMAIN replaced <=> <<z, i>> \in DOMAIN rep
                             /\ <<z, i>> \in DOMAIN replaced => replaced[<<z, i>>] = rep[<<z, i>>]
  <2> SUFFICES ASSUME NEW z, z # b, NEW i
               PROVE  /\ <<z, i>> \in DOMAIN replaced <=> <<z, i>> \in DOMAIN rep
                      /\ <<z, i>> \in DOMAIN replaced => replaced[<<z, i>>] = rep[<<z, i>>]
    OBVIOUS
  <2>1. \A j \in DOMAIN code[b] : <<z, i>> # <<b, j>>
    OBVIOUS
  <2> QED
    BY <1>1, <2>1 DEF Extends
<1>7. ASSUME NEW x \in X, NEW k \in 0 .. Len(code[x])
      PROVE  \A v, nm : Name(rep, x, k, v, nm) => Name(replaced, x, k, v, nm)
  <2>1. \A z \in Over(x) : z # b
    OBVIOUS
  <2>2. \A z \in Over(x) : Agree(z, Len(code[z]), replaced, rep)
    BY <1>6, <2>1 DEF Agree
  <2> HIDE DEF rep
  <2> QED
    BY <2>2, NameSame
<1>8. \A q \in DOMAIN rep : q[1] \in X \cup {b}
  BY <1>1 DEF Extends, Done
<1>9. \A x \in DOMAIN prs : x[2] \in X \cup {b}
  <2> HIDE DEF prs
  <2> QED
    BY <1>4 DEF Done
<1>10. ASSUME NEW x \in X \cup {b}, NEW k \in DOMAIN code[x], NEW nm,
              code[x][k].op = "load", Name(rep, x, k - 1, code[x][k].lval, nm)
       PROVE  <<x, k>> \in DOMAIN rep /\ rep[<<x, k>>] = nm
  <2>1. k - 1 \in 0 .. Len(code[x])
    BY InstructionAt
  <2>2. CASE x = b
    <3> DEFINE v == code[b][k].lval
    <3>1. Seen(k - 1, v) # <<>> /\ Last(Seen(k - 1, v)) = nm
      BY <1>5, <1>10, <2>1, <2>2
    <3>2. Gets(rep, <<b, k>>, Seen(k - 1, v))
      BY <1>1, <1>10, <2>2
    <3> HIDE DEF Seen, rep
    <3> QED
      BY <2>2, <3>1, <3>2 DEF Gets
  <2>3. CASE x # b
    <3>1. x \in X
      BY <2>3
    <3>2. Name(replaced, x, k - 1, code[x][k].lval, nm)
      BY <1>7, <1>10, <2>1, <3>1
    <3>3. <<x, k>> \in DOMAIN replaced /\ replaced[<<x, k>>] = nm
      BY <1>10, <3>1, <3>2 DEF Done, Loads
    <3> QED
      BY <1>6, <2>3, <3>3
  <2> QED
    BY <2>2, <2>3
<1>11. ASSUME NEW x \in X \cup {b}, NEW p \in phis, NEW nm,
              <<x, p[1]>> \in cfg, Name(rep, x, Len(code[x]), p[2], nm)
       PROVE  <<p, x>> \in DOMAIN prs /\ prs[<<p, x>>] = nm
  <2>1. Len(code[x]) \in 0 .. Len(code[x])
    BY InstructionAt
  <2>2. CASE x = b
    <3>1. Held(st, p[2]) # <<>> /\ Last(Held(st, p[2])) = nm
      BY <1>1, <1>5, <1>11, <2>1, <2>2
    <3>2. p[2] \in DOMAIN st /\ st[p[2]] # <<>> /\ Last(st[p[2]]) = nm
      BY <3>1 DEF Held
    <3>3. p[1] \in F!Succs(cfg, b)
      <4>1. p[1] \in blocks
        BY <1>11 DEF Shape
      <4> QED
        BY <1>11, <2>2, <4>1 DEF F!Succs, Shape
    <3>4. p \in Filled(b, st)
      BY <3>2, <3>3 DEF Filled
    <3> QED
      BY <1>4, <2>2, <3>2, <3>4
  <2>3. CASE x # b
    <3>1. x \in X
      BY <2>3
    <3>2. Name(replaced, x, Len(code[x]), p[2], nm)
      BY <1>7, <1>11, <2>1, <3>1
    <3>3. <<p, x>> \in DOMAIN pairs /\ pairs[<<p, x>>] = nm
      BY <1>11, <3>1, <3>2 DEF Done, Operands
    <3> QED
      BY <1>4, <3>3
  <2> QED
    BY <2>2, <2>3
<1> HIDE DEF rep, prs
<1>12. Loads(rep, X \cup {b})
  BY <1>10 DEF Loads
<1>13. Operands(rep, prs, X \cup {b})
  BY <1>11 DEF Operands
<1>14. Done(rep, prs, X \cup {b})
  BY <1>8, <1>9, <1>12, <1>13 DEF Done
<1> QED
  BY <1>14 DEF rep, prs, st, r

-----------------------------------------------------------------------------
(***************************************************************************)
(* The two programs, once the walk is over.                                *)
(***************************************************************************)
LEMMA NameMoves ==
  ASSUME CodeOK, Shape, NEW b \in blocks, NEW rep \in Replacements, NEW k \in 1 .. Len(code[b]), NEW v
  PROVE  IF code[b][k].op = "store" /\ code[b][k].lval = v
         THEN Name(rep, b, k, v, Written(b, k, rep))
         ELSE \A nm : Name(rep, b, k, v, nm) <=> Name(rep, b, k - 1, v, nm)
<1>1. Grows(b, k, v, rep)
  BY OneMore
<1>2. CASE code[b][k].op = "store" /\ code[b][k].lval = v
  <2>1. Upto(b, b, k, v, rep) # <<>> /\ Written(b, k, rep) = Last(Upto(b, b, k, v, rep))
    BY <1>1, <1>2 DEF Upto, Grows
  <2>2. b \in Over(b)
    BY TreeFacts
  <2> QED
    BY <1>2, <2>1, <2>2 DEF Name
<1>3. CASE ~ (code[b][k].op = "store" /\ code[b][k].lval = v)
  <2>1. Pushed(b, k, v, rep) = Pushed(b, k - 1, v, rep)
    BY <1>1, <1>3 DEF Grows
  <2>2. \A z : Upto(z, b, k, v, rep) = Upto(z, b, k - 1, v, rep)
    BY <2>1 DEF Upto
  <2> QED
    BY <1>3, <2>2 DEF Name
<1> QED
  BY <1>2, <1>3

\* Loads leave every name as it is.
LEMMA NameOverLoads ==
  ASSUME CodeOK, Shape, NEW b \in blocks, NEW rep \in Replacements, NEW k \in 1 .. Len(code[b]),
         NEW i \in 1 .. k, \A j \in i .. k - 1 : code[b][j].op = "load", NEW v, NEW nm,
         Name(rep, b, k - 1, v, nm)
  PROVE  Name(rep, b, i - 1, v, nm)
<1>1. Len(code[b]) \in Nat
  BY InstructionAt
<1> DEFINE S == {n \in 0 .. k - i : Name(rep, b, (k - n) - 1, v, nm)}
<1>2. k - i \in Nat /\ 0 \in S
  BY <1>1
<1>3. \A n \in 0 .. (k - i) - 1 : n \in S => n + 1 \in S
  <2> TAKE n \in 0 .. (k - i) - 1
  <2> HAVE n \in S
  <2> DEFINE j == (k - n) - 1
  <2>1. j \in i .. k - 1 /\ j \in 1 .. Len(code[b]) /\ j - 1 = (k - (n + 1)) - 1 /\ n + 1 \in 0 .. k - i
    BY <1>1
  <2>2. Name(rep, b, j, v, nm)
    OBVIOUS
  <2> HIDE DEF j
  <2>3. Name(rep, b, j - 1, v, nm)
    <3>1. code[b][j].op = "load"
      BY <2>1
    <3> QED
      BY <2>1, <2>2, <3>1, NameMoves
  <2> QED
    BY <2>1, <2>3
<1> HIDE DEF S
<1>4. k - i \in S
  BY <1>2, <1>3, DP!Induction
<1>5. (k - (k - i)) - 1 = i - 1
  BY <1>1
<1> QED
  BY <1>4, <1>5 DEF S

\* The name of a variable is an old one.
LEMMA NameBefore ==
  ASSUME CodeOK, Shape, NEW b \in blocks, NEW rep \in Replacements, Founded(rep),
         NEW k \in 0 .. Len(code[b]), NEW v, NEW z \in Over(b), Upto(z, b, k, v, rep) # <<>>
  PROVE  LET nm == Last(Upto(z, b, k, v, rep))
         IN  /\ Before(nm, b, k)
             /\ z # b => Before(nm, z, Len(code[z]))
<1> DEFINE n == Len(code[z])
           m == IF z = b THEN k ELSE n
<1>1. z \in blocks /\ n \in Nat /\ m \in 0 .. Len(code[z]) /\ m \in 0 .. m /\ m \in Nat /\ k \in Nat
      /\ (z = b => m <= k)
  <2>1. z \in blocks
    BY TreeFacts
  <2>2. n \in Nat
    BY <2>1, InstructionAt
  <2> QED
    BY <2>1, <2>2
<1>2. Upto(z, b, k, v, rep) = Pushed(z, m, v, rep)
  BY DEF Upto
<1>3. \A i \in 1 .. m - 1 : <<z, i>> \in DOMAIN rep => Before(rep[<<z, i>>], z, i - 1)
  <2> TAKE i \in 1 .. m - 1
  <2> HAVE <<z, i>> \in DOMAIN rep
  <2>1. Before(rep[<<z, i>>], <<z, i>>[1], <<z, i>>[2] - 1)
    BY DEF Founded
  <2> QED
    BY <2>1
<1> HIDE DEF m
<1>4. \A j \in 0 .. m : Pushed(z, j, v, rep) # <<>> => Before(Last(Pushed(z, j, v, rep)), z, j)
  BY <1>1, <1>3, NamesBefore
<1>5. Before(Last(Upto(z, b, k, v, rep)), z, m)
  BY <1>1, <1>2, <1>4
<1>6. Before(Last(Upto(z, b, k, v, rep)), b, k)
  BY <1>1, <1>5, BeforeDown
<1>7. z # b => m = n
  BY DEF m
<1> QED
  BY <1>5, <1>6, <1>7

\* An edge: the target has a phi, or the name stays and no phi of the target has it.
LEMMA NameOverEdge ==
  ASSUME CodeOK, Shape, PhisOK, todo = [w \in Var |-> {}], NEW b \in blocks, NEW c, <<b, c>> \in cfg,
         NEW rep \in Replacements, Founded(rep), NEW v \in Var, NEW nm, Name(rep, b, Len(code[b]), v, nm)
  PROVE  IF <<c, v>> \in phis THEN Name(rep, c, 0, v, <<c, v>>)
         ELSE Name(rep, c, 0, v, nm) /\ \A p \in phis : p[1] = c => p # nm
<1> DEFINE n == Len(code[b])
<1>1. c \in blocks /\ c \in Over(c) /\ b \in Over(b)
  <2>1. c \in blocks
    BY DEF Shape
  <2> QED
    BY <2>1, TreeFacts
<1>2. Pushed(c, 0, v, rep) = PhiPart(c, v)
  BY <1>1, OneMore
<1>3. CASE <<c, v>> \in phis
  <2>1. Upto(c, c, 0, v, rep) = << <<c, v>> >>
    BY <1>2, <1>3 DEF Upto, PhiPart, PhiVars
  <2>2. \A x : Last(<<x>>) = x
    BY DEF Last
  <2>3. Upto(c, c, 0, v, rep) # <<>> /\ <<c, v>> = Last(Upto(c, c, 0, v, rep))
    BY <2>1, <2>2
  <2> QED
    BY <1>1, <1>3, <2>3 DEF Name
<1>4. CASE <<c, v>> \notin phis
  <2>1. PICK z \in Over(b) : /\ Upto(z, b, n, v, rep) # <<>> /\ nm = Last(Upto(z, b, n, v, rep))
                             /\ \A q \in Over(b) : Upto(q, b, n, v, rep) # <<>> => q \in Over(z)
    BY DEF Name
  <2>2. \A q : Upto(q, b, n, v, rep) = All(q, v, rep)
    BY DEF Upto, All
  <2>3. z \in blocks /\ Over(b) \subseteq blocks
    BY TreeFacts
  <2>4. Defines(z, v)
    BY <2>1, <2>2, <2>3, AllDefines
  <2>5. c \notin dom_frontier[z]
    BY <1>4, <2>3, <2>4 DEF PhisOK
  <2>6. z \in Over(c) /\ z # c
    BY <1>1, <2>3, <2>5 DEF Shape
  <2>7. Upto(c, c, 0, v, rep) = <<>> /\ \A q : q # c => Upto(q, c, 0, v, rep) = All(q, v, rep)
    BY <1>2, <1>4 DEF Upto, PhiPart, PhiVars, All
  <2>8. \A q \in Over(c) : q # c => q \in Over(b)
    <3>1. \A e \in cfg : Over(e[2]) \ {e[2]} \subseteq Over(e[1])
      BY DEF Shape
    <3>2. <<b, c>>[1] = b /\ <<b, c>>[2] = c
      OBVIOUS
    <3> QED
      BY <3>1, <3>2
  <2>9. Name(rep, c, 0, v, nm)
    <3>1. Upto(z, c, 0, v, rep) # <<>> /\ nm = Last(Upto(z, c, 0, v, rep))
      BY <2>1, <2>2, <2>6, <2>7
    <3>2. \A q \in Over(c) : Upto(q, c, 0, v, rep) # <<>> => q \in Over(z)
      BY <2>1, <2>2, <2>7, <2>8
    <3> QED
      BY <2>6, <3>1, <3>2 DEF Name
  <2>10. Before(nm, z, Len(code[z]))
    <3>1. n \in 0 .. Len(code[b]) /\ n = Len(code[b])
      BY InstructionAt
    <3>2. Before(nm, b, n) /\ (z # b => Before(nm, z, Len(code[z])))
      BY <2>1, <3>1, NameBefore
    <3> QED
      BY <3>1, <3>2
  <2>11. c \notin Over(z)
    BY <1>1, <2>6, TreeFacts
  <2>12. \A p \in phis : p[1] = c => p # nm
    <3> TAKE p \in phis
    <3> HAVE p[1] = c
    <3>1. p \in Block \X (Nat \cup Var)
      BY DEF PhisOK, Shape
    <3>2. nm = NoName \/ nm[1] \in Over(z)
      BY <2>10 DEF Before
    <3> QED
      BY <2>11, <3>1, <3>2, CodesAssumption
  <2> QED
    BY <1>4, <2>9, <2>12
<1> QED
  BY <1>3, <1>4

-----------------------------------------------------------------------------
(***************************************************************************)
(* The invariant of the walk, and of the two programs.                     *)
(***************************************************************************)
Entered == IF calls = <<>> /\ at = <<>> THEN {} ELSE blocks \ Left(calls)

WalkInv ==
  /\ Walk(calls) /\ (calls # <<>> => at = <<>>)
  /\ calls = <<>> /\ at = <<>> => var_to_val_stack = <<>> /\ replaced = <<>> /\ pairs = <<>>
  /\ calls # <<>> \/ at # <<>> => todo = [v \in Var |-> {}]
  /\ Stacked(calls, var_to_val_stack, replaced)
  /\ Founded(replaced) /\ Done(replaced, pairs, Entered)

\* A variable that is stored to has a name that holds what it holds.
Follows(b, k) == \A v \in stored : \E nm \in same[v] : Name(replaced, b, k, v, nm)
Running ==
  /\ stored \subseteq Var /\ same = [v \in Var |-> same[v]]
  /\ at = <<>> => stored = {}
  /\ at # <<>> => /\ at = <<at[1], at[2]>> /\ at[1] \in blocks /\ at[2] \in 1 .. Len(code[at[1]]) + 1
                  /\ Follows(at[1], at[2] - 1)

LEMMA SameWords ==
  ASSUME UNCHANGED <<domVars, code, phis>>
  PROVE  /\ \A cs : (Walk(cs)' <=> Walk(cs)) /\ Left(cs)' = Left(cs)
         /\ \A cs, st, rep : Stacked(cs, st, rep)' <=> Stacked(cs, st, rep)
         /\ \A rep : Founded(rep)' <=> Founded(rep)
         /\ \A rep, b, k, v, nm : Name(rep, b, k, v, nm)' <=> Name(rep, b, k, v, nm)
         /\ \A rep, prs, X : Done(rep, prs, X)' <=> Done(rep, prs, X)
<1>1. /\ blocks' = blocks /\ cfg' = cfg /\ code' = code /\ phis' = phis
      /\ (\A b : Over(b)' = Over(b)) /\ Kids' = Kids
  BY SameShape DEF domVars
<1>2. \A cs : Walk(cs)' <=> Walk(cs)
  BY <1>1 DEF Walk
<1>3. \A cs : Left(cs)' = Left(cs)
  BY <1>1 DEF Left
<1>4. \A b, k, v, rep : Pushed(b, k, v, rep)' = Pushed(b, k, v, rep)
  <2>1. \A b, k, v, rep : Part(b, k, v, rep)' = Part(b, k, v, rep)
    BY <1>1 DEF Part, Written
  <2>2. \A b, k, v, rep : Parts(b, k, v, rep)' = Parts(b, k, v, rep)
    BY <2>1 DEF Parts
  <2>3. \A b, v : PhiPart(b, v)' = PhiPart(b, v)
    BY <1>1 DEF PhiPart, PhiVars
  <2> QED
    BY <2>2, <2>3 DEF Pushed
<1>5. \A b, v, rep : All(b, v, rep)' = All(b, v, rep)
  BY <1>1, <1>4 DEF All
<1>6. \A cs, n, v, rep : Pile(cs, n, v, rep)' = Pile(cs, n, v, rep)
  BY <1>5 DEF Pile
<1>7. \A cs, st, rep : Stacked(cs, st, rep)' <=> Stacked(cs, st, rep)
  BY <1>6 DEF Stacked
<1>8. \A nm, b, k : Before(nm, b, k)' <=> Before(nm, b, k)
  BY <1>1 DEF Before
<1>9. \A rep : Founded(rep)' <=> Founded(rep)
  BY <1>8 DEF Founded
<1>10. \A y, b, k, v, rep : Upto(y, b, k, v, rep)' = Upto(y, b, k, v, rep)
  BY <1>1, <1>4 DEF Upto
<1>11. \A rep, b, k, v, nm : Name(rep, b, k, v, nm)' <=> Name(rep, b, k, v, nm)
  BY <1>1, <1>10 DEF Name
<1>12. ASSUME NEW rep, NEW X PROVE Loads(rep, X)' <=> Loads(rep, X)
  <2>1. \A b, k, v, nm : Name(rep, b, k, v, nm)' <=> Name(rep, b, k, v, nm)
    BY <1>11, Zenon
  <2> QED
    BY <1>1, <2>1, Zenon DEF Loads
<1>13. ASSUME NEW rep, NEW prs, NEW X PROVE Operands(rep, prs, X)' <=> Operands(rep, prs, X)
  <2>1. \A b, k, v, nm : Name(rep, b, k, v, nm)' <=> Name(rep, b, k, v, nm)
    BY <1>11, Zenon
  <2> QED
    BY <1>1, <2>1, Zenon DEF Operands
<1>14. \A rep, prs, X : Done(rep, prs, X)' <=> Done(rep, prs, X)
  BY <1>12, <1>13 DEF Done
<1> QED
  BY <1>2, <1>3, <1>7, <1>9, <1>11, <1>14

\* Before the walk there is nothing to say.
Waiting ==
  /\ calls = <<>> /\ at = <<>> /\ var_to_val_stack = <<>> /\ replaced = <<>> /\ pairs = <<>>

LEMMA Fresh == Waiting => WalkInv
<1> SUFFICES ASSUME Waiting PROVE WalkInv
  OBVIOUS
<1>1. calls = <<>> /\ at = <<>> /\ var_to_val_stack = <<>> /\ replaced = <<>> /\ pairs = <<>>
  BY DEF Waiting
<1>2. Len(<<>>) = 0 /\ 1 .. 0 = {} /\ DOMAIN <<>> = {} /\ <<>> \in Seq([block : blocks, rest : SUBSET blocks])
  OBVIOUS
<1>3. Walk(<<>>)
  BY <1>2 DEF Walk
<1>4. Stacked(<<>>, <<>>, <<>>)
  <2>1. \A v : Held(<<>>, v) = <<>>
    BY <1>2 DEF Held
  <2>2. \A v : Pile(<<>>, 0, v, <<>>) = <<>>
    <3> TAKE v
    <3> DEFINE s == [i \in 1 .. 0 |-> All(<<>>[i].block, v, <<>>)]
    <3>1. s \in [1 .. 0 -> Seq(Names)]
      BY <1>2
    <3> HIDE DEF s
    <3>2. FlattenSeq(s) = <<>>
      BY <3>1, FlattenNext
    <3> QED
      BY <3>2 DEF Pile, s
  <2>3. \A Z : <<>> \in [{} -> Z]
    OBVIOUS
  <2>4. <<>> \in Stacks /\ <<>> \in Replacements
    BY <2>3 DEF Stacks, Replacements
  <2> QED
    BY <1>2, <2>1, <2>2, <2>4 DEF Stacked
<1>5. Founded(<<>>)
  BY <1>2 DEF Founded
<1>6. Done(<<>>, <<>>, {})
  BY <1>2 DEF Done, Loads, Operands
<1>7. Entered = {}
  BY <1>1 DEF Entered
<1> QED
  BY <1>1, <1>3, <1>4, <1>5, <1>6, <1>7 DEF WalkInv

LEMMA FreshNext == Waiting' => WalkInv'
BY Fresh, PTL

\* A call of rename.
LEMMA EnterWalk ==
  ASSUME Shape, CodeOK, NEW cs, NEW b \in blocks, Enter(b, cs), Walk(cs),
         IF cs = <<>> THEN b = Entry ELSE b \in Kids[Last(cs).block] \ Last(cs).rest,
         Stacked(cs, var_to_val_stack, replaced), Founded(replaced), at = <<>>, todo = [v \in Var |-> {}],
         NEW X \in SUBSET blocks, Done(replaced, pairs, X), \A x \in X : b \notin Over(x),
         blocks \ Left(Append(cs, [block |-> b, rest |-> Kids[b]])) = X \cup {b}
  PROVE  WalkInv'
<1> DEFINE r == Rewritten(b)
           c == [block |-> b, rest |-> Kids[b]]
           a == Append(cs, c)
<1>1. /\ var_to_val_stack' = r.stacks /\ replaced' = r.replaced /\ pairs' = Given(b, r.stacks)
      /\ calls' = a /\ UNCHANGED <<domVars, code, todo, phis, at, blocks>>
  BY DEF Enter, Given, Shape, domVars
<1>2. Walk(a) /\ Len(cs) \in Nat
  BY WalkAppend, WalkFacts
<1>3. \A n \in 1 .. Len(cs) : cs[n].block # b
  <2> DEFINE T == [block : blocks, rest : SUBSET blocks]
             L == Len(cs)
  <2>1. cs \in Seq(T) /\ c \in T /\ c.block = b
    BY DEF Walk, Kids
  <2> HIDE DEF T, c
  <2>2. Len(a) = L + 1 /\ a[L + 1] = c /\ \A n \in 1 .. L : a[n] = cs[n]
    BY <2>1
  <2>3. Walk(a)
    BY <1>2
  <2> HIDE DEF a
  <2>4. \A n, i \in 1 .. L + 1 : a[i].block = a[n].block => i = n
    BY <2>2, <2>3, WalkFacts
  <2>5. \A n \in 1 .. L : n \in 1 .. L + 1 /\ L + 1 \in 1 .. L + 1 /\ n # L + 1
    BY <1>2
  <2> QED
    BY <2>1, <2>2, <2>4, <2>5
<1>4. \A p \in DOMAIN replaced : p[1] # b
  <2>1. \A p \in DOMAIN replaced : p[1] \in X
    BY DEF Done
  <2>2. b \notin X
    BY TreeFacts
  <2> QED
    BY <2>1, <2>2
<1>5. Stacked(a, r.stacks, r.replaced)
  BY <1>3, <1>4, StackEnter
<1>6. Founded(r.replaced)
  BY <1>2, <1>3, <1>4, EnterFounded
<1>7. Done(r.replaced, Given(b, r.stacks), X \cup {b})
  BY <1>2, <1>3, <1>4, EnterDone
<1>8. a # <<>>
  <2> DEFINE T == [block : blocks, rest : SUBSET blocks]
  <2>1. cs \in Seq(T) /\ c \in T
    BY DEF Walk, Kids
  <2> HIDE DEF T, c
  <2>2. Len(a) = Len(cs) + 1
    BY <2>1
  <2> HIDE DEF a
  <2> QED
    BY <1>2, <2>2
<1>9. blocks \ Left(a) = X \cup {b}
  OBVIOUS
<1> HIDE DEF a, r
<1>10. /\ \A ds : (Walk(ds)' <=> Walk(ds)) /\ Left(ds)' = Left(ds)
       /\ \A ds, st, rep : Stacked(ds, st, rep)' <=> Stacked(ds, st, rep)
       /\ \A rep : Founded(rep)' <=> Founded(rep)
       /\ \A rep, prs, Y : Done(rep, prs, Y)' <=> Done(rep, prs, Y)
  BY <1>1, SameWords
<1>11. Entered' = X \cup {b}
  BY <1>1, <1>8, <1>9, <1>10 DEF Entered
<1> QED
  BY <1>1, <1>2, <1>5, <1>6, <1>7, <1>8, <1>10, <1>11 DEF WalkInv

LEMMA StartWalk ==
  ASSUME Shape, CodeOK, WalkInv, Start
  PROVE  WalkInv'
<1> DEFINE a == Append(<<>>, [block |-> Entry, rest |-> Kids[Entry]])
<1>1. calls = <<>> /\ at = <<>> /\ todo = [v \in Var |-> {}] /\ Enter(Entry, <<>>)
  BY DEF Start
<1>2. /\ Walk(<<>>) /\ Stacked(<<>>, var_to_val_stack, replaced) /\ Founded(replaced)
      /\ Done(replaced, pairs, {})
  BY <1>1 DEF WalkInv, Entered
<1>3. Entry \in blocks /\ Left(a) = blocks \ {Entry}
  BY LeftStart DEF Shape
<1>4. blocks \ Left(a) = {} \cup {Entry}
  BY <1>3
<1> DEFINE X == {}
<1>5. X \in SUBSET blocks /\ Done(replaced, pairs, X) /\ (\A x \in X : Entry \notin Over(x))
      /\ blocks \ Left(a) = X \cup {Entry}
  BY <1>2, <1>4
<1> HIDE DEF X
<1> QED
  BY <1>1, <1>2, <1>3, <1>5, EnterWalk

LEMMA RecurWalk ==
  ASSUME Shape, CodeOK, WalkInv, NEW b \in Block, Recur(b)
  PROVE  WalkInv'
<1> DEFINE cs == Without(calls, b)
           a == Append(cs, [block |-> b, rest |-> Kids[b]])
           X == Entered
<1>1. calls # <<>> /\ b \in Last(calls).rest /\ Enter(b, cs) /\ Walk(calls)
  BY DEF Recur, Without, WalkInv
<1>2. at = <<>> /\ todo = [v \in Var |-> {}] /\ X = blocks \ Left(calls)
  BY <1>1 DEF WalkInv, Entered
<1>3. /\ Walk(cs) /\ cs # <<>> /\ Len(cs) = Len(calls)
      /\ \A n \in 1 .. Len(calls) : cs[n].block = calls[n].block
      /\ b \in blocks /\ b \in Kids[Last(cs).block] \ Last(cs).rest
  <2>1. Taken(calls, b, cs)
    BY <1>1, WithoutFacts
  <2> HIDE DEF cs
  <2> QED
    BY <2>1 DEF Taken
<1>4. /\ \A x \in blocks : b \in Over(x) => x \in Left(calls)
      /\ Left(a) = Left(calls) \ {b}
  BY <1>1, LeftRecur
<1>5. X \in SUBSET blocks /\ (\A x \in X : b \notin Over(x)) /\ blocks \ Left(a) = X \cup {b}
  BY <1>2, <1>3, <1>4
<1>6. Stacked(cs, var_to_val_stack, replaced)
  <2> DEFINE L == Len(calls)
  <2>1. L \in Nat /\ \A n \in 1 .. L : calls[n].block \in blocks
    BY <1>1, WalkFacts
  <2>2. Stacked(calls, var_to_val_stack, replaced)
    BY DEF WalkInv
  <2> HIDE DEF L
  <2>3. \A i \in 1 .. L : /\ calls[i].block \in blocks /\ cs[i].block = calls[i].block
                          /\ Agree(calls[i].block, Len(code[calls[i].block]), replaced, replaced)
    BY <1>3, <2>1 DEF Agree, L
  <2> HIDE DEF cs
  <2>4. \A v : Pile(calls, L, v, replaced) = Pile(cs, L, v, replaced)
    BY <2>1, <2>3, PileSame
  <2> QED
    BY <1>3, <2>2, <2>4 DEF Stacked, L
<1>7. Founded(replaced) /\ Done(replaced, pairs, X)
  BY DEF WalkInv
<1> HIDE DEF X, cs
<1> QED
  BY <1>1, <1>2, <1>3, <1>5, <1>6, <1>7, EnterWalk

LEMMA ReturnWalk ==
  ASSUME Shape, CodeOK, WalkInv, Return
  PROVE  WalkInv'
<1> DEFINE w == Front(calls)
           b == Last(calls).block
           new == [v \in DOMAIN var_to_val_stack |->
                     SubSeq(var_to_val_stack[v], 1, Len(var_to_val_stack[v]) - Popped(b, v))]
<1>1. /\ calls # <<>> /\ Last(calls).rest = {} /\ Walk(calls)
      /\ var_to_val_stack' = new /\ calls' = w /\ at' = IF calls' = <<>> THEN <<Entry, 1>> ELSE at
      /\ UNCHANGED <<domVars, code, todo, phis, replaced, pairs, blocks>>
  BY DEF Return, WalkInv, domVars
<1>2. at = <<>> /\ todo = [v \in Var |-> {}] /\ Entered = blocks \ Left(calls)
  BY <1>1 DEF WalkInv, Entered
<1>3. Walk(w) /\ Left(w) = Left(calls)
  BY <1>1, LeftReturn
<1>4. Stacked(w, new, replaced)
  <2>1. Stacked(calls, var_to_val_stack, replaced)
    BY DEF WalkInv
  <2> QED
    BY <1>1, <2>1, StackReturn
<1> HIDE DEF w, new
<1>5. /\ \A ds : (Walk(ds)' <=> Walk(ds)) /\ Left(ds)' = Left(ds)
      /\ \A ds, st, rep : Stacked(ds, st, rep)' <=> Stacked(ds, st, rep)
      /\ \A rep : Founded(rep)' <=> Founded(rep)
      /\ \A rep, prs, Y : Done(rep, prs, Y)' <=> Done(rep, prs, Y)
  BY <1>1, SameWords
<1>6. (calls' # <<>> => at' = <<>>) /\ (calls' = <<>> => at' # <<>>)
  BY <1>1, <1>2
<1>7. Entered' = Entered
  BY <1>1, <1>2, <1>3, <1>5, <1>6 DEF Entered
<1>8. Founded(replaced) /\ Done(replaced, pairs, Entered)
  BY DEF WalkInv
<1> HIDE DEF Entered
<1> QED
  BY <1>1, <1>2, <1>3, <1>4, <1>5, <1>6, <1>7, <1>8 DEF WalkInv

\* While the programs run the walk is over, and what it has made stays.
LEMMA RunWalk ==
  ASSUME WalkInv, at # <<>>, at' # <<>>, UNCHANGED <<domVars, code, work>>
  PROVE  WalkInv'
<1>1. UNCHANGED <<domVars, code, phis, todo, calls, var_to_val_stack, replaced, pairs, blocks>>
  BY DEF work, domVars
<1>2. /\ \A ds : (Walk(ds)' <=> Walk(ds)) /\ Left(ds)' = Left(ds)
      /\ \A ds, st, rep : Stacked(ds, st, rep)' <=> Stacked(ds, st, rep)
      /\ \A rep : Founded(rep)' <=> Founded(rep)
      /\ \A rep, prs, Y : Done(rep, prs, Y)' <=> Done(rep, prs, Y)
  BY <1>1, SameWords
<1>3. Entered' = Entered
  BY <1>1, <1>2 DEF Entered
<1>4. calls = <<>>
  BY DEF WalkInv
<1> HIDE DEF Entered
<1> QED
  BY <1>1, <1>2, <1>3, <1>4 DEF WalkInv

LEMMA IdleWalk ==
  ASSUME WalkInv, UNCHANGED <<domVars, code, work, at>>
  PROVE  WalkInv'
<1>1. UNCHANGED <<domVars, code, phis, todo, calls, var_to_val_stack, replaced, pairs, blocks, at>>
  BY DEF work, domVars
<1>2. /\ \A ds : (Walk(ds)' <=> Walk(ds)) /\ Left(ds)' = Left(ds)
      /\ \A ds, st, rep : Stacked(ds, st, rep)' <=> Stacked(ds, st, rep)
      /\ \A rep : Founded(rep)' <=> Founded(rep)
      /\ \A rep, prs, Y : Done(rep, prs, Y)' <=> Done(rep, prs, Y)
  BY <1>1, SameWords
<1>3. Entered' = Entered
  BY <1>1, <1>2 DEF Entered
<1> HIDE DEF Entered
<1> QED
  BY <1>1, <1>2, <1>3 DEF WalkInv

LEMMA RunFacts ==
  ASSUME Shape, CodeOK, WalkInv, Running, at # <<>>
  PROVE  /\ todo = [v \in Var |-> {}] /\ replaced \in Replacements /\ Founded(replaced)
         /\ Loads(replaced, blocks) /\ Operands(replaced, pairs, blocks)
         /\ at = <<at[1], at[2]>> /\ at[1] \in blocks /\ at[2] \in 1 .. Len(code[at[1]]) + 1
         /\ Follows(at[1], at[2] - 1) /\ Len(code[at[1]]) \in Nat
         /\ Ongoing => at[2] \in 1 .. Len(code[at[1]]) /\ at[2] \in DOMAIN code[at[1]]
         /\ ~ Ongoing => at[2] - 1 = Len(code[at[1]])
<1>1. calls = <<>> /\ todo = [v \in Var |-> {}] /\ Founded(replaced) /\ Done(replaced, pairs, Entered)
  BY DEF WalkInv
<1>2. Entered = blocks
  <2>1. Left(<<>>) = {}
    BY LeftStart
  <2> QED
    BY <1>1, <2>1 DEF Entered
<1>3. Loads(replaced, blocks) /\ Operands(replaced, pairs, blocks)
  BY <1>1, <1>2 DEF Done
<1>4. replaced \in Replacements
  BY DEF WalkInv, Stacked
<1>5. /\ at = <<at[1], at[2]>> /\ at[1] \in blocks /\ at[2] \in 1 .. Len(code[at[1]]) + 1
      /\ Follows(at[1], at[2] - 1)
  BY DEF Running
<1>6. Len(code[at[1]]) \in Nat /\ DOMAIN code[at[1]] = 1 .. Len(code[at[1]])
  BY <1>5, InstructionAt
<1>7. Ongoing <=> at[2] \in 1 .. Len(code[at[1]])
  BY <1>6 DEF Ongoing
<1> QED
  BY <1>1, <1>3, <1>4, <1>5, <1>6, <1>7

LEMMA LoadRuns ==
  ASSUME Shape, CodeOK, WalkInv, Running, Load
  PROVE  Running'
<1> SUFFICES ASSUME NEW b, NEW k, b = at[1], k = at[2] PROVE Running'
  OBVIOUS
<1>1. /\ at # <<>> /\ Ongoing /\ code[b][k].op = "load" /\ at' = <<b, k + 1>>
      /\ UNCHANGED <<domVars, code, phis, replaced, stored, same, blocks>>
  BY DEF Load, Ongoing, Instr, work, domVars
<1>2. /\ replaced \in Replacements /\ b \in blocks /\ k \in 1 .. Len(code[b]) /\ Len(code[b]) \in Nat
      /\ Follows(b, k - 1)
  BY <1>1, RunFacts
<1>3. at'[1] = b /\ at'[2] = k + 1 /\ (k + 1) - 1 = k /\ k + 1 \in 1 .. Len(code[b]) + 1
  BY <1>1, <1>2
<1>4. \A rep, x, j, v, nm : Name(rep, x, j, v, nm)' <=> Name(rep, x, j, v, nm)
  BY <1>1, SameWords
<1>5. \A v, nm : Name(replaced, b, k, v, nm) <=> Name(replaced, b, k - 1, v, nm)
  BY <1>1, <1>2, NameMoves
<1>6. Follows(b, k)'
  <2>1. \A v \in stored : \E nm \in same[v] : Name(replaced, b, k, v, nm)
    BY <1>2, <1>5 DEF Follows
  <2> QED
    BY <1>1, <1>4, <2>1 DEF Follows
<1> QED
  BY <1>1, <1>2, <1>3, <1>6 DEF Running

LEMMA StoreRuns ==
  ASSUME Shape, CodeOK, WalkInv, Running, Store
  PROVE  Running'
<1> SUFFICES ASSUME NEW b, NEW k, b = at[1], k = at[2] PROVE Running'
  OBVIOUS
<1> DEFINE v == code[b][k].lval
           i == code[b][k].from
           w == code[b][i].lval
<1>1. /\ at # <<>> /\ Ongoing /\ code[b][k].op = "store" /\ at' = <<b, k + 1>>
      /\ UNCHANGED <<domVars, code, phis, replaced, blocks>>
      /\ IF i = 0
         THEN /\ stored' = stored \cup {v}
              /\ same' = [x \in Var |-> IF x = v THEN {at} ELSE same[x] \ {at}]
         ELSE /\ stored' = IF w \in stored THEN stored \cup {v} ELSE stored \ {v}
              /\ same' = [same EXCEPT ![v] = same[w]]
  BY DEF Store, Ongoing, Instr, work, domVars
<1>2. /\ replaced \in Replacements /\ Founded(replaced) /\ b \in blocks /\ k \in 1 .. Len(code[b])
      /\ k \in DOMAIN code[b] /\ Len(code[b]) \in Nat /\ Follows(b, k - 1) /\ Loads(replaced, blocks)
      /\ at = <<b, k>>
  BY <1>1, RunFacts
<1>3. stored \subseteq Var /\ same = [x \in Var |-> same[x]]
  BY Zenon DEF Running
<1>4. v \in Var /\ i \in 0 .. k - 1 /\ (i # 0 => \A j \in i .. k - 1 : code[b][j].op = "load")
  <2>1. v \in Var
    BY <1>2, InstructionAt, Zenon
  <2>2. i \in 0 .. k - 1 /\ (i # 0 => \A j \in i .. k - 1 : code[b][j].op = "load")
    BY <1>1, <1>2, Zenon DEF CodeOK
  <2> QED
    BY <2>1, <2>2
<1> HIDE DEF i, v, w
<1>5. at'[1] = b /\ at'[2] = k + 1 /\ (k + 1) - 1 = k /\ k + 1 \in 1 .. Len(code[b]) + 1
  BY <1>1, <1>2
<1>6. \A rep, x, j, u, nm : Name(rep, x, j, u, nm)' <=> Name(rep, x, j, u, nm)
  BY <1>1, SameWords
<1>7. Name(replaced, b, k, v, Written(b, k, replaced))
  BY <1>1, <1>2, NameMoves DEF v
<1>8. ASSUME NEW u, u # v PROVE \A nm : Name(replaced, b, k, u, nm) <=> Name(replaced, b, k - 1, u, nm)
  BY <1>2, <1>8, NameMoves DEF v
<1>9. stored' \subseteq Var /\ same' = [x \in Var |-> same'[x]]
  BY <1>1, <1>3, <1>4
<1>10. \A u \in stored' : \E nm \in same'[u] : Name(replaced, b, k, u, nm)
  <2>1. CASE i = 0
    <3>1. stored' = stored \cup {v} /\ same' = [x \in Var |-> IF x = v THEN {at} ELSE same[x] \ {at}]
      BY <1>1, <2>1
    <3> TAKE u \in stored'
    <3>2. CASE u = v
      <4>1. Written(b, k, replaced) = at
        BY <1>2, <2>1 DEF Written, i
      <4>2. at \in same'[v]
        BY <1>4, <3>1
      <4> QED
        BY <1>7, <3>2, <4>1, <4>2
    <3>3. CASE u # v
      <4>1. u \in stored /\ u \in Var
        BY <1>3, <3>1, <3>3
      <4>2. PICK nm \in same[u] : Name(replaced, b, k - 1, u, nm)
        BY <1>2, <4>1 DEF Follows
      <4>3. nm # at
        <5>1. PICK z \in Over(b) : Upto(z, b, k - 1, u, replaced) # <<>> /\ nm = Last(Upto(z, b, k - 1, u, replaced))
          BY <4>2 DEF Name
        <5>2. k - 1 \in 0 .. Len(code[b]) /\ ~ (k <= k - 1) /\ k \in Nat
          BY <1>2
        <5>3. Before(nm, b, k - 1)
          BY <1>2, <5>1, <5>2, NameBefore
        <5>4. at[1] = b /\ at[2] = k /\ at # NoName
          <6>1. b \in Block /\ at \in Block \X (Nat \cup Var)
            BY <1>2, <5>2, InstructionAt
          <6> QED
            BY <1>2, <6>1, CodesAssumption
        <5> QED
          BY <5>2, <5>3, <5>4 DEF Before
      <4>4. nm \in same'[u]
        BY <3>1, <3>3, <4>1, <4>2, <4>3
      <4> QED
        BY <1>8, <3>3, <4>2, <4>4
    <3> QED
      BY <3>2, <3>3
  <2>2. CASE i # 0
    <3>1. /\ stored' = IF w \in stored THEN stored \cup {v} ELSE stored \ {v}
          /\ same' = [same EXCEPT ![v] = same[w]]
      BY <1>1, <2>2
    <3>2. same'[v] = same[w] /\ \A x \in Var : x # v => same'[x] = same[x]
      BY <1>3, <1>4, <3>1
    <3> TAKE u \in stored'
    <3>3. CASE u = v
      <4>1. w \in stored
        BY <3>1, <3>3
      <4>2. PICK nm \in same[w] : Name(replaced, b, k - 1, w, nm)
        BY <1>2, <4>1 DEF Follows
      <4>3. i \in 1 .. k /\ (\A j \in i .. k - 1 : code[b][j].op = "load") /\ i \in DOMAIN code[b] /\ i \in i .. k - 1
        <5>1. i \in 1 .. k - 1
          BY <1>4, <2>2
        <5>2. i \in 1 .. k /\ i \in 1 .. Len(code[b]) /\ i \in i .. k - 1
          BY <1>2, <5>1
        <5> QED
          BY <1>2, <1>4, <2>2, <5>2, InstructionAt
      <4>4. Name(replaced, b, i - 1, w, nm)
        BY <1>2, <4>2, <4>3, NameOverLoads
      <4>5. code[b][i].op = "load"
        BY <4>3
      <4>6. <<b, i>> \in DOMAIN replaced /\ replaced[<<b, i>>] = nm
        BY <1>2, <4>3, <4>4, <4>5 DEF Loads, w
      <4>7. Written(b, k, replaced) = nm
        BY <2>2, <4>6 DEF Written, i
      <4> QED
        BY <1>7, <3>2, <3>3, <4>2, <4>7
    <3>4. CASE u # v
      <4>1. u \in stored /\ u \in Var
        BY <1>3, <3>1, <3>4
      <4>2. PICK nm \in same[u] : Name(replaced, b, k - 1, u, nm)
        BY <1>2, <4>1 DEF Follows
      <4> QED
        BY <1>8, <3>2, <3>4, <4>1, <4>2
    <3> QED
      BY <3>3, <3>4
  <2> QED
    BY <2>1, <2>2
<1>11. Follows(b, k)'
  BY <1>1, <1>6, <1>10 DEF Follows
<1> QED
  BY <1>1, <1>2, <1>5, <1>9, <1>11 DEF Running

LEMMA GotoRuns ==
  ASSUME Shape, CodeOK, PhisOK, WalkInv, Running, NEW c \in Block, Goto(c)
  PROVE  Running'
<1> DEFINE b == at[1]
           now == {p \in phis : p[1] = c}
           Holds(p, v) == <<p, b>> \in DOMAIN pairs /\ pairs[<<p, b>>] \in same[v]
<1>1. /\ at # <<>> /\ ~ Ongoing /\ c \in F!Succs(cfg, b) /\ at' = <<c, 1>>
      /\ same' = [v \in Var |-> (same[v] \ now) \cup {p \in now : Holds(p, v)}]
      /\ UNCHANGED <<domVars, code, phis, replaced, stored, blocks>>
  BY DEF Goto, work, domVars
<1>2. /\ todo = [v \in Var |-> {}] /\ replaced \in Replacements /\ Founded(replaced)
      /\ Operands(replaced, pairs, blocks) /\ b \in blocks /\ Follows(b, Len(code[b]))
  BY <1>1, RunFacts
<1>3. stored \subseteq Var
  BY DEF Running
<1> HIDE DEF b, now, Holds
<1>4. <<b, c>> \in cfg /\ c \in blocks
  <2>1. PICK e \in cfg : e[1] = b /\ e[2] = c
    BY <1>1 DEF F!Succs
  <2>2. e = <<e[1], e[2]>> /\ e[2] \in blocks
    BY DEF Shape
  <2> QED
    BY <2>1, <2>2
<1>5. \A rep, x, j, v, nm : Name(rep, x, j, v, nm)' <=> Name(rep, x, j, v, nm)
  BY <1>1, SameWords
<1>6. ASSUME NEW v \in stored PROVE \E nm \in same'[v] : Name(replaced, c, 0, v, nm)
  <2>1. v \in Var
    BY <1>3
  <2>2. PICK nm \in same[v] : Name(replaced, b, Len(code[b]), v, nm)
    BY <1>2 DEF Follows
  <2>3. IF <<c, v>> \in phis THEN Name(replaced, c, 0, v, <<c, v>>)
        ELSE Name(replaced, c, 0, v, nm) /\ \A p \in phis : p[1] = c => p # nm
    BY <1>2, <1>4, <2>1, <2>2, NameOverEdge
  <2>4. same'[v] = (same[v] \ now) \cup {p \in now : Holds(p, v)}
    BY <1>1, <2>1
  <2>5. CASE <<c, v>> \in phis
    <3> DEFINE p == <<c, v>>
    <3>1. p \in phis /\ p[1] = c /\ p[2] = v
      BY <2>5
    <3> HIDE DEF p
    <3>2. <<p, b>> \in DOMAIN pairs /\ pairs[<<p, b>>] = nm
      BY <1>2, <1>4, <2>2, <3>1 DEF Operands
    <3>3. p \in same'[v]
      BY <2>2, <2>4, <3>1, <3>2 DEF now, Holds
    <3> QED
      BY <2>3, <2>5, <3>3 DEF p
  <2>6. CASE <<c, v>> \notin phis
    <3>1. nm \in same'[v]
      BY <2>2, <2>3, <2>4, <2>6 DEF now
    <3> QED
      BY <2>3, <2>6, <3>1
  <2> QED
    BY <2>5, <2>6
<1>7. at'[1] = c /\ at'[2] = 1 /\ 1 - 1 = 0 /\ Len(code[c]) \in Nat /\ 1 \in 1 .. Len(code[c]) + 1
  BY <1>1, <1>4, InstructionAt
<1>8. Follows(c, 0)'
  BY <1>1, <1>5, <1>6 DEF Follows
<1>9. same' = [v \in Var |-> same'[v]]
  BY <1>1
<1> QED
  BY <1>1, <1>3, <1>4, <1>7, <1>8, <1>9 DEF Running

-----------------------------------------------------------------------------
(***************************************************************************)
(* Every step.                                                             *)
(***************************************************************************)
LEMMA NoCompute ==
  ASSUME MInv, ComputeDominators
  PROVE  code = <<>>
<1> SUFFICES ASSUME code # <<>> PROVE FALSE
  OBVIOUS
<1>1. root # NoBlock
  BY NullAssumption DEF D!GraphAssumption, MInv
<1> QED
  BY <1>1 DEF ComputeDominators, MInv, D!Next, D!Call, D!Number, D!Prune, D!Improve,
     D!Repeat, D!Generate

LEMMA InitWalk == Init => WalkInv /\ Running
<1> SUFFICES ASSUME Init PROVE WalkInv /\ Running
  OBVIOUS
<1>1. Waiting /\ stored = {} /\ same = [v \in Var |-> {}]
  BY DEF Init, Waiting
<1>2. same = [v \in Var |-> same[v]]
  BY <1>1
<1> QED
  BY <1>1, <1>2, Fresh DEF Running, Waiting

\* The steps before the walk begins.
LEMMA NextWaiting ==
  ASSUME MInv, Static, WalkInv, Running,
         ComputeDominators \/ Collect \/ \E v \in Var, b \in Block : InsertPhis(v, b)
  PROVE  Waiting' /\ Running'
<1>1. Waiting /\ UNCHANGED <<calls, at, var_to_val_stack, replaced, pairs, stored, same>>
  <2>1. CASE ComputeDominators
    BY <2>1, NoCompute DEF ComputeDominators, Static, Untouched, Waiting, work
  <2>2. CASE Collect
    BY <2>2 DEF Collect, Static, Untouched, Waiting
  <2>3. CASE \E v \in Var, b \in Block : InsertPhis(v, b)
    <3>1. PICK v \in Var, b \in Block : InsertPhis(v, b)
      BY <2>3
    <3>2. b \in todo[v] /\ UNCHANGED <<calls, at, var_to_val_stack, replaced, pairs, stored, same>>
      BY <3>1 DEF InsertPhis
    <3>3. todo # [w \in Var |-> {}]
      BY <3>2
    <3> QED
      BY <3>2, <3>3 DEF WalkInv, Waiting
  <2> QED
    BY <2>1, <2>2, <2>3
<1>2. Waiting' /\ at' = <<>> /\ stored' = {}
  BY <1>1 DEF Waiting, Running
<1>3. stored' \subseteq Var /\ same' = [v \in Var |-> same'[v]]
  BY <1>1, <1>2 DEF Running
<1> QED
  BY <1>2, <1>3 DEF Running

\* The calls of rename, after which the programs begin.
LEMMA NextCall ==
  ASSUME Shape, CodeOK, WalkInv, Running, Start \/ Return \/ \E b \in Block : Recur(b)
  PROVE  WalkInv' /\ Running'
<1>1. WalkInv'
  BY StartWalk, ReturnWalk, RecurWalk
<1>2. /\ at = <<>> /\ (at' = at \/ at' = <<Entry, 1>>)
      /\ UNCHANGED <<domVars, code, blocks, stored, same>>
  BY DEF Start, Return, Recur, Enter, WalkInv, domVars
<1>3. stored' = {} /\ stored' \subseteq Var /\ same' = [v \in Var |-> same'[v]]
  BY <1>2 DEF Running
<1>4. CASE at' = at
  BY <1>1, <1>2, <1>3, <1>4 DEF Running
<1>5. CASE at' = <<Entry, 1>>
  <2>1. Entry \in blocks /\ Len(code[Entry]) \in Nat
    BY InstructionAt DEF Shape
  <2>2. at' = <<at'[1], at'[2]>> /\ at'[1] \in blocks' /\ at'[2] \in 1 .. Len(code'[at'[1]]) + 1
    BY <1>2, <1>5, <2>1
  <2>3. Follows(at[1], at[2] - 1)'
    BY <1>3 DEF Follows
  <2> QED
    BY <1>1, <1>3, <1>5, <2>2, <2>3 DEF Running
<1> QED
  BY <1>1, <1>2, <1>4, <1>5

\* The steps of the two programs.
LEMMA NextRun ==
  ASSUME Shape, CodeOK, PhisOK, WalkInv, Running, Load \/ Store \/ \E c \in Block : Goto(c)
  PROVE  WalkInv' /\ Running'
<1>1. at # <<>> /\ at' # <<>> /\ UNCHANGED <<domVars, code, work>>
  BY DEF Load, Store, Goto, Ongoing
<1>2. WalkInv'
  BY <1>1, RunWalk
<1> QED
  BY <1>2, LoadRuns, StoreRuns, GotoRuns

LEMMA Idle ==
  ASSUME WalkInv, Running, UNCHANGED vars
  PROVE  WalkInv' /\ Running'
<1>1. /\ UNCHANGED <<domVars, code, work, at>> /\ UNCHANGED <<domVars, code, phis>>
      /\ UNCHANGED <<blocks, code, replaced, at, stored, same>>
  BY DEF vars, work, domVars
<1>2. WalkInv'
  BY <1>1, IdleWalk
<1>3. \A rep, b, k, v, nm : Name(rep, b, k, v, nm)' <=> Name(rep, b, k, v, nm)
  BY <1>1, SameWords
<1>4. Follows(at[1], at[2] - 1) => Follows(at[1], at[2] - 1)'
  BY <1>1, <1>3 DEF Follows
<1> QED
  BY <1>1, <1>2, <1>4 DEF Running

LEMMA NextWalk == MInv /\ Static /\ WalkInv /\ Running /\ [Next]_vars => WalkInv' /\ Running'
<1> SUFFICES ASSUME MInv, Static, WalkInv, Running, [Next]_vars PROVE WalkInv' /\ Running'
  OBVIOUS
<1>1. CASE ComputeDominators \/ Collect \/ \E v \in Var, b \in Block : InsertPhis(v, b)
  BY <1>1, NextWaiting, FreshNext
<1>2. CASE Start \/ Return \/ \E b \in Block : Recur(b)
  <2>1. code # <<>>
    BY <1>2 DEF Start, Return, Recur, Static, Untouched
  <2> QED
    BY <1>2, <2>1, NextCall DEF Static
<1>3. CASE Load \/ Store \/ \E c \in Block : Goto(c)
  <2>1. code # <<>>
    BY <1>3 DEF Load, Store, Goto, Ongoing, Static, Untouched
  <2> QED
    BY <1>3, <2>1, NextRun DEF Static
<1>4. CASE UNCHANGED vars
  BY <1>4, Idle
<1> QED
  BY <1>1, <1>2, <1>3, <1>4 DEF Next

LEMMA Always == Spec => [](Static /\ WalkInv /\ Running)
<1> DEFINE I == MInv /\ Static /\ WalkInv /\ Running
<1>1. Init => I
  BY InitMInv, InitStatic, InitWalk
<1>2. I /\ [Next]_vars => I'
  BY NextMInv, NextStatic, NextWalk
<1>3. I => Static /\ WalkInv /\ Running
  OBVIOUS
<1> QED
  BY <1>1, <1>2, <1>3, PTL DEF Spec

(***************************************************************************)
(* While rename walks the tree of dominators, the stack of every variable  *)
(* holds the stores and phis of the blocks whose calls are in progress, in *)
(* their order, and nothing else: what a call has pushed is popped when it *)
(* returns, for any graph and any code.                                    *)
(***************************************************************************)
THEOREM Scoped == Spec => []StacksAreScoped
<1>1. Static /\ WalkInv => StacksAreScoped
  <2> SUFFICES ASSUME Static, WalkInv, NEW v \in DOMAIN var_to_val_stack
               PROVE  var_to_val_stack[v] =
                        FlattenSeq([n \in DOMAIN calls |->
                          LET b == calls[n].block
                              At(k) == IF code[b][k].op = "store" /\ code[b][k].lval = v
                                       THEN <<Written(b, k, replaced)>> ELSE <<>>
                          IN  (IF v \in PhiVars(b) THEN << <<b, v>> >> ELSE <<>>)
                                \o FlattenSeq([k \in DOMAIN code[b] |-> At(k)])])
    BY DEF StacksAreScoped
  <2>1. code # <<>>
    BY DEF Static, Untouched
  <2>2. Shape /\ CodeOK
    BY <2>1 DEF Static
  <2>3. Walk(calls) /\ Stacked(calls, var_to_val_stack, replaced)
    BY DEF WalkInv
  <2>4. DOMAIN calls = 1 .. Len(calls) /\ \A n \in 1 .. Len(calls) : calls[n].block \in blocks
    BY <2>2, <2>3, WalkFacts DEF Walk
  <2>5. ASSUME NEW n \in 1 .. Len(calls)
        PROVE  LET b == calls[n].block
                   At(k) == IF code[b][k].op = "store" /\ code[b][k].lval = v
                            THEN <<Written(b, k, replaced)>> ELSE <<>>
               IN  (IF v \in PhiVars(b) THEN << <<b, v>> >> ELSE <<>>)
                     \o FlattenSeq([k \in DOMAIN code[b] |-> At(k)])
               = All(calls[n].block, v, replaced)
    <3> DEFINE b == calls[n].block
    <3>1. DOMAIN code[b] = 1 .. Len(code[b])
      BY <2>2, <2>4, InstructionAt
    <3> QED
      BY <3>1 DEF All, Pushed, PhiPart, Parts, Part
  <2>6. var_to_val_stack[v] = Pile(calls, Len(calls), v, replaced)
    BY <2>3 DEF Stacked, Held
  <2> QED
    BY <2>4, <2>5, <2>6 DEF Pile
<1> QED
  BY <1>1, Always, PTL

(***************************************************************************)
(* Mem2Reg keeps the program: wherever the program reads a variable it has *)
(* stored to, the name that took the place of the load holds what the      *)
(* variable holds, on every path through every graph; and a phi of such a  *)
(* variable has an operand for the edge the program takes.                 *)
(***************************************************************************)
THEOREM ValuesKept == Spec => []LoadsKeepTheirValue
<1>1. Static /\ WalkInv /\ Running => LoadsKeepTheirValue
  <2> SUFFICES ASSUME Static, WalkInv, Running, at # <<>> PROVE LoadsKeepTheirValue
    BY DEF LoadsKeepTheirValue, Ongoing
  <2>1. code # <<>>
    BY DEF Static, Untouched
  <2>2. Shape /\ CodeOK
    BY <2>1 DEF Static
  <2>3. SUFFICES ASSUME NEW b, NEW k, b = at[1], k = at[2] PROVE LoadsKeepTheirValue
    OBVIOUS
  <2>4. /\ Loads(replaced, blocks) /\ Operands(replaced, pairs, blocks)
        /\ at = <<b, k>> /\ b \in blocks /\ Follows(b, k - 1)
        /\ Ongoing => k \in DOMAIN code[b]
        /\ ~ Ongoing => k - 1 = Len(code[b])
    BY <2>2, <2>3, RunFacts
  <2>5. ASSUME Ongoing, Instr.op = "load", Instr.lval \in stored
        PROVE  at \in DOMAIN replaced /\ replaced[at] \in same[Instr.lval]
    <3>1. Instr = code[b][k] /\ k \in DOMAIN code[b]
      BY <2>3, <2>4, <2>5 DEF Instr
    <3>2. PICK nm \in same[Instr.lval] : Name(replaced, b, k - 1, Instr.lval, nm)
      BY <2>4, <2>5 DEF Follows
    <3>3. <<b, k>> \in DOMAIN replaced /\ replaced[<<b, k>>] = nm
      BY <2>4, <2>5, <3>1, <3>2 DEF Loads
    <3> QED
      BY <2>4, <3>3
  <2>6. ASSUME ~ Ongoing, NEW p \in phis, p[1] \in F!Succs(cfg, b), p[2] \in stored
        PROVE  <<p, b>> \in DOMAIN pairs
    <3>1. PICK nm \in same[p[2]] : Name(replaced, b, Len(code[b]), p[2], nm)
      BY <2>4, <2>6 DEF Follows
    <3>2. <<b, p[1]>> \in cfg
      <4>1. PICK e \in cfg : e[1] = b /\ e[2] = p[1]
        BY <2>6 DEF F!Succs
      <4>2. e = <<e[1], e[2]>>
        BY <2>2 DEF Shape
      <4> QED
        BY <4>1, <4>2
    <3> QED
      BY <2>4, <3>1, <3>2 DEF Operands
  <2> QED
    BY <2>3, <2>5, <2>6 DEF LoadsKeepTheirValue
<1> QED
  BY <1>1, Always, PTL
=============================================================================
