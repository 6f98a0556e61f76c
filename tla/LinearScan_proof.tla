-------------------------- MODULE LinearScan_proof --------------------------
(***************************************************************************)
(* linear_scan_ssa never gives two living values one register, loses no    *)
(* value when it splits intervals, and records every change of place, for  *)
(* any registers, values, blocks and live ranges.                          *)
(***************************************************************************)
EXTENDS LinearScan, FiniteSetTheorems, TLAPS

\* The pieces the intervals have been cut into.
Queued == unhandled \cup ({current} \ {NoInterval})
Pieces == Placed \cup Queued

Piece == [val : Val, s : SUBSET Pos, uses : SUBSET Pos, reg : Int]

TypeOK ==
  /\ live \in [Val -> Shape]
  /\ Pieces \subseteq Piece
  /\ \A i \in Pieces : /\ i.s # {} /\ i.s \subseteq live[i.val].s
                       /\ i.uses = live[i.val].uses \cap i.s
  /\ \A i \in Placed : i.reg \in Nat
  /\ \A i \in Queued : i.reg = NoReg
  /\ known \subseteq Nat /\ Reg \subseteq ranked /\ ranked \subseteq Nat
  /\ spilled \subseteq Val

\* What is queued begins at p or later, what has a register began by then, and
\* what is handled is over.
Behind(p) ==
  /\ \A j \in unhandled : \A q \in j.s : p <= q
  /\ \A i \in active \cup inactive : \E q \in i.s : q <= p
  /\ \A h \in handled : \A q \in h.s : q < p

\* The scan only moves forward, and an interval that is being placed is compared
\* with those that hold a register at its start and those that do not.
Order ==
  IF current = NoInterval THEN \E p \in 0 .. Horizon : Behind(p)
  ELSE /\ current \notin unhandled /\ Behind(Start(current))
       /\ \A i \in active : Covers(i, Start(current))
       /\ \A i \in inactive : ~ Covers(i, Start(current))

Disjoint == \A i, j \in Pieces : i # j /\ i.val = j.val => i.s \cap j.s = {}

OneEach == \A i, j \in Placed : i # j /\ i.reg = j.reg => i.s \cap j.s = {}

Covered ==
  \A v \in Val : \A p \in live[v].s :
    v \in spilled \/ \E i \in Pieces : i.val = v /\ p \in i.s

\* A piece that ends or begins inside a block is recorded.
Recorded ==
  \A v \in Val : \A p \in Pos \ BlockStart :
    {p - 1, p} \subseteq live[v].s =>
      <<v, p>> \in splits \/ \A i \in Pieces : i.val = v => (p - 1 \in i.s <=> p \in i.s)

SplitsInside ==
  \A e \in splits : e[1] \in Val /\ {e[2] - 1, e[2]} \subseteq live[e[1]].s

Kept == Disjoint /\ Covered /\ Recorded /\ SplitsInside

\* Where the bound of a hole is read past the last segment the model stops.
IInv ==
  /\ stray \in BOOLEAN
  /\ IF stray THEN current = NoInterval ELSE TypeOK /\ Order /\ OneEach /\ Kept
-----------------------------------------------------------------------------
\* Min and Max are what their names say, on sets of numbers that have them.
LEMMA MinOf ==
  ASSUME NEW S \in SUBSET Nat, S # {}
  PROVE  Min(S) \in S /\ \A y \in S : Min(S) <= y
<1> DEFINE T == {0 .. x : x \in S}
<1>1. T \subseteq FiniteSubsetsOf(Nat)
  <2>1. \A x \in S : IsFiniteSet(0 .. x) /\ 0 .. x \in SUBSET Nat
    BY FS_Interval
  <2> QED
    BY <2>1 DEF FiniteSubsetsOf
<1>2. PICK X \in T : \A Y \in T : <<Y, X>> \notin StrictSubsetOrdering(Nat)
  <2>1. T # {}
    OBVIOUS
  <2>2. IsWellFoundedOn(StrictSubsetOrdering(Nat), FiniteSubsetsOf(Nat))
    BY FS_StrictSubsetOrderingWellFounded
  <2> HIDE DEF T
  <2> QED
    BY <1>1, <2>1, <2>2, WFMin
<1>3. PICK m \in S : X = 0 .. m
  OBVIOUS
<1>4. ASSUME NEW y \in S, y < m PROVE FALSE
  <2>1. 0 .. y \subseteq 0 .. m /\ 0 .. y # 0 .. m
    BY <1>4
  <2>2. 0 .. y \in T
    OBVIOUS
  <2> HIDE DEF T
  <2>3. <<0 .. y, 0 .. m>> \in StrictSubsetOrdering(Nat)
    BY <2>1 DEF StrictSubsetOrdering
  <2> QED
    BY <1>2, <1>3, <2>2, <2>3
<1>5. \E x \in S : \A y \in S : x =< y
  <2> SUFFICES ASSUME NEW y \in S PROVE m <= y
    OBVIOUS
  <2> QED
    BY <1>4
<1> HIDE DEF T
<1> QED
  BY <1>5 DEF Min

LEMMA MaxOf ==
  ASSUME NEW n \in Nat, NEW S \in SUBSET (0 .. n), S # {}
  PROVE  Max(S) \in S /\ \A y \in S : y <= Max(S)
<1> DEFINE T == {n - x : x \in S}
<1>1. T \in SUBSET Nat /\ T # {}
  <2>1. \A x \in S : n - x \in Nat
    OBVIOUS
  <2> QED
    BY <2>1
<1>2. Min(T) \in T /\ \A y \in T : Min(T) <= y
  <2> HIDE DEF T
  <2> QED
    BY <1>1, MinOf
<1>3. PICK m \in S : Min(T) = n - m
  BY <1>2
<1>4. \A y \in S : n - m <= n - y
  BY <1>2, <1>3
<1>5. \E x \in S : \A y \in S : x >= y
  BY <1>4
<1> HIDE DEF T
<1> QED
  BY <1>5 DEF Max

\* max_element finds an entry than which none is larger.
LEMMA MaxElementOf ==
  ASSUME NEW f, DOMAIN f # {}, DOMAIN f \subseteq Nat, NEW n \in Nat,
         \A q \in DOMAIN f : f[q] \in 0 .. n
  PROVE  /\ MaxElement(f) \in DOMAIN f
         /\ \A q \in DOMAIN f : f[q] <= f[MaxElement(f)]
<1> DEFINE V == {f[q] : q \in DOMAIN f}
           top == Max(V)
           R == {q \in DOMAIN f : f[q] = top}
<1>1. V \in SUBSET (0 .. n) /\ V # {}
  OBVIOUS
<1>2. top \in V /\ \A y \in V : y <= top
  <2> HIDE DEF V
  <2> QED
    BY <1>1, MaxOf
<1>3. R \in SUBSET Nat /\ R # {}
  BY <1>2
<1>4. Min(R) \in R /\ \A q \in R : Min(R) <= q
  <2> HIDE DEF R
  <2> QED
    BY <1>3, MinOf
<1> DEFINE m == Min(R)
<1>5. m \in DOMAIN f /\ f[m] = top /\ \A q \in DOMAIN f : f[q] = top => m <= q
  BY <1>4
<1>6. \A q \in DOMAIN f : f[q] <= top
  BY <1>2
<1>7. \A q \in DOMAIN f : f[q] < f[m] \/ (f[q] = f[m] /\ m <= q)
  <2> HIDE DEF m, top
  <2>1. top \in Int
    BY <1>5
  <2> QED
    BY <1>5, <1>6, <2>1
<1>8. \E r \in DOMAIN f : \A q \in DOMAIN f : f[q] < f[r] \/ (f[q] = f[r] /\ r <= q)
  BY <1>5, <1>7
<1> HIDE DEF m, top, R, V
<1>9. /\ MaxElement(f) \in DOMAIN f
      /\ \A q \in DOMAIN f : f[q] < f[MaxElement(f)] \/ f[q] = f[MaxElement(f)]
  BY <1>8 DEF MaxElement
<1> QED
  BY <1>9

\* What the order of unhandled means for the start of the first interval.
LEMMA FirstStarts ==
  ASSUME NEW S, NEW i \in S, IsFirst(i, S),
         \A j \in S : j.s \in SUBSET Pos /\ j.s # {}
  PROVE  \A j \in S : \A q \in j.s : Start(i) <= q
<1> SUFFICES ASSUME NEW j \in S, NEW p \in j.s, p < Start(i) PROVE FALSE
  <2>1. \A j \in S : \A q \in j.s : q \in Int /\ Start(i) \in Int
    BY MinOf DEF Start, Pos
  <2> QED
    BY <2>1
<1> DEFINE I == Bounds(i.s)
           J == Bounds(j.s)
           low == Min(j.s)
           X == (I \ J) \cup (J \ I)
<1>1. /\ Horizon \in Nat /\ i.s \in SUBSET Nat /\ j.s \in SUBSET Nat
      /\ i.s \in SUBSET Pos /\ j.s \in SUBSET Pos /\ i.s # {} /\ j.s # {}
  BY InputAssumption DEF Pos
<1>2. low \in j.s /\ low <= p /\ \A q \in j.s : low <= q
  BY <1>1, MinOf
<1>3. \A q \in i.s : Start(i) <= q
  BY <1>1, MinOf DEF Start
<1>4. low < Start(i) /\ low \in Nat /\ Start(i) \in Nat
  BY <1>1, <1>2, MinOf DEF Start
<1>5. i # j /\ low \notin i.s /\ low - 1 \notin j.s
  BY <1>1, <1>2, <1>3, <1>4, MinOf DEF Start
<1>6. \A q \in I : low < q
  BY <1>1, <1>3, <1>4 DEF Bounds
<1>7. low \in J /\ low \notin I /\ X \in SUBSET Nat
  BY <1>1, <1>2, <1>5, <1>6 DEF Bounds, Pos
<1>8. \A q \in J : low <= q
  BY <1>1, <1>2 DEF Bounds
<1>9. Min(X) = low
  <2>1. Min(X) \in X /\ \A y \in X : Min(X) <= y
    <3> HIDE DEF X, I, J, low
    <3>1. X # {}
      BY <1>7 DEF X
    <3> QED
      BY <1>7, <3>1, MinOf
  <2>2. low \in X /\ \A y \in X : low <= y /\ y \in Nat
    BY <1>4, <1>6, <1>7, <1>8
  <2>3. Min(X) \in Nat /\ Min(X) <= low /\ low <= Min(X) /\ low \in Nat
    <3> HIDE DEF X, I, J, low
    <3> QED
      BY <1>4, <2>1, <2>2
  <2> HIDE DEF X, I, J, low
  <2> QED
    BY <2>3
<1>10. \E q \in I : q > low
  <2>1. Start(i) \in I
    BY <1>1, <1>3, MinOf DEF Start, Bounds, Pos
  <2> QED
    BY <1>4, <2>1
<1>11. Before(i, j)
  BY <1>5 DEF IsFirst
<1> HIDE DEF X, I, J, low
<1> QED
  BY <1>7, <1>9, <1>10, <1>11 DEF Before, X, I, J
-----------------------------------------------------------------------------
\* The live ranges of the input.
LEMMA Shapes ==
  ASSUME NEW h \in Shape
  PROVE  h.s \in SUBSET Pos /\ h.s \in SUBSET Nat /\ h.s # {} /\ h.uses \subseteq h.s
BY InputAssumption DEF Pos

LEMMA NoIntervalIsNone == ASSUME TypeOK PROVE NoInterval \notin Pieces
BY InputAssumption DEF TypeOK, Piece, NoInterval, Interval, NoReg

LEMMA InitIInv == Init => IInv
<1> SUFFICES ASSUME Init PROVE IInv
  OBVIOUS
<1> DEFINE whole(v) == Interval(v, live[v], IF v \in DOMAIN ArgReg THEN ArgReg[v] ELSE NoReg)
<1>1. /\ live \in [Val -> Shape] /\ current = NoInterval /\ inactive = {} /\ handled = {}
      /\ known = Reg /\ ranked = Reg /\ spilled = {} /\ splits = {} /\ stray = FALSE
      /\ DOMAIN ArgReg \subseteq Val /\ Val \subseteq Nat /\ Reg \subseteq Nat
      /\ \A v \in DOMAIN ArgReg : ArgReg[v] \in Nat /\ 0 \in live[v].s
  BY InputAssumption DEF Init
<1>2. Placed = {whole(v) : v \in DOMAIN ArgReg}
  BY <1>1 DEF Init, Placed
<1>3. Queued = {whole(v) : v \in Val \ DOMAIN ArgReg}
  BY <1>1 DEF Init, Queued
<1>4. /\ Pieces = {whole(v) : v \in Val}
      /\ \A v \in Val : /\ whole(v).val = v /\ whole(v).s = live[v].s
                         /\ whole(v).uses = live[v].uses
                         /\ whole(v).reg = IF v \in DOMAIN ArgReg THEN ArgReg[v] ELSE NoReg
  BY <1>1, <1>2, <1>3 DEF Pieces, Interval
<1>5. \A v \in Val : whole(v) \in Piece
  <2> SUFFICES ASSUME NEW v \in Val PROVE whole(v) \in Piece
    OBVIOUS
  <2>1. live[v].s \in SUBSET Pos /\ live[v].uses \in SUBSET Pos
    BY <1>1, Shapes
  <2>2. (IF v \in DOMAIN ArgReg THEN ArgReg[v] ELSE NoReg) \in Int
    BY <1>1 DEF NoReg
  <2> QED
    BY <2>1, <2>2 DEF Interval, Piece
<1> HIDE DEF whole
<1>6. TypeOK
  <2>1. \A v \in Val : /\ live[v].s # {} /\ live[v].uses = live[v].uses \cap live[v].s
    BY <1>1, Shapes
  <2>2. \A i \in Placed : i.reg \in Nat
    <3>1. \A v \in DOMAIN ArgReg : whole(v).reg \in Nat
      BY <1>1, <1>4
    <3> QED
      BY <1>2, <3>1
  <2>3. \A i \in Queued : i.reg = NoReg
    BY <1>3, <1>4
  <2>4. Pieces \subseteq Piece
    BY <1>4, <1>5
  <2>5. \A i \in Pieces : /\ i.s # {} /\ i.s \subseteq live[i.val].s
                          /\ i.uses = live[i.val].uses \cap i.s
    BY <1>4, <2>1
  <2> QED
    BY <1>1, <2>2, <2>3, <2>4, <2>5 DEF TypeOK
<1>7. Order
  <2>1. Behind(0)
    <3>1. \A j \in unhandled : \A q \in j.s : 0 <= q
      <4>1. unhandled \subseteq Queued
        BY <1>1, <1>6, NoIntervalIsNone DEF Queued
      <4> QED
        BY <4>1, <1>6 DEF TypeOK, Pieces, Piece, Pos
    <3>2. \A i \in active : 0 \in i.s
      BY <1>1 DEF Init, Interval
    <3> QED
      BY <1>1, <3>1, <3>2 DEF Behind
  <2>2. 0 \in 0 .. Horizon
    BY InputAssumption
  <2> QED
    BY <1>1, <2>1, <2>2 DEF Order
<1>8. OneEach
  <2>1. \A v, w \in DOMAIN ArgReg : ArgReg[v] = ArgReg[w] => v = w
    BY InputAssumption
  <2> SUFFICES ASSUME NEW v \in DOMAIN ArgReg, NEW w \in DOMAIN ArgReg,
                      whole(v).reg = whole(w).reg
               PROVE  v = w
    BY <1>2 DEF OneEach
  <2> QED
    BY <1>1, <1>4, <2>1
<1>9. Kept
  <2>1. Disjoint
    BY <1>4 DEF Disjoint
  <2>2. Covered
    BY <1>4 DEF Covered
  <2>3. Recorded
    BY <1>4 DEF Recorded
  <2> QED
    BY <1>1, <2>1, <2>2, <2>3 DEF Kept, SplitsInside
<1> QED
  BY <1>1, <1>6, <1>7, <1>8, <1>9 DEF IInv

\* The next interval moves the scan to its start; nothing is cut.
LEMMA TakeIInv == ASSUME IInv, Take PROVE IInv'
<1>1. PICK i \in unhandled : IsFirst(i, unhandled) /\ current' = i
  BY DEF Take
<1> DEFINE position == Start(i)
           ended    == {j \in active : End(j) <= position}
           paused   == {j \in active \ ended : ~ Covers(j, position)}
           expired  == {j \in inactive : End(j) < position}
           woken    == {j \in inactive \ expired : Covers(j, position)}
<1>2. /\ TypeOK /\ Order /\ OneEach /\ Kept /\ current = NoInterval
      /\ ~ stray /\ ~ stray'
      /\ unhandled' = unhandled \ {i}
      /\ active' = (active \ (ended \cup paused)) \cup woken
      /\ inactive' = (inactive \ (expired \cup woken)) \cup paused
      /\ handled' = handled \cup ended \cup expired
      /\ UNCHANGED <<live, known, ranked, spilled, splits, stray>> /\ stray \in BOOLEAN
  BY <1>1 DEF Take, IInv
<1>3. Placed' = Placed /\ i # NoInterval
  BY <1>2, NoIntervalIsNone DEF Placed, Pieces, Queued
<1>4. Queued' = Queued
  BY <1>1, <1>2, <1>3 DEF Queued
<1>5. TypeOK' /\ OneEach' /\ Kept'
  <2>1. Pieces' = Pieces
    BY <1>3, <1>4 DEF Pieces
  <2> QED
    BY <1>2, <1>3, <1>4, <2>1
       DEF TypeOK, OneEach, Kept, Disjoint, Covered, Recorded, SplitsInside
<1>6. \A j \in Pieces : j.s \in SUBSET Pos /\ j.s # {}
  BY <1>2 DEF TypeOK, Piece
<1>7. unhandled \subseteq Pieces
  BY <1>2, NoIntervalIsNone DEF Pieces, Queued
<1>8. PICK p \in 0 .. Horizon : Behind(p)
  BY <1>2 DEF Order
<1>9. position \in i.s /\ position \in Nat /\ p <= position
  <2>1. i.s \in SUBSET Nat /\ i.s # {}
    BY <1>1, <1>6, <1>7 DEF Pos
  <2> QED
    BY <1>1, <1>8, <2>1, MinOf DEF Start, Behind
<1>10. \A j \in unhandled : \A q \in j.s : position <= q
  BY <1>1, <1>6, <1>7, FirstStarts
<1>11. \A j \in active \cup inactive : End(j) <= position => \A q \in j.s : q < position
  <2> SUFFICES ASSUME NEW j \in active \cup inactive, End(j) <= position, NEW q \in j.s
               PROVE  q < position
    OBVIOUS
  <2>1. j.s \in SUBSET (0 .. Horizon) /\ j.s # {} /\ Horizon \in Nat
    BY <1>6, InputAssumption DEF Placed, Pieces, Pos
  <2>2. q <= Max(j.s) /\ Max(j.s) \in j.s
    BY <2>1, MaxOf
  <2> QED
    BY <1>9, <2>1, <2>2 DEF End
<1>12. \A j \in inactive : End(j) \in Int
  <2> SUFFICES ASSUME NEW j \in inactive PROVE End(j) \in Int
    OBVIOUS
  <2>1. j.s \in SUBSET (0 .. Horizon) /\ j.s # {} /\ Horizon \in Nat
    BY <1>6, InputAssumption DEF Placed, Pieces, Pos
  <2>2. Max(j.s) \in j.s
    BY <2>1, MaxOf
  <2> QED
    BY <2>1, <2>2 DEF End
<1>13. Behind(position)'
  <2>1. \A j \in unhandled' : \A q \in j.s : position <= q
    BY <1>2, <1>10
  <2>2. \A j \in (active \cup inactive)' : \E q \in j.s : q <= position
    <3> SUFFICES ASSUME NEW j \in (active \cup inactive)'
                 PROVE  \E q \in j.s : q <= position
      OBVIOUS
    <3>1. j \in active \cup inactive
      BY <1>2
    <3>2. PICK q \in j.s : q <= p
      BY <1>8, <3>1 DEF Behind
    <3>3. q \in Nat
      BY <1>6, <3>1 DEF Placed, Pieces, Pos
    <3> QED
      BY <1>9, <3>2, <3>3
  <2>3. \A h \in handled' : \A q \in h.s : q < position
    <3> SUFFICES ASSUME NEW h \in handled', NEW q \in h.s PROVE q < position
      OBVIOUS
    <3>1. CASE h \in handled
      <4>1. q < p /\ q \in Nat
        BY <1>6, <1>8, <3>1 DEF Behind, Placed, Pieces, Pos
      <4> QED
        BY <1>9, <4>1
    <3>2. CASE h \in ended
      BY <1>11, <3>2
    <3>3. CASE h \in expired
      BY <1>9, <1>11, <1>12, <3>3
    <3> QED
      BY <1>2, <3>1, <3>2, <3>3
  <2> HIDE DEF position
  <2> QED
    BY <2>1, <2>2, <2>3 DEF Behind
<1>14. Order'
  <2>1. current' # NoInterval /\ current' \notin unhandled' /\ Start(current') = position
    BY <1>1, <1>2, <1>3
  <2>2. \A j \in active' : Covers(j, position)
    BY <1>2
  <2>3. \A j \in inactive' : ~ Covers(j, position)
    BY <1>2
  <2> QED
    BY <1>1, <1>13, <2>1, <2>2, <2>3 DEF Order, Start, Covers
<1> QED
  BY <1>2, <1>5, <1>14 DEF IInv
-----------------------------------------------------------------------------
\* The interval being placed begins where the scan stands.
LEMMA CurrentFacts ==
  ASSUME TypeOK, Order, current # NoInterval
  PROVE  /\ current \in Pieces /\ current \in Piece /\ current.s # {} /\ current.reg = NoReg
         /\ current.uses \subseteq current.s
         /\ current.s \in SUBSET Nat /\ Start(current) \in current.s
         /\ \A q \in current.s : Start(current) <= q /\ q < Horizon
         /\ Horizon \in Nat /\ Infinity = Horizon + 1
         /\ End(current) \in Nat /\ End(current) <= Horizon
         /\ \A q \in current.s : q < End(current)
<1>1. current \in Pieces /\ current \in Queued
  BY DEF Pieces, Queued
<1>2. current \in Piece /\ current.s # {} /\ current.reg = NoReg /\ current.uses \subseteq current.s
  BY <1>1 DEF TypeOK
<1>3. Horizon \in Nat /\ current.s \in SUBSET Pos
  BY <1>2, InputAssumption DEF Piece
<1>4. current.s \in SUBSET Nat /\ current.s \in SUBSET (0 .. Horizon)
  BY <1>3 DEF Pos
<1>5. Start(current) \in current.s /\ \A q \in current.s : Start(current) <= q
  BY <1>2, <1>4, MinOf DEF Start
<1>6. Max(current.s) \in current.s /\ \A q \in current.s : q <= Max(current.s)
  BY <1>2, <1>3, <1>4, MaxOf
<1>7. \A q \in current.s : q < Horizon /\ q \in Nat
  BY <1>3 DEF Pos
<1>8. End(current) \in Nat /\ End(current) <= Horizon /\ \A q \in current.s : q < End(current)
  BY <1>3, <1>6, <1>7 DEF End
<1> QED
  BY <1>1, <1>2, <1>3, <1>4, <1>5, <1>7, <1>8 DEF Infinity

\* The register chosen because it is free: nothing active is in it, and it is free
\* until the first position where the interval meets what waits in it.
LEMMA FreeFacts ==
  ASSUME TypeOK, Order, current # NoInterval,
         NEW f, f = freeUntilPosition, \E q \in DOMAIN f : f[q] # 0,
         NEW r, r = MaxElement(f)
  PROVE  /\ r \in Nat /\ f[r] \in Nat /\ \A i \in active : i.reg # r
         /\ f[r] = Infinity \/ (f[r] \in current.s /\ f[r] > Start(current))
         /\ \A i \in inactive : i.reg = r => \A q \in i.s \cap current.s : f[r] <= q
<1> DEFINE Meets(q) == UNION {i.s \cap current.s : i \in {j \in Clashing : j.reg = q}}
           Ends(q) == {Infinity} \cup Meets(q)
<1>1. /\ current.s \in SUBSET Nat /\ Start(current) \in current.s
      /\ \A q \in current.s : Start(current) <= q /\ q < Horizon
      /\ Horizon \in Nat /\ Infinity = Horizon + 1
  BY CurrentFacts
<1>2. DOMAIN f = known \cup {i.reg : i \in active \cup Clashing} /\ DOMAIN f \subseteq Nat
  <2>1. \A i \in active \cup Clashing : i.reg \in Nat
    BY DEF TypeOK, Placed, Clashing
  <2> QED
    BY <2>1 DEF freeUntilPosition, TypeOK
<1>3. \A q \in DOMAIN f :
         f[q] = IF q \notin known \/ \E i \in active : i.reg = q THEN 0 ELSE Min(Ends(q))
  BY <1>2 DEF freeUntilPosition
<1>4. \A q : Ends(q) \in SUBSET Nat
  BY <1>1
<1>5. \A q : Min(Ends(q)) \in Ends(q) /\ \A p \in Ends(q) : Min(Ends(q)) <= p
  <2> TAKE q
  <2>1. Ends(q) # {}
    OBVIOUS
  <2> HIDE DEF Ends
  <2> QED
    BY <1>4, <2>1, MinOf
<1>6. \A q : Min(Ends(q)) \in 0 .. Horizon + 1
  <2> TAKE q
  <2>1. \A p \in Ends(q) : p \in 0 .. Horizon + 1
    BY <1>1
  <2> QED
    BY <1>5, <2>1
<1> HIDE DEF Ends
<1>7. \A q \in DOMAIN f : f[q] \in 0 .. Horizon + 1
  BY <1>1, <1>3, <1>6
<1>8. r \in DOMAIN f /\ \A q \in DOMAIN f : f[q] <= f[r]
  <2>1. DOMAIN f # {} /\ Horizon + 1 \in Nat
    BY <1>1
  <2> QED
    BY <1>2, <1>7, <2>1, MaxElementOf
<1>9. f[r] # 0
  BY <1>1, <1>7, <1>8
<1>10. /\ \A i \in active : i.reg # r
       /\ f[r] = Min(Ends(r))
  BY <1>3, <1>8, <1>9
<1>11. f[r] \in Ends(r) /\ \A p \in Ends(r) : f[r] <= p
  BY <1>5, <1>10
<1>12. ASSUME f[r] # Infinity PROVE f[r] \in current.s /\ f[r] > Start(current)
  <2>1. PICK i \in Clashing : f[r] \in i.s \cap current.s
    BY <1>11, <1>12 DEF Ends
  <2>2. f[r] # Start(current)
    BY <2>1 DEF Clashing, Order, Covers
  <2> QED
    BY <1>1, <2>1, <2>2
<1>13. ASSUME NEW i \in inactive, i.reg = r, NEW q \in i.s \cap current.s
       PROVE  f[r] <= q
  <2>1. i \in Clashing
    BY <1>13 DEF Clashing
  <2>2. q \in Ends(r)
    BY <1>13, <2>1 DEF Ends
  <2> QED
    BY <1>11, <2>2
<1> QED
  BY <1>2, <1>7, <1>8, <1>10, <1>12, <1>13

\* The register whose content is used last: not before the current position, and
\* no later than what it holds is used.
LEMMA NextFacts ==
  ASSUME TypeOK, Order, current # NoInterval,
         NEW f, f = nextUsePos, NEW r, r = MaxElement(f)
  PROVE  /\ r \in DOMAIN f /\ DOMAIN f # {} /\ DOMAIN f \subseteq Nat /\ Reg \subseteq DOMAIN f
         /\ f[r] \in Nat /\ Start(current) <= f[r]
         /\ \A i \in active : i.reg = r /\ Start(current) \in i.uses => f[r] <= Start(current)
<1> DEFINE Ends(q) == {Infinity} \cup UNION {NextUses(i) : i \in {j \in Rivals : j.reg = q}}
<1>1. /\ current.s \in SUBSET Nat /\ Start(current) \in current.s
      /\ \A q \in current.s : Start(current) <= q /\ q < Horizon
      /\ Horizon \in Nat /\ Infinity = Horizon + 1
  BY CurrentFacts
<1>2. DOMAIN f = ranked \cup {i.reg : i \in Rivals} /\ DOMAIN f \subseteq Nat
  <2>1. \A i \in Rivals : i.reg \in Nat
    BY DEF TypeOK, Placed, Rivals
  <2> QED
    BY <2>1 DEF nextUsePos, TypeOK
<1>3. Reg \subseteq DOMAIN f /\ DOMAIN f # {} /\ \A q \in Reg : q \in ranked
  BY <1>2, InputAssumption DEF TypeOK
<1>4. \A q \in DOMAIN f : f[q] = IF q \notin ranked THEN 0 ELSE Min(Ends(q))
  BY <1>2 DEF nextUsePos
<1>5. \A i \in Rivals : \A p \in NextUses(i) : p \in Nat /\ p < Horizon /\ p >= Start(current)
  BY <1>1 DEF Rivals, NextUses, TypeOK, Pieces, Placed, Piece, Pos
<1>6. \A q : \A p \in Ends(q) : p \in 0 .. Horizon + 1 /\ p >= Start(current)
  BY <1>1, <1>5
<1>7. \A q : Min(Ends(q)) \in Ends(q) /\ \A p \in Ends(q) : Min(Ends(q)) <= p
  <2> TAKE q
  <2>1. Ends(q) # {}
    OBVIOUS
  <2>2. \A p \in Ends(q) : p \in Nat
    BY <1>1, <1>6
  <2> HIDE DEF Ends
  <2>3. Ends(q) \in SUBSET Nat
    BY <2>2
  <2> QED
    BY <2>1, <2>3, MinOf
<1> HIDE DEF Ends
<1>8. \A q \in DOMAIN f : f[q] \in 0 .. Horizon + 1
  BY <1>1, <1>4, <1>6, <1>7
<1>9. r \in DOMAIN f /\ \A q \in DOMAIN f : f[q] <= f[r]
  <2>1. Horizon + 1 \in Nat
    BY <1>1
  <2> QED
    BY <1>2, <1>3, <1>8, <2>1, MaxElementOf
<1>10. Start(current) <= f[r]
  <2>1. PICK q \in Reg : q \in DOMAIN f /\ f[q] >= Start(current)
    BY <1>3, <1>4, <1>6, <1>7, InputAssumption
  <2> QED
    BY <1>1, <1>8, <1>9, <2>1
<1>11. ASSUME NEW i \in active, i.reg = r, Start(current) \in i.uses
       PROVE  f[r] <= Start(current)
  <2>1. Start(current) \in NextUses(i) /\ i \in Rivals
    BY <1>1, <1>11 DEF NextUses, Rivals
  <2>2. Start(current) \in Ends(r)
    BY <1>11, <2>1 DEF Ends
  <2> QED
    BY <1>1, <1>4, <1>7, <1>9, <2>2
<1> QED
  BY <1>2, <1>3, <1>8, <1>9, <1>10, <1>11
-----------------------------------------------------------------------------
\* A cut elsewhere does not separate two neighbouring positions.
LEMMA CutElsewhere ==
  ASSUME NEW S, NEW p \in Int, NEW c \in Int, p - 1 \in S <=> p \in S, p \in S => c # p
  PROVE  /\ p - 1 \in {q \in S : q < c} <=> p \in {q \in S : q < c}
         /\ p - 1 \in {q \in S : q >= c} <=> p \in {q \in S : q >= c}
<1>1. p - 1 \in Int /\ (c # p => (p - 1 < c <=> p < c)) /\ (c # p => (p - 1 >= c <=> p >= c))
  OBVIOUS
<1> QED
  BY <1>1

\* What cutting keeps: when every piece becomes a lower and an upper part, no part
\* is dropped but of values in memory, and the cuts inside blocks are recorded.
LEMMA CutPieces ==
  ASSUME TypeOK, Kept, live' = live, spilled \subseteq spilled', splits \subseteq splits',
         NEW cut, NEW low, NEW high,
         \A i \in Pieces :
           /\ cut[i] \in Nat
           /\ low[i].val = i.val /\ low[i].s = {q \in i.s : q < cut[i]}
           /\ high[i].val = i.val /\ high[i].s = {q \in i.s : q >= cut[i]}
           /\ i.val \in spilled' \/ /\ low[i].s = {} \/ low[i] \in Pieces'
                                    /\ high[i].s = {} \/ high[i] \in Pieces'
           /\ \A p \in Pos \ BlockStart :
                cut[i] = p /\ {p - 1, p} \subseteq i.s => <<i.val, p>> \in splits',
         \A j \in Pieces' : j.s # {} /\ \E i \in Pieces : j \in {low[i], high[i]},
         \A e \in splits' \ splits : \E i \in Pieces : 
           /\ e[1] = i.val /\ e[2] \in i.s /\ e[2] \notin BlockStart
           /\ e[2] # Min(live[i.val].s)
  PROVE  Kept'
<1>1. \A i \in Pieces : i.s \in SUBSET Nat /\ i.val \in Val /\ i.s \subseteq live[i.val].s
  BY DEF TypeOK, Piece, Pos
<1>2. Disjoint'
  <2> SUFFICES ASSUME NEW j \in Pieces', NEW k \in Pieces', j # k, j.val = k.val,
                      NEW p \in j.s, p \in k.s
               PROVE  FALSE
    BY DEF Disjoint
  <2>1. PICK i \in Pieces : j \in {low[i], high[i]}
    OBVIOUS
  <2>2. PICK m \in Pieces : k \in {low[m], high[m]}
    OBVIOUS
  <2>3. p \in i.s /\ p \in m.s /\ i.val = m.val
    BY <2>1, <2>2
  <2>4. i = m
    BY <2>3 DEF Kept, Disjoint
  <2>5. p \in Nat /\ cut[i] \in Nat /\ ~ (p < cut[i] /\ p >= cut[i])
    BY <1>1, <2>3
  <2> QED
    BY <2>1, <2>2, <2>4, <2>5
<1>3. Covered'
  <2> SUFFICES ASSUME NEW v \in Val, NEW p \in live[v].s, v \notin spilled'
               PROVE  \E i \in Pieces' : i.val = v /\ p \in i.s
    BY DEF Covered
  <2>1. PICK i \in Pieces : i.val = v /\ p \in i.s
    BY DEF Kept, Covered
  <2>2. p \in low[i].s \/ p \in high[i].s
    BY <1>1, <2>1
  <2> QED
    BY <2>1, <2>2
<1>4. Recorded'
  <2> SUFFICES ASSUME NEW v \in Val, NEW p \in Pos \ BlockStart,
                      {p - 1, p} \subseteq live[v].s, <<v, p>> \notin splits',
                      NEW j \in Pieces', j.val = v
               PROVE  p - 1 \in j.s <=> p \in j.s
    BY DEF Recorded
  <2>1. PICK i \in Pieces : j \in {low[i], high[i]}
    OBVIOUS
  <2>2. i.val = v
    BY <2>1
  <2>3. p - 1 \in i.s <=> p \in i.s
    BY <2>2 DEF Kept, Recorded
  <2>4. p \in i.s => cut[i] # p
    BY <2>2, <2>3
  <2>5. p \in Int /\ cut[i] \in Int
    BY <2>1, InputAssumption DEF Pos
  <2>6. CASE j = low[i]
    <3>1. j.s = {q \in i.s : q < cut[i]}
      BY <2>1, <2>6
    <3> QED
      BY <2>3, <2>4, <2>5, <3>1, CutElsewhere
  <2>7. CASE j = high[i]
    <3>1. j.s = {q \in i.s : q >= cut[i]}
      BY <2>1, <2>7
    <3> QED
      BY <2>3, <2>4, <2>5, <3>1, CutElsewhere
  <2> QED
    BY <2>1, <2>6, <2>7
<1>5. SplitsInside'
  <2> SUFFICES ASSUME NEW e \in splits'
               PROVE  e[1] \in Val /\ {e[2] - 1, e[2]} \subseteq live[e[1]].s
    BY DEF SplitsInside
  <2>1. CASE e \in splits
    BY <2>1 DEF Kept, SplitsInside
  <2>2. CASE e \notin splits
    <3>1. PICK i \in Pieces : /\ e[1] = i.val /\ e[2] \in i.s /\ e[2] \notin BlockStart
                              /\ e[2] # Min(live[i.val].s)
      BY <2>2
    <3>2. e[2] \in live[i.val].s /\ live[i.val] \in Shape
      BY <1>1, <3>1 DEF TypeOK
    <3>3. e[2] - 1 \in live[i.val].s
      BY <3>1, <3>2, ShapeAssumption
    <3> QED
      BY <1>1, <3>1, <3>2, <3>3
  <2> QED
    BY <2>1, <2>2
<1> QED
  BY <1>2, <1>3, <1>4, <1>5 DEF Kept

\* Parts of pieces are pieces.
LEMMA CutTypes ==
  ASSUME TypeOK, live' = live,
         \A j \in Pieces' : /\ j.s # {} /\ j.reg \in Int
                            /\ \E i \in Pieces : \E s, u :
                                 /\ j = [val |-> i.val, s |-> s, uses |-> u, reg |-> j.reg]
                                 /\ s \subseteq i.s /\ u = i.uses \cap s
  PROVE  Pieces' \subseteq Piece /\ \A j \in Pieces' :
           j.s # {} /\ j.s \subseteq live'[j.val].s /\ j.uses = live'[j.val].uses \cap j.s
<1> SUFFICES ASSUME NEW j \in Pieces'
             PROVE  /\ j \in Piece /\ j.s # {} /\ j.s \subseteq live[j.val].s
                    /\ j.uses = live[j.val].uses \cap j.s
  OBVIOUS
<1>0. PICK i \in Pieces : \E s, u : /\ j = [val |-> i.val, s |-> s, uses |-> u, reg |-> j.reg]
                                    /\ s \subseteq i.s /\ u = i.uses \cap s
  OBVIOUS
<1>1. PICK s, u : /\ j = [val |-> i.val, s |-> s, uses |-> u, reg |-> j.reg]
                  /\ s \subseteq i.s /\ u = i.uses \cap s
  BY <1>0
<1>2. i \in Piece /\ i.s \subseteq live[i.val].s /\ i.uses = live[i.val].uses \cap i.s
  BY DEF TypeOK
<1>3. j.val = i.val /\ j.s = s /\ j.uses = u
  BY <1>1
<1> QED
  BY <1>1, <1>2, <1>3 DEF Piece
-----------------------------------------------------------------------------
\* What the two parts of an interval are.
LEMMA Parts ==
  ASSUME NEW i \in Piece, NEW p \in Nat
  PROVE  /\ \A r : LET l == [Low(i, p) EXCEPT !.reg = r]
                   IN  /\ l.val = i.val /\ l.s = {q \in i.s : q < p} /\ l.reg = r
                       /\ l.uses = {q \in i.uses : q < p}
                       /\ l = [val |-> l.val, s |-> l.s, uses |-> l.uses, reg |-> l.reg]
         /\ LET l == Low(i, p)
            IN  /\ l.val = i.val /\ l.s = {q \in i.s : q < p} /\ l.reg = i.reg
                /\ l.uses = {q \in i.uses : q < p}
                /\ l = [val |-> l.val, s |-> l.s, uses |-> l.uses, reg |-> l.reg]
         /\ LET h == High(i, p)
            IN  /\ h.val = i.val /\ h.s = {q \in i.s : q >= p} /\ h.reg = NoReg
                /\ h.uses = {q \in i.uses : q >= p}
                /\ h = [val |-> h.val, s |-> h.s, uses |-> h.uses, reg |-> h.reg]
<1>1. i = [val |-> i.val, s |-> i.s, uses |-> i.uses, reg |-> i.reg]
  BY DEF Piece
<1> DEFINE S(q) == {x \in i.s : x < q}    U(q) == {x \in i.uses : x < q}
           T(q) == {x \in i.s : x >= q}   W(q) == {x \in i.uses : x >= q}
<1>2. /\ Low(i, p) = [i EXCEPT !.s = S(p), !.uses = U(p)]
      /\ High(i, p) = [i EXCEPT !.s = T(p), !.uses = W(p), !.reg = NoReg]
  BY Zenon DEF Low, High
<1> HIDE DEF S, U, T, W
<1>3. /\ Low(i, p) = [val |-> i.val, s |-> S(p), uses |-> U(p), reg |-> i.reg]
      /\ High(i, p) = [val |-> i.val, s |-> T(p), uses |-> W(p), reg |-> NoReg]
  BY <1>1, <1>2
<1>4. \A r : [Low(i, p) EXCEPT !.reg = r]
               = [val |-> i.val, s |-> S(p), uses |-> U(p), reg |-> r]
  BY <1>3
<1> QED
  BY <1>3, <1>4 DEF S, U, T, W

\* When the interval is placed the queue holds what it held before and what was cut.
LEMMA QueuedAfter ==
  ASSUME TypeOK, current' = NoInterval
  PROVE  Queued' = unhandled' /\ Placed \cup unhandled \cup {current} = Pieces \cup {current}
BY NoIntervalIsNone DEF Queued, Pieces

\* Where the scan stands after the interval is placed.
LEMMA OrderAfter ==
  ASSUME TypeOK, Order, current # NoInterval, current' = NoInterval,
         \A j \in unhandled' : \A q \in j.s : Start(current) <= q,
         \A j \in (active \cup inactive)' : \E q \in j.s : q <= Start(current),
         \A h \in handled' : \A q \in h.s : q < Start(current)
  PROVE  Order'
<1>1. PICK here \in 0 .. Horizon : here = Start(current)
  BY CurrentFacts
<1>2. Behind(here)'
  BY <1>1 DEF Behind
<1> QED
  BY <1>2 DEF Order

\* The interval gets a free register, and its rest is queued.
LEMMA FitIInv ==
  ASSUME IInv, current # NoInterval, current' = NoInterval, UNCHANGED <<live, handled>>,
         known' = DOMAIN freeUntilPosition, Fit(freeUntilPosition)
  PROVE  IInv'
<1> DEFINE f == freeUntilPosition
           r == MaxElement(f)
           all == End(current) < f[r]
           pos == IF all THEN Infinity ELSE f[r]
           first == [Low(current, pos) EXCEPT !.reg = r]
           rest == High(current, pos)
<1>1. /\ TypeOK /\ Order /\ OneEach /\ Kept /\ ~ stray
  BY CurrentFacts DEF IInv, NoInterval
<1>2. /\ \E q \in DOMAIN f : f[q] # 0
      /\ active' = active \cup {first}
      /\ unhandled' = unhandled \cup (IF all THEN {} ELSE {rest})
      /\ splits' = splits \cup {e \in IF all THEN {} ELSE {<<current.val, pos>>} : e[2] \notin BlockStart}
      /\ UNCHANGED <<inactive, ranked, spilled, stray, live, handled>>
  BY DEF Fit, PushSplits
<1>3. /\ r \in Nat /\ f[r] \in Nat /\ \A i \in active : i.reg # r
      /\ f[r] = Infinity \/ (f[r] \in current.s /\ f[r] > Start(current))
      /\ \A i \in inactive : i.reg = r => \A q \in i.s \cap current.s : f[r] <= q
  <2> HIDE DEF f
  <2> QED
    BY <1>1, <1>2, FreeFacts DEF f
<1>4. /\ current \in Pieces /\ current \in Piece /\ current.s # {} /\ current.reg = NoReg
      /\ current.s \in SUBSET Nat /\ Start(current) \in current.s
      /\ \A q \in current.s : Start(current) <= q /\ q < Horizon
      /\ Horizon \in Nat /\ Infinity = Horizon + 1
      /\ End(current) \in Nat /\ End(current) <= Horizon
      /\ \A q \in current.s : q < End(current)
      /\ Start(current) \in Nat
  BY <1>1, CurrentFacts
<1> HIDE DEF f, r
<1>5. /\ pos \in Nat /\ Start(current) < pos
      /\ all <=> (pos = Infinity)
      /\ ~ all => pos \in current.s
      /\ \A q \in current.s : all => q < pos
      /\ \A i \in inactive : i.reg = r => \A q \in i.s \cap current.s : pos <= q
  BY <1>3, <1>4
<1> HIDE DEF all, pos
<1>6. /\ first.val = current.val /\ first.s = {q \in current.s : q < pos} /\ first.reg = r
      /\ first.uses = {q \in current.uses : q < pos}
      /\ first = [val |-> first.val, s |-> first.s, uses |-> first.uses, reg |-> first.reg]
      /\ rest.val = current.val /\ rest.s = {q \in current.s : q >= pos} /\ rest.reg = NoReg
      /\ rest.uses = {q \in current.uses : q >= pos}
      /\ rest = [val |-> rest.val, s |-> rest.s, uses |-> rest.uses, reg |-> rest.reg]
  <2> HIDE DEF pos
  <2> QED
    BY <1>4, <1>5, Parts
<1>7. /\ Start(current) \in first.s
      /\ ~ all => pos \in rest.s
      /\ all => rest.s = {}
  <2>1. Start(current) < pos /\ (~ all => pos \in current.s /\ pos >= pos)
    BY <1>5
  <2>2. ASSUME all, NEW q \in rest.s PROVE FALSE
    BY <1>4, <1>5, <1>6, <2>2
  <2> QED
    BY <1>4, <1>6, <2>1, <2>2
<1>8. /\ Placed' = Placed \cup {first} /\ Queued' = unhandled'
      /\ Pieces = Placed \cup unhandled \cup {current}
      /\ Pieces' = Placed \cup unhandled \cup {first} \cup (IF all THEN {} ELSE {rest})
      /\ current \notin Placed \cup unhandled
  <2>1. Queued' = unhandled'
    BY DEF Queued
  <2>2. current \notin Placed
    BY <1>1, <1>4 DEF TypeOK, NoReg
  <2>3. current \notin unhandled
    BY <1>1 DEF Order
  <2>4. NoInterval \notin unhandled
    BY <1>1, NoIntervalIsNone DEF Pieces, Queued
  <2> QED
    BY <1>2, <2>1, <2>2, <2>3, <2>4 DEF Placed, Pieces, Queued
<1>9. Kept'
  <2> DEFINE cut == [i \in Pieces |-> IF i = current THEN pos ELSE Infinity]
             low == [i \in Pieces |-> IF i = current THEN first ELSE i]
             high == [i \in Pieces |-> IF i = current THEN rest ELSE [i EXCEPT !.s = {}]]
  <2>1. \A i \in Pieces :
           /\ cut[i] \in Nat
           /\ low[i].val = i.val /\ low[i].s = {q \in i.s : q < cut[i]}
           /\ high[i].val = i.val /\ high[i].s = {q \in i.s : q >= cut[i]}
           /\ i.val \in spilled' \/ /\ low[i].s = {} \/ low[i] \in Pieces'
                                    /\ high[i].s = {} \/ high[i] \in Pieces'
           /\ \A p \in Pos \ BlockStart :
                cut[i] = p /\ {p - 1, p} \subseteq i.s => <<i.val, p>> \in splits'
    <3> TAKE i \in Pieces
    <3>1. CASE i = current
      BY <1>2, <1>4, <1>5, <1>6, <1>7, <1>8, <3>1 DEF Pos
    <3>2. CASE i # current
      <4>1. i \in Piece
        BY <1>1 DEF TypeOK
      <4>2. \A q \in i.s : q < Infinity /\ ~ (q >= Infinity)
        BY <1>4, <4>1 DEF Piece, Pos
      <4> QED
        BY <1>4, <1>8, <3>2, <4>1, <4>2 DEF Piece, Pos
    <3> QED
      BY <3>1, <3>2
  <2>2. \A j \in Pieces' : j.s # {} /\ \E i \in Pieces : j \in {low[i], high[i]}
    <3>1. \A j \in Placed \cup unhandled : j \in Pieces /\ j.s # {} /\ low[j] = j
      BY <1>1, <1>8 DEF TypeOK
    <3>2. first.s # {} /\ first = low[current]
      BY <1>4, <1>6, <1>7
    <3>3. ~ all => rest.s # {} /\ rest = high[current]
      BY <1>4, <1>6, <1>7
    <3> HIDE DEF low, high
    <3> QED
      BY <1>4, <1>8, <3>1, <3>2, <3>3
  <2>3. \A e \in splits' \ splits : \E i \in Pieces : 
           /\ e[1] = i.val /\ e[2] \in i.s /\ e[2] \notin BlockStart
           /\ e[2] # Min(live[i.val].s)
    <3> SUFFICES ASSUME ~ all PROVE pos # Min(live[current.val].s)
      BY <1>2, <1>4, <1>5
    <3>1. live[current.val].s \in SUBSET Nat /\ current.s \subseteq live[current.val].s
      BY <1>1, <1>4, Shapes DEF TypeOK, Piece
    <3>2. Min(live[current.val].s) <= Start(current)
      BY <1>4, <3>1, MinOf
    <3> QED
      BY <1>4, <1>5, <3>1, <3>2
  <2>4. live' = live /\ spilled \subseteq spilled' /\ splits \subseteq splits'
    BY <1>2
  <2> HIDE DEF cut, low, high
  <2> QED
    BY <1>1, <2>1, <2>2, <2>3, <2>4, CutPieces
<1>10. TypeOK'
  <2>1. \A j \in Pieces' : /\ j.s # {} /\ j.reg \in Int
                            /\ \E i \in Pieces : \E s, u :
                                 /\ j = [val |-> i.val, s |-> s, uses |-> u, reg |-> j.reg]
                                 /\ s \subseteq i.s /\ u = i.uses \cap s
    <3> TAKE j \in Pieces'
    <3>1. CASE j \in Placed \cup unhandled
      <4>1. j \in Piece /\ j.s # {} /\ j.uses \subseteq j.s /\ j \in Pieces
        BY <1>1, <1>8, <3>1 DEF TypeOK
      <4>2. j = [val |-> j.val, s |-> j.s, uses |-> j.uses, reg |-> j.reg] /\ j.reg \in Int
        BY <4>1 DEF Piece
      <4> QED
        BY <4>1, <4>2
    <3>2. CASE j = first
      <4>1. {q \in current.uses : q < pos} = current.uses \cap first.s
        BY <1>1, <1>6, CurrentFacts
      <4>2. /\ j = [val |-> current.val, s |-> first.s, uses |-> current.uses \cap first.s,
                    reg |-> j.reg]
            /\ j.s # {} /\ j.reg = r /\ first.s \subseteq current.s
        BY <1>6, <1>7, <3>2, <4>1
      <4> QED
        BY <1>3, <1>4, <4>2
    <3>3. CASE j = rest /\ ~ all
      <4>1. {q \in current.uses : q >= pos} = current.uses \cap rest.s
        BY <1>1, <1>6, CurrentFacts
      <4> QED
        BY <1>4, <1>6, <1>7, <3>3, <4>1 DEF NoReg
    <3> QED
      BY <1>8, <3>1, <3>2, <3>3
  <2>2. Pieces' \subseteq Piece /\ \A j \in Pieces' :
           j.s # {} /\ j.s \subseteq live'[j.val].s /\ j.uses = live'[j.val].uses \cap j.s
    BY <1>1, <1>2, <2>1, CutTypes
  <2>3. \A j \in Queued' : j.reg = NoReg
    BY <1>1, <1>2, <1>6, <1>8 DEF TypeOK, Queued
  <2>4. known' \subseteq Nat
    BY <1>1 DEF freeUntilPosition, TypeOK, Placed, Clashing
  <2> QED
    BY <1>1, <1>2, <1>3, <1>6, <1>8, <2>2, <2>3, <2>4 DEF TypeOK
<1>11. Order'
  <2>1. Behind(Start(current))
    BY <1>1 DEF Order
  <2>2. \A j \in unhandled' : \A q \in j.s : Start(current) <= q
    <3>1. ASSUME ~ all, NEW q \in rest.s PROVE Start(current) <= q
      BY <1>4, <1>6, <3>1
    <3> QED
      BY <1>2, <2>1, <3>1 DEF Behind
  <2>3. \A j \in (active \cup inactive)' : \E q \in j.s : q <= Start(current)
    <3>1. Start(current) \in first.s /\ Start(current) <= Start(current)
      BY <1>4, <1>7
    <3> QED
      BY <1>2, <2>1, <3>1 DEF Behind
  <2>4. \A h \in handled' : \A q \in h.s : q < Start(current)
    BY <1>2, <2>1 DEF Behind
  <2> QED
    BY <1>1, <2>2, <2>3, <2>4, OrderAfter
<1>12. OneEach'
  <2> SUFFICES ASSUME NEW j \in Placed, j.reg = r, NEW q \in j.s, q \in first.s PROVE FALSE
    BY <1>1, <1>6, <1>8 DEF OneEach
  <2>1. q \in current.s /\ q < pos /\ q \in Nat /\ Start(current) <= q
    BY <1>4, <1>6
  <2>2. j \notin active
    BY <1>3
  <2>3. j \notin inactive
    BY <1>5, <2>1
  <2>4. j \notin handled
    BY <1>1, <1>4, <2>1 DEF Order, Behind
  <2> QED
    BY <2>2, <2>3, <2>4 DEF Placed
<1> QED
  BY <1>1, <1>2, <1>9, <1>10, <1>11, <1>12 DEF IInv

\* The interval goes to memory, and what follows the first use that needs a register
\* is queued again.
LEMMA SpillIInv ==
  ASSUME IInv, current # NoInterval, current' = NoInterval, UNCHANGED <<live, handled>>,
         known' = DOMAIN freeUntilPosition, ranked' = DOMAIN nextUsePos,
         SpillUnused \/ SpillCurrent(nextUsePos[MaxElement(nextUsePos)])
  PROVE  IInv'
<1> DEFINE f == nextUsePos
           next == f[MaxElement(f)]
<1>1. /\ TypeOK /\ Order /\ OneEach /\ Kept /\ ~ stray
  BY CurrentFacts DEF IInv, NoInterval
<1>2. /\ DOMAIN f \subseteq Nat /\ Reg \subseteq DOMAIN f
      /\ next \in Nat /\ Start(current) <= next
  <2> HIDE DEF f
  <2> QED
    BY <1>1, NextFacts DEF f
<1>3. /\ current \in Pieces /\ current \in Piece /\ current.s # {} /\ current.reg = NoReg
      /\ current.uses \subseteq current.s
      /\ current.s \in SUBSET Nat /\ Start(current) \in current.s
      /\ \A q \in current.s : Start(current) <= q /\ q < Horizon
      /\ Horizon \in Nat /\ Infinity = Horizon + 1
      /\ Start(current) \in Nat
  BY <1>1, CurrentFacts
<1>4. \E p \in Nat :
        /\ Start(current) < p
        /\ p # Infinity => p \in current.s
        /\ spilled' = spilled \cup {current.val}
        /\ unhandled' = unhandled \cup (IF p = Infinity THEN {} ELSE {High(current, p)})
        /\ splits' = splits \cup {e \in IF p = Infinity THEN {} ELSE {<<current.val, p>>} :
                                    e[2] \notin BlockStart}
        /\ UNCHANGED <<active, inactive, stray>>
  <2>1. CASE SpillUnused
    <3>1. Infinity \in Nat /\ Start(current) < Infinity
      BY <1>3
    <3> QED
      BY <2>1, <3>1 DEF SpillUnused
  <2>2. CASE SpillCurrent(next)
    <3> DEFINE first == Min(current.uses)
               later == (current.uses \ {first}) \cup {Infinity}
               pos == Resume(first, next)
    <3>1. current.uses # {} /\ first >= next /\ current.uses \in SUBSET Nat
      BY <1>3, <2>2 DEF SpillCurrent
    <3>2. first \in current.uses /\ \A q \in current.uses : first <= q
      BY <3>1, MinOf
    <3>3. Min(later) \in later
      <4>1. later \in SUBSET Nat /\ later # {}
        BY <1>3, <3>1
      <4> HIDE DEF later
      <4> QED
        BY <4>1, MinOf
    <3>4. /\ pos \in Nat /\ Start(current) < pos
          /\ pos # Infinity => pos \in current.s
      <4> HIDE DEF f
      <4>1. CASE first = next /\ first = Start(current)
        BY <1>3, <3>1, <3>2, <3>3, <4>1 DEF Resume
      <4>2. CASE ~ (first = next /\ first = Start(current))
        BY <1>2, <1>3, <3>1, <3>2, <4>2 DEF Resume
      <4> QED
        BY <4>1, <4>2
    <3> HIDE DEF f, first
    <3>5. /\ spilled' = spilled \cup {current.val}
          /\ unhandled' = unhandled \cup (IF pos = Infinity THEN {} ELSE {High(current, pos)})
          /\ splits' = splits \cup
               {e \in {<<i.val, pos>> : i \in IF pos = Infinity THEN {} ELSE {High(current, pos)}} :
                  e[2] \notin BlockStart}
          /\ UNCHANGED <<active, inactive, stray>>
      BY <2>2 DEF SpillCurrent, PushSplits, first
    <3> HIDE DEF pos
    <3>6. High(current, pos).val = current.val
      BY <1>3, <3>4, Parts
    <3>7. {<<i.val, pos>> : i \in IF pos = Infinity THEN {} ELSE {High(current, pos)}}
            = IF pos = Infinity THEN {} ELSE {<<current.val, pos>>}
      BY <3>6
    <3> QED
      BY <3>4, <3>5, <3>7
  <2> QED
    BY <2>1, <2>2
<1> HIDE DEF f
<1>5. PICK pos \in Nat :
        /\ Start(current) < pos
        /\ pos # Infinity => pos \in current.s
        /\ spilled' = spilled \cup {current.val}
        /\ unhandled' = unhandled \cup (IF pos = Infinity THEN {} ELSE {High(current, pos)})
        /\ splits' = splits \cup {e \in IF pos = Infinity THEN {} ELSE {<<current.val, pos>>} :
                                    e[2] \notin BlockStart}
        /\ UNCHANGED <<active, inactive, stray>>
  BY <1>4
<1> DEFINE rest == High(current, pos)
<1>6. /\ rest.val = current.val /\ rest.s = {q \in current.s : q >= pos} /\ rest.reg = NoReg
      /\ rest.uses = current.uses \cap rest.s
      /\ rest = [val |-> rest.val, s |-> rest.s, uses |-> rest.uses, reg |-> rest.reg]
  <2>1. {q \in current.uses : q >= pos} = current.uses \cap {q \in current.s : q >= pos}
    BY <1>3
  <2> QED
    BY <1>3, <2>1, Parts
<1> HIDE DEF rest
<1>7. /\ pos # Infinity => pos \in rest.s
      /\ \A q \in rest.s : Start(current) <= q
  BY <1>3, <1>5, <1>6
<1>8. /\ Placed' = Placed /\ Queued' = unhandled'
      /\ Pieces = Placed \cup unhandled \cup {current}
      /\ Pieces' = Placed \cup unhandled \cup (IF pos = Infinity THEN {} ELSE {rest})
      /\ current \notin Placed \cup unhandled
  <2>1. Queued' = unhandled'
    BY DEF Queued
  <2>2. current \notin Placed
    BY <1>1, <1>3 DEF TypeOK, NoReg
  <2>3. current \notin unhandled
    BY <1>1 DEF Order
  <2>4. NoInterval \notin unhandled
    BY <1>1, NoIntervalIsNone DEF Pieces, Queued
  <2> QED
    BY <1>5, <2>1, <2>2, <2>3, <2>4 DEF Placed, Pieces, Queued, rest
<1>9. Kept'
  <2> DEFINE cut == [i \in Pieces |-> IF i = current THEN pos ELSE Infinity]
             low == [i \in Pieces |-> IF i = current THEN Low(i, pos) ELSE i]
             high == [i \in Pieces |-> IF i = current THEN rest ELSE [i EXCEPT !.s = {}]]
  <2>1. \A i \in Pieces :
           /\ cut[i] \in Nat
           /\ low[i].val = i.val /\ low[i].s = {q \in i.s : q < cut[i]}
           /\ high[i].val = i.val /\ high[i].s = {q \in i.s : q >= cut[i]}
           /\ i.val \in spilled' \/ /\ low[i].s = {} \/ low[i] \in Pieces'
                                    /\ high[i].s = {} \/ high[i] \in Pieces'
           /\ \A p \in Pos \ BlockStart :
                cut[i] = p /\ {p - 1, p} \subseteq i.s => <<i.val, p>> \in splits'
    <3> TAKE i \in Pieces
    <3>1. CASE i = current
      <4>1. Low(current, pos).val = current.val /\ Low(current, pos).s = {q \in current.s : q < pos}
        BY <1>3, Parts
      <4> QED
        BY <1>3, <1>5, <1>6, <3>1, <4>1 DEF Pos
    <3>2. CASE i # current
      <4>1. i \in Piece
        BY <1>1 DEF TypeOK
      <4>2. \A q \in i.s : q < Infinity /\ ~ (q >= Infinity)
        BY <1>3, <4>1 DEF Piece, Pos
      <4> QED
        BY <1>3, <1>8, <3>2, <4>1, <4>2 DEF Piece, Pos
    <3> QED
      BY <3>1, <3>2
  <2>2. \A j \in Pieces' : j.s # {} /\ \E i \in Pieces : j \in {low[i], high[i]}
    <3>1. \A j \in Placed \cup unhandled : j \in Pieces /\ j.s # {} /\ low[j] = j
      BY <1>1, <1>8 DEF TypeOK
    <3>2. pos # Infinity => rest.s # {} /\ rest = high[current]
      BY <1>3, <1>7
    <3> HIDE DEF low, high
    <3> QED
      BY <1>3, <1>8, <3>1, <3>2
  <2>3. \A e \in splits' \ splits : \E i \in Pieces : 
           /\ e[1] = i.val /\ e[2] \in i.s /\ e[2] \notin BlockStart
           /\ e[2] # Min(live[i.val].s)
    <3> SUFFICES ASSUME pos # Infinity PROVE pos # Min(live[current.val].s)
      BY <1>3, <1>5
    <3>1. live[current.val].s \in SUBSET Nat /\ current.s \subseteq live[current.val].s
      BY <1>1, <1>3, Shapes DEF TypeOK, Piece
    <3>2. Min(live[current.val].s) <= Start(current)
      BY <1>3, <3>1, MinOf
    <3> QED
      BY <1>3, <1>5, <3>1, <3>2
  <2>4. live' = live /\ spilled \subseteq spilled' /\ splits \subseteq splits'
    BY <1>5
  <2> HIDE DEF cut, low, high
  <2> QED
    BY <1>1, <2>1, <2>2, <2>3, <2>4, CutPieces
<1>10. TypeOK'
  <2>1. \A j \in Pieces' : /\ j.s # {} /\ j.reg \in Int
                            /\ \E i \in Pieces : \E s, u :
                                 /\ j = [val |-> i.val, s |-> s, uses |-> u, reg |-> j.reg]
                                 /\ s \subseteq i.s /\ u = i.uses \cap s
    <3> TAKE j \in Pieces'
    <3>1. CASE j \in Placed \cup unhandled
      <4>1. j \in Piece /\ j.s # {} /\ j.uses \subseteq j.s /\ j \in Pieces
        BY <1>1, <1>8, <3>1 DEF TypeOK
      <4>2. j = [val |-> j.val, s |-> j.s, uses |-> j.uses, reg |-> j.reg] /\ j.reg \in Int
        BY <4>1 DEF Piece
      <4> QED
        BY <4>1, <4>2
    <3>2. CASE j = rest /\ pos # Infinity
      <4>1. /\ j = [val |-> current.val, s |-> rest.s, uses |-> current.uses \cap rest.s,
                    reg |-> j.reg]
            /\ j.s # {} /\ j.reg \in Int /\ rest.s \subseteq current.s
        BY <1>6, <1>7, <3>2 DEF NoReg
      <4> QED
        BY <1>3, <4>1
    <3> QED
      BY <1>8, <3>1, <3>2
  <2>2. Pieces' \subseteq Piece /\ \A j \in Pieces' :
           j.s # {} /\ j.s \subseteq live'[j.val].s /\ j.uses = live'[j.val].uses \cap j.s
    BY <1>1, <2>1, CutTypes
  <2>3. \A j \in Queued' : j.reg = NoReg
    BY <1>1, <1>5, <1>6, <1>8 DEF TypeOK, Queued, rest
  <2>4. known' \subseteq Nat
    BY <1>1 DEF freeUntilPosition, TypeOK, Placed, Clashing
  <2>5. spilled' \subseteq Val
    BY <1>1, <1>3, <1>5 DEF TypeOK, Piece
  <2> QED
    BY <1>1, <1>2, <1>8, <2>2, <2>3, <2>4, <2>5 DEF TypeOK, f
<1>11. Order'
  <2>1. Behind(Start(current))
    BY <1>1 DEF Order
  <2>2. /\ \A j \in unhandled' : \A q \in j.s : Start(current) <= q
        /\ \A j \in (active \cup inactive)' : \E q \in j.s : q <= Start(current)
        /\ \A h \in handled' : \A q \in h.s : q < Start(current)
    BY <1>5, <1>7, <2>1 DEF Behind, rest
  <2> QED
    BY <1>1, <2>2, OrderAfter
<1>12. OneEach'
  BY <1>1, <1>8 DEF OneEach
<1> QED
  BY <1>1, <1>5, <1>9, <1>10, <1>11, <1>12 DEF IInv

\* The interval takes a register from what it holds; every interval there is cut
\* before the current position or in its hole.
LEMMA TakeRegisterIInv ==
  ASSUME IInv, current # NoInterval, current' = NoInterval, UNCHANGED <<live, handled, spilled>>,
         known' = DOMAIN freeUntilPosition, ranked' = DOMAIN nextUsePos,
         TakeRegister(MaxElement(nextUsePos), nextUsePos[MaxElement(nextUsePos)]), ~ stray'
  PROVE  IInv'
<1> DEFINE f == nextUsePos
           r == MaxElement(f)
           position == Start(current)
           held == {i \in active : i.reg = r}
           hole == {i \in inactive : i.reg = r}
           after(i) == {p \in i.s : p > position}
           cut == [i \in Pieces |-> IF i \in held THEN position
                                    ELSE IF i \in hole THEN Min(after(i)) ELSE Infinity]
           low == [i \in Pieces |-> IF i = current THEN [current EXCEPT !.reg = r]
                                    ELSE IF i \in held \cup hole THEN Low(i, cut[i]) ELSE i]
           high == [i \in Pieces |-> IF i \in held \cup hole THEN High(i, cut[i])
                                     ELSE [i EXCEPT !.s = {}]]
<1>1. TypeOK /\ Order /\ OneEach /\ Kept /\ ~ stray
  BY CurrentFacts DEF IInv, NoInterval
<1>2. /\ current \in Pieces /\ current \in Piece /\ current.s # {} /\ current.reg = NoReg
      /\ current.uses \subseteq current.s
      /\ current.s \in SUBSET Nat /\ Start(current) \in current.s
      /\ \A q \in current.s : Start(current) <= q /\ q < Horizon
      /\ Horizon \in Nat /\ Infinity = Horizon + 1
      /\ Start(current) \in Nat
  BY <1>1, CurrentFacts
<1>3. /\ DOMAIN f \subseteq Nat /\ Reg \subseteq DOMAIN f
      /\ r \in Nat /\ f[r] \in Nat
      /\ \A i \in active : i.reg = r /\ position \in i.uses => f[r] <= position
  <2> HIDE DEF f
  <2> QED
    BY <1>1, NextFacts DEF f
<1> HIDE DEF f, r, position
<1>4. /\ Min(current.uses) < f[r] /\ current.uses # {}
      /\ \A i \in hole : after(i) # {}
      /\ active' = (active \ held) \cup {h \in {Low(i, position) : i \in held} : h.s # {}}
                     \cup {[current EXCEPT !.reg = r]}
      /\ inactive' = (inactive \ hole) \cup {Low(i, Min(after(i))) : i \in hole}
      /\ unhandled' = unhandled \cup {High(i, position) : i \in held}
                        \cup {High(i, Min(after(i))) : i \in hole}
      /\ splits' = splits \cup {e \in {<<i.val, position>> : i \in held}
                                       \cup {<<i.val, Min(after(i))>> : i \in hole} :
                                  e[2] \notin BlockStart}
  <2> DEFINE rest == [i \in hole |-> after(i)]
             ends == {i \in hole : rest[i] # {}}
             at == [i \in ends |-> Min(rest[i])]
  <2>1. /\ Min(current.uses) < f[r] /\ current.uses # {} /\ ends = hole
        /\ active' = (active \ held) \cup {h \in {Low(i, position) : i \in held} : h.s # {}}
                       \cup {[current EXCEPT !.reg = r]}
        /\ inactive' = (inactive \ ends) \cup {Low(i, at[i]) : i \in ends}
        /\ unhandled' = unhandled \cup {High(i, position) : i \in held}
                          \cup {High(i, at[i]) : i \in ends}
        /\ splits' = splits \cup {e \in {<<i.val, position>> : i \in held}
                                         \cup {<<i.val, at[i]>> : i \in ends} :
                                    e[2] \notin BlockStart}
    BY DEF TakeRegister, PushSplits, f, r, position
  <2>2. \A i \in hole : rest[i] = after(i) /\ rest[i] # {} /\ at[i] = Min(after(i))
    BY <2>1
  <2> HIDE DEF rest, ends, at, hole, held
  <2>3. /\ {Low(i, at[i]) : i \in ends} = {Low(i, Min(after(i))) : i \in hole}
        /\ {High(i, at[i]) : i \in ends} = {High(i, Min(after(i))) : i \in hole}
        /\ {<<i.val, at[i]>> : i \in ends} = {<<i.val, Min(after(i))>> : i \in hole}
    BY <2>1, <2>2
  <2> QED
    BY <2>1, <2>2, <2>3
<1>5. \A i \in Pieces : i \in Piece /\ i.s \in SUBSET Nat /\ i.s # {} /\ i.uses \subseteq i.s
                        /\ \A q \in i.s : q < Infinity
  BY <1>1, <1>2 DEF TypeOK, Piece, Pos
<1>6. held \subseteq Pieces /\ hole \subseteq Pieces /\ hole \cap held = {}
      /\ current \notin held \cup hole
  BY <1>1, <1>2, <1>3 DEF Order, Pieces, Placed, NoReg
<1>7. \A i \in hole : /\ Min(after(i)) \in i.s /\ Min(after(i)) > position
                      /\ \A q \in i.s : q < Min(after(i)) => q < position
                      /\ \E q \in i.s : q < position
  <2> TAKE i \in hole
  <2>1. after(i) \in SUBSET Nat /\ after(i) # {}
    BY <1>4, <1>5, <1>6
  <2>2. Min(after(i)) \in after(i) /\ \A y \in after(i) : Min(after(i)) <= y
    <3> DEFINE later == after(i)
    <3>1. later \in SUBSET Nat /\ later # {}
      BY <2>1
    <3> HIDE DEF later
    <3> QED
      BY <3>1, MinOf DEF later
  <2>3. position \notin i.s /\ \E q \in i.s : q <= position
    BY <1>1 DEF Order, Behind, Covers, position
  <2>4. i.s \in SUBSET Nat /\ position \in Nat
    BY <1>2, <1>5, <1>6 DEF position
  <2> QED
    BY <2>2, <2>3, <2>4
<1>8. \A i \in Pieces : /\ cut[i] \in Nat
                        /\ cut[i] = Infinity \/ (i \in held \cup hole /\ cut[i] \in i.s)
  <2> TAKE i \in Pieces
  <2>1. CASE i \in held
    BY <1>1, <1>2, <2>1 DEF Order, Covers, position
  <2>2. CASE i \in hole
    BY <1>5, <1>6, <1>7, <2>2
  <2>3. CASE i \notin held \cup hole
    BY <1>2, <2>3
  <2> QED
    BY <2>1, <2>2, <2>3
<1>9. \A i \in Pieces :
        /\ low[i].val = i.val /\ low[i].s = {q \in i.s : q < cut[i]}
        /\ low[i].reg = IF i = current THEN r ELSE i.reg
        /\ low[i].uses = i.uses \cap low[i].s
        /\ low[i] = [val |-> low[i].val, s |-> low[i].s, uses |-> low[i].uses, reg |-> low[i].reg]
        /\ high[i].val = i.val /\ high[i].s = {q \in i.s : q >= cut[i]}
        /\ i \in held \cup hole =>
             /\ high[i].reg = NoReg
             /\ high[i].uses = i.uses \cap high[i].s
             /\ high[i] = [val |-> high[i].val, s |-> high[i].s, uses |-> high[i].uses,
                           reg |-> high[i].reg]
  <2> TAKE i \in Pieces
  <2>1. CASE i \in held \cup hole
    <3>1. i # current /\ low[i] = Low(i, cut[i]) /\ high[i] = High(i, cut[i])
      BY <1>6, <2>1
    <3> HIDE DEF cut, low, high, held, hole
    <3>2. PICK p \in Nat : p = cut[i]
      BY <1>8
    <3>3. i \in Piece /\ i.uses \subseteq i.s
      BY <1>5
    <3>4. /\ {q \in i.uses : q < p} = i.uses \cap {q \in i.s : q < p}
          /\ {q \in i.uses : q >= p} = i.uses \cap {q \in i.s : q >= p}
      BY <3>3
    <3>5. /\ low[i].val = i.val /\ low[i].s = {q \in i.s : q < p} /\ low[i].reg = i.reg
          /\ low[i].uses = {q \in i.uses : q < p}
          /\ low[i] = [val |-> low[i].val, s |-> low[i].s, uses |-> low[i].uses, reg |-> low[i].reg]
      BY <3>1, <3>2, <3>3, Parts
    <3>6. /\ high[i].val = i.val /\ high[i].s = {q \in i.s : q >= p} /\ high[i].reg = NoReg
          /\ high[i].uses = {q \in i.uses : q >= p}
          /\ high[i] = [val |-> high[i].val, s |-> high[i].s, uses |-> high[i].uses,
                        reg |-> high[i].reg]
      BY <3>1, <3>2, <3>3, Parts
    <3> QED
      BY <3>1, <3>2, <3>4, <3>5, <3>6
  <2>2. CASE i = current
    <3>1. /\ low[i] = [current EXCEPT !.reg = r] /\ high[i] = [current EXCEPT !.s = {}]
          /\ cut[i] = Infinity /\ i \notin held \cup hole
      BY <1>6, <2>2
    <3> HIDE DEF cut, low, high, held, hole
    <3>2. /\ low[i].val = i.val /\ low[i].s = i.s /\ low[i].reg = r
          /\ low[i].uses = i.uses
          /\ low[i] = [val |-> low[i].val, s |-> low[i].s, uses |-> low[i].uses, reg |-> low[i].reg]
          /\ high[i].val = i.val /\ high[i].s = {}
      BY <1>2, <2>2, <3>1 DEF Piece
    <3>3. i.s = {q \in i.s : q < cut[i]} /\ {} = {q \in i.s : q >= cut[i]}
      BY <1>2, <1>5, <3>1
    <3> QED
      BY <1>5, <2>2, <3>1, <3>2, <3>3
  <2>3. CASE i \notin held \cup hole /\ i # current
    <3>1. low[i] = i /\ high[i] = [i EXCEPT !.s = {}] /\ cut[i] = Infinity
      BY <2>3
    <3> HIDE DEF cut, low, high, held, hole
    <3>2. /\ low[i] = [val |-> low[i].val, s |-> low[i].s, uses |-> low[i].uses, reg |-> low[i].reg]
          /\ high[i].val = i.val /\ high[i].s = {}
      BY <1>5, <3>1 DEF Piece
    <3>3. i.s = {q \in i.s : q < cut[i]} /\ {} = {q \in i.s : q >= cut[i]}
      BY <1>2, <1>5, <3>1
    <3> QED
      BY <1>5, <2>3, <3>1, <3>2, <3>3
  <2> QED
    BY <2>1, <2>2, <2>3
<1>10. /\ \A i \in held : low[i] = Low(i, position) /\ high[i] = High(i, position)
       /\ \A i \in hole : low[i] = Low(i, Min(after(i))) /\ high[i] = High(i, Min(after(i)))
       /\ low[current] = [current EXCEPT !.reg = r]
       /\ \A i \in Pieces \ (held \cup hole \cup {current}) : low[i] = i /\ high[i].s = {}
       /\ high[current].s = {}
       /\ \A i \in held : cut[i] = position
       /\ \A i \in hole : cut[i] = Min(after(i))
  BY <1>2, <1>5, <1>6 DEF Piece
<1>11. /\ Queued' = unhandled' /\ Placed' = active' \cup inactive' \cup handled
       /\ Pieces' = Placed' \cup unhandled'
       /\ Pieces = Placed \cup unhandled \cup {current}
       /\ unhandled \cap (held \cup hole \cup {current}) = {}
       /\ handled \cap (held \cup hole \cup {current}) = {}
       /\ active \cap hole = {} /\ inactive \cap held = {} /\ current \notin active \cup inactive
  <2>1. Queued' = unhandled'
    BY DEF Queued
  <2>2. Pieces = Placed \cup unhandled \cup {current} /\ current \notin unhandled
    BY <1>1, NoIntervalIsNone DEF Pieces, Queued, Order
  <2>3. unhandled \cap (held \cup hole) = {}
    BY <1>1, <1>3, NoIntervalIsNone DEF TypeOK, NoReg, Pieces, Queued
  <2>4. handled \cap (held \cup hole) = {}
    <3> SUFFICES ASSUME NEW i \in handled, i \in held \cup hole PROVE FALSE
      OBVIOUS
    <3>1. \A q \in i.s : q < position
      BY <1>1 DEF Order, Behind, position
    <3>2. \E q \in i.s : q >= position /\ q \in Nat
      <4>1. i \in held => position \in i.s
        BY <1>1 DEF Order, Covers, position
      <4>2. i \in hole => \E q \in i.s : q > position
        BY <1>7
      <4> QED
        BY <1>2, <1>5, <1>6, <4>1, <4>2 DEF position
    <3> QED
      BY <1>2, <3>1, <3>2 DEF position
  <2>5. current \notin Placed
    BY <1>1, <1>2 DEF TypeOK, NoReg
  <2>6. active \cap hole = {} /\ inactive \cap held = {}
    BY <1>1 DEF Order
  <2> QED
    BY <2>1, <2>2, <2>3, <2>4, <2>5, <2>6 DEF Placed, Pieces
<1> HIDE DEF cut, low, high
<1> DEFINE C == held \cup hole
<1>12. /\ active' = (active \ held) \cup {h \in {low[i] : i \in held} : h.s # {}} \cup {low[current]}
       /\ inactive' = (inactive \ hole) \cup {low[i] : i \in hole}
       /\ unhandled' = unhandled \cup {high[i] : i \in C}
  <2>1. /\ {Low(i, position) : i \in held} = {low[i] : i \in held}
        /\ {Low(i, Min(after(i))) : i \in hole} = {low[i] : i \in hole}
    <3> HIDE DEF held, hole, after
    <3> QED
      BY <1>10
  <2>2. {High(i, position) : i \in held} \cup {High(i, Min(after(i))) : i \in hole}
          = {high[i] : i \in C}
    <3> HIDE DEF held, hole, after
    <3>1. {High(i, position) : i \in held} = {high[i] : i \in held}
      BY <1>10
    <3>2. {High(i, Min(after(i))) : i \in hole} = {high[i] : i \in hole}
      BY <1>10
    <3> QED
      BY <3>1, <3>2
  <2> QED
    BY <1>4, <1>10, <2>1, <2>2
<1>13. \A i \in Pieces \ C : low[i].s # {}
  <2> TAKE i \in Pieces \ C
  <2>1. CASE i = current
    BY <1>2, <1>10, <2>1 DEF Piece
  <2>2. CASE i # current
    BY <1>5, <1>10, <2>2
  <2> QED
    BY <2>1, <2>2
<1>14. \A i \in hole : \E q \in low[i].s : q < position
  <2> TAKE i \in hole
  <2>1. i \in Pieces /\ cut[i] = Min(after(i))
    BY <1>6, <1>10
  <2> HIDE DEF hole, after
  <2>2. PICK q \in i.s : q < position
    BY <1>7
  <2>3. q \in Nat /\ cut[i] \in Nat /\ cut[i] > position /\ position \in Nat
    BY <1>2, <1>5, <1>7, <1>8, <2>1 DEF position
  <2>4. q \in {x \in i.s : x < cut[i]}
    BY <2>2, <2>3
  <2> QED
    BY <1>9, <2>1, <2>2, <2>4
<1>15. \A i \in C : high[i].s # {} /\ \A q \in high[i].s : position <= q
  <2> TAKE i \in C
  <2>1. i \in Pieces /\ cut[i] \in i.s /\ cut[i] \in Nat /\ position \in Nat /\ position <= cut[i]
    <3>1. cut[i] # Infinity => cut[i] \in i.s
      BY <1>6, <1>8
    <3>2. i \in held => cut[i] = position
      BY <1>10
    <3>3. i \in hole => cut[i] > position /\ cut[i] \in i.s
      <4> HIDE DEF after, held, hole
      <4> QED
        BY <1>7, <1>10
    <3>4. i \in held => position \in i.s
      BY <1>1 DEF Order, Covers, position
    <3> HIDE DEF held, hole
    <3> QED
      BY <1>2, <1>6, <1>8, <3>2, <3>3, <3>4 DEF position
  <2>2. high[i].s = {q \in i.s : q >= cut[i]} /\ i.s \in SUBSET Nat
    BY <1>5, <1>9, <2>1
  <2> HIDE DEF C
  <2>3. cut[i] \in high[i].s
    BY <2>1, <2>2
  <2>4. \A q \in high[i].s : q >= cut[i] /\ q \in Nat
    BY <2>2
  <2> QED
    BY <2>1, <2>3, <2>4
<1>16. \A j \in Placed' : j.s # {} /\ (j = low[current] \/ \E i \in Placed : j = low[i])
  <2> TAKE j \in Placed'
  <2>1. CASE j \in active \ held \/ j \in inactive \ hole \/ j \in handled
    <3>1. j \in Placed /\ j \in Pieces /\ j \notin C /\ j # current
      BY <1>11, <2>1 DEF Placed
    <3> QED
      BY <1>5, <1>10, <3>1
  <2>2. CASE j \in {h \in {low[i] : i \in held} : h.s # {}}
    BY <2>2 DEF Placed
  <2>3. CASE j = low[current]
    BY <1>2, <1>13, <1>6, <2>3
  <2>4. CASE j \in {low[i] : i \in hole}
    BY <1>14, <2>4 DEF Placed
  <2> QED
    BY <1>11, <1>12, <2>1, <2>2, <2>3, <2>4
<1>17. \A j \in unhandled' : j.s # {} /\ j.reg = NoReg /\ (j \in unhandled \/ \E i \in C : j = high[i])
  <2> TAKE j \in unhandled'
  <2>1. CASE j \in unhandled
    BY <1>1, <1>5, <1>11, <2>1, NoIntervalIsNone DEF TypeOK, Queued
  <2>2. CASE j \in {high[i] : i \in C}
    <3>1. PICK i \in C : j = high[i]
      BY <2>2
    <3>2. i \in Pieces /\ i \in held \cup hole
      BY <1>6, <3>1
    <3>3. j.reg = NoReg
      BY <1>9, <3>1, <3>2
    <3> QED
      BY <1>15, <3>1, <3>3
  <2> QED
    BY <1>12, <2>1, <2>2
<1>18. \A i \in Pieces : /\ low[i].s = {} \/ low[i] \in Pieces'
                         /\ high[i].s = {} \/ high[i] \in Pieces'
  <2> TAKE i \in Pieces
  <2>1. CASE i \in held
    BY <1>11, <1>12, <2>1
  <2>2. CASE i \in hole
    BY <1>11, <1>12, <2>2
  <2>3. CASE i = current
    BY <1>10, <1>11, <1>12, <2>3
  <2>4. CASE i \notin C /\ i # current
    <3>1. low[i] = i /\ high[i].s = {}
      BY <1>10, <2>4
    <3>2. i \in unhandled \/ i \in active \ held \/ i \in inactive \ hole \/ i \in handled
      BY <1>11, <2>4 DEF Placed
    <3> QED
      BY <1>11, <1>12, <3>1, <3>2
  <2> QED
    BY <2>1, <2>2, <2>3, <2>4
<1>19. \A i \in held : position # Min(live[i.val].s)
  <2> SUFFICES ASSUME NEW i \in held, position = Min(live[i.val].s) PROVE FALSE
    OBVIOUS
  <2>1. i \in Piece /\ i.uses = live[i.val].uses \cap i.s /\ position \in i.s
    BY <1>1, <1>6 DEF TypeOK, Order, Covers, position
  <2>2. live[i.val] \in Shape
    BY <1>1, <2>1 DEF TypeOK, Piece
  <2>3. position \in live[i.val].uses
    BY <2>2, ShapeAssumption
  <2>4. f[r] <= position
    BY <1>3, <2>1, <2>3
  <2>5. Min(current.uses) \in current.uses
    <3>1. current.uses \in SUBSET Nat /\ current.uses # {}
      BY <1>2, <1>4
    <3> QED
      BY <3>1, MinOf
  <2>6. Min(current.uses) \in Nat /\ position <= Min(current.uses)
    BY <1>2, <2>5 DEF position
  <2>7. Min(current.uses) < f[r] /\ f[r] \in Nat /\ position \in Nat
    BY <1>2, <1>3, <1>4 DEF position
  <2> QED
    BY <2>4, <2>6, <2>7
<1>20. \A i \in hole : Min(after(i)) # Min(live[i.val].s)
  <2> SUFFICES ASSUME NEW i \in hole PROVE Min(after(i)) # Min(live[i.val].s)
    OBVIOUS
  <2>1. /\ live[i.val].s \in SUBSET Nat /\ i.s \subseteq live[i.val].s
        /\ i \in Pieces
    BY <1>1, <1>6, Shapes DEF TypeOK, Piece
  <2>2. PICK q \in i.s : q < position
    BY <1>7
  <2>3. Min(live[i.val].s) <= q /\ Min(live[i.val].s) \in Nat /\ q \in Nat
    BY <2>1, MinOf
  <2>4. Min(after(i)) \in Nat /\ position \in Nat /\ Min(after(i)) > position
    BY <1>2, <1>5, <1>7, <2>1 DEF position
  <2> QED
    BY <2>2, <2>3, <2>4
<1> HIDE DEF held, hole
<1>21. Kept'
  <2>1. \A i \in Pieces : \A p \in Pos \ BlockStart :
          cut[i] = p /\ {p - 1, p} \subseteq i.s => <<i.val, p>> \in splits'
    <3> SUFFICES ASSUME NEW i \in Pieces, NEW p \in Pos \ BlockStart, cut[i] = p, p \in i.s
                 PROVE  <<i.val, p>> \in splits'
      OBVIOUS
    <3>1. cut[i] # Infinity
      BY <1>5
    <3>2. i \in held \cup hole
      BY <1>8, <3>1
    <3> QED
      BY <1>4, <1>10, <3>2
  <2>2. \A j \in Pieces' : j.s # {} /\ \E i \in Pieces : j \in {low[i], high[i]}
    <3> TAKE j \in Pieces'
    <3>1. CASE j \in Placed'
      BY <1>2, <1>11, <1>16, <3>1
    <3>2. CASE j \in unhandled
      BY <1>5, <1>10, <1>11, <3>2
    <3>3. CASE \E i \in C : j = high[i]
      BY <1>6, <1>15, <3>3
    <3> QED
      BY <1>11, <1>17, <3>1, <3>2, <3>3
  <2>3. \A e \in splits' \ splits : \E i \in Pieces : 
           /\ e[1] = i.val /\ e[2] \in i.s /\ e[2] \notin BlockStart
           /\ e[2] # Min(live[i.val].s)
    <3> SUFFICES ASSUME NEW e \in splits', e \notin splits
                 PROVE  \E i \in Pieces : 
                          /\ e[1] = i.val /\ e[2] \in i.s /\ e[2] \notin BlockStart
                          /\ e[2] # Min(live[i.val].s)
      OBVIOUS
    <3>1. e[2] \notin BlockStart
      BY <1>4
    <3>2. CASE \E i \in held : e = <<i.val, position>>
      <4>1. PICK i \in held : e = <<i.val, position>>
        BY <3>2
      <4>2. position \in i.s /\ position # Min(live[i.val].s) /\ i \in Pieces
        BY <1>1, <1>6, <1>19 DEF Order, Covers, position, held
      <4> QED
        BY <3>1, <4>1, <4>2
    <3>3. CASE \E i \in hole : e = <<i.val, Min(after(i))>>
      <4>1. PICK i \in hole : e = <<i.val, Min(after(i))>>
        BY <3>3
      <4>2. Min(after(i)) \in i.s /\ Min(after(i)) # Min(live[i.val].s) /\ i \in Pieces
        BY <1>6, <1>7, <1>20
      <4> QED
        BY <3>1, <4>1, <4>2
    <3> QED
      BY <1>4, <3>2, <3>3
  <2>4. live' = live /\ spilled \subseteq spilled' /\ splits \subseteq splits'
    BY <1>4
  <2>5. \A i \in Pieces :
           /\ cut[i] \in Nat
           /\ low[i].val = i.val /\ low[i].s = {q \in i.s : q < cut[i]}
           /\ high[i].val = i.val /\ high[i].s = {q \in i.s : q >= cut[i]}
           /\ i.val \in spilled' \/ /\ low[i].s = {} \/ low[i] \in Pieces'
                                    /\ high[i].s = {} \/ high[i] \in Pieces'
           /\ \A p \in Pos \ BlockStart :
                cut[i] = p /\ {p - 1, p} \subseteq i.s => <<i.val, p>> \in splits'
    BY <1>8, <1>9, <1>18, <2>1
  <2> QED
    BY <1>1, <2>2, <2>3, <2>4, <2>5, CutPieces
<1>22. TypeOK'
  <2>1. \A j \in Pieces' : /\ j.s # {} /\ j.reg \in Int
                            /\ \E i \in Pieces : \E s, u :
                                 /\ j = [val |-> i.val, s |-> s, uses |-> u, reg |-> j.reg]
                                 /\ s \subseteq i.s /\ u = i.uses \cap s
    <3> TAKE j \in Pieces'
    <3>1. CASE \E i \in Pieces : j = low[i] /\ j.s # {}
      <4>1. PICK i \in Pieces : j = low[i] /\ j.s # {}
        BY <3>1
      <4>2. /\ j = [val |-> i.val, s |-> j.s, uses |-> i.uses \cap j.s, reg |-> j.reg]
            /\ j.s \subseteq i.s
        BY <1>9, <4>1
      <4>3. j.reg \in Int
        <5>1. j.reg = IF i = current THEN r ELSE i.reg
          BY <1>9, <4>1
        <5>2. i.reg \in Int /\ r \in Int
          BY <1>3, <1>5, <4>1 DEF Piece
        <5> QED
          BY <5>1, <5>2
      <4> QED
        BY <4>1, <4>2, <4>3
    <3>2. CASE \E i \in C : j = high[i]
      <4>1. PICK i \in C : j = high[i]
        BY <3>2
      <4>2. i \in Pieces /\ i \in held \cup hole /\ j.s # {}
        BY <1>6, <1>15, <4>1
      <4>3. /\ high[i].val = i.val /\ high[i].s \subseteq i.s
            /\ high[i].reg = NoReg /\ high[i].uses = i.uses \cap high[i].s
            /\ high[i] = [val |-> high[i].val, s |-> high[i].s, uses |-> high[i].uses,
                          reg |-> high[i].reg]
        BY <1>9, <4>2
      <4>4. /\ j = [val |-> i.val, s |-> j.s, uses |-> i.uses \cap j.s, reg |-> j.reg]
            /\ j.reg = NoReg /\ j.s \subseteq i.s
        BY <4>1, <4>3
      <4> QED
        BY <4>2, <4>4 DEF NoReg
    <3>3. CASE j \in unhandled
      BY <1>5, <1>10, <1>11, <3>1, <3>3
    <3> QED
      BY <1>2, <1>11, <1>16, <1>17, <3>1, <3>2, <3>3
  <2>2. Pieces' \subseteq Piece /\ \A j \in Pieces' :
           j.s # {} /\ j.s \subseteq live'[j.val].s /\ j.uses = live'[j.val].uses \cap j.s
    BY <1>1, <2>1, CutTypes
  <2>3. \A j \in Queued' : j.reg = NoReg
    BY <1>11, <1>17
  <2>4. known' \subseteq Nat
    BY <1>1 DEF freeUntilPosition, TypeOK, Placed, Clashing
  <2>5. \A j \in Placed' : j.reg \in Nat
    <3> TAKE j \in Placed'
    <3>1. PICK i \in Placed \cup {current} : j = low[i]
      BY <1>16
    <3>2. i \in Pieces
      BY <1>11, <3>1
    <3> QED
      BY <1>1, <1>3, <1>9, <3>1, <3>2 DEF TypeOK
  <2>6. spilled' = spilled /\ ranked' = DOMAIN f /\ live' = live
    BY DEF f
  <2> QED
    BY <1>1, <1>3, <2>2, <2>3, <2>4, <2>5, <2>6 DEF TypeOK
<1>23. Order'
  <2>1. Behind(position)
    BY <1>1 DEF Order, position
  <2>2. \A j \in unhandled' : \A q \in j.s : position <= q
    BY <1>15, <1>17, <2>1 DEF Behind
  <2>3. \A j \in (active \cup inactive)' : \E q \in j.s : q <= position
    <3> TAKE j \in (active \cup inactive)'
    <3>1. CASE j \in active \/ j \in inactive
      BY <2>1, <3>1 DEF Behind
    <3>2. CASE \E i \in held : j = low[i] /\ j.s # {}
      <4>1. PICK i \in held : j = low[i] /\ j.s # {}
        BY <3>2
      <4>2. \A q \in j.s : q < position /\ q \in Nat
        <5>1. i \in Pieces /\ cut[i] = position
          BY <1>6, <1>10, <4>1
        <5>2. j.s = {q \in i.s : q < position} /\ i.s \in SUBSET Nat
          BY <1>5, <1>9, <4>1, <5>1
        <5> QED
          BY <5>2
      <4>3. position \in Nat
        BY <1>2 DEF position
      <4> QED
        BY <4>1, <4>2, <4>3
    <3>3. CASE j = low[current]
      <4>1. j.s = current.s
        BY <1>2, <1>10, <3>3 DEF Piece
      <4> QED
        BY <1>2, <4>1 DEF position
    <3>4. CASE \E i \in hole : j = low[i]
      <4>1. PICK i \in hole : j = low[i]
        BY <3>4
      <4>2. PICK q \in j.s : q < position
        BY <1>14, <4>1
      <4>3. q \in i.s /\ i \in Pieces
        <5>1. i \in Pieces
          BY <1>6, <4>1
        <5>2. low[i].s = {x \in i.s : x < cut[i]}
          BY <1>9, <5>1
        <5> QED
          BY <4>1, <4>2, <5>1, <5>2
      <4>4. q \in Nat /\ position \in Nat
        BY <1>2, <1>5, <4>3 DEF position
      <4> QED
        BY <4>2, <4>4
    <3> QED
      BY <1>12, <3>1, <3>2, <3>3, <3>4
  <2>4. \A h \in handled' : \A q \in h.s : q < position
    BY <2>1 DEF Behind
  <2> QED
    BY <1>1, <2>2, <2>3, <2>4, OrderAfter DEF position
<1>24. OneEach'
  <2> SUFFICES ASSUME NEW j \in Placed', NEW k \in Placed', j # k, j.reg = k.reg,
                      NEW q \in j.s, q \in k.s
               PROVE  FALSE
    BY DEF OneEach
  <2>1. ASSUME NEW i \in Placed, low[i].reg = r, NEW p \in low[i].s, p \in current.s
        PROVE  FALSE
    <3>1. /\ i \in Pieces /\ i # current /\ i.reg = r /\ p \in i.s
          /\ p < cut[i] /\ p \in Nat /\ position <= p
      <4>1. i \in Pieces /\ i # current /\ p \in Nat /\ position <= p
        BY <1>1, <1>2, <1>11, <2>1 DEF TypeOK, NoReg, position
      <4>2. low[i].reg = i.reg /\ low[i].s = {x \in i.s : x < cut[i]}
        BY <1>9, <4>1
      <4> QED
        BY <2>1, <4>1, <4>2
    <3>2. CASE i \in active
      BY <1>2, <1>10, <3>1, <3>2 DEF held, position
    <3>3. CASE i \in inactive
      <4>1. i \in hole
        BY <3>1, <3>3 DEF hole
      <4>2. p < position
        <5> HIDE DEF after
        <5> QED
          BY <1>7, <1>10, <3>1, <4>1
      <4> QED
        BY <1>2, <3>1, <4>2 DEF position
    <3>4. CASE i \in handled
      BY <1>1, <1>2, <3>1, <3>4 DEF Order, Behind, position
    <3> QED
      BY <3>2, <3>3, <3>4 DEF Placed
  <2>2. low[current].s = current.s /\ low[current].reg = r
    BY <1>2, <1>10 DEF Piece
  <2>3. CASE j = low[current]
    BY <1>16, <2>1, <2>2, <2>3
  <2>4. CASE k = low[current]
    BY <1>16, <2>1, <2>2, <2>4
  <2>5. CASE \E i, m \in Placed : j = low[i] /\ k = low[m]
    <3>1. PICK i \in Placed, m \in Placed : j = low[i] /\ k = low[m]
      BY <2>5
    <3>2. /\ i \in Pieces /\ m \in Pieces /\ i # current /\ m # current /\ i # m
      BY <1>1, <1>2, <1>11, <3>1 DEF TypeOK, NoReg
    <3>3. i.reg = m.reg /\ q \in i.s /\ q \in m.s
      BY <1>9, <3>1, <3>2
    <3> QED
      BY <1>1, <3>1, <3>2, <3>3 DEF OneEach
  <2> QED
    BY <1>16, <2>3, <2>4, <2>5
<1>25. stray' = FALSE
  BY DEF TakeRegister
<1> QED
  BY <1>1, <1>21, <1>22, <1>23, <1>24, <1>25 DEF IInv
-----------------------------------------------------------------------------
LEMMA AllocateIInv == ASSUME IInv, Allocate PROVE IInv'
<1>1. /\ current # NoInterval /\ current' = NoInterval /\ UNCHANGED <<live, handled>>
      /\ known' = DOMAIN freeUntilPosition
      /\ Fit(freeUntilPosition) \/ Displace(nextUsePos)
  BY DEF Allocate
<1>2. CASE Fit(freeUntilPosition)
  BY <1>1, <1>2, FitIInv
<1>3. CASE Displace(nextUsePos)
  <2> DEFINE f == nextUsePos
             r == MaxElement(f)
  <2>1. TypeOK /\ Order
    BY <1>1 DEF IInv
  <2>2. DOMAIN f # {}
    <3> HIDE DEF f
    <3> QED
      BY <1>1, <2>1, NextFacts DEF f
  <2>3. /\ ranked' = DOMAIN f
        /\ SpillUnused \/ SpillCurrent(f[r]) \/ TakeRegister(r, f[r])
    BY <1>3, <2>2 DEF Displace
  <2>4. CASE SpillUnused \/ SpillCurrent(f[r])
    BY <1>1, <2>3, <2>4, SpillIInv
  <2>5. CASE TakeRegister(r, f[r]) /\ ~ stray'
    BY <1>1, <2>3, <2>5, TakeRegisterIInv DEF TakeRegister
  <2>6. CASE TakeRegister(r, f[r]) /\ stray'
    BY <1>1, <2>6 DEF TakeRegister, IInv
  <2> QED
    BY <2>3, <2>4, <2>5, <2>6
<1> QED
  BY <1>1, <1>2, <1>3

LEMMA Inductive == Spec => []IInv
<1>1. ASSUME IInv, Next PROVE IInv'
  BY <1>1, TakeIInv, AllocateIInv DEF Next
<1>2. ASSUME IInv, UNCHANGED vars PROVE IInv'
  BY <1>2 DEF vars, IInv, TypeOK, Order, Behind, OneEach, Kept, Disjoint, Covered, Recorded,
              SplitsInside, Pieces, Placed, Queued
<1> QED
  BY <1>1, <1>2, InitIInv, PTL DEF Spec

\* No register holds two values at one position, for any registers, values, blocks
\* and live ranges: of linear_scan_ssa, as long as no bound is read past the last
\* segment (regalloc.cc:422).
THEOREM RegistersHoldOneValue == Spec => []OneValuePerRegister
<1>1. IInv => OneValuePerRegister
  BY DEF IInv, OneEach, OneValuePerRegister
<1> QED
  BY <1>1, Inductive, PTL

\* RegAlloc::get finds one place for every value wherever it is alive, however
\* often linear_scan_ssa has cut its interval.
THEOREM PlacesAreKnown == Spec => []EveryPlaceKnown
<1>1. ASSUME IInv PROVE EveryPlaceKnown
  <2> SUFFICES ASSUME ~ stray, NEW v \in Val
               PROVE  LET pieces == {i \in Placed \cup unhandled \cup {current} : i.val = v}
                      IN  /\ \A p \in live[v].s : v \in spilled \/ \E i \in pieces : p \in i.s
                          /\ \A i, j \in pieces : i # j => i.s \cap j.s = {}
    BY DEF EveryPlaceKnown
  <2>1. TypeOK /\ Kept
    BY <1>1 DEF IInv
  <2>2. \A i \in Placed \cup unhandled \cup {current} : i.val = v => i \in Pieces
    <3>1. NoInterval.val # v
      BY InputAssumption DEF NoInterval, Interval, NoReg
    <3> QED
      BY <2>1, <3>1, NoIntervalIsNone DEF Pieces, Queued
  <2>3. \A i \in Pieces : i \in Placed \cup unhandled \cup {current}
    BY DEF Pieces, Queued
  <2>4. \A p \in live[v].s : v \in spilled \/ \E i \in Pieces : i.val = v /\ p \in i.s
    BY <2>1 DEF Kept, Covered
  <2> QED
    BY <2>1, <2>2, <2>3, <2>4 DEF Kept, Disjoint
<1> QED
  BY <1>1, Inductive, PTL

\* Every change of place inside a block is in split_moves, and every entry is one at
\* which the value is alive on both sides: what resolve() needs to insert the copies.
THEOREM MovesAreComplete == Spec => []MovesFollowValues
<1>1. ASSUME IInv, Done PROVE MovesFollowValues
  <2>1. TypeOK /\ Kept /\ Pieces = Placed
    BY <1>1 DEF IInv, Done, Pieces, Queued
  <2>2. ASSUME NEW v \in Val, NEW p \in Pos \ BlockStart,
               {p - 1, p} \subseteq live[v].s, <<v, p>> \notin splits
        PROVE  Place(v, p - 1) = Place(v, p)
    <3> DEFINE At(q) == {i \in Placed : i.val = v /\ q \in i.s}
    <3>1. \A i \in Placed : i.val = v => (p - 1 \in i.s <=> p \in i.s)
      BY <2>1, <2>2 DEF Kept, Recorded
    <3>2. At(p - 1) = At(p)
      BY <3>1
    <3>3. \A q : Place(v, q) = IF At(q) # {} THEN (CHOOSE i \in Placed : i.val = v /\ q \in i.s).reg
                                             ELSE NoReg
      BY Zenon DEF Place
    <3>4. \A q : At(q) # {} => (CHOOSE i \in Placed : i.val = v /\ q \in i.s) \in At(q)
      OBVIOUS
    <3>5. \A q : \A i, j \in At(q) : i = j
      BY <2>1 DEF Kept, Disjoint
    <3> HIDE DEF At
    <3>6. CASE At(p) = {}
      BY <3>2, <3>3, <3>6
    <3>7. CASE At(p) # {}
      <4> DEFINE one(q) == CHOOSE i \in Placed : i.val = v /\ q \in i.s
      <4>1. one(p - 1) \in At(p) /\ one(p) \in At(p)
        BY <3>2, <3>4, <3>7
      <4>2. one(p - 1) = one(p)
        BY <3>5, <4>1
      <4> QED
        BY <3>2, <3>3, <3>7, <4>2
    <3> QED
      BY <3>6, <3>7
  <2> QED
    BY <2>1, <2>2 DEF MovesFollowValues, Kept, SplitsInside
<1>2. IInv => MovesFollowValues
  BY <1>1 DEF MovesFollowValues
<1> QED
  BY <1>2, Inductive, PTL
=============================================================================
