---------------------------- MODULE ParallelCopy ----------------------------
(***************************************************************************)
(* What one register half of Codegen::parallel_mov promises: a set of      *)
(* moves <<from, to>> between registers happens as if all of them were     *)
(* performed at once, although the machine has only one-register `mov`s.   *)
(*                                                                         *)
(* A step performs every move that leaves one register (Emit), or saves a  *)
(* register in a scratch register and lets its moves start from there      *)
(* (Detour).  TopoSort is the algorithm of the code; it implements this    *)
(* specification.                                                          *)
(***************************************************************************)
EXTENDS TLAPS

CONSTANTS Reg,      \* the registers the moves mention
          Temp      \* scratch registers

\* The scratch registers are nobody's: what the promise below depends on.
ScratchAssumption == Reg \cap Temp = {}

VARIABLES moves,    \* the requested moves, a set of <<from, to>>
          pending,  \* the moves still to perform
          holds     \* register -> the register whose first value it holds

copyVars == <<moves, pending, holds>>

Location == Reg \cup Temp

\* A register is the target of at most one move (the comment on topo_sort: two
\* phis of one block never have the same register), and the callers drop the
\* moves whose two sides are equal.
WellFormed(ms) ==
  /\ ms \subseteq Reg \X Reg
  /\ \A m1, m2 \in ms : m1[2] = m2[2] => m1 = m2
  /\ \A m \in ms : m[1] # m[2]

Sources(ms) == {m[1] : m \in ms}
Targets(ms) == {m[2] : m \in ms}
Leaving(ms, n) == {m \in ms : m[1] = n}

Init ==
  /\ moves \in {ms \in SUBSET (Reg \X Reg) : WellFormed(ms)}
  /\ pending = moves
  /\ holds = [r \in Location |-> r]

\* Every move that leaves n is performed: no other move still needs what its
\* targets hold.
Emit(n) ==
  /\ Leaving(pending, n) # {}
  /\ Targets(Leaving(pending, n)) \cap Sources(pending) = {}
  /\ holds' = [r \in Location |->
                 IF r \in Targets(Leaving(pending, n)) THEN holds[n] ELSE holds[r]]
  /\ pending' = pending \ Leaving(pending, n)
  /\ UNCHANGED moves

\* n is saved in the scratch register t, so that n may be overwritten.
Detour(n, t) ==
  /\ n \in Sources(pending) \cap Reg
  /\ t \in Temp \ Sources(pending)
  /\ holds' = [holds EXCEPT ![t] = holds[n]]
  /\ pending' = {IF m[1] = n THEN <<t, m[2]>> ELSE m : m \in pending}
  /\ UNCHANGED moves

\* Nothing is left to move.
Finished == pending = {} /\ UNCHANGED copyVars

Next ==
  \/ \E n \in Location : Emit(n) \/ \E t \in Temp : Detour(n, t)
  \/ Finished

Spec == Init /\ [][Next]_copyVars

-----------------------------------------------------------------------------
TypeOK ==
  /\ WellFormed(moves)
  /\ pending \subseteq Location \X Reg
  /\ holds \in [Location -> Location]

\* The value a move must deliver is still where the move will read it.
SourceIntact ==
  \A m \in pending : \E m0 \in moves : m0[2] = m[2] /\ holds[m[1]] = m0[1]

\* A performed move is not undone, and a register no move targets keeps its
\* own value: it may hold a live variable.
Delivered ==
  \A r \in Reg \ Targets(pending) :
    \/ r \notin Targets(moves) /\ holds[r] = r
    \/ \E m0 \in moves : m0[2] = r /\ holds[r] = m0[1]

\* The promise: when nothing is pending the moves have happened at once.
ParallelAssignment ==
  pending = {} =>
    /\ \A m \in moves : holds[m[2]] = m[1]
    /\ \A r \in Reg \ Targets(moves) : holds[r] = r

(***************************************************************************)
(* ParallelCopy keeps its promise for every set of registers and moves.    *)
(***************************************************************************)
IInv == TypeOK /\ SourceIntact /\ Delivered

\* At the start nothing has moved: every register holds its own value.
LEMMA InitIInv == Init => IInv
<1> SUFFICES ASSUME Init PROVE IInv
  OBVIOUS
<1>1. TypeOK
  BY DEF Init, TypeOK, WellFormed, Location
<1>2. SourceIntact
  BY DEF Init, SourceIntact, WellFormed, Location
<1>3. Delivered
  BY DEF Init, Delivered, Targets, WellFormed, Location
<1> QED
  BY <1>1, <1>2, <1>3 DEF IInv

\* Performing the moves that leave one register keeps the invariant: no pending
\* move reads what they overwrite.
LEMMA EmitIInv ==
  ASSUME ScratchAssumption, IInv, NEW n \in Location, Emit(n) PROVE IInv'
<1>1. TypeOK'
  BY DEF IInv, TypeOK, Emit, Leaving
<1>2. SourceIntact'
  <2>1. ASSUME NEW m \in pending, m[1] # n
        PROVE  holds'[m[1]] = holds[m[1]]
    <3>1. m[1] \in Sources(pending) /\ m[1] \in Location
      BY DEF Sources, IInv, TypeOK
    <3> QED
      BY <3>1 DEF Emit
  <2>2. \A m \in pending' : m \in pending /\ m[1] # n
    BY DEF Emit, Leaving
  <2>3. moves' = moves
    BY DEF Emit
  <2> QED
    BY <2>1, <2>2, <2>3 DEF IInv, SourceIntact
<1>3. Delivered'
  BY DEF ScratchAssumption, IInv, TypeOK, SourceIntact, Delivered, Emit, Targets, Leaving, Location
<1> QED
  BY <1>1, <1>2, <1>3 DEF IInv

\* Saving a register in a scratch register nobody reads keeps the invariant.
LEMMA DetourIInv ==
  ASSUME ScratchAssumption, IInv, NEW n \in Location, NEW t \in Temp, Detour(n, t) PROVE IInv'
<1>1. TypeOK'
  BY DEF IInv, TypeOK, Detour, Location
<1>2. SourceIntact'
  <2> SUFFICES ASSUME NEW m \in pending
               PROVE  IF m[1] = n THEN holds'[t] = holds[m[1]]
                                  ELSE holds'[m[1]] = holds[m[1]]
    BY DEF IInv, SourceIntact, Detour
  <2>1. m[1] \in Sources(pending) /\ t \in Location /\ holds \in [Location -> Location]
    BY DEF Sources, IInv, TypeOK, Location
  <2> QED
    BY <2>1 DEF Detour
<1>3. Delivered'
  <2>1. Targets(pending') = Targets(pending)
    <3>1. Targets(pending') = {(IF m[1] = n THEN <<t, m[2]>> ELSE m)[2] : m \in pending}
      BY DEF Detour, Targets
    <3>2. \A m \in pending : (IF m[1] = n THEN <<t, m[2]>> ELSE m)[2] = m[2]
      OBVIOUS
    <3> QED
      BY <3>1, <3>2 DEF Targets
  <2> QED
    BY <2>1 DEF ScratchAssumption, IInv, TypeOK, Delivered, Detour, Location
<1> QED
  BY <1>1, <1>2, <1>3 DEF IInv

\* IInv is an invariant.
LEMMA Inductive == ASSUME ScratchAssumption PROVE Spec => []IInv
<1>1. Init => IInv
  BY InitIInv
<1>2. IInv /\ [Next]_copyVars => IInv'
  <2> SUFFICES ASSUME IInv, [Next]_copyVars PROVE IInv'
    OBVIOUS
  <2>1. CASE \E n \in Location : Emit(n) \/ \E t \in Temp : Detour(n, t)
    BY <2>1, EmitIInv, DetourIInv
  <2>2. CASE UNCHANGED copyVars
    BY <2>2 DEF copyVars, IInv, TypeOK, SourceIntact, Delivered
  <2> QED
    BY <2>1, <2>2 DEF Next, Finished
<1> QED
  BY <1>1, <1>2, PTL DEF Spec

\* Every source still holds what its move must deliver, every performed move
\* stays performed, and no register but the targets changes.
THEOREM Intact == ASSUME ScratchAssumption PROVE Spec => [](SourceIntact /\ Delivered)
<1>1. IInv => SourceIntact /\ Delivered
  BY DEF IInv
<1> QED
  BY <1>1, Inductive, PTL

\* When nothing is pending, the moves have happened as if all at once.
THEOREM Promise == ASSUME ScratchAssumption PROVE Spec => []ParallelAssignment
<1>1. IInv => ParallelAssignment
  BY DEF IInv, TypeOK, Delivered, ParallelAssignment, Targets, WellFormed
<1> QED
  BY <1>1, Inductive, PTL
=============================================================================
