---------------------------- MODULE MCLinearScan ----------------------------
(***************************************************************************)
(* Small instances of LinearScan.  The shapes are what build_intervals can *)
(* make of one value in a few blocks: it is live from its definition, to   *)
(* the end of every block it leaves alive and to its last use in the       *)
(* others; an operand of a phi is used at the last position of a block.    *)
(***************************************************************************)
EXTENDS LinearScan, SequencesExt

CONSTANTS Length,  \* the number of instructions of every block, in order
          MaxUse   \* how often a value is used

First0(b) == 2 * FoldLeft(+, 0, SubSeq(Length, 1, b - 1))
Span(b) == First0(b) .. First0(b + 1) - 1
Blocks == DOMAIN Length

MCHorizon == First0(Len(Length) + 1)
MCBlockStart == {First0(b) : b \in Blocks}

\* What is live of a value defined at d, used at U, and alive at the end of W.
Live(d, U, W) ==
  UNION {LET here == {p \in Span(b) : p >= d}
         IN  IF b \in W THEN here
             ELSE {p \in here : \E u \in U \cup {d} : u \in here /\ p <= u}
         : b \in Blocks}

\* A use lies in the block of the definition or after a block the value leaves
\* alive; a block leaves it alive for a later use, for a phi at its end, or
\* because a loop from h to it uses the value.
BlockOf(p) == CHOOSE b \in Blocks : p \in Span(b)
Sound(d, U, W) ==
  /\ \A u \in U : (BlockOf(u) = BlockOf(d) /\ u >= d) \/ \E b \in W : b < BlockOf(u)
  /\ \A b \in W : \/ \E u \in U : u >= Max(Span(b))
                  \/ \E h \in BlockOf(d) + 1 .. b :
                       h .. b \subseteq W /\ \E u \in U : BlockOf(u) \in h .. b

Defs == {p \in 0 .. MCHorizon - 1 : p % 2 = 1 \/ p \in MCBlockStart}
Uses(d, W) == {p \in 0 .. MCHorizon - 1 : p % 2 = 0 /\ (p > d \/ {p, d} = {0})} \cup {Max(Span(b)) : b \in W}
LiveOut(d) == SUBSET {b \in Blocks : Max(Span(b)) > d}
UseSets(d, W) == {U \in UNION {kSubset(k, Uses(d, W)) : k \in 1 .. MaxUse} : Sound(d, U, W)}
MCShape ==
  UNION {UNION {{[s |-> Live(d, U, W), uses |-> U \cup {d}] : U \in UseSets(d, W)} :
           W \in LiveOut(d)} : d \in Defs}

\* Values are numbered in the order of their intervals: numbers only break ties.
MCInit == Init /\ \A v, w \in Val \ DOMAIN ArgReg :
  v < w => live[v].s = live[w].s \/ Before([s |-> live[v].s, val |-> v], [s |-> live[w].s, val |-> w])
MCArgReg == 1 :> 1
MCLength112 == <<1, 1, 2>>
MCSpec == MCInit /\ [][Next]_vars
=============================================================================
