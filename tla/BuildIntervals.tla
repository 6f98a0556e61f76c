--------------------------- MODULE BuildIntervals ---------------------------
(***************************************************************************)
(* Live ranges: RegAlloc::build_intervals of codegen_new/regalloc.cc, one  *)
(* pass over the blocks in reverse linear order.  What it does to a value  *)
(* does not depend on the other values, so the model follows one.  Blocks  *)
(* are named by their place in the linear order, which LinearOrder shows   *)
(* to be topological with contiguous loops.                                *)
(***************************************************************************)
EXTENDS Integers, FiniteSets, FiniteSetsExt

CONSTANTS
  Length,   \* the number of instructions of a block after its one phi
  MaxUse    \* how many uses the value has

VARIABLES
  N,         \* the number of blocks
  cfg,       \* the control-flow graph
  def,       \* where the value is defined: <<block, slot>>, slot 0 for a phi;
             \* <<0, 0>> for an argument
  uses,      \* the instructions that read it: <<block, slot>>
  phi_uses,  \* the edges over which a phi takes it
  todo,      \* the blocks 1 .. todo have still to be visited
  s, use_pos, liveIn

Blocks == 1 .. N
Slot   == 1 .. Length
F == INSTANCE Flow

\* bb_range: the positions of a block, its phi first; instruction k reads at Input
\* and writes one later.
From(b) == 2 * (Length + 1) * (b - 1)
To(b) == From(b + 1)
Input(b, k) == From(b) + 2 * k

IsArgument == def = <<0, 0>>

\* The definition d dominates what uses the value.
Above(d, u) ==
  d = <<0, 0>> \/ IF u[1] = d[1] THEN d[2] < u[2] ELSE F!Dominates(cfg, 1, d[1], u[1])

Init ==
  /\ def = <<0, 0>> /\ uses = {} /\ phi_uses = {} /\ todo = -2
  /\ s = {} /\ use_pos = {} /\ liveIn = {}

\* The value is given: its definition and its uses.
Start ==
  /\ todo = -2 /\ todo' = N
  /\ \E d \in {<<0, 0>>} \cup Blocks \X ({0} \cup Slot), k \in 0 .. MaxUse :
       /\ def' = d
       /\ uses' \in kSubset(k, {u \in Blocks \X Slot : Above(d, u)})
       /\ \E j \in 0 .. MaxUse - k :
            phi_uses' \in kSubset(j, {e \in cfg : Above(d, <<e[1], Length + 1>>)})
  /\ UNCHANGED <<N, cfg, s, use_pos, liveIn>>

-----------------------------------------------------------------------------
RightOpen(from, to) == from .. to - 1     \* add_range: right-open
DefinedIn(b) == def[1] = b
PhiUse(b) == \E e \in phi_uses : e[1] = b
LiveOut(b) == PhiUse(b) \/ F!Succs(cfg, b) \cap liveIn # {}

\* The instructions of b that read the value, below its definition.
Reads(b) == {u[2] : u \in {x \in uses : x[1] = b}}
DefPosition == IF def[2] = 0 THEN From(def[1]) ELSE Input(def[1], def[2]) + 1

\* What the reverse walk over the instructions of b leaves of the ranges.
Ranges(b) ==
  LET out   == IF LiveOut(b) THEN RightOpen(From(b), To(b)) ELSE {}
      read  == UNION {RightOpen(From(b), Input(b, k) + 1) : k \in Reads(b)}
      all   == s \cup out \cup read
  IN  IF DefinedIn(b) /\ (LiveOut(b) \/ Reads(b) # {})
        THEN {p \in all : p >= DefPosition}            \* set_from
        ELSE all

PhiPosition(b) == To(b) - 1
Positions(b) ==
  {PhiPosition(b) : e \in {x \in phi_uses : x[1] = b}} \cup {Input(b, k) : k \in Reads(b)}
    \cup (IF DefinedIn(b) /\ (LiveOut(b) \/ Reads(b) # {}) THEN {DefPosition} ELSE {})

\* base2loop of a header, and the end of the loop's last block.
LoopOf(b) == IF b \in F!Headers(cfg, 1) THEN F!NaturalLoop(cfg, 1, b) ELSE {}
LoopEndFirst(loop) == Min({To(c) : c \in loop})   \* faulty: its first block
LoopEnd(loop) == Max({To(c) : c \in loop})

Visit(b) ==
  LET live == ~ DefinedIn(b) /\ (LiveOut(b) \/ Reads(b) # {})
      loop == LoopOf(b)
  IN  /\ b = todo /\ todo' = todo - 1
      \* The value is alive at a loop header: all over the loop.
      /\ s' = Ranges(b) \cup (IF live /\ loop # {} THEN RightOpen(From(b), LoopEnd(loop)) ELSE {})
      /\ use_pos' = use_pos \cup Positions(b)
      /\ liveIn' = liveIn \cup (IF live THEN loop \cup {b} ELSE {})
      /\ UNCHANGED <<N, cfg, def, uses, phi_uses>>

\* An argument is used where it arrives, if anywhere.
Arrive ==
  /\ todo = 0 /\ todo' = -1
  /\ use_pos' = IF IsArgument /\ (uses # {} \/ phi_uses # {}) THEN use_pos \cup {0} ELSE use_pos
  /\ UNCHANGED <<N, cfg, def, uses, phi_uses, s, liveIn>>

Next == Start \/ Arrive \/ \E b \in Blocks : Visit(b)

Finished == todo = -1

-----------------------------------------------------------------------------
\* Liveness by its definition: a path leads from the start of b to a use, and
\* the definition is not on it.
Undefined == {e \in cfg : ~ DefinedIn(e[2])}
NeedsIn(b) == ~ DefinedIn(b) /\ \E c \in F!Reach(Undefined, {b}) : Reads(c) # {} \/ PhiUse(c)
NeedsOut(b) == PhiUse(b) \/ \E c \in F!Succs(cfg, b) : NeedsIn(c)

\* Between two positions the value must be kept if a later instruction of the
\* block reads it or the block hands it on, and it has been defined.
NeededAt(b, p) ==
  /\ p \in RightOpen(From(b), To(b))
  /\ NeedsOut(b) \/ \E k \in Reads(b) : p <= Input(b, k)
  /\ IF DefinedIn(b) THEN p >= DefPosition ELSE NeedsIn(b)

\* The one pass, which extends ranges over loops instead of iterating, computes
\* liveness exactly: the interval holds every position where the value is needed and no
\* other, liveIn, from which resolve() takes what an edge must carry, is right for every
\* block, and the uses LinearScan splits at lie in the interval, which begins with one.
IntervalIsLiveness ==
  Finished =>
    /\ s = {p \in 0 .. To(N) - 1 : \E b \in Blocks : NeededAt(b, p)}
    /\ liveIn = {b \in Blocks : NeedsIn(b)}
    /\ use_pos \subseteq s /\ (s # {} => Min(s) \in use_pos)
=============================================================================
