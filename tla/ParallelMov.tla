---------------------------- MODULE ParallelMov ----------------------------
(***************************************************************************)
(* Codegen::parallel_mov (src/codegen_new/codegen.cc): moves values        *)
(* between registers, stack slots and constants so that they seem to move  *)
(* at once - the phis of a control-flow edge, the arguments of a call, the *)
(* reconnection of a split interval.                                       *)
(*                                                                         *)
(* Integers first, then floats; each class in three passes: everything     *)
(* that goes to memory, the register-to-register moves, everything that    *)
(* goes from memory or a constant to a register.  The register pass is     *)
(* topo_sort with the movs it orders: one step here, with the result that  *)
(* TopoSort_proof establishes for registers outside temp_pool.             *)
(***************************************************************************)
CONSTANTS IntReg, FloatReg,      \* registers
          IntSlot, FloatSlot,    \* stack slots, by their offset from sp
          IntConst, FloatConst,
          TempLhs, TempRhs,      \* temp_lhs_reg, temp_rhs_reg
          TempFloat,             \* temp_float_lhs_reg
          SlotsApart             \* no slot is both read and written

Class == {"int", "float"}
Reg == [int |-> IntReg, float |-> FloatReg]
Slot == [int |-> IntSlot, float |-> FloatSlot]
Const == [int |-> IntConst, float |-> FloatConst]

Temps == {TempLhs, TempRhs, TempFloat}
Operands == UNION {Reg[c] \cup Slot[c] : c \in Class}
Constants == IntConst \cup FloatConst
Location == Operands \cup Temps

ASSUME MovAssumption ==
  /\ SlotsApart \in BOOLEAN
  /\ Location \cap Constants = {}
  /\ IntReg \cap (FloatReg \cup IntSlot \cup FloatSlot) = {}
  /\ FloatReg \cap (IntSlot \cup FloatSlot) = {}
  /\ IntSlot \cap FloatSlot = {}
  /\ IntConst \cap FloatConst = {}
  /\ Temps \cap (IntSlot \cup FloatSlot) = {}

VARIABLES moves,    \* the argument moves_input, a set of <<from, to>>
          class,    \* the class being moved
          pass,     \* which of its passes
          todo,     \* the moves this pass has still to emit
          content   \* location -> the first value of the location or constant
                    \* that it holds

vars == <<moves, class, pass, todo, content>>

To(ms, S) == {m \in ms : m[2] \in S}
From(ms, S) == {m \in ms : m[1] \in S}

\* Each target is written once; a move onto itself is left out by the callers.
Legal(ms) ==
  /\ \A m \in ms : \E c \in Class :
       m[2] \in Reg[c] \cup Slot[c] /\ m[1] \in Reg[c] \cup Slot[c] \cup Const[c]
  /\ \A m1, m2 \in ms : m1[2] = m2[2] => m1 = m2
  /\ \A m \in ms : m[1] # m[2]
  /\ SlotsApart => \A m1, m2 \in ms : m1[1] = m2[2] => m1[1] \notin IntSlot \cup FloatSlot

ToMemory(c) == To(moves, Slot[c])
ToRegisterSlots(c) == From(To(moves, Reg[c]), Slot[c])     \* faulty: no constants
ToRegister(c) == From(To(moves, Reg[c]), Slot[c] \cup Const[c])
BetweenRegisters(c) == From(To(moves, Reg[c]), Reg[c])

InitWith(ms) ==
  /\ moves = ms
  /\ class = "int" /\ pass = "memory"
  /\ todo = To(ms, IntSlot)
  /\ content = [l \in Location |-> l]

\* What is read for a move: a constant, or what its source holds by now.
Value(m) == IF m[1] \in Constants THEN m[1] ELSE content[m[1]]

\* The scratch registers a store goes through: a slot is loaded first, a
\* constant is materialised, the bits of a float one in an integer register.
StoreScratch(m) ==
  CASE m[1] \in IntConst \cup IntSlot -> {TempLhs}
    [] m[1] \in FloatSlot -> {TempFloat}
    [] m[1] \in FloatConst -> {TempFloat, TempRhs}
    [] OTHER -> {}

\* A float constant reaches a register through temp_rhs_reg.
LoadScratch(m) == IF m[1] \in FloatConst THEN {TempRhs} ELSE {}

Perform(m, scratch) ==
  /\ content' = [l \in Location |->
                   IF l \in {m[2]} \cup scratch THEN Value(m) ELSE content[l]]
  /\ todo' = todo \ {m}
  /\ UNCHANGED <<moves, class, pass>>

\* Faulty variant of StoreOne: the loads of pass 3 happen in the same pass.
StoreOrLoadOne ==
  /\ pass = "memory"
  /\ \E m \in todo \cup ToRegister(class) : Perform(m, StoreScratch(m))

\* Pass 1, one move: all -> memory.
StoreOne ==
  /\ pass = "memory"
  /\ \E m \in todo : Perform(m, StoreScratch(m))

\* Pass 2: topo_sort and its movs.
MoveRegisters ==
  /\ pass = "memory" /\ todo = {}
  /\ content' = [l \in Location |->
                   IF \E m \in BetweenRegisters(class) : m[2] = l
                   THEN content[(CHOOSE m \in BetweenRegisters(class) : m[2] = l)[1]]
                   ELSE content[l]]
  /\ pass' = "register"
  /\ todo' = ToRegister(class)
  /\ UNCHANGED <<moves, class>>

\* Pass 3, one move: value or memory -> register.
LoadOne ==
  /\ pass = "register"
  /\ \E m \in todo : Perform(m, LoadScratch(m))

\* The integers are moved; the same passes for the floats.
Floats ==
  /\ pass = "register" /\ todo = {} /\ class = "int"
  /\ class' = "float" /\ pass' = "memory"
  /\ todo' = ToMemory("float")
  /\ UNCHANGED <<moves, content>>

Done == pass = "register" /\ todo = {} /\ class = "float"
Return == Done /\ UNCHANGED vars

Next == StoreOne \/ MoveRegisters \/ LoadOne \/ Floats \/ Return

-----------------------------------------------------------------------------
\* The moves that are not performed yet.
Pending ==
  todo \cup (IF pass = "memory" THEN BetweenRegisters(class) \cup ToRegister(class) ELSE {})
       \cup (IF class = "int" THEN UNION {ToMemory("float"), BetweenRegisters("float"),
                                         ToRegister("float")}
                              ELSE {})

TypeOK ==
  /\ Legal(moves)
  /\ class \in Class /\ pass \in {"memory", "register"}
  /\ todo \subseteq (IF pass = "memory" THEN ToMemory(class) ELSE ToRegister(class))
  /\ content \in [Location -> Location \cup Constants]

\* "2. do a topological sort, move in dataflow order": nothing is overwritten
\* while a move that has still to be performed reads it.
DataflowOrder ==
  \A m \in Pending : m[1] \notin Constants => content[m[1]] = m[1]

\* At the end every target holds what its source held at the start.
AllDelivered == Done => \A m \in moves : content[m[2]] = m[1]

\* The scratch registers apart, nothing but the targets changes: any other
\* location may hold a live value.
BystandersIntact ==
  \A l \in Location \ Temps : (\A m \in moves : m[2] # l) => content[l] = l
=============================================================================
