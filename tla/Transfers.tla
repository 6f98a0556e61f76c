---------------------------- MODULE Transfers ------------------------------
(***************************************************************************)
(* Three transfers of values in the generated code, side by side:          *)
(* parallel_mov, the end of a block (BlockEdge) and a call (CallFrame).    *)
(* A behaviour belongs to one of the three; TransferNext never mixes them. *)
(***************************************************************************)
EXTENDS ParallelMov, Integers

CONSTANTS
  Val, Place, Block, Kind, Reload,                                     \* of BlockEdge
  IntRegs, FloatRegs, NInt, NFloat, Lhs, Rhs, Frame, Slots, MaxArgs, Results   \* of CallFrame

VARIABLES part,                                                    \* which of them
          kind, target, before, after, want, mapping, code, arrived, pc,
          args, live, dest, spread, k, regs, mem, sp, fp, growth

edge == <<kind, target, before, after, want, mapping, code, arrived>>
call == <<args, live, dest, spread, k, regs, mem, sp, fp, growth>>
mov  == <<moves, class, pass, todo>>

E == INSTANCE BlockEdge
C == INSTANCE CallFrame WITH TempLhs <- Lhs, TempRhs <- Rhs

ASSUME PartsAssumption == E!BranchAssumption /\ C!CallAssumption

Targets(c) == Reg[c] \cup Slot[c]

\* Each target has one source or none (itself stands for none).
Sources(c) == [Targets(c) -> Targets(c) \cup Const[c]]
MovesOf(source) == {<<source[t], t>> : t \in {u \in DOMAIN source : source[u] # u}}

MovInit ==
  \E si \in Sources("int"), sf \in Sources("float") :
    /\ Legal(MovesOf(si) \cup MovesOf(sf))
    /\ InitWith(MovesOf(si) \cup MovesOf(sf))

\* The parts that are left out.
NoMov == moves = {} /\ class = "float" /\ pass = "none" /\ todo = {}
NoEdge ==
  /\ kind = "none" /\ target = <<>> /\ before = <<>> /\ after = <<>> /\ want = <<>>
  /\ mapping = {} /\ code = <<>> /\ arrived = "none"
NoCall ==
  /\ args = <<>> /\ live = {} /\ dest = {} /\ spread = FALSE /\ k = 0
  /\ regs = <<>> /\ mem = <<>> /\ sp = 0 /\ fp = 0 /\ growth = 0

TransferInit ==
  \/ part = "mov" /\ MovInit /\ NoEdge /\ NoCall /\ pc = 0
  \/ part = "edge" /\ E!Init /\ NoMov /\ NoCall
  \/ part = "call" /\ C!Init /\ NoMov /\ NoEdge /\ content = <<>>

Mov == part = "mov" /\ Next /\ UNCHANGED <<part, edge, call, pc>>
Edge == part = "edge" /\ E!Next /\ UNCHANGED <<part, mov, call>>
Call == part = "call" /\ C!Next /\ UNCHANGED <<part, mov, edge, content>>

TransferNext == Mov \/ Edge \/ Call
TransferSpec == TransferInit /\ [][TransferNext]_<<part, mov, edge, call, content, pc>>

-----------------------------------------------------------------------------
\* A block finds the values it reads where it expects them (see BlockEdge).
BothEdgesDeliver == part = "edge" => E!BothEdgesDeliver

\* A callee finds its parameters, and the caller what it needs and the result, behind
\* whatever the frames and saved registers do to sp (see CallFrame).
ArgumentsArrive == part = "call" => C!ArgumentsArrive
CallerResumes == part = "call" => C!CallerResumes
=============================================================================
