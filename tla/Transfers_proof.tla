-------------------------- MODULE Transfers_proof --------------------------
(***************************************************************************)
(* What parallel_mov and a block's end deliver and what a call gives back, *)
(* for any moves, values, places, registers, arguments and frames.         *)
(***************************************************************************)
EXTENDS Transfers, Sequences, FiniteSetTheorems, TLAPS

(***************************************************************************)
(* parallel_mov, for every set of moves that neither reads a slot it       *)
(* writes nor touches a scratch register.                                  *)
(***************************************************************************)
Apart == SlotsApart /\ Temps \cap Operands = {}

\* A move that is no longer pending has been performed, for good.
Performed == \A m \in moves \ Pending : content[m[2]] = m[1]

IInv == TypeOK /\ DataflowOrder /\ Performed /\ BystandersIntact

Start == \E ms : Legal(ms) /\ InitWith(ms)

-----------------------------------------------------------------------------
\* The moves that write a slot, a register from a register and a register from
\* elsewhere: every legal move is in exactly one of these of one class.
LEMMA Kinds ==
  ASSUME Legal(moves), NEW m \in moves
  PROVE  \/ m \in ToMemory("int") \/ m \in BetweenRegisters("int")
         \/ m \in ToRegister("int") \/ m \in ToMemory("float")
         \/ m \in BetweenRegisters("float") \/ m \in ToRegister("float")
BY DEF Legal, Class, ToMemory, BetweenRegisters, ToRegister, To, From,
       Reg, Slot, Const

\* What a move reads is an operand or a constant, what it writes is an operand.
LEMMA Ends ==
  ASSUME Legal(moves), NEW m \in moves
  PROVE  m[1] \in Operands \cup Constants /\ m[2] \in Operands
BY DEF Legal, Class, Operands, Constants, Reg, Slot, Const

\* The operands of the two classes are different, and slots are not registers.
LEMMA Disjoint ==
  ASSUME NEW c \in Class
  PROVE  /\ Reg[c] \cap Slot[c] = {}
         /\ (Reg[c] \cup Slot[c]) \cap Constants = {}
         /\ (Reg["int"] \cup Slot["int"]) \cap (Reg["float"] \cup Slot["float"]) = {}
BY MovAssumption DEF Class, Reg, Slot, Operands, Location

\* What a pass has still to do are requested moves.
LEMMA TodoMoves == ASSUME TypeOK PROVE todo \subseteq moves
BY DEF TypeOK, ToMemory, ToRegister, To, From

LEMMA InitIInv == Start => IInv
<1> SUFFICES ASSUME NEW ms, Legal(ms), InitWith(ms) PROVE IInv
  BY DEF Start
<1>1. /\ moves = ms /\ class = "int" /\ pass = "memory" /\ Legal(moves)
      /\ todo = ToMemory("int") /\ content = [l \in Location |-> l]
  BY DEF InitWith, ToMemory, Slot
<1>2. TypeOK
  BY <1>1 DEF TypeOK, Class, ToMemory, To
<1>3. DataflowOrder
  <2>1. Pending \subseteq moves
    BY <1>1 DEF Pending, ToMemory, ToRegister, BetweenRegisters, To, From
  <2> QED
    BY <1>1, <2>1, Ends DEF DataflowOrder, Location
<1>4. Performed
  BY <1>1, Kinds DEF Performed, Pending
<1>5. BystandersIntact
  BY <1>1 DEF BystandersIntact
<1> QED
  BY <1>1, <1>2, <1>3, <1>4, <1>5 DEF IInv

\* Performing one pending move keeps the invariant when no pending move reads
\* what it writes.
LEMMA PerformIInv ==
  ASSUME Apart, IInv, NEW m \in todo, NEW scratch \in SUBSET Temps,
         Perform(m, scratch), \A p \in Pending : p[1] # m[2]
  PROVE  IInv'
<1>1. /\ content' = [l \in Location |->
                       IF l \in {m[2]} \cup scratch THEN Value(m) ELSE content[l]]
      /\ todo' = todo \ {m} /\ moves' = moves /\ class' = class /\ pass' = pass
  BY DEF Perform
<1>2. /\ m \in moves /\ m \in Pending /\ Legal(moves)
      /\ content \in [Location -> Location \cup Constants]
  BY TodoMoves DEF IInv, TypeOK, Pending
<1>3. Value(m) = m[1] /\ m[2] \in Operands /\ m[1] \in Operands \cup Constants
  BY <1>2, Ends DEF Value, IInv, DataflowOrder
<1>4. /\ Pending' \subseteq Pending /\ Pending \ Pending' \subseteq {m}
      /\ Pending \subseteq moves
  BY <1>1, TodoMoves DEF Pending, ToMemory, ToRegister, BetweenRegisters, To, From, IInv
<1>5. todo' \subseteq (IF pass' = "memory" THEN ToMemory(class)' ELSE ToRegister(class)')
  BY <1>1 DEF IInv, TypeOK, ToMemory, ToRegister, To, From
<1>6. TypeOK'
  <2>1. content' \in [Location -> Location \cup Constants]
    BY <1>1, <1>2, <1>3 DEF Location
  <2> QED
    BY <1>1, <1>5, <2>1 DEF IInv, TypeOK
<1>7. DataflowOrder'
  <2> SUFFICES ASSUME NEW p \in Pending', p[1] \notin Constants
               PROVE  content'[p[1]] = p[1]
    BY DEF DataflowOrder
  <2>1. p \in Pending /\ p \in moves /\ p[1] # m[2]
    BY <1>4
  <2>2. p[1] \in Operands
    BY <1>2, <2>1, Ends
  <2>3. content[p[1]] = p[1]
    BY <2>1 DEF IInv, DataflowOrder
  <2> QED
    BY <1>1, <2>1, <2>2, <2>3 DEF Apart, Location
<1>8. Performed'
  <2> SUFFICES ASSUME NEW q \in moves, q \notin Pending' PROVE content'[q[2]] = q[1]
    BY <1>1 DEF Performed
  <2>1. q[2] \in Location /\ q[2] \notin Temps
    BY <1>2, Ends DEF Apart, Location
  <2>2. CASE q = m
    BY <1>1, <1>3, <2>1, <2>2
  <2>3. CASE q # m
    <3>1. q \notin Pending /\ q[2] # m[2]
      BY <1>2, <1>4, <2>3 DEF Legal
    <3>2. content[q[2]] = q[1]
      BY <3>1 DEF IInv, Performed
    <3> QED
      BY <1>1, <2>1, <3>1, <3>2
  <2> QED
    BY <2>2, <2>3
<1>9. BystandersIntact'
  BY <1>1, <1>2 DEF IInv, BystandersIntact
<1> QED
  BY <1>5, <1>6, <1>7, <1>8, <1>9 DEF IInv

\* A store writes a slot, which no move reads.
LEMMA StoreIInv == ASSUME Apart, IInv, StoreOne PROVE IInv'
<1>1. PICK m \in todo : Perform(m, StoreScratch(m)) /\ pass = "memory"
  BY DEF StoreOne
<1>2. m \in moves /\ m[2] \in Slot[class] /\ Legal(moves) /\ class \in Class
  BY <1>1 DEF IInv, TypeOK, ToMemory, To
<1>3. \A p \in moves : p[1] # m[2]
  BY <1>2 DEF Apart, Legal, Slot, Class
<1>4. Pending \subseteq moves
  BY DEF Pending, ToMemory, ToRegister, BetweenRegisters, To, From, IInv, TypeOK
<1>5. StoreScratch(m) \in SUBSET Temps
  BY DEF StoreScratch, Temps
<1> QED
  BY <1>1, <1>3, <1>4, <1>5, PerformIInv

\* A load of the last pass writes a register, which no move left reads.
LEMMA LoadIInv == ASSUME Apart, IInv, LoadOne PROVE IInv'
<1>1. PICK m \in todo : Perform(m, LoadScratch(m)) /\ pass = "register"
  BY DEF LoadOne
<1>2. m \in moves /\ m[2] \in Reg[class] /\ class \in Class
  BY <1>1 DEF IInv, TypeOK, ToRegister, To, From
<1>3. \A p \in Pending : p[1] # m[2]
  <2> SUFFICES ASSUME NEW p \in Pending PROVE p[1] # m[2]
    OBVIOUS
  <2>1. CASE p \in todo
    <3>1. p[1] \in Slot[class] \cup Const[class]
      BY <1>1, <2>1 DEF IInv, TypeOK, ToRegister, To, From
    <3>2. Const[class] \subseteq Constants
      BY <1>2 DEF Const, Constants, Class
    <3> QED
      BY <1>2, <3>1, <3>2, Disjoint
  <2>2. CASE p \notin todo
    <3>1. /\ class = "int"
          /\ p[1] \in Reg["float"] \cup Slot["float"] \cup Const["float"]
      <4>1. class = "int" /\ p \in moves /\ p[2] \in Reg["float"] \cup Slot["float"]
        BY <1>1, <2>2 DEF Pending, ToMemory, ToRegister, BetweenRegisters, To, From
      <4>2. PICK c \in Class : /\ p[2] \in Reg[c] \cup Slot[c]
                               /\ p[1] \in Reg[c] \cup Slot[c] \cup Const[c]
        BY <4>1 DEF IInv, TypeOK, Legal
      <4>3. c = "float"
        BY <4>1, <4>2, Disjoint DEF Class
      <4> QED
        BY <4>1, <4>2, <4>3
    <3>2. Const["float"] \subseteq Constants
      BY DEF Const, Constants
    <3> QED
      BY <1>2, <3>1, <3>2, Disjoint
  <2> QED
    BY <2>1, <2>2
<1>4. LoadScratch(m) \in SUBSET Temps
  BY DEF LoadScratch, Temps
<1> QED
  BY <1>1, <1>3, <1>4, PerformIInv

\* The register moves of a class happen at once: they write no slot and no
\* register of the other class, and nothing else that is pending reads a
\* register of this one.
LEMMA MoveRegistersIInv == ASSUME Apart, IInv, MoveRegisters PROVE IInv'
<1> DEFINE moved == BetweenRegisters(class)
<1>1. /\ pass = "memory" /\ todo = {} /\ pass' = "register"
      /\ todo' = ToRegister(class) /\ moves' = moves /\ class' = class
      /\ content' = [l \in Location |->
                       IF \E m \in moved : m[2] = l
                       THEN content[(CHOOSE m \in moved : m[2] = l)[1]]
                       ELSE content[l]]
  BY DEF MoveRegisters
<1>2. /\ Legal(moves) /\ class \in Class /\ moved \subseteq moves
      /\ moved \subseteq Pending
      /\ content \in [Location -> Location \cup Constants]
  BY <1>1 DEF IInv, TypeOK, Pending, BetweenRegisters, To, From
<1>3. \A m \in moved : /\ m[1] \in Reg[class] /\ m[2] \in Reg[class]
                       /\ m[1] \in Operands /\ m[2] \in Operands
  BY <1>2 DEF BetweenRegisters, To, From, Operands
<1>4. \A m \in moved : content[m[1]] = m[1]
  <2>1. \A m \in moved : m[1] \notin Constants
    BY <1>2, <1>3, Disjoint
  <2> QED
    BY <1>2, <2>1 DEF IInv, DataflowOrder
<1>5. \A m \in moved : content'[m[2]] = m[1]
  <2> SUFFICES ASSUME NEW m \in moved PROVE content'[m[2]] = m[1]
    OBVIOUS
  <2>1. (CHOOSE q \in moved : q[2] = m[2]) = m
    BY <1>2 DEF Legal
  <2>2. m[2] \in Location
    BY <1>3 DEF Location
  <2> QED
    BY <1>1, <1>4, <2>1, <2>2
<1>6. \A l \in Location : (\A m \in moved : m[2] # l) => content'[l] = content[l]
  BY <1>1
<1>7. /\ Pending' \subseteq Pending /\ Pending \ Pending' \subseteq moved
      /\ Pending \subseteq moves
  BY <1>1 DEF Pending, ToMemory, ToRegister, BetweenRegisters, To, From
<1>8. ToRegister(class)' = ToRegister(class)
  BY <1>1 DEF ToRegister, To, From
<1>9. TypeOK'
  <2>1. content' \in [Location -> Location \cup Constants]
    <3>1. \A l \in Location : content'[l] \in Location \cup Constants
      <4> SUFFICES ASSUME NEW l \in Location
                   PROVE  content'[l] \in Location \cup Constants
        OBVIOUS
      <4>1. CASE \E m \in moved : m[2] = l
        BY <1>3, <1>5, <4>1 DEF Location
      <4>2. CASE \A m \in moved : m[2] # l
        BY <1>2, <1>6, <4>2
      <4> QED
        BY <4>1, <4>2
    <3> QED
      BY <1>1, <3>1
  <2> QED
    BY <1>1, <1>2, <1>8, <2>1 DEF IInv, TypeOK
<1>10. DataflowOrder'
  <2> SUFFICES ASSUME NEW p \in Pending', p[1] \notin Constants
               PROVE  content'[p[1]] = p[1]
    BY DEF DataflowOrder
  <2>1. p \in Pending /\ p \in moves /\ p[1] \in Operands
    BY <1>2, <1>7, Ends
  <2>2. \A m \in moved : m[2] # p[1]
    <3>1. CASE p \in ToRegister(class)
      <4>1. p[1] \in Slot[class]
        BY <1>2, <2>1, <3>1 DEF ToRegister, To, From, Const, Constants, Class
      <4> QED
        BY <1>2, <1>3, <4>1, Disjoint
    <3>2. CASE p \notin ToRegister(class)
      <4>1. class = "int" /\ p[2] \in Reg["float"] \cup Slot["float"]
        BY <1>1, <3>2 DEF Pending, ToMemory, ToRegister, BetweenRegisters, To, From
      <4>2. PICK c \in Class : /\ p[2] \in Reg[c] \cup Slot[c]
                               /\ p[1] \in Reg[c] \cup Slot[c] \cup Const[c]
        BY <1>2, <2>1 DEF Legal
      <4>3. c = "float"
        BY <4>1, <4>2, Disjoint DEF Class
      <4>4. p[1] \in Reg["float"] \cup Slot["float"]
        BY <4>2, <4>3 DEF Const, Constants
      <4> QED
        BY <1>3, <4>1, <4>4, Disjoint
    <3> QED
      BY <3>1, <3>2
  <2>3. content[p[1]] = p[1]
    BY <2>1 DEF IInv, DataflowOrder
  <2> QED
    BY <1>6, <2>1, <2>2, <2>3 DEF Location
<1>11. Performed'
  <2> SUFFICES ASSUME NEW q \in moves, q \notin Pending' PROVE content'[q[2]] = q[1]
    BY <1>1 DEF Performed
  <2>1. CASE q \in moved
    BY <1>5, <2>1
  <2>2. CASE q \notin moved
    <3>1. q \notin Pending /\ q[2] \in Location
      BY <1>2, <1>7, <2>2, Ends DEF Location
    <3>2. \A m \in moved : m[2] # q[2]
      BY <1>2, <2>2 DEF Legal
    <3> QED
      BY <1>6, <3>1, <3>2 DEF IInv, Performed
  <2> QED
    BY <2>1, <2>2
<1>12. BystandersIntact'
  BY <1>1, <1>2, <1>6 DEF IInv, BystandersIntact
<1> QED
  BY <1>8, <1>9, <1>10, <1>11, <1>12 DEF IInv

\* Turning to the floats changes what todo stands for, not what is pending.
LEMMA FloatsIInv == ASSUME IInv, Floats PROVE IInv'
<1>1. /\ pass = "register" /\ todo = {} /\ class = "int" /\ class' = "float"
      /\ pass' = "memory" /\ todo' = ToMemory("float")
      /\ moves' = moves /\ content' = content
  BY DEF Floats
<1>2. Pending' = Pending
  BY <1>1 DEF Pending, ToMemory, ToRegister, BetweenRegisters, To, From
<1>3. TypeOK'
  BY <1>1 DEF IInv, TypeOK, Class, ToMemory, To
<1> QED
  BY <1>1, <1>2, <1>3 DEF IInv, DataflowOrder, Performed, BystandersIntact

\* Every step of parallel_mov keeps IInv.
LEMMA Inductive ==
  ASSUME Apart, IInv, [Next]_vars
  PROVE  IInv'
<1>1. CASE StoreOne
  BY <1>1, StoreIInv
<1>2. CASE MoveRegisters
  BY <1>2, MoveRegistersIInv
<1>3. CASE LoadOne
  BY <1>3, LoadIInv
<1>4. CASE Floats
  BY <1>4, FloatsIInv
<1>5. CASE UNCHANGED vars
  BY <1>5 DEF vars, IInv, TypeOK, DataflowOrder, Performed,
              BystandersIntact, Pending, ToMemory, ToRegister,
              BetweenRegisters, To, From
<1> QED
  BY <1>1, <1>2, <1>3, <1>4, <1>5 DEF Next, Return

\* When no slot is both read and written and no operand is a scratch register,
\* nothing is overwritten before it was read, every target ends with what its
\* source held, and nothing else changes.
THEOREM Moves ==
  Apart => (TransferSpec => [](/\ DataflowOrder /\ AllDelivered
                               /\ part = "mov" => BystandersIntact))
<1> SUFFICES ASSUME Apart
             PROVE  TransferSpec => [](/\ DataflowOrder /\ AllDelivered
                                       /\ part = "mov" => BystandersIntact)
  OBVIOUS
<1> DEFINE Inv == IF part = "mov" THEN IInv ELSE NoMov
<1>1. TransferInit => Inv
  <2>1. MovInit => Start
    BY DEF MovInit, Start
  <2> QED
    BY <2>1, InitIInv DEF TransferInit
<1>2. Inv /\ [TransferNext]_<<part, mov, edge, call, content, pc>> => Inv'
  <2> SUFFICES ASSUME Inv, [TransferNext]_<<part, mov, edge, call, content, pc>>
               PROVE  Inv'
    OBVIOUS
  <2>1. CASE part = "mov"
    <3>1. part' = part /\ [Next]_vars
      BY <2>1 DEF TransferNext, Mov, Edge, Call, mov, vars
    <3> QED
      BY <2>1, <3>1, Inductive
  <2>2. CASE part # "mov"
    <3>1. part' = part /\ UNCHANGED mov
      BY <2>2 DEF TransferNext, Mov, Edge, Call
    <3> QED
      BY <2>2, <3>1 DEF NoMov, mov
  <2> QED
    BY <2>1, <2>2
<1>3. Inv => /\ DataflowOrder /\ AllDelivered
             /\ part = "mov" => BystandersIntact
  <2>1. NoMov => DataflowOrder /\ AllDelivered
    BY DEF NoMov, DataflowOrder, Pending, AllDelivered
  <2>2. IInv => DataflowOrder /\ AllDelivered /\ BystandersIntact
    BY DEF IInv, TypeOK, Performed, AllDelivered, Done, Pending
  <2> QED
    BY <2>1, <2>2
<1> QED
  BY <1>1, <1>2, <1>3, PTL DEF TransferSpec

-----------------------------------------------------------------------------
(***************************************************************************)
(* The end of a block.                                                     *)
(***************************************************************************)
Then == target["then"]
Else == target["else"]

EdgeType ==
  /\ kind \in E!AllKinds
  /\ target \in [{"then", "else"} -> Block]
  /\ (kind = "jump") <=> Then = Else
  /\ before \in E!Locations /\ after \in E!Locations
  /\ \A b \in Block : \A p \in DOMAIN want[b] : p \in Place /\ want[b][p] \in Val
  /\ DOMAIN content = Place

\* Every value is where f says.
At(f) == \A v \in Val : content[f[v]] = {v}
Sent(b) == E!Copies(E!EdgeMoves(b))

\* Item n of the code of each kind of branch.
Item(n) ==
  IF kind = "jump"
  THEN CASE n = 1 -> E!ResolveSplit [] n = 2 -> Sent(Then) [] n = 3 -> E!Jump(Then)
  ELSE CASE n = 1 -> (IF kind = "int" THEN E!BranchInner ELSE E!ResolveSplit)
         [] n = 2 -> (IF kind = "int" THEN E!ResolveSplit ELSE Sent(Then))
         [] n = 3 -> (IF kind = "int" THEN Sent(Then) ELSE E!BranchInner)
         [] n = 4 -> E!Jump(Then) [] n = 5 -> Sent(Else) [] n = 6 -> E!Jump(Else)
Last == IF kind = "jump" THEN 3 ELSE 6

\* What the second target relies on (the antecedent of E!BothEdgesDeliver).
Spared == IF kind = "int" THEN after = before ELSE E!EdgeMoves(Then) = {}

Progress ==
  CASE kind = "jump"  -> /\ pc = 1 => At(before)
                         /\ pc = 2 => At(after)
                         /\ pc = 3 => E!Delivered(Then)
    [] kind = "int"   -> /\ pc \in {1, 2} => At(before)
                         /\ pc = 3 => At(after)
                         /\ pc = 4 => E!Delivered(Then)
                         /\ pc = 5 /\ Spared => At(after)
                         /\ pc = 6 /\ Spared => E!Delivered(Else)
    [] kind = "float" -> /\ pc = 1 => At(before)
                         /\ pc = 2 => At(after)
                         /\ pc \in {3, 4} => E!Delivered(Then)
                         /\ pc \in {3, 5} /\ Spared => At(after)
                         /\ pc = 6 /\ Spared => E!Delivered(Else)

EdgeInv ==
  /\ EdgeType
  /\ code = <<>> => mapping = Block /\ pc = 1 /\ arrived = "none" /\ At(before)
  /\ code # <<>> => /\ Len(code) = Last /\ \A n \in 1 .. Last : code[n] = Item(n)
                    /\ pc \in 1 .. Last /\ Progress
                    /\ arrived # "none" => code[pc] = E!Jump(arrived)

\* At the start nothing is emitted and every value is where it was at the branch.
LEMMA EdgeStart == ASSUME E!Init PROVE EdgeInv
<1>1. EdgeType
  <2>1. \A b \in Block : \A p \in DOMAIN want[b] : p \in Place /\ want[b][p] \in Val
    <3> SUFFICES ASSUME NEW b \in Block, NEW p \in DOMAIN want[b]
                 PROVE  p \in Place /\ want[b][p] \in Val
      OBVIOUS
    <3>1. want[b] \in E!Wishes
      BY DEF E!Init
    <3>2. PICK P \in SUBSET Place : want[b] \in [P -> Val]
      BY <3>1 DEF E!Wishes
    <3> QED
      BY <3>2
  <2>2. kind \in E!AllKinds /\ after \in E!Locations
    BY PartsAssumption DEF E!Init, E!BranchAssumption
  <2> QED
    BY <2>1, <2>2 DEF E!Init, EdgeType, Then, Else
<1>2. At(before)
  BY <1>1 DEF E!Init, At, E!Locations, EdgeType
<1> QED
  BY <1>1, <1>2 DEF E!Init, EdgeInv

\* The code a branch becomes.
LEMMA Emits ==
  ASSUME EdgeInv, E!GenBr PROVE EdgeInv'
<1>1. EdgeType /\ mapping = Block /\ pc = 1 /\ arrived = "none" /\ At(before)
  BY DEF EdgeInv, E!GenBr
<1>2. /\ UNCHANGED <<kind, target, before, after, want, pc, content, arrived>>
      /\ Then \in Block /\ Else \in Block /\ kind \in {"jump", "int", "float"}
  BY <1>1 DEF EdgeType, E!GenBr, Then, Else, E!AllKinds
<1>3. /\ E!ResolveMoves(Then, mapping) = Sent(Then)
      /\ kind # "jump" => E!ResolveMoves(Else, mapping \ {Then}) = Sent(Else)
  BY <1>1, <1>2 DEF E!ResolveMoves, Sent, EdgeType
<1>4. code' # <<>> /\ Len(code') = Last /\ \A n \in 1 .. Last : code'[n] = Item(n)
  <2>1. CASE kind = "jump"
    <3>1. code' = <<E!ResolveSplit, Sent(Then), E!Jump(Then)>>
      BY <2>1, <1>3 DEF E!GenBr, E!GenJump, E!GenIntBranch, E!GenFloatBranch, Then
    <3> QED
      BY <2>1, <3>1 DEF Last, Item
  <2>2. CASE kind = "int"
    <3>1. code' = <<E!BranchInner, E!ResolveSplit>> \o <<Sent(Then)>> \o <<E!Jump(Then)>>
                    \o <<Sent(Else), E!Jump(Else)>>
      BY <2>2, <1>3 DEF E!GenBr, E!GenJump, E!GenIntBranch, E!GenFloatBranch, E!ThenPart,
                        E!ElsePart, Then, Else
    <3> QED
      BY <2>2, <3>1 DEF Last, Item
  <2>3. CASE kind = "float"
    <3>1. code' = <<E!ResolveSplit>> \o <<Sent(Then)>> \o <<E!BranchInner, E!Jump(Then)>>
                    \o <<Sent(Else), E!Jump(Else)>>
      BY <2>3, <1>3 DEF E!GenBr, E!GenJump, E!GenIntBranch, E!GenFloatBranch, E!ThenPart,
                        E!ElsePart, Then, Else
    <3>2. Len(code') = 6 /\ code'[1] = E!ResolveSplit /\ code'[2] = Sent(Then)
      BY <3>1
    <3>3. code'[3] = E!BranchInner /\ code'[4] = E!Jump(Then)
      BY <3>1
    <3>4. code'[5] = Sent(Else) /\ code'[6] = E!Jump(Else)
      BY <3>1
    <3>5. /\ Last = 6 /\ Item(1) = E!ResolveSplit /\ Item(2) = Sent(Then)
          /\ Item(3) = E!BranchInner /\ Item(4) = E!Jump(Then)
          /\ Item(5) = Sent(Else) /\ Item(6) = E!Jump(Else)
      <4>1. kind # "jump" /\ kind # "int"
        BY <2>3
      <4> QED
        BY Z3, <4>1 DEF Last, Item
    <3>6. code' # <<>>
      BY <3>2
    <3>7. \A n \in 1 .. 6 : code'[n] = Item(n)
      <4> SUFFICES ASSUME NEW n \in 1 .. 6 PROVE code'[n] = Item(n)
        OBVIOUS
      <4>1. n \in {1, 2, 3, 4, 5, 6}
        OBVIOUS
      <4> QED
        BY <3>2, <3>3, <3>4, <3>5, <4>1
    <3> QED
      BY <3>2, <3>5, <3>6, <3>7
  <2> QED
    BY <1>2, <2>1, <2>2, <2>3
<1>5. /\ EdgeType' /\ At(before)' /\ Last' = Last
      /\ \A n : Item(n)' = Item(n)
  BY <1>1, <1>2 DEF EdgeType, At, Last, Item, Then, Else, Sent, E!Locations, E!EdgeMoves, E!ResolveSplit
<1>6. Progress'
  <2>1. pc' = 1 /\ pc' \notin {2, 3, 4, 5, 6} /\ At(before)' /\ kind' = kind
    BY <1>1, <1>2, <1>5
  <2> QED
    BY <1>2, <2>1 DEF Progress
<1> QED
  BY <1>1, <1>2, <1>4, <1>5, <1>6 DEF EdgeInv, Last

\* What the places hold after the copies M.
Copied(M) == [p \in Place |->
  LET sources == {m[2] : m \in {x \in M : x[1] = p}}
  IN  IF sources = {} THEN content[p] ELSE UNION {content[q] : q \in sources}]

\* A place that one copy goes to, and a place that none goes to.
LEMMA CopiedTo ==
  ASSUME NEW M, NEW p \in Place, NEW q, <<p, q>> \in M, \A m \in M : m[1] = p => m[2] = q
  PROVE  Copied(M)[p] = content[q]
<1>1. {m[2] : m \in {x \in M : x[1] = p}} = {q}
  <2>1. <<p, q>> \in {x \in M : x[1] = p} /\ <<p, q>>[2] = q
    OBVIOUS
  <2> QED
    BY <2>1
<1>2. UNION {content[r] : r \in {q}} = content[q]
  OBVIOUS
<1> QED
  BY <1>1, <1>2 DEF Copied

LEMMA CopiedNot ==
  ASSUME NEW M, NEW p \in Place, \A m \in M : m[1] # p
  PROVE  Copied(M)[p] = content[p]
<1>1. {m[2] : m \in {x \in M : x[1] = p}} = {}
  OBVIOUS
<1> QED
  BY <1>1 DEF Copied

\* The copies of the split positions take every value to its place behind the branch.
LEMMA SplitCopies ==
  ASSUME EdgeType, At(before), content' = Copied(E!ResolveSplit.moves), UNCHANGED after
  PROVE  At(after)'
<1> DEFINE M == {<<after[v], before[v]>> : v \in {x \in Val : after[x] # before[x]}}
<1>1. E!ResolveSplit.moves = M
  BY DEF E!ResolveSplit, E!Copies
<1> SUFFICES ASSUME NEW v \in Val PROVE content'[after[v]] = {v}
  BY DEF At
<1>2. after[v] \in Place /\ \A w \in Val : after[v] = after[w] => v = w
  BY DEF EdgeType, E!Locations
<1>3. CASE after[v] # before[v]
  <2>1. <<after[v], before[v]>> \in M
    BY <1>3
  <2>2. ASSUME NEW m \in M, m[1] = after[v] PROVE m[2] = before[v]
    <3>1. PICK w \in Val : m = <<after[w], before[w]>>
      OBVIOUS
    <3> QED
      BY <1>2, <2>2, <3>1
  <2>3. Copied(M)[after[v]] = content[before[v]]
    <3> HIDE DEF M
    <3> QED
      BY <1>2, <2>1, <2>2, CopiedTo
  <2> QED
    BY <1>1, <2>3 DEF At
<1>4. CASE after[v] = before[v]
  <2>1. ASSUME NEW m \in M PROVE m[1] # after[v]
    <3>1. PICK w \in Val : after[w] # before[w] /\ m = <<after[w], before[w]>>
      OBVIOUS
    <3> QED
      BY <1>2, <1>4, <3>1
  <2>2. Copied(M)[after[v]] = content[after[v]]
    <3> HIDE DEF M
    <3> QED
      BY <1>2, <2>1, CopiedNot
  <2> QED
    BY <1>1, <1>4, <2>2 DEF At
<1> QED
  BY <1>3, <1>4

\* The copies of an edge give its block what it wants.  Where there are none, a value
\* that is where the block wants it is behind the branch already.
LEMMA EdgeCopies ==
  ASSUME EdgeType, At(after), NEW b \in Block, content' = Copied(Sent(b).moves),
         UNCHANGED want
  PROVE  E!Delivered(b)'
<1> DEFINE from(p) == after[want[b][p]]
           M == {<<p, from(p)>> : p \in {q \in DOMAIN want[b] : from(q) # q}}
<1>1. Sent(b).moves = M
  BY DEF Sent, E!EdgeMoves, E!Copies
<1> SUFFICES ASSUME NEW p \in DOMAIN want[b] PROVE content'[p] = {want[b][p]}
  BY DEF E!Delivered
<1>2. p \in Place /\ want[b][p] \in Val
  BY DEF EdgeType
<1>3. content[from(p)] = {want[b][p]}
  BY <1>2 DEF At
<1>4. CASE from(p) # p
  <2>1. <<p, from(p)>> \in M /\ \A m \in M : m[1] = p => m[2] = from(p)
    BY <1>4
  <2>2. Copied(M)[p] = content[from(p)]
    <3> HIDE DEF M, from
    <3> QED
      BY <1>2, <2>1, CopiedTo
  <2> QED
    BY <1>1, <1>3, <2>2
<1>5. CASE from(p) = p
  <2>1. \A m \in M : m[1] # p
    BY <1>5
  <2>2. Copied(M)[p] = content[p]
    <3> HIDE DEF M
    <3> QED
      BY <1>2, <2>1, CopiedNot
  <2> QED
    BY <1>1, <1>3, <1>5, <2>2
<1> QED
  BY <1>4, <1>5

\* No copies change nothing.
LEMMA NoCopies ==
  ASSUME EdgeType, At(after), content' = Copied({}), UNCHANGED after
  PROVE  At(after)'
<1> SUFFICES ASSUME NEW v \in Val PROVE content'[after[v]] = {v}
  BY DEF At
<1>1. after[v] \in Place
  BY DEF EdgeType, E!Locations
<1>2. Copied({})[after[v]] = content[after[v]]
  BY <1>1, CopiedNot
<1> QED
  BY <1>2 DEF At

\* Nothing but the code and its execution changes.
LEMMA SameEdge ==
  ASSUME UNCHANGED <<kind, target, before, after, want>>
  PROVE  /\ Then' = Then /\ Else' = Else /\ Last' = Last /\ Spared' = Spared
         /\ \A n : Item(n)' = Item(n)
         /\ EdgeType /\ DOMAIN content' = Place => EdgeType'
BY DEF Then, Else, Last, Spared, Item, Sent, EdgeType, E!Locations, E!EdgeMoves, E!ResolveSplit

\* One item of copies is performed.
LEMMA Copies ==
  ASSUME EdgeInv, E!Copy PROVE EdgeInv'
<1>1. /\ code # <<>> /\ arrived = "none" /\ code[pc].op = "copy"
      /\ content' = Copied(code[pc].moves) /\ pc' = pc + 1
      /\ UNCHANGED <<kind, target, before, after, want, mapping, code, arrived>>
  BY DEF E!Copy, E!Running, Copied
<1>2. /\ EdgeType /\ Len(code) = Last /\ \A n \in 1 .. Last : code[n] = Item(n)
      /\ pc \in 1 .. Last /\ Progress
  BY <1>1 DEF EdgeInv
<1>3. /\ code[pc] = Item(pc)
      /\ Then' = Then /\ Else' = Else /\ Last' = Last /\ Spared' = Spared
      /\ \A n : Item(n)' = Item(n)
      /\ EdgeType' /\ Then \in Block /\ Else \in Block
  <2>1. DOMAIN content' = Place
    BY <1>1 DEF Copied
  <2> QED
    BY <1>1, <1>2, <2>1, SameEdge DEF EdgeType, Then, Else
<1>4. CASE kind = "jump"
  <2>1. pc \in {1, 2, 3}
    BY <1>2, <1>4 DEF Last
  <2>2. pc # 3
    BY <1>1, <1>3, <1>4 DEF Item, E!Jump
  <2>3. ASSUME pc = 1 PROVE Progress' /\ pc' \in 1 .. Last
    <3>1. content' = Copied(E!ResolveSplit.moves)
      BY <1>1, <1>3, <1>4, <2>3 DEF Item
    <3>2. At(before)
      BY <1>2, <1>4, <2>3 DEF Progress
    <3>3. At(after)'
      BY <1>1, <1>2, <1>3, <3>1, <3>2, SplitCopies
    <3> QED
      BY <1>1, <1>3, <1>4, <2>3, <3>3 DEF Progress, Last
  <2>4. ASSUME pc = 2 PROVE Progress' /\ pc' \in 1 .. Last
    <3>1. content' = Copied(Sent(Then).moves)
      BY <1>1, <1>3, <1>4, <2>4 DEF Item
    <3>2. At(after)
      BY <1>2, <1>4, <2>4 DEF Progress
    <3>3. E!Delivered(Then)'
      BY <1>1, <1>2, <1>3, <3>1, <3>2, EdgeCopies
    <3> QED
      BY <1>1, <1>3, <1>4, <2>4, <3>3 DEF Progress, Last
  <2> QED
    BY <1>1, <1>2, <1>3, <2>1, <2>2, <2>3, <2>4 DEF EdgeInv
<1>5. CASE kind = "int"
  <2>1. pc \in {1, 2, 3, 4, 5, 6}
    BY <1>2, <1>5 DEF Last
  <2>2. pc \notin {1, 4, 6}
    BY <1>1, <1>3, <1>5 DEF Item, E!Jump, E!BranchInner
  <2>3. ASSUME pc = 2 PROVE Progress' /\ pc' \in 1 .. Last
    <3>1. content' = Copied(E!ResolveSplit.moves)
      BY <1>1, <1>3, <1>5, <2>3 DEF Item
    <3>2. At(before)
      BY <1>2, <1>5, <2>3 DEF Progress
    <3>3. At(after)'
      BY <1>1, <1>2, <1>3, <3>1, <3>2, SplitCopies
    <3> QED
      BY <1>1, <1>3, <1>5, <2>3, <3>3 DEF Progress, Last
  <2>4. ASSUME pc = 3 PROVE Progress' /\ pc' \in 1 .. Last
    <3>1. content' = Copied(Sent(Then).moves)
      BY <1>1, <1>3, <1>5, <2>4 DEF Item
    <3>2. At(after)
      BY <1>2, <1>5, <2>4 DEF Progress
    <3>3. E!Delivered(Then)'
      BY <1>1, <1>2, <1>3, <3>1, <3>2, EdgeCopies
    <3> QED
      BY <1>1, <1>3, <1>5, <2>4, <3>3 DEF Progress, Last
  <2>5. ASSUME pc = 5 PROVE Progress' /\ pc' \in 1 .. Last
    <3>1. content' = Copied(Sent(Else).moves)
      BY <1>1, <1>3, <1>5, <2>5 DEF Item
    <3>2. Spared => At(after)
      BY <1>2, <1>5, <2>5 DEF Progress
    <3>3. Spared => E!Delivered(Else)'
      BY <1>1, <1>2, <1>3, <3>1, <3>2, EdgeCopies
    <3> QED
      BY <1>1, <1>3, <1>5, <2>5, <3>3 DEF Progress, Last
  <2> QED
    BY <1>1, <1>2, <1>3, <2>1, <2>2, <2>3, <2>4, <2>5 DEF EdgeInv
<1>6. CASE kind = "float"
  <2>1. pc \in {1, 2, 3, 4, 5, 6} /\ kind # "jump" /\ kind # "int"
    BY <1>2, <1>6 DEF Last
  <2>2. pc \notin {3, 4, 6}
    BY <1>1, <1>3, <2>1 DEF Item, E!Jump, E!BranchInner
  <2>3. ASSUME pc = 1 PROVE Progress' /\ pc' \in 1 .. Last
    <3>1. content' = Copied(E!ResolveSplit.moves)
      BY <1>1, <1>3, <1>6, <2>1, <2>3 DEF Item
    <3>2. At(before)
      BY <1>2, <1>6, <2>1, <2>3 DEF Progress
    <3>3. At(after)'
      BY <1>1, <1>2, <1>3, <3>1, <3>2, SplitCopies
    <3> QED
      BY <1>1, <1>3, <1>6, <2>1, <2>3, <3>3 DEF Progress, Last
  <2>4. ASSUME pc = 2 PROVE Progress' /\ pc' \in 1 .. Last
    <3>1. Spared => Sent(Then).moves = {}
      BY <1>6 DEF Spared, Sent, E!Copies
    <3>2. content' = Copied(Sent(Then).moves) /\ At(after)
      BY <1>1, <1>2, <1>3, <1>6, <2>1, <2>4 DEF Item, Progress
    <3>3. Spared => At(after)'
      BY <1>1, <1>2, <3>1, <3>2, NoCopies
    <3>4. E!Delivered(Then)'
      BY <1>1, <1>2, <1>3, <3>2, EdgeCopies
    <3> QED
      BY <1>1, <1>3, <1>6, <2>4, <3>3, <3>4 DEF Progress, Last
  <2>5. ASSUME pc = 5 PROVE Progress' /\ pc' \in 1 .. Last
    <3>1. content' = Copied(Sent(Else).moves)
      <4>1. Item(5) = Sent(Else)
        BY <2>1 DEF Item
      <4> QED
        BY <1>1, <1>3, <2>5, <4>1
    <3>2. Spared => At(after)
      BY <1>2, <1>6, <2>1, <2>5 DEF Progress
    <3>3. Spared => E!Delivered(Else)'
      BY <1>1, <1>2, <1>3, <3>1, <3>2, EdgeCopies
    <3> QED
      BY <1>1, <1>3, <1>6, <2>1, <2>5, <3>3 DEF Progress, Last
  <2> QED
    BY <1>1, <1>2, <1>3, <2>1, <2>2, <2>3, <2>4, <2>5 DEF EdgeInv
<1> QED
  BY <1>2, <1>4, <1>5, <1>6 DEF EdgeType, E!AllKinds

\* The condition goes one way or the other.
LEMMA Tests ==
  ASSUME EdgeInv, E!Test PROVE EdgeInv'
<1>1. /\ code # <<>> /\ arrived = "none" /\ code[pc].op = "inner"
      /\ pc' \in {pc + 1, Len(code) - 1}
      /\ UNCHANGED <<kind, target, before, after, want, mapping, code, content, arrived>>
  BY DEF E!Test, E!Running, E!InnerLabel
<1>2. /\ EdgeType /\ Len(code) = Last /\ \A n \in 1 .. Last : code[n] = Item(n)
      /\ pc \in 1 .. Last /\ Progress
  BY <1>1 DEF EdgeInv
<1>3. /\ code[pc] = Item(pc)
      /\ Then' = Then /\ Else' = Else /\ Last' = Last /\ Spared' = Spared
      /\ \A n : Item(n)' = Item(n)
      /\ EdgeType'
  <2>1. DOMAIN content' = Place
    BY <1>1, <1>2 DEF EdgeType
  <2> QED
    BY <1>1, <1>2, <2>1, SameEdge
<1>4. /\ \A f : At(f)' = At(f)
      /\ E!Delivered(Then)' = E!Delivered(Then)
  BY <1>1, <1>3 DEF At, E!Delivered
<1>5. kind # "jump"
  BY <1>1, <1>2, <1>3 DEF Item, Last, E!Jump, Sent, E!ResolveSplit, E!Copies
<1>6. CASE kind = "int"
  <2>1. pc = 1
    BY <1>1, <1>2, <1>3, <1>6 DEF Item, Last, E!Jump, Sent, E!ResolveSplit, E!Copies
  <2>2. pc' \in {2, 5}
    BY <1>1, <1>2, <1>6, <2>1 DEF Last
  <2>3. At(before)' /\ (Spared => At(after)')
    BY <1>1, <1>2, <1>4, <1>6, <2>1 DEF Progress, Spared
  <2> QED
    BY <1>1, <1>2, <1>3, <1>6, <2>2, <2>3 DEF EdgeInv, Progress, Last
<1>7. CASE kind = "float"
  <2>1. pc = 3
    <3>1. kind # "jump" /\ kind # "int"
      BY <1>7
    <3> QED
      BY <1>1, <1>2, <1>3, <3>1 DEF Item, Last, E!Jump, Sent, E!ResolveSplit, E!Copies
  <2>2. pc' \in {4, 5}
    BY <1>1, <1>2, <1>7, <2>1 DEF Last
  <2>3. E!Delivered(Then)' /\ (Spared => At(after)')
    BY <1>1, <1>2, <1>4, <1>7, <2>1 DEF Progress
  <2> QED
    BY <1>1, <1>2, <1>3, <1>7, <2>2, <2>3 DEF EdgeInv, Progress, Last
<1> QED
  BY <1>2, <1>5, <1>6, <1>7 DEF EdgeType, E!AllKinds

\* A successor is reached.
LEMMA Leaves ==
  ASSUME EdgeInv, E!Leave PROVE EdgeInv'
<1>1. /\ code # <<>> /\ arrived = "none" /\ code[pc].op = "jump" /\ arrived' = code[pc].to
      /\ UNCHANGED <<kind, target, before, after, want, mapping, code, pc, content>>
  BY DEF E!Leave, E!Running
<1>2. /\ EdgeType /\ Len(code) = Last /\ \A n \in 1 .. Last : code[n] = Item(n)
      /\ pc \in 1 .. Last /\ Progress
  BY <1>1 DEF EdgeInv
<1>3. /\ code[pc] = Item(pc)
      /\ Then' = Then /\ Else' = Else /\ Last' = Last /\ Spared' = Spared
      /\ \A n : Item(n)' = Item(n)
      /\ EdgeType'
  <2>1. DOMAIN content' = Place
    BY <1>1, <1>2 DEF EdgeType
  <2> QED
    BY <1>1, <1>2, <2>1, SameEdge
<1>4. Item(pc) = E!Jump(arrived')
  <2>1. Item(pc) \in {E!Jump(Then), E!Jump(Else)}
    BY <1>1, <1>2, <1>3 DEF Item, Last, E!BranchInner, Sent, E!ResolveSplit, E!Copies
  <2> QED
    BY <1>1, <1>3, <2>1 DEF E!Jump
<1>5. Progress'
  BY <1>1, <1>2, <1>3 DEF Progress, At, E!Delivered
<1> QED
  BY <1>1, <1>2, <1>3, <1>4, <1>5 DEF EdgeInv

\* What the invariant says of a successor that is reached.
LEMMA Arrival ==
  ASSUME EdgeInv PROVE E!BothEdgesDeliver
<1> SUFFICES ASSUME arrived \in {Then, Else} PROVE E!BothEdgesDeliver
  BY DEF E!BothEdgesDeliver, Then, Else
<1>1. EdgeType /\ Then \in Block /\ Else \in Block /\ arrived # "none"
  BY PartsAssumption DEF EdgeInv, EdgeType, Then, Else, E!BranchAssumption
<1>2. /\ Progress /\ pc \in 1 .. Last
      /\ Item(pc) = E!Jump(arrived)
  BY <1>1 DEF EdgeInv
<1>3. CASE kind = "jump"
  <2>1. pc = 3
    BY <1>2, <1>3 DEF Item, Last, E!Jump, Sent, E!ResolveSplit, E!Copies
  <2> QED
    BY <1>1, <1>2, <1>3, <2>1 DEF Progress, E!BothEdgesDeliver, EdgeType, Then, Else
<1>4. CASE kind # "jump"
  <2>1. pc \in {4, 6}
    BY <1>2, <1>4 DEF Item, Last, E!Jump, Sent, E!ResolveSplit, E!Copies, E!BranchInner
  <2>2. pc = 4 => arrived = Then
    BY <1>2, <1>4 DEF Item, E!Jump
  <2>3. pc = 6 => arrived = Else
    BY <1>2, <1>4 DEF Item, E!Jump
  <2>4. kind \in {"int", "float"} /\ Then # Else
    BY <1>1, <1>4 DEF EdgeType, E!AllKinds
  <2>5. pc = 4 => E!Delivered(Then)
    BY <1>2, <2>4 DEF Progress
  <2>6. pc = 6 /\ Spared => E!Delivered(Else)
    BY <1>2, <2>4 DEF Progress
  <2> QED
    BY <2>1, <2>2, <2>3, <2>4, <2>5, <2>6 DEF E!BothEdgesDeliver, Spared, Then, Else
<1> QED
  BY <1>3, <1>4

\* A block finds the values it reads where it expects them, for any values, places
\* and successors.
THEOREM EdgesDeliver == TransferSpec => []BothEdgesDeliver
<1> DEFINE Inv == part = "edge" => EdgeInv
<1>1. TransferInit => Inv
  BY EdgeStart DEF TransferInit
<1>2. Inv /\ [TransferNext]_<<part, mov, edge, call, content, pc>> => Inv'
  <2> SUFFICES ASSUME Inv, [TransferNext]_<<part, mov, edge, call, content, pc>>, part' = "edge"
               PROVE  EdgeInv'
    OBVIOUS
  <2>1. CASE Edge
    BY <2>1, Emits, Copies, Tests, Leaves DEF Edge, E!Next
  <2>2. CASE Mov
    BY <2>2 DEF Mov
  <2>3. CASE Call
    BY <2>3 DEF Call
  <2>4. CASE UNCHANGED <<part, mov, edge, call, content, pc>>
    <3>1. EdgeInv /\ UNCHANGED <<kind, target, before, after, want, mapping, code, arrived, content, pc>>
      BY <2>4 DEF edge
    <3>2. /\ Then' = Then /\ Else' = Else /\ Last' = Last /\ Spared' = Spared
          /\ \A n : Item(n)' = Item(n)
          /\ EdgeType'
      BY <3>1, SameEdge DEF EdgeInv, EdgeType
    <3>3. Progress => Progress'
      BY <3>1, <3>2 DEF Progress, At, E!Delivered
    <3>4. At(before) => At(before)'
      BY <3>1 DEF At
    <3> QED
      BY <3>1, <3>2, <3>3, <3>4 DEF EdgeInv
  <2> QED
    BY <2>1, <2>2, <2>3, <2>4 DEF TransferNext
<1>3. Inv => BothEdgesDeliver
  BY Arrival DEF BothEdgesDeliver
<1> QED
  BY <1>1, <1>2, <1>3, PTL DEF TransferSpec

(***************************************************************************)
(* A call.                                                                 *)
(***************************************************************************)
Stacked == C!save_on_stack
Growth == C!SaveSize + C!ArgSize
Rank(r) == Cardinality({q \in C!call_saves : C!Before(q, r)})

CallTypes ==
  /\ \E n \in 0 .. MaxArgs : DOMAIN args = 1 .. n
  /\ \A i \in DOMAIN args : args[i].class \in {"int", "float"} /\ args[i].place \in C!Places(args[i].class)
  /\ live \subseteq C!CallerRegs /\ dest \subseteq C!CallerRegs \ live /\ spread \in BOOLEAN
  /\ k \in Nat /\ DOMAIN mem = C!Low .. Frame

\* Counting in CallFrame is the counting the library's theorems are about.
LEMMA Counting ==
  /\ \A s : C!IsFiniteSet(s) = IsFiniteSet(s)
  /\ \A s : C!Cardinality(s) = Cardinality(s)
<1>1. \A s : C!IsFiniteSet(s) = IsFiniteSet(s)
  BY DEF C!IsFiniteSet, IsFiniteSet
<1>2. \A s : C!Cardinality(s) = Cardinality(s)
  BY <1>1 DEF C!Cardinality, Cardinality
<1> QED
  BY <1>1, <1>2

\* A part of a finite set counts less than the whole.
LEMMA CountsLess ==
  ASSUME NEW B, IsFiniteSet(B), NEW A \in SUBSET B, NEW x \in B, x \notin A
  PROVE  IsFiniteSet(A) /\ Cardinality(A) \in Nat /\ Cardinality(B) \in Nat /\ Cardinality(A) < Cardinality(B)
<1>1. IsFiniteSet(A) /\ Cardinality(A) <= Cardinality(B) /\ (Cardinality(B) = Cardinality(A) => B = A)
  BY FS_Subset
<1>2. Cardinality(A) \in Nat /\ Cardinality(B) \in Nat
  BY <1>1, FS_CardinalityType
<1> QED
  BY <1>1, <1>2

\* Arguments of one class have different indexes, arguments on the stack different
\* depths, and there is a word for each.
LEMMA Indexes ==
  ASSUME CallTypes, NEW i \in DOMAIN args
  PROVE  /\ i \in Nat /\ C!Index(i) \in Nat
         /\ \A j \in DOMAIN args : i # j /\ args[i].class = args[j].class => C!Index(i) # C!Index(j)
<1>1. ASSUME NEW j \in DOMAIN args
      PROVE  j \in Nat /\ C!Index(j) \in Nat
  <2> DEFINE X == {x \in 1 .. j - 1 : args[x].class = args[j].class}
  <2>1. j \in Nat /\ IsFiniteSet(1 .. j - 1) /\ X \subseteq 1 .. j - 1
    BY FS_Interval DEF CallTypes
  <2>2. C!Index(j) = Cardinality(X)
    BY Counting DEF C!Index
  <2>3. IsFiniteSet(X)
    <3> HIDE DEF X
    <3> QED
      BY <2>1, FS_Subset
  <2> QED
    BY <2>1, <2>2, <2>3, FS_CardinalityType
<1>2. ASSUME NEW a \in DOMAIN args, NEW b \in DOMAIN args, a < b, args[a].class = args[b].class
      PROVE  C!Index(a) < C!Index(b)
  <2> DEFINE X(c) == {x \in 1 .. c - 1 : args[x].class = args[c].class}
  <2>1. a \in Nat /\ b \in Nat /\ 1 <= a
    BY DEF CallTypes
  <2>2. X(a) \subseteq X(b) /\ a \in X(b) /\ a \notin X(a)
    BY <1>2, <2>1
  <2>3. IsFiniteSet(X(b))
    <3>1. X(b) \in SUBSET (1 .. b - 1)
      OBVIOUS
    <3>2. IsFiniteSet(1 .. b - 1)
      BY <2>1, FS_Interval
    <3> HIDE DEF X
    <3> QED
      BY <3>1, <3>2, FS_Subset
  <2>4. Cardinality(X(a)) < Cardinality(X(b))
    <3> HIDE DEF X
    <3> QED
      BY <2>2, <2>3, CountsLess
  <2> QED
    BY <2>4, Counting DEF C!Index
<1> QED
  BY <1>1, <1>2

LEMMA Depths ==
  ASSUME CallTypes
  PROVE  /\ C!NStack \in Nat /\ C!NStack <= MaxArgs
         /\ \A i \in Stacked : i \in DOMAIN args /\ C!Depth(i) \in 0 .. C!NStack - 1
         /\ \A i, j \in Stacked : i # j => C!Depth(i) # C!Depth(j)
<1>1. PICK n \in 0 .. MaxArgs : DOMAIN args = 1 .. n
  BY DEF CallTypes
<1>2. Stacked \subseteq 1 .. n /\ C!save_on_stack = Stacked
  BY <1>1 DEF Stacked, C!save_on_stack
<1>3. MaxArgs \in Nat
  BY PartsAssumption DEF C!CallAssumption
<1>4. IsFiniteSet(Stacked) /\ Cardinality(Stacked) \in Nat /\ Cardinality(Stacked) <= n
  <2>1. IsFiniteSet(1 .. n) /\ Cardinality(1 .. n) = n /\ Stacked \in SUBSET (1 .. n)
    BY <1>2, <1>3, FS_Interval
  <2> QED
    BY <2>1, FS_Subset, FS_CardinalityType
<1> DEFINE X(c) == {x \in Stacked : x < c}
<1>5. ASSUME NEW i \in Stacked PROVE Cardinality(X(i)) \in Nat /\ Cardinality(X(i)) < Cardinality(Stacked)
  <2>1. X(i) \subseteq Stacked /\ i \notin X(i)
    BY <1>2
  <2> HIDE DEF X
  <2> QED
    BY <1>4, <2>1, CountsLess
<1>6. ASSUME NEW i \in Stacked, NEW j \in Stacked, i < j PROVE Cardinality(X(i)) < Cardinality(X(j))
  <2>1. X(i) \subseteq X(j) /\ i \in X(j) /\ i \notin X(i)
    <3>1. \A x \in Stacked : x \in Nat
      BY <1>2
    <3> QED
      BY <1>6, <3>1
  <2>2. IsFiniteSet(X(j))
    <3>1. X(j) \in SUBSET Stacked
      OBVIOUS
    <3> HIDE DEF X
    <3> QED
      BY <1>4, <3>1, FS_Subset
  <2> HIDE DEF X
  <2> QED
    BY <2>1, <2>2, CountsLess
<1>7. \A i : C!Depth(i) = Cardinality(X(i))
  BY <1>2, Counting DEF C!Depth
<1>8. C!NStack = Cardinality(Stacked)
  BY <1>2, Counting DEF C!NStack
<1> HIDE DEF X
<1>9. \A i, j \in Stacked : i # j => C!Depth(i) # C!Depth(j)
  <2> SUFFICES ASSUME NEW i \in Stacked, NEW j \in Stacked, i # j PROVE C!Depth(i) # C!Depth(j)
    OBVIOUS
  <2>1. i < j \/ j < i
    BY <1>2
  <2> QED
    BY <1>5, <1>6, <1>7, <2>1
<1> QED
  BY <1>1, <1>2, <1>3, <1>4, <1>5, <1>7, <1>8, <1>9

\* Each saved register has a word of its own.
LEMMA Ranks ==
  ASSUME CallTypes
  PROVE  /\ C!SaveSize \in Nat /\ C!SaveSize <= Cardinality(C!CallerRegs) /\ Cardinality(C!CallerRegs) \in Nat
         /\ \A r \in C!call_saves : r \in live /\ Rank(r) \in 0 .. C!SaveSize - 1
         /\ \A q, r \in C!call_saves : q # r => Rank(q) # Rank(r)
<1> DEFINE R == C!call_saves
           X(r) == {q \in R : C!Before(q, r)}
<1>1. R \subseteq live /\ R \subseteq C!CallerRegs
  BY DEF C!call_saves, CallTypes
<1>2. IsFiniteSet(C!CallerRegs)
  <2>1. IsFiniteSet(IntRegs) /\ IsFiniteSet(FloatRegs)
    BY PartsAssumption, Counting DEF C!CallAssumption
  <2>2. IsFiniteSet({"int"} \X IntRegs) /\ IsFiniteSet({"float"} \X FloatRegs)
    BY <2>1, FS_Product, FS_Singleton
  <2> QED
    BY <2>2, FS_Union DEF C!CallerRegs
<1>3. /\ IsFiniteSet(R) /\ Cardinality(R) <= Cardinality(C!CallerRegs)
      /\ Cardinality(R) \in Nat /\ Cardinality(C!CallerRegs) \in Nat
  BY <1>1, <1>2, FS_Subset, FS_CardinalityType
<1>4. \A r \in R : /\ r = <<r[1], r[2]>> /\ r[1] \in {"int", "float"} /\ r[2] \in Nat
  <2> SUFFICES ASSUME NEW r \in R PROVE r = <<r[1], r[2]>> /\ r[1] \in {"int", "float"} /\ r[2] \in Nat
    OBVIOUS
  <2>1. r \in {"int"} \X IntRegs \/ r \in {"float"} \X FloatRegs
    BY <1>1 DEF C!CallerRegs
  <2>2. IntRegs \subseteq Nat /\ FloatRegs \subseteq Nat
    BY PartsAssumption DEF C!CallAssumption
  <2> QED
    BY <2>1, <2>2
<1>5. \A q \in R : ~ C!Before(q, q)
  BY <1>4 DEF C!Before
<1>6. ASSUME NEW q \in R, NEW r \in R, C!Before(q, r) PROVE Cardinality(X(q)) < Cardinality(X(r))
  <2>1. \A p \in R : C!Before(p, q) => C!Before(p, r)
    BY <1>4, <1>6 DEF C!Before
  <2>2. X(q) \subseteq X(r) /\ q \in X(r) /\ q \notin X(q)
    BY <1>5, <1>6, <2>1
  <2>3. IsFiniteSet(X(r))
    BY <1>3, FS_Subset
  <2> HIDE DEF X
  <2> QED
    BY <2>2, <2>3, CountsLess
<1>7. ASSUME NEW r \in R PROVE Cardinality(X(r)) \in Nat /\ Cardinality(X(r)) < Cardinality(R)
  <2>1. X(r) \subseteq R /\ r \notin X(r)
    BY <1>5
  <2> HIDE DEF X, R
  <2> QED
    BY <1>3, <2>1, CountsLess
<1>8. ASSUME NEW q \in R, NEW r \in R, q # r PROVE C!Before(q, r) \/ C!Before(r, q)
  <2>1. q[1] # r[1] \/ q[2] # r[2]
    BY <1>4, <1>8
  <2> QED
    BY <1>4, <2>1 DEF C!Before
<1>9. \A r : Rank(r) = Cardinality(X(r))
  BY DEF Rank
<1>10. C!SaveSize = Cardinality(R)
  BY Counting DEF C!SaveSize
<1> HIDE DEF X
<1>11. ASSUME NEW q \in R, NEW r \in R, q # r PROVE Rank(q) # Rank(r)
  BY <1>6, <1>7, <1>8, <1>9, <1>11
<1> QED
  BY <1>1, <1>3, <1>7, <1>9, <1>10, <1>11

\* The frame fits below the words that are saved, and the memory modelled holds it.
LEMMA Sizes ==
  ASSUME CallTypes
  PROVE  /\ C!SaveSize \in Nat /\ C!ArgSize \in Nat /\ C!NStack \in Nat /\ Growth \in Nat
         /\ C!NStack <= C!ArgSize /\ Growth = C!SaveSize + C!ArgSize
         /\ C!FrameSize = IF spread THEN 2 ELSE 2 + C!NStack
         /\ Frame \in Nat /\ C!Low \in Int /\ C!Low < - Growth - C!FrameSize
<1>1. /\ C!SaveSize \in Nat /\ C!SaveSize <= Cardinality(C!CallerRegs) /\ Cardinality(C!CallerRegs) \in Nat
      /\ C!NStack \in Nat /\ C!NStack <= MaxArgs /\ MaxArgs \in Nat /\ Frame \in Nat
  BY Ranks, Depths, PartsAssumption DEF C!CallAssumption
<1>2. C!ArgSize \in Nat /\ C!NStack <= C!ArgSize /\ C!ArgSize <= C!NStack + 1
  BY <1>1 DEF C!ArgSize, C!Even
<1>3. C!FrameSize = IF spread THEN 2 ELSE 2 + C!NStack
  BY <1>1 DEF C!FrameSize
<1>4. C!Low = - (Cardinality(C!CallerRegs) + 2 * MaxArgs + 4)
  BY Counting DEF C!Low
<1>5. Growth = C!SaveSize + C!ArgSize
  BY DEF Growth
<1> QED
  BY <1>1, <1>2, <1>3, <1>4, <1>5

\* The steps of a call change none of what it was given.
LEMMA SameInput ==
  ASSUME UNCHANGED C!input
  PROVE  /\ UNCHANGED <<args, live, dest, spread>>
         /\ Stacked' = Stacked /\ C!NStack' = C!NStack /\ C!call_saves' = C!call_saves
         /\ C!SaveSize' = C!SaveSize /\ C!ArgSize' = C!ArgSize /\ C!FrameSize' = C!FrameSize
         /\ Growth' = Growth
         /\ \A i : /\ C!Depth(i)' = C!Depth(i) /\ C!Home(i)' = C!Home(i) /\ C!Target(i)' = C!Target(i)
                  /\ C!OnStack(i)' = C!OnStack(i)
         /\ \A r : Rank(r)' = Rank(r)
<1>1. UNCHANGED <<args, live, dest, spread>>
  BY DEF C!input
<1>2. \A i : C!OnStack(i)' = C!OnStack(i) /\ C!Target(i)' = C!Target(i)
  BY <1>1 DEF C!OnStack, C!Index, C!Target
<1>3. C!save_on_stack' = C!save_on_stack
  BY <1>1, <1>2 DEF C!save_on_stack
<1>4. C!call_saves' = C!call_saves
  BY <1>1 DEF C!call_saves
<1>5. C!NStack' = C!NStack /\ C!SaveSize' = C!SaveSize
  BY <1>3, <1>4 DEF C!NStack, C!SaveSize
<1>6. \A i : C!Depth(i)' = C!Depth(i)
  BY <1>3 DEF C!Depth
<1>7. \A i : C!Home(i)' = C!Home(i)
  BY <1>1, <1>6 DEF C!Home
<1>8. \A r : Rank(r)' = Rank(r)
  BY <1>4 DEF Rank
<1> QED
  BY <1>1, <1>2, <1>3, <1>4, <1>5, <1>6, <1>7, <1>8 DEF Stacked, C!ArgSize, C!FrameSize, Growth

\* The caller's frame and the saved registers stay what they are, and sp is where the
\* step of the call has it.
CallBase ==
  /\ CallTypes
  /\ pc \in {"save", "push", "floats", "call", "load", "epilogue", "result", "restore", "done"}
  /\ pc \in {"save", "restore", "done"} => sp = 0 /\ growth = 0
  /\ pc \in {"push", "floats", "call", "result"} => sp = - Growth /\ growth = Growth
  /\ pc \in {"load", "epilogue"} => fp = - Growth /\ sp = - Growth - C!FrameSize /\ growth = Growth
  /\ \A a \in 0 .. Frame : mem[a] = <<"slot", a>>
  /\ IF pc = "save" THEN \A r \in C!CallerRegs : r \in DOMAIN regs /\ regs[r] = r
                    ELSE \A r \in C!call_saves : mem[Rank(r) - C!SaveSize] = r

LEMMA CallStart == ASSUME C!Init PROVE CallBase
<1>1. CallTypes
  <2>1. \E n \in 0 .. MaxArgs : DOMAIN args = 1 .. n
    BY DEF C!Init, C!Lists
  <2>2. \A i \in DOMAIN args : args[i].class \in {"int", "float"} /\ args[i].place \in C!Places(args[i].class)
    <3> SUFFICES ASSUME NEW i \in DOMAIN args
                 PROVE  args[i].class \in {"int", "float"} /\ args[i].place \in C!Places(args[i].class)
      OBVIOUS
    <3>1. args[i] \in UNION {{[class |-> c, place |-> p] : p \in C!Places(c)} : c \in {"int", "float"}}
      BY DEF C!Init, C!Lists
    <3>2. PICK c \in {"int", "float"} : args[i] \in {[class |-> c, place |-> p] : p \in C!Places(c)}
      BY <3>1
    <3>3. PICK p \in C!Places(c) : args[i] = [class |-> c, place |-> p]
      BY <3>2
    <3> QED
      BY <3>3
  <2>3. dest \subseteq C!CallerRegs \ live
    BY DEF C!Init
  <2> QED
    BY <2>1, <2>2, <2>3 DEF C!Init, CallTypes
<1>2. 0 .. Frame \subseteq C!Low .. Frame
  BY <1>1, Sizes
<1> QED
  BY <1>1, <1>2 DEF C!Init, CallBase

\* A step that leaves the words from the saved registers upwards alone.
LEMMA BaseStays ==
  ASSUME CallBase, pc # "save", UNCHANGED C!input, k' \in Nat,
         DOMAIN mem' = DOMAIN mem, \A a \in - C!SaveSize .. Frame : mem'[a] = mem[a]
  PROVE  /\ CallTypes'
         /\ \A a \in 0 .. Frame : mem'[a] = <<"slot", a>>
         /\ \A r \in C!call_saves' : mem'[Rank(r)' - C!SaveSize'] = r
<1>1. CallTypes /\ \A r \in C!call_saves : mem[Rank(r) - C!SaveSize] = r
  BY DEF CallBase
<1>2. CallTypes'
  <2>1. UNCHANGED <<args, live, dest, spread>> /\ C!Low' = C!Low /\ C!CallerRegs' = C!CallerRegs
        /\ \A c : C!Places(c)' = C!Places(c)
    BY SameInput DEF C!Low, C!CallerRegs, C!Places
  <2> QED
    BY <1>1, <2>1 DEF CallTypes
<1>3. C!SaveSize \in Nat /\ Frame \in Nat
  BY <1>1, Sizes
<1>4. \A r \in C!call_saves : Rank(r) - C!SaveSize \in - C!SaveSize .. Frame
  BY <1>1, <1>3, Ranks
<1>5. C!call_saves' = C!call_saves /\ C!SaveSize' = C!SaveSize /\ \A r : Rank(r)' = Rank(r)
  BY SameInput
<1> QED
  BY <1>1, <1>2, <1>3, <1>4, <1>5 DEF CallBase

LEMMA SaveBase == ASSUME CallBase, C!Save PROVE CallBase'
<1>1. /\ CallTypes /\ sp = 0 /\ growth = 0 /\ pc = "save" /\ pc' = "push" /\ k' = 1 /\ UNCHANGED C!input
      /\ \A a \in 0 .. Frame : mem[a] = <<"slot", a>>
      /\ \A r \in C!CallerRegs : r \in DOMAIN regs /\ regs[r] = r
      /\ sp' = sp - C!SaveSize - C!ArgSize /\ growth' = growth + C!SaveSize + C!ArgSize
      /\ DOMAIN mem' = DOMAIN mem
      /\ \A a \in DOMAIN mem : mem'[a] = IF \E r \in C!call_saves : C!SavedAt(r) = a
                                   THEN regs[CHOOSE r \in C!call_saves : C!SavedAt(r) = a] ELSE mem[a]
  BY DEF CallBase, C!Save, C!Goto
<1>2. /\ C!SaveSize \in Nat /\ C!ArgSize \in Nat /\ Growth = C!SaveSize + C!ArgSize /\ Frame \in Nat
      /\ C!Low \in Int /\ C!Low < - C!SaveSize /\ DOMAIN mem = C!Low .. Frame
  <2>1. /\ C!SaveSize \in Nat /\ C!ArgSize \in Nat /\ C!NStack \in Nat
        /\ Growth = C!SaveSize + C!ArgSize /\ Frame \in Nat
        /\ C!Low \in Int /\ C!Low < - Growth - C!FrameSize
        /\ C!FrameSize = IF spread THEN 2 ELSE 2 + C!NStack
    BY <1>1, Sizes
  <2>2. DOMAIN mem = C!Low .. Frame
    BY <1>1 DEF CallTypes
  <2>3. C!FrameSize \in Nat
    BY <2>1
  <2>4. C!Low < - C!SaveSize
    BY <2>1, <2>3
  <2> QED
    BY <2>1, <2>2, <2>4
<1>3. /\ \A r \in C!call_saves : /\ r \in C!CallerRegs /\ Rank(r) \in 0 .. C!SaveSize - 1
                                /\ C!SavedAt(r) = Rank(r) - C!SaveSize
      /\ \A q, r \in C!call_saves : q # r => Rank(q) # Rank(r)
  <2>1. \A r \in C!call_saves : r \in C!CallerRegs /\ Rank(r) \in 0 .. C!SaveSize - 1
    BY <1>1, Ranks DEF CallTypes
  <2>2. \A r : C!SavedAt(r) = sp - C!SaveSize + Rank(r)
    BY Counting DEF C!SavedAt, Rank
  <2> QED
    BY <1>1, <1>2, <2>1, <2>2, Ranks
<1>4. ASSUME NEW a \in 0 .. Frame PROVE mem'[a] = <<"slot", a>>
  <2>1. a \in DOMAIN mem /\ ~ \E r \in C!call_saves : C!SavedAt(r) = a
    BY <1>2, <1>3
  <2> QED
    BY <1>1, <2>1
<1>5. ASSUME NEW r \in C!call_saves PROVE mem'[Rank(r) - C!SaveSize] = r
  <2> DEFINE a == Rank(r) - C!SaveSize
             q == CHOOSE x \in C!call_saves : C!SavedAt(x) = a
  <2>1. a \in DOMAIN mem /\ C!SavedAt(r) = a
    BY <1>2, <1>3
  <2>2. q \in C!call_saves /\ C!SavedAt(q) = a
    BY <2>1
  <2>3. q = r
    <3> HIDE DEF q
    <3> QED
      BY <1>2, <1>3, <2>2
  <2>4. mem'[a] = regs[q]
    <3> HIDE DEF a
    <3> QED
      BY <1>1, <2>1
  <2> QED
    BY <1>1, <1>3, <2>3, <2>4
<1>6. CallTypes'
  <2>1. UNCHANGED <<args, live, dest, spread>> /\ C!Low' = C!Low /\ C!CallerRegs' = C!CallerRegs
        /\ \A c : C!Places(c)' = C!Places(c)
    BY <1>1, SameInput DEF C!Low, C!CallerRegs, C!Places
  <2> QED
    BY <1>1, <2>1 DEF CallTypes
<1>7. sp' = - Growth' /\ growth' = Growth'
  BY <1>1, <1>2, SameInput
<1>8. \A r \in C!call_saves' : mem'[Rank(r)' - C!SaveSize'] = r
  BY <1>1, <1>5, SameInput
<1> QED
  BY <1>1, <1>4, <1>6, <1>7, <1>8 DEF CallBase

\* The steps that write below the saved registers, and those that write no memory.
LEMMA StepBase ==
  ASSUME CallBase, C!Next, ~ C!Save PROVE CallBase'
<1>1. /\ CallTypes /\ C!SaveSize \in Nat /\ C!ArgSize \in Nat /\ C!NStack \in Nat /\ Growth \in Nat
      /\ C!NStack <= C!ArgSize /\ Growth = C!SaveSize + C!ArgSize
      /\ C!FrameSize = IF spread THEN 2 ELSE 2 + C!NStack
      /\ spread \in BOOLEAN /\ k \in Nat
  BY Sizes DEF CallBase, CallTypes
<1>2. \A i \in Stacked : C!Depth(i) \in 0 .. C!NStack - 1
  BY <1>1, Depths
<1>0. DOMAIN mem = C!Low .. Frame /\ C!Low \in Int /\ C!Low < - C!SaveSize
  <2>1. C!Low \in Int /\ C!Low < - Growth - C!FrameSize
    BY <1>1, Sizes
  <2>2. C!FrameSize \in Nat
    BY <1>1
  <2>3. DOMAIN mem = C!Low .. Frame
    BY <1>1 DEF CallTypes
  <2>4. C!Low < - C!SaveSize
    BY <1>1, <2>1, <2>2
  <2> QED
    BY <2>1, <2>3, <2>4
<1> DEFINE Stays == /\ UNCHANGED C!input /\ pc # "save" /\ k' \in Nat
                    /\ DOMAIN mem' = DOMAIN mem /\ \A a \in - C!SaveSize .. Frame : mem'[a] = mem[a]
           Moved == /\ pc' \in {"save", "push", "floats", "call", "load", "epilogue", "result", "restore", "done"}
                    /\ pc' # "save"
                    /\ pc' \in {"restore", "done"} => sp' = 0 /\ growth' = 0
                    /\ pc' \in {"push", "floats", "call", "result"} => sp' = - Growth /\ growth' = Growth
                    /\ pc' \in {"load", "epilogue"} =>
                         fp' = - Growth /\ sp' = - Growth - C!FrameSize /\ growth' = Growth
<1>3. ASSUME Stays, Moved PROVE CallBase'
  <2>1. Growth' = Growth /\ C!FrameSize' = C!FrameSize
    BY <1>3, SameInput
  <2>2. /\ CallTypes'
        /\ \A a \in 0 .. Frame : mem'[a] = <<"slot", a>>
        /\ \A r \in C!call_saves' : mem'[Rank(r)' - C!SaveSize'] = r
    BY <1>3, BaseStays
  <2> QED
    BY <1>3, <2>1, <2>2 DEF CallBase
<1>4. CASE C!Push
  <2>1. PICK i \in C!save_on_stack : mem' = [mem EXCEPT ![sp + C!Depth(i)] = C!Value(args[i].place)]
    BY <1>4 DEF C!Push
  <2>2. /\ pc = "push" /\ pc' = pc /\ k' = k + 1 /\ UNCHANGED C!input /\ sp' = sp /\ growth' = growth
        /\ sp = - Growth /\ growth = Growth
    BY <1>4 DEF C!Push, CallBase
  <2>3. sp + C!Depth(i) < - C!SaveSize
    BY <1>1, <1>2, <2>2 DEF Stacked
  <2>4. Stays
    BY <1>1, <2>1, <2>2, <2>3
  <2> QED
    BY <1>3, <2>2, <2>4
<1>5. CASE C!MoveInts \/ C!MoveFloats
  BY <1>1, <1>3, <1>5 DEF C!MoveInts, C!MoveFloats, C!Goto, CallBase
<1>6. ASSUME NEW large \in BOOLEAN, C!Call(large) PROVE CallBase'
  <2>1. /\ pc = "call" /\ pc' = "load" /\ k' = 1 /\ UNCHANGED C!input /\ fp' = sp /\ sp' = sp - C!FrameSize
        /\ mem' = [mem EXCEPT ![sp' + 1] = <<"ra", 0>>] /\ growth' = growth
        /\ sp = - Growth /\ growth = Growth
    BY <1>6 DEF C!Call, C!Goto, CallBase
  <2>2. sp' + 1 < - C!SaveSize
    BY <1>1, <2>1
  <2>3. Stays
    BY <1>1, <2>1, <2>2
  <2> QED
    BY <1>1, <1>3, <2>1, <2>3
<1>7. CASE C!Load
  <2>1. /\ pc = "load" /\ pc' = pc /\ k' = k + 1 /\ UNCHANGED <<C!input, sp, fp, growth>>
        /\ fp = - Growth /\ sp = - Growth - C!FrameSize /\ growth = Growth
    BY <1>7 DEF C!Load, CallBase
  <2>2. PICK i \in C!save_on_stack :
          IF spread THEN UNCHANGED mem ELSE mem' = [mem EXCEPT ![sp + C!Home(i)[2]] = C!Parameter(i)]
    BY <1>7 DEF C!Load
  <2>3. DOMAIN mem' = DOMAIN mem /\ \A a \in - C!SaveSize .. Frame : mem'[a] = mem[a]
    <3>1. CASE spread
      BY <2>2, <3>1
    <3>2. CASE ~ spread
      <4>1. C!Home(i)[2] = C!Depth(i) + 2 /\ C!Depth(i) \in 0 .. C!NStack - 1
        BY <1>2, <3>2 DEF Stacked, C!Home
      <4>2. sp = - Growth - (2 + C!NStack)
        BY <1>1, <2>1, <3>2
      <4>3. sp + C!Home(i)[2] \in Int /\ sp + C!Home(i)[2] < - C!SaveSize
        BY <1>1, <4>1, <4>2
      <4>4. mem' = [mem EXCEPT ![sp + C!Home(i)[2]] = C!Parameter(i)]
        BY <2>2, <3>2
      <4>5. \A a \in - C!SaveSize .. Frame : a \in DOMAIN mem /\ a # sp + C!Home(i)[2]
        BY <1>1, <1>0, <4>3
      <4> QED
        BY <4>4, <4>5
    <3> QED
      BY <3>1, <3>2
  <2>4. Stays
    BY <1>1, <2>1, <2>3
  <2> QED
    BY <1>3, <2>1, <2>4
<1>8. CASE C!Body
  <2>1. /\ pc = "load" /\ pc' = "epilogue" /\ k' = 1 /\ UNCHANGED <<C!input, sp, fp, growth>>
        /\ fp = - Growth /\ sp = - Growth - C!FrameSize /\ growth = Growth
        /\ mem' = [a \in DOMAIN mem |-> IF a < fp /\ a # sp + 1 THEN C!Junk ELSE mem[a]]
    BY <1>8 DEF C!Body, C!Goto, CallBase
  <2>2. - C!SaveSize >= - Growth
    BY <1>1
  <2>3. \A a \in - C!SaveSize .. Frame : a \in DOMAIN mem /\ ~ a < fp
    BY <1>1, <1>0, <2>1, <2>2
  <2>4. DOMAIN mem' = DOMAIN mem /\ \A a \in - C!SaveSize .. Frame : mem'[a] = mem[a]
    BY <2>1, <2>3
  <2>5. Stays
    BY <2>1, <2>4
  <2> QED
    BY <1>3, <2>1, <2>5
<1>9. CASE C!Epilogue
  <2>1. /\ pc = "epilogue" /\ pc' = "result" /\ k' = 1 /\ UNCHANGED <<C!input, mem, growth>>
        /\ sp = - Growth - C!FrameSize /\ growth = Growth /\ sp' = sp + C!FrameSize
    BY <1>9 DEF C!Epilogue, C!Goto, CallBase
  <2> QED
    BY <1>1, <1>3, <2>1
<1>10. CASE C!TakeResult
  <2>1. /\ pc = "result" /\ pc' = "restore" /\ k' = 1 /\ UNCHANGED <<C!input, mem>>
        /\ sp = - Growth /\ growth = Growth
        /\ sp' = sp + C!SaveSize + C!ArgSize /\ growth' = growth - (C!SaveSize + C!ArgSize)
    BY <1>10 DEF C!TakeResult, C!Goto, CallBase
  <2> QED
    BY <1>1, <1>3, <2>1
<1>11. CASE C!Restore
  BY <1>3, <1>11 DEF C!Restore, C!Goto, CallBase
<1> QED
  BY <1>4, <1>5, <1>6, <1>7, <1>8, <1>9, <1>10, <1>11 DEF C!Next

(***************************************************************************)
(* The arguments of a call.                                                *)
(***************************************************************************)

\* No argument goes to a scratch register.
ScratchFree ==
  \A i \in DOMAIN args : ~ C!OnStack(i) => C!Target(i) \notin {<<"int", Lhs>>, <<"int", Rhs>>}

CallArgs ==
  /\ ScratchFree
  /\ pc = "push" => \A r \in C!CallerRegs : r \in DOMAIN regs /\ regs[r] = r
  /\ pc = "floats" => \A r \in C!CallerRegs : r[1] = "float" => r \in DOMAIN regs /\ regs[r] = r
  /\ pc \in {"floats", "call", "load"} =>
       \A i \in DOMAIN args : ~ C!OnStack(i) /\ (pc = "floats" => args[i].class = "int") =>
         C!Target(i) \in DOMAIN regs /\ regs[C!Target(i)] = args[i].place
  /\ pc \in {"push", "floats", "call", "load"} =>
       \A i \in Stacked : (pc = "push" => C!Depth(i) < k - 1) => mem[C!Depth(i) - Growth] = args[i].place
  /\ pc = "load" =>
       \A i \in Stacked : C!Depth(i) < k - 1 =>
         IF spread THEN C!Home(i) \in DOMAIN regs /\ regs[C!Home(i)] = args[i].place
                   ELSE mem[sp + C!Home(i)[2]] = args[i].place

\* Overlaying functions.
LEMMA Overlay ==
  ASSUME NEW f, NEW g, NEW x
  PROVE  /\ x \in DOMAIN g => x \in DOMAIN C!With(f, g) /\ C!With(f, g)[x] = g[x]
         /\ x \in DOMAIN f /\ x \notin DOMAIN g => x \in DOMAIN C!With(f, g) /\ C!With(f, g)[x] = f[x]
BY DEF C!With

\* An argument is found in its place as long as the registers are what they were.
LEMMA Values ==
  ASSUME CallBase, sp + growth = 0, sp \in Int, growth \in Int, NEW i \in DOMAIN args,
         \A r \in C!CallerRegs : r[1] = args[i].class => r \in DOMAIN regs /\ regs[r] = r
  PROVE  C!Value(args[i].place) = args[i].place
<1> DEFINE p == args[i].place
<1>1. CallTypes /\ \A a \in 0 .. Frame : mem[a] = <<"slot", a>>
  BY DEF CallBase
<1>2. p \in C!Places(args[i].class) /\ args[i].class \in {"int", "float"}
  BY <1>1 DEF CallTypes
<1>3. CASE p \in C!CallerRegs /\ p[1] = args[i].class
  BY <1>2, <1>3 DEF C!Value
<1>4. CASE p \in {"slot"} \X Slots
  <2>1. p[1] = "slot" /\ p[2] \in 1 .. Frame /\ p = <<"slot", p[2]>> /\ Frame \in Nat
    <3>1. PICK n \in Slots : p = <<"slot", n>>
      BY <1>4
    <3>2. Slots \subseteq 1 .. Frame /\ Frame \in Nat
      BY PartsAssumption DEF C!CallAssumption
    <3> QED
      BY <3>1, <3>2
  <2>2. C!Address(p[2]) = p[2]
    BY <2>1 DEF C!Address
  <2>3. mem[p[2]] = p
    BY <1>1, <2>1
  <2>4. C!Value(p) = mem[C!Address(p[2])]
    BY <2>1 DEF C!Value
  <2> QED
    BY <2>2, <2>3, <2>4
<1>5. CASE p = <<"const", 0>>
  BY <1>5 DEF C!Value
<1> QED
  BY <1>2, <1>3, <1>4, <1>5 DEF C!Places

\* parallel_mov takes the arguments of a class to their registers, and changes no
\* register of the other class but the scratch register.
LEMMA MovedArgs ==
  ASSUME CallBase, sp + growth = 0, sp \in Int, growth \in Int, NEW c \in {"int", "float"},
         \A r \in C!CallerRegs : r[1] = c => r \in DOMAIN regs /\ regs[r] = r
  PROVE  LET R == C!Moved(c)
         IN  /\ \A i \in DOMAIN args : ~ C!OnStack(i) /\ args[i].class = c =>
                  C!Target(i) \in DOMAIN R /\ R[C!Target(i)] = args[i].place
             /\ \A r \in DOMAIN regs : r # <<"int", Rhs>> /\ r[1] # c => r \in DOMAIN R /\ R[r] = regs[r]
<1> DEFINE A == C!InRegisters(c)
           f == C!With(regs, C!ConstantTemp(A))
           g == [r \in {C!Target(i) : i \in A} |->
                   C!Value(args[CHOOSE i \in A : C!Target(i) = r].place)]
<1>1. C!Moved(c) = C!With(f, g)
  BY DEF C!Moved
<1>2. A = {i \in DOMAIN args : args[i].class = c /\ ~ C!OnStack(i)}
  BY DEF C!InRegisters
<1>3. DOMAIN C!ConstantTemp(A) \subseteq {<<"int", Rhs>>}
  BY DEF C!ConstantTemp
<1>4. DOMAIN g = {C!Target(i) : i \in A}
  OBVIOUS
<1>5. ASSUME NEW i \in A PROVE g[C!Target(i)] = args[i].place
  <2> DEFINE j == CHOOSE x \in A : C!Target(x) = C!Target(i)
  <2>1. j \in A /\ C!Target(j) = C!Target(i)
    OBVIOUS
  <2>2. j = i
    <3>1. C!Index(j) = C!Index(i)
      BY <2>1 DEF C!Target
    <3>2. CallTypes /\ i \in DOMAIN args /\ j \in DOMAIN args /\ args[i].class = args[j].class
      BY <1>2, <2>1 DEF CallBase
    <3> HIDE DEF j
    <3> QED
      BY <3>1, <3>2, Indexes
  <2>3. C!Value(args[i].place) = args[i].place
    BY <1>2, Values
  <2> HIDE DEF A
  <2>4. g[C!Target(i)] = C!Value(args[j].place)
    OBVIOUS
  <2> QED
    BY <2>2, <2>3, <2>4
<1>6. ASSUME NEW r \in DOMAIN regs, r # <<"int", Rhs>>, r[1] # c
      PROVE  r \in DOMAIN f /\ f[r] = regs[r] /\ r \notin DOMAIN g
  <2>1. r \in DOMAIN f /\ f[r] = regs[r]
    BY <1>3, <1>6, Overlay
  <2>2. \A i \in A : C!Target(i)[1] = c
    BY <1>2 DEF C!Target
  <2> QED
    BY <1>4, <1>6, <2>1, <2>2
<1> HIDE DEF f, g, A
<1>7. ASSUME NEW i \in A
      PROVE  C!Target(i) \in DOMAIN C!With(f, g) /\ C!With(f, g)[C!Target(i)] = args[i].place
  BY <1>4, <1>5, Overlay
<1>8. ASSUME NEW r \in DOMAIN regs, r # <<"int", Rhs>>, r[1] # c
      PROVE  r \in DOMAIN C!With(f, g) /\ C!With(f, g)[r] = regs[r]
  BY <1>6, <1>8, Overlay
<1> QED
  BY <1>1, <1>2, <1>7, <1>8

LEMMA ArgsStep ==
  ASSUME CallBase, CallArgs, C!Next PROVE CallArgs'
<1>1. /\ CallTypes /\ C!SaveSize \in Nat /\ C!ArgSize \in Nat /\ C!NStack \in Nat /\ Growth \in Nat
      /\ C!NStack <= C!ArgSize /\ Growth = C!SaveSize + C!ArgSize
      /\ C!FrameSize = IF spread THEN 2 ELSE 2 + C!NStack
      /\ spread \in BOOLEAN /\ k \in Nat /\ Frame \in Nat
      /\ DOMAIN mem = C!Low .. Frame /\ C!Low \in Int /\ C!Low < - Growth - C!FrameSize
  BY Sizes DEF CallBase, CallTypes
<1>2. /\ \A i \in Stacked : i \in DOMAIN args /\ C!Depth(i) \in 0 .. C!NStack - 1
      /\ \A i, j \in Stacked : i # j => C!Depth(i) # C!Depth(j)
  BY <1>1, Depths
<1>3. /\ Lhs \notin IntRegs /\ Rhs \notin IntRegs
      /\ Lhs \in Nat /\ Rhs \in Nat /\ NInt \in Nat /\ NFloat \in Nat
  BY PartsAssumption DEF C!CallAssumption
<1>4. UNCHANGED C!input
  BY DEF C!Next, C!Save, C!Push, C!MoveInts, C!MoveFloats, C!Call, C!Load, C!Body, C!Epilogue,
         C!TakeResult, C!Restore, C!Goto
<1>5. /\ UNCHANGED <<args, live, dest, spread>>
      /\ Stacked' = Stacked /\ Growth' = Growth
      /\ \A i : /\ C!Depth(i)' = C!Depth(i) /\ C!Home(i)' = C!Home(i) /\ C!Target(i)' = C!Target(i)
               /\ C!OnStack(i)' = C!OnStack(i)
      /\ C!CallerRegs' = C!CallerRegs /\ ScratchFree'
  BY <1>4, SameInput DEF C!CallerRegs, CallArgs, ScratchFree
\* What the registers are called.
<1>6. ASSUME NEW i \in DOMAIN args, ~ C!OnStack(i)
      PROVE  C!Target(i) \notin {<<"int", Lhs>>, <<"int", Rhs>>}
  BY <1>6 DEF CallArgs, ScratchFree
<1>7. ASSUME NEW i \in DOMAIN args, ~ C!OnStack(i), NEW j \in Stacked, spread
      PROVE  C!Target(i) # C!Home(j)
  <2>1. C!Index(i) \in Nat /\ args[i].class \in {"int", "float"}
    BY <1>1, Indexes DEF CallTypes
  <2>2. C!Index(i) < NInt \/ C!Index(i) < NFloat
    BY <1>3, <1>7, <2>1 DEF C!OnStack, C!NRegs
  <2>3. C!Home(j)[2] = NInt + NFloat + Lhs + Rhs + C!Depth(j) + 1 /\ C!Depth(j) \in Nat
    BY <1>2, <1>7 DEF C!Home
  <2>4. C!Target(i)[2] = C!Index(i)
    BY DEF C!Target
  <2> QED
    BY <1>3, <2>1, <2>2, <2>3, <2>4
<1>8. ASSUME NEW r \in C!CallerRegs PROVE r \notin {<<"int", Lhs>>, <<"int", Rhs>>}
  <2>1. r[1] = "int" => r[2] \in IntRegs
    BY DEF C!CallerRegs
  <2> QED
    BY <1>3, <2>1
<1>9. CASE C!Save
  <2>1. /\ pc = "save" /\ pc' = "push" /\ k' = 1 /\ regs' = regs
    BY <1>9 DEF C!Save, C!Goto
  <2>2. \A i \in Stacked' : ~ C!Depth(i)' < k' - 1
    BY <1>2, <1>5, <2>1
  <2> QED
    BY <1>5, <2>1, <2>2 DEF CallArgs, CallBase
<1>10. CASE C!Push
  <2>1. PICK i \in Stacked : /\ C!Depth(i) = k - 1
                       /\ mem' = [mem EXCEPT ![sp + C!Depth(i)] = C!Value(args[i].place)]
                       /\ regs' = IF args[i].class = "int"
                                  THEN C!With(regs, C!Register(<<"int", Lhs>>, C!Value(args[i].place)))
                                  ELSE C!With(regs, C!ConstantTemp({i}))
    BY <1>10 DEF C!Push, Stacked
  <2>2. /\ pc = "push" /\ pc' = "push" /\ k' = k + 1
        /\ sp = - Growth /\ growth = Growth
        /\ \A r \in C!CallerRegs : r \in DOMAIN regs /\ regs[r] = r
        /\ \A j \in Stacked : C!Depth(j) < k - 1 => mem[C!Depth(j) - Growth] = args[j].place
    BY <1>10 DEF C!Push, CallBase, CallArgs
  <2>3. C!Value(args[i].place) = args[i].place
    BY <1>1, <1>2, <2>2, Values
  <2>4. ASSUME NEW r \in C!CallerRegs PROVE r \in DOMAIN regs' /\ regs'[r] = r
    <3>1. /\ DOMAIN C!Register(<<"int", Lhs>>, C!Value(args[i].place)) = {<<"int", Lhs>>}
          /\ DOMAIN C!ConstantTemp({i}) \subseteq {<<"int", Rhs>>}
      BY DEF C!Register, C!ConstantTemp
    <3>2. PICK g : regs' = C!With(regs, g) /\ DOMAIN g \subseteq {<<"int", Lhs>>, <<"int", Rhs>>}
      BY <2>1, <3>1
    <3> QED
      BY <1>8, <2>2, <3>2, Overlay
  <2>5. ASSUME NEW j \in Stacked, C!Depth(j) < k' - 1 PROVE mem'[C!Depth(j) - Growth] = args[j].place
    <3>1. sp + C!Depth(i) = C!Depth(i) - Growth /\ C!Depth(i) - Growth \in DOMAIN mem
      BY <1>1, <1>2, <2>2
    <3>2. CASE j = i
      BY <2>1, <2>3, <3>1, <3>2
    <3>3. CASE j # i
      <4>1. C!Depth(j) # C!Depth(i) /\ C!Depth(j) < k - 1
        BY <1>1, <1>2, <2>1, <2>2, <2>5, <3>3
      <4>2. C!Depth(j) - Growth # C!Depth(i) - Growth
        BY <1>1, <1>2, <4>1
      <4> QED
        BY <2>1, <2>2, <3>1, <4>1, <4>2
    <3> QED
      BY <3>2, <3>3
  <2> QED
    BY <1>5, <2>2, <2>4, <2>5 DEF CallArgs
<1>11. CASE C!MoveInts
  <2>1. /\ pc = "push" /\ pc' = "floats" /\ k > C!NStack /\ regs' = C!Moved("int") /\ mem' = mem
        /\ sp = - Growth /\ growth = Growth
        /\ \A r \in C!CallerRegs : r \in DOMAIN regs /\ regs[r] = r
        /\ \A j \in Stacked : C!Depth(j) < k - 1 => mem[C!Depth(j) - Growth] = args[j].place
    BY <1>11 DEF C!MoveInts, C!Goto, CallBase, CallArgs
  <2>2. /\ \A i \in DOMAIN args : ~ C!OnStack(i) /\ args[i].class = "int" =>
             C!Target(i) \in DOMAIN regs' /\ regs'[C!Target(i)] = args[i].place
        /\ \A r \in DOMAIN regs : r # <<"int", Rhs>> /\ r[1] # "int" => r \in DOMAIN regs' /\ regs'[r] = regs[r]
    BY <1>1, <2>1, MovedArgs
  <2>3. \A r \in C!CallerRegs : r[1] = "float" => r \in DOMAIN regs' /\ regs'[r] = r
    BY <1>8, <2>1, <2>2
  <2>4. \A j \in Stacked : C!Depth(j) < k - 1
    BY <1>1, <1>2, <2>1
  <2> QED
    BY <1>5, <2>1, <2>2, <2>3, <2>4 DEF CallArgs
<1>12. CASE C!MoveFloats
  <2>1. /\ pc = "floats" /\ pc' = "call" /\ regs' = C!Moved("float") /\ mem' = mem
        /\ sp = - Growth /\ growth = Growth
        /\ \A r \in C!CallerRegs : r[1] = "float" => r \in DOMAIN regs /\ regs[r] = r
        /\ \A i \in DOMAIN args : ~ C!OnStack(i) /\ args[i].class = "int" =>
             C!Target(i) \in DOMAIN regs /\ regs[C!Target(i)] = args[i].place
        /\ \A j \in Stacked : mem[C!Depth(j) - Growth] = args[j].place
    BY <1>12 DEF C!MoveFloats, C!Goto, CallBase, CallArgs
  <2>2. /\ \A i \in DOMAIN args : ~ C!OnStack(i) /\ args[i].class = "float" =>
             C!Target(i) \in DOMAIN regs' /\ regs'[C!Target(i)] = args[i].place
        /\ \A r \in DOMAIN regs : r # <<"int", Rhs>> /\ r[1] # "float" => r \in DOMAIN regs' /\ regs'[r] = regs[r]
    BY <1>1, <2>1, MovedArgs
  <2>3. \A i \in DOMAIN args : ~ C!OnStack(i) => C!Target(i) \in DOMAIN regs' /\ regs'[C!Target(i)] = args[i].place
    <3> SUFFICES ASSUME NEW i \in DOMAIN args, ~ C!OnStack(i)
                 PROVE  C!Target(i) \in DOMAIN regs' /\ regs'[C!Target(i)] = args[i].place
      OBVIOUS
    <3>1. args[i].class \in {"int", "float"} /\ C!Target(i)[1] = args[i].class
      BY <1>1 DEF CallTypes, C!Target
    <3> QED
      BY <1>6, <2>1, <2>2, <3>1
  <2> QED
    BY <1>5, <2>1, <2>3 DEF CallArgs
<1>13. ASSUME NEW large \in BOOLEAN, C!Call(large) PROVE CallArgs'
  <2>1. /\ pc = "call" /\ pc' = "load" /\ k' = 1 /\ sp' = sp - C!FrameSize
        /\ mem' = [mem EXCEPT ![sp' + 1] = <<"ra", 0>>]
        /\ regs' = IF large THEN C!With(regs, C!Register(<<"int", Lhs>>, C!Junk)) ELSE regs
        /\ sp = - Growth
        /\ \A i \in DOMAIN args : ~ C!OnStack(i) =>
             C!Target(i) \in DOMAIN regs /\ regs[C!Target(i)] = args[i].place
        /\ \A j \in Stacked : mem[C!Depth(j) - Growth] = args[j].place
    BY <1>13 DEF C!Call, C!Goto, CallBase, CallArgs
  <2>2. DOMAIN C!Register(<<"int", Lhs>>, C!Junk) = {<<"int", Lhs>>}
    BY DEF C!Register
  <2>3. \A i \in DOMAIN args : ~ C!OnStack(i) => C!Target(i) \in DOMAIN regs' /\ regs'[C!Target(i)] = args[i].place
    BY <1>6, <2>1, <2>2, Overlay
  <2>4. ASSUME NEW j \in Stacked PROVE mem'[C!Depth(j) - Growth] = args[j].place
    <3>1. C!Depth(j) - Growth # sp' + 1 /\ C!Depth(j) - Growth \in DOMAIN mem
      BY <1>1, <1>2, <2>1
    <3> QED
      BY <2>1, <3>1
  <2>5. \A i \in Stacked' : ~ C!Depth(i)' < k' - 1
    BY <1>2, <1>5, <2>1
  <2> QED
    BY <1>5, <2>1, <2>3, <2>4, <2>5 DEF CallArgs
<1>14. CASE C!Load
  <2>1. PICK i \in Stacked : /\ C!Depth(i) = k - 1
                       /\ IF spread
                          THEN regs' = C!With(regs, C!Register(C!Home(i), C!Parameter(i))) /\ mem' = mem
                          ELSE /\ mem' = [mem EXCEPT ![sp + C!Home(i)[2]] = C!Parameter(i)]
                               /\ regs' = C!With(regs, C!Register(<<"int", Lhs>>, C!Parameter(i)))
    BY <1>14 DEF C!Load, Stacked
  <2>2. /\ pc = "load" /\ pc' = "load" /\ k' = k + 1 /\ sp' = sp /\ fp = - Growth /\ sp = - Growth - C!FrameSize
        /\ \A j \in DOMAIN args : ~ C!OnStack(j) =>
             C!Target(j) \in DOMAIN regs /\ regs[C!Target(j)] = args[j].place
        /\ \A j \in Stacked : mem[C!Depth(j) - Growth] = args[j].place
        /\ \A j \in Stacked : C!Depth(j) < k - 1 =>
             IF spread THEN C!Home(j) \in DOMAIN regs /\ regs[C!Home(j)] = args[j].place
                       ELSE mem[sp + C!Home(j)[2]] = args[j].place
    BY <1>14 DEF C!Load, CallBase, CallArgs
  <2>3. C!Parameter(i) = args[i].place
    <3>1. fp + C!Depth(i) = C!Depth(i) - Growth
      BY <1>1, <1>2, <2>2
    <3> QED
      BY <2>2, <3>1 DEF C!Parameter
  <2>4. ASSUME NEW j \in Stacked, C!Depth(j) < k' - 1, j # i PROVE C!Depth(j) < k - 1 /\ C!Depth(j) # C!Depth(i)
    BY <1>1, <1>2, <2>1, <2>2, <2>4
  <2>5. CASE spread
    <3>1. /\ DOMAIN C!Register(C!Home(i), C!Parameter(i)) = {C!Home(i)}
          /\ C!Register(C!Home(i), C!Parameter(i))[C!Home(i)] = args[i].place
      BY <2>3 DEF C!Register
    <3>2. regs' = C!With(regs, C!Register(C!Home(i), C!Parameter(i))) /\ mem' = mem
      BY <2>1, <2>5
    <3>3. ASSUME NEW j \in DOMAIN args, ~ C!OnStack(j)
          PROVE  C!Target(j) \in DOMAIN regs' /\ regs'[C!Target(j)] = args[j].place
      BY <1>7, <2>2, <2>5, <3>1, <3>2, <3>3, Overlay
    <3>4. ASSUME NEW j \in Stacked, C!Depth(j) < k' - 1
          PROVE  C!Home(j) \in DOMAIN regs' /\ regs'[C!Home(j)] = args[j].place
      <4>1. CASE j = i
        BY <3>1, <3>2, <4>1, Overlay
      <4>2. CASE j # i
        <5>1. C!Depth(j) < k - 1 /\ C!Depth(j) # C!Depth(i)
          BY <2>4, <3>4, <4>2
        <5>2. C!Home(j)[2] # C!Home(i)[2]
          <6>1. /\ C!Home(j)[2] = NInt + NFloat + Lhs + Rhs + C!Depth(j) + 1
                /\ C!Home(i)[2] = NInt + NFloat + Lhs + Rhs + C!Depth(i) + 1
                /\ C!Depth(i) \in Nat /\ C!Depth(j) \in Nat
            BY <1>2, <2>5 DEF C!Home
          <6> QED
            BY <1>3, <5>1, <6>1
        <5> QED
          BY <2>2, <2>5, <3>1, <3>2, <5>1, <5>2, Overlay
      <4> QED
        BY <4>1, <4>2
    <3> QED
      BY <1>5, <2>2, <2>5, <3>2, <3>3, <3>4 DEF CallArgs
  <2>6. CASE ~ spread
    <3>1. DOMAIN C!Register(<<"int", Lhs>>, C!Parameter(i)) = {<<"int", Lhs>>}
      BY DEF C!Register
    <3>2. /\ regs' = C!With(regs, C!Register(<<"int", Lhs>>, C!Parameter(i)))
          /\ mem' = [mem EXCEPT ![sp + C!Home(i)[2]] = args[i].place]
      BY <2>1, <2>3, <2>6
    <3>3. ASSUME NEW j \in DOMAIN args, ~ C!OnStack(j)
          PROVE  C!Target(j) \in DOMAIN regs' /\ regs'[C!Target(j)] = args[j].place
      BY <1>6, <2>2, <3>1, <3>2, <3>3, Overlay
    <3>4. \A j \in Stacked : /\ sp + C!Home(j)[2] = C!Depth(j) - Growth - C!NStack
                       /\ sp + C!Home(j)[2] < - Growth /\ sp + C!Home(j)[2] \in DOMAIN mem
      <4> SUFFICES ASSUME NEW j \in Stacked
                   PROVE  /\ sp + C!Home(j)[2] = C!Depth(j) - Growth - C!NStack
                          /\ sp + C!Home(j)[2] < - Growth /\ sp + C!Home(j)[2] \in DOMAIN mem
        OBVIOUS
      <4>1. C!Home(j)[2] = C!Depth(j) + 2 /\ C!Depth(j) \in 0 .. C!NStack - 1
        BY <1>2, <2>6 DEF C!Home
      <4>2. sp = - Growth - (2 + C!NStack)
        BY <1>1, <2>2, <2>6
      <4>3. sp + C!Home(j)[2] = C!Depth(j) - Growth - C!NStack
        BY <1>1, <4>1, <4>2
      <4> QED
        BY <1>1, <2>2, <4>1, <4>2, <4>3
    <3>5. ASSUME NEW j \in Stacked, C!Depth(j) < k' - 1 PROVE mem'[sp + C!Home(j)[2]] = args[j].place
      <4>1. CASE j = i
        BY <3>2, <3>4, <4>1
      <4>2. CASE j # i
        <5>1. C!Depth(j) < k - 1 /\ C!Depth(j) # C!Depth(i)
          BY <2>4, <3>5, <4>2
        <5>2. sp + C!Home(j)[2] # sp + C!Home(i)[2]
          BY <1>1, <1>2, <3>4, <5>1
        <5> QED
          BY <2>2, <2>6, <3>2, <3>4, <5>1, <5>2
      <4> QED
        BY <4>1, <4>2
    <3>6. ASSUME NEW j \in Stacked PROVE mem'[C!Depth(j) - Growth] = args[j].place
      <4>1. C!Depth(j) - Growth # sp + C!Home(i)[2] /\ C!Depth(j) - Growth \in DOMAIN mem
        BY <1>1, <1>2, <3>4
      <4> QED
        BY <2>2, <3>2, <4>1
    <3> QED
      BY <1>5, <2>2, <2>6, <3>3, <3>5, <3>6 DEF CallArgs
  <2> QED
    BY <2>5, <2>6
<1>15. CASE C!Body \/ C!Epilogue \/ C!TakeResult \/ C!Restore
  <2>1. pc' \in {"epilogue", "result", "restore", "done"}
    BY <1>15 DEF C!Body, C!Epilogue, C!TakeResult, C!Restore, C!Goto
  <2> QED
    BY <1>5, <2>1 DEF CallArgs
<1> QED
  BY <1>9, <1>10, <1>11, <1>12, <1>13, <1>14, <1>15 DEF C!Next

\* What the invariant says when the body starts.
LEMMA AllArrived ==
  ASSUME CallBase, CallArgs PROVE C!ArgumentsArrive
<1> SUFFICES ASSUME pc = "load", k > C!NStack
             PROVE  /\ \A i \in DOMAIN args : ~ C!OnStack(i) => regs[C!Target(i)] = args[i].place
                    /\ \A i \in Stacked : (IF spread THEN regs[C!Home(i)] ELSE mem[sp + C!Home(i)[2]])
                                     = args[i].place
  BY DEF C!ArgumentsArrive, Stacked
<1>1. CallTypes /\ k \in Nat /\ C!NStack \in Nat
  BY Sizes DEF CallBase, CallTypes
<1>2. \A i \in Stacked : C!Depth(i) < k - 1
  BY <1>1, Depths
<1> QED
  BY <1>2 DEF CallArgs

(***************************************************************************)
(* What the caller finds after a call.                                     *)
(***************************************************************************)

\* Every register the caller needs is one of those a call saves, and the result, if
\* there is one, is no float.
LiveSaved == live \subseteq C!call_saves /\ \A r \in dest : r[1] = "int"

CallResult ==
  /\ LiveSaved
  /\ pc \in {"epilogue", "result"} /\ dest # {} =>
       <<"int", 0>> \in DOMAIN regs /\ regs[<<"int", 0>>] = C!Result
  /\ pc = "restore" => \A r \in dest : r \in DOMAIN regs /\ regs[r] = C!Result
  /\ pc = "done" => /\ \A r \in dest : regs[r] = C!Result
                    /\ \A r \in live : regs[r] = r

LEMMA ResultStep ==
  ASSUME CallBase, CallResult, C!Next PROVE CallResult'
<1>1. UNCHANGED C!input
  BY DEF C!Next, C!Save, C!Push, C!MoveInts, C!MoveFloats, C!Call, C!Load, C!Body, C!Epilogue,
         C!TakeResult, C!Restore, C!Goto
<1>2. /\ dest' = dest /\ live' = live /\ LiveSaved'
      /\ \A r \in dest : r[1] = "int"
  BY <1>1, SameInput DEF CallResult, LiveSaved
<1>3. CASE C!Save \/ C!Push \/ C!MoveInts \/ C!MoveFloats \/ (\E large \in BOOLEAN : C!Call(large)) \/ C!Load
  <2>1. pc' \in {"push", "floats", "call", "load"}
    BY <1>3 DEF C!Save, C!Push, C!MoveInts, C!MoveFloats, C!Call, C!Load, C!Goto
  <2> QED
    BY <1>2, <2>1 DEF CallResult
<1>4. CASE C!Body
  <2>1. /\ pc' = "epilogue"
        /\ regs' = [r \in DOMAIN regs \cup {<<"int", 0>>} |->
                     IF r = <<"int", 0>> /\ dest # {} THEN C!Result ELSE C!Junk]
    BY <1>4 DEF C!Body, C!Goto
  <2>2. dest # {} => <<"int", 0>> \in DOMAIN regs' /\ regs'[<<"int", 0>>] = C!Result
    BY <2>1
  <2> QED
    BY <1>2, <2>1, <2>2 DEF CallResult, C!Result
<1>5. CASE C!Epilogue
  <2>1. pc = "epilogue" /\ pc' = "result" /\ regs' = regs
    BY <1>5 DEF C!Epilogue, C!Goto
  <2> QED
    BY <1>2, <2>1 DEF CallResult, C!Result
<1>6. CASE C!TakeResult
  <2>1. /\ pc = "result" /\ pc' = "restore"
        /\ regs' = C!With(regs, [r \in dest |-> regs[<<r[1], 0>>]])
    BY <1>6 DEF C!TakeResult, C!Goto
  <2>2. ASSUME NEW r \in dest PROVE r \in DOMAIN regs' /\ regs'[r] = C!Result
    <3>1. regs[<<r[1], 0>>] = C!Result
      BY <1>2, <2>1 DEF CallResult
    <3> QED
      BY <2>1, <3>1, Overlay
  <2> QED
    BY <1>2, <2>1, <2>2 DEF CallResult, C!Result
<1>7. CASE C!Restore
  <2>1. /\ pc = "restore" /\ pc' = "done"
        /\ regs' = C!With(regs, [r \in C!call_saves |-> mem[C!SavedAt(r)]])
        /\ sp = 0 /\ CallTypes /\ \A r \in C!call_saves : mem[Rank(r) - C!SaveSize] = r
    BY <1>7 DEF C!Restore, C!Goto, CallBase
  <2>2. C!call_saves = live /\ dest \cap live = {}
    BY <2>1 DEF C!call_saves, CallTypes, CallResult, LiveSaved
  <2>3. ASSUME NEW r \in live PROVE regs'[r] = r
    <3>1. C!SavedAt(r) = sp - C!SaveSize + Rank(r)
      BY Counting DEF C!SavedAt, Rank
    <3>2. C!SavedAt(r) = Rank(r) - C!SaveSize
      BY <2>1, <2>2, <3>1, Ranks
    <3> QED
      BY <2>1, <2>2, <3>2, Overlay
  <2>4. ASSUME NEW r \in dest PROVE regs'[r] = C!Result
    <3>1. r \in DOMAIN regs /\ regs[r] = C!Result /\ r \notin C!call_saves
      BY <2>1, <2>2 DEF CallResult
    <3> QED
      BY <2>1, <3>1, Overlay
  <2> QED
    BY <1>2, <2>1, <2>3, <2>4 DEF CallResult, C!Result
<1> QED
  BY <1>3, <1>4, <1>5, <1>6, <1>7 DEF C!Next

\* What the invariant says when the call is done.
LEMMA Resumed ==
  ASSUME CallBase, CallResult PROVE C!CallerResumes
<1> SUFFICES ASSUME pc = "done" PROVE C!CallerResumes
  BY DEF C!CallerResumes
<1>1. \A n \in 0 .. Frame : mem[n] = <<"slot", n>>
  BY DEF CallBase
<1>2. Frame \in Nat
  BY PartsAssumption DEF C!CallAssumption
<1>3. \A n \in 0 .. Frame : C!Address(n) = n
  BY <1>2 DEF C!Address, CallBase
<1> QED
  BY <1>1, <1>3 DEF C!CallerResumes, CallResult

\* Nothing changes.
LEMMA CallStutters ==
  ASSUME UNCHANGED <<call, pc>>
  PROVE  /\ CallBase => CallBase'
         /\ CallArgs => CallArgs'
         /\ CallResult => CallResult'
<1>1. /\ UNCHANGED <<k, regs, mem, sp, fp, growth, pc>>
      /\ UNCHANGED <<args, live, dest, spread>> /\ UNCHANGED C!input
  BY DEF call, C!input
<1>2. /\ Stacked' = Stacked /\ C!call_saves' = C!call_saves /\ C!SaveSize' = C!SaveSize /\ C!FrameSize' = C!FrameSize
      /\ Growth' = Growth /\ C!CallerRegs' = C!CallerRegs /\ C!Low' = C!Low /\ C!Result' = C!Result
      /\ \A i : /\ C!Depth(i)' = C!Depth(i) /\ C!Home(i)' = C!Home(i) /\ C!Target(i)' = C!Target(i)
               /\ C!OnStack(i)' = C!OnStack(i)
      /\ \A r : Rank(r)' = Rank(r)
      /\ \A c : C!Places(c)' = C!Places(c)
  BY <1>1, SameInput DEF C!CallerRegs, C!Low, C!Result, C!Places
<1>3. CallTypes => CallTypes'
  BY <1>1, <1>2 DEF CallTypes
<1>4. CallBase => CallBase'
  BY <1>1, <1>2, <1>3 DEF CallBase
<1>5. CallArgs => CallArgs'
  BY <1>1, <1>2 DEF CallArgs, ScratchFree
<1>6. CallResult => CallResult'
  BY <1>1, <1>2 DEF CallResult, LiveSaved
<1> QED
  BY <1>4, <1>5, <1>6

\* Steps of the other parts are none of the call's.
LEMMA CallSteps ==
  ASSUME part = "call" => CallBase,
         [TransferNext]_<<part, mov, edge, call, content, pc>>, part' = "call"
  PROVE  part = "call" /\ CallBase /\ CallBase' /\ (C!Next \/ UNCHANGED <<call, pc>>)
<1>1. part = "call" /\ (C!Next \/ UNCHANGED <<call, pc>>)
  BY DEF TransferNext, Mov, Edge, Call
<1> QED
  BY <1>1, SaveBase, StepBase, CallStutters

\* A callee finds its parameters where it looks for them, for any registers, limits,
\* arguments and frames, if no argument of the call goes to a scratch register.
THEOREM ParametersFound ==
  (part = "call" => ScratchFree) /\ TransferSpec => []ArgumentsArrive
<1> DEFINE Inv == part = "call" => CallBase /\ CallArgs
<1>1. (part = "call" => ScratchFree) /\ TransferInit => Inv
  <2>1. ScratchFree /\ C!Init => CallArgs
    BY DEF C!Init, CallArgs
  <2> QED
    BY <2>1, CallStart DEF TransferInit
<1>2. Inv /\ [TransferNext]_<<part, mov, edge, call, content, pc>> => Inv'
  BY CallSteps, ArgsStep, CallStutters
<1>3. Inv => ArgumentsArrive
  BY AllArrived DEF ArgumentsArrive
<1> QED
  BY <1>1, <1>2, <1>3, PTL DEF TransferSpec

\* The caller gets back its registers, its frame and the result, whatever the callee
\* does, if the registers it needs are saved and it takes no float.
THEOREM CallerRestored ==
  (part = "call" => LiveSaved) /\ TransferSpec => []CallerResumes
<1> DEFINE Inv == part = "call" => CallBase /\ CallResult
<1>1. (part = "call" => LiveSaved) /\ TransferInit => Inv
  <2>1. LiveSaved /\ C!Init => CallResult
    BY DEF C!Init, CallResult
  <2> QED
    BY <2>1, CallStart DEF TransferInit
<1>2. Inv /\ [TransferNext]_<<part, mov, edge, call, content, pc>> => Inv'
  BY CallSteps, ResultStep, CallStutters
<1>3. Inv => CallerResumes
  BY Resumed DEF CallerResumes
<1> QED
  BY <1>1, <1>2, <1>3, PTL DEF TransferSpec
=============================================================================
