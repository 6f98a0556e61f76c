------------------------------ MODULE CallFrame ------------------------------
(***************************************************************************)
(* One call in the generated code, as the machine sees it: the caller's    *)
(* side is gen_function_call of codegen_new/codegen.cc, the callee's the   *)
(* start of gen_function, prologue, gen_ret and epilogue.  A word is 8     *)
(* bytes.  parallel_mov is taken at its word (see ParallelMov), and what   *)
(* the callee's body does to the registers and below its frame is left     *)
(* open.                                                                   *)
(*                                                                         *)
(* A place is <<"int", n>> or <<"float", n>>, a register; <<"slot", n>>,   *)
(* word n of a frame; or <<"const", n>>.  A value is named for the place   *)
(* it is in before the call.                                               *)
(***************************************************************************)
EXTENDS Integers, Sequences, FiniteSets

CONSTANTS
  IntRegs, FloatRegs,   \* the registers the allocator hands out
  NInt, NFloat,         \* arg_max_save_index + 1: registers 0 .. N-1 pass arguments
  TempLhs, TempRhs,     \* temp_lhs_reg, temp_rhs_reg
  Frame,                \* the last word of the caller's frame
  Slots,                \* the words of it that may be arguments
  MaxArgs,
  Results               \* the types a callee returns: "void", "int", "float"

CallAssumption ==
  /\ IntRegs \subseteq Nat /\ FloatRegs \subseteq Nat /\ NInt \in Nat /\ NFloat \in Nat
  /\ IsFiniteSet(IntRegs) /\ IsFiniteSet(FloatRegs)
  /\ TempLhs \in Nat \ IntRegs /\ TempRhs \in Nat \ IntRegs /\ MaxArgs \in Nat
  /\ Frame \in Nat /\ Slots \subseteq 1 .. Frame /\ Results \subseteq {"void", "int", "float"}

VARIABLES
  args,      \* the arguments: class and place of each
  live,      \* the registers whose values the caller needs after the call
  dest,      \* the register of the result, or none
  spread,    \* have the parameters that come on the stack registers?
  pc, k,     \* the step, and the stack argument it is at
  regs, mem, sp, fp,
  growth     \* stack_growth_since_entry
input == <<args, live, dest, spread>>
vars == <<input, pc, k, regs, mem, sp, fp, growth>>

CallerRegs == ({"int"} \X IntRegs) \cup ({"float"} \X FloatRegs)
Places(c) == {r \in CallerRegs : r[1] = c} \cup ({"slot"} \X Slots) \cup {<<"const", 0>>}
NRegs(c) == IF c = "int" THEN NInt ELSE NFloat

\* The arguments of a class take its registers in order, the rest go on the stack.
Index(i) == Cardinality({j \in 1 .. i - 1 : args[j].class = args[i].class})
OnStack(i) == Index(i) >= NRegs(args[i].class)
save_on_stack == {i \in DOMAIN args : OnStack(i)}
NStack == Cardinality(save_on_stack)
\* The place of argument i among them, the first being 0.
Depth(i) == Cardinality({j \in save_on_stack : j < i})
InRegisters(c) == {i \in DOMAIN args : args[i].class = c /\ ~ OnStack(i)}
Target(i) == <<args[i].class, Index(i)>>
Even(n) == n + (n % 2)

\* Where the callee wants argument i, if it comes on the stack: a register that passes
\* none, or a word of its frame.
Home(i) ==
  IF spread THEN <<args[i].class, NInt + NFloat + TempLhs + TempRhs + Depth(i) + 1>>
  ELSE <<"slot", Depth(i) + 2>>

Lists ==
  UNION {[1 .. n -> UNION {{[class |-> c, place |-> p] : p \in Places(c)} : c \in {"int", "float"}}] :
           n \in 0 .. MaxArgs}
Low == - (Cardinality(CallerRegs) + 2 * MaxArgs + 4)
Junk == <<"junk", 0>>
Result == <<"result", 0>>

Init ==
  /\ args \in Lists /\ live \in SUBSET CallerRegs /\ spread \in BOOLEAN
  /\ \E t \in Results : dest \in IF t = "void" THEN {{}}
                                 ELSE {{r} : r \in {q \in CallerRegs \ live : q[1] = t}}
  /\ pc = "save" /\ k = 1
  /\ regs = [r \in CallerRegs |-> r] /\ mem = [a \in Low .. Frame |-> <<"slot", a>>]
  /\ sp = 0 /\ fp = 0 /\ growth = 0

-----------------------------------------------------------------------------
With(f, g) == [x \in DOMAIN f \cup DOMAIN g |-> IF x \in DOMAIN g THEN g[x] ELSE f[x]]
Register(r, v) == [x \in {r} |-> v]

\* The caller counts its slots from where sp stood at entry.
AddressFromSp(n) == sp + n                       \* faulty: sp has moved since
Address(n) == sp + n + growth
Value(p) ==
  CASE p[1] = "slot" -> mem[Address(p[2])]
    [] p[1] = "const" -> p
    [] OTHER -> regs[p]

\* A float constant comes through an integer register.
ConstantTemp(S) ==
  [r \in {<<"int", TempRhs>> : i \in {j \in S : args[j].class = "float" /\ args[j].place[1] = "const"}}
     |-> <<"const", 0>>]

Goto(from, to) == pc = from /\ pc' = to /\ k' = 1 /\ UNCHANGED input

\* call_saves: the live registers among those that pass arguments; ints come first.
\* regalloc.cc takes the intervals that cover the position in front of the call and that
\* of the call: that these hold whatever is live across it is LinearScan's PlacesAreKnown,
\* and here live is given.
SavesInts == {r \in live : r[1] = "int"}         \* faulty: one class
SavesAll == {r \in CallerRegs : r[2] < NRegs(r[1])}    \* faulty: the result's, too
call_saves == {r \in live : r[2] < NRegs(r[1])}
SaveSize == Cardinality(call_saves)
ArgSize == Even(NStack)
Before(q, r) == \/ q[1] # r[1] /\ q[1] = "int"
                \/ q[1] = r[1] /\ q[2] < r[2]
\* The address of the word for r, below sp as it is before and after the call.
SavedAt(r) == sp - SaveSize + Cardinality({q \in call_saves : Before(q, r)})

Save ==
  /\ Goto("save", "push")
  /\ mem' = [a \in DOMAIN mem |-> IF \E r \in call_saves : SavedAt(r) = a
                                  THEN regs[CHOOSE r \in call_saves : SavedAt(r) = a] ELSE mem[a]]
  /\ sp' = sp - SaveSize - ArgSize /\ growth' = growth + SaveSize + ArgSize
  /\ UNCHANGED <<regs, fp>>

Push ==
  /\ pc = "push"
  /\ \E i \in save_on_stack :
       /\ Depth(i) = k - 1
       /\ mem' = [mem EXCEPT ![sp + Depth(i)] = Value(args[i].place)]
       /\ regs' = IF args[i].class = "int"
                  THEN With(regs, Register(<<"int", TempLhs>>, Value(args[i].place)))
                  ELSE With(regs, ConstantTemp({i}))
  /\ k' = k + 1
  /\ UNCHANGED <<input, pc, sp, fp, growth>>

\* parallel_mov, once for each class.
Moved(c) ==
  LET S == InRegisters(c)
  IN  With(With(regs, ConstantTemp(S)),
           [r \in {Target(i) : i \in S} |-> Value(args[CHOOSE i \in S : Target(i) = r].place)])

MoveInts ==
  /\ k > NStack /\ Goto("push", "floats")
  /\ regs' = Moved("int")
  /\ UNCHANGED <<mem, sp, fp, growth>>

MoveFloats ==
  /\ Goto("floats", "call")
  /\ regs' = Moved("float")
  /\ UNCHANGED <<mem, sp, fp, growth>>

-----------------------------------------------------------------------------
\* bl and the callee's prologue.  A large frame is subtracted through temp_lhs_reg.
FrameSize == 2 + (IF spread THEN 0 ELSE NStack)

Call(large) ==
  /\ Goto("call", "load")
  /\ fp' = sp /\ sp' = sp - FrameSize
  /\ regs' = IF large THEN With(regs, Register(<<"int", TempLhs>>, Junk)) ELSE regs
  /\ mem' = [mem EXCEPT ![sp' + 1] = <<"ra", 0>>]
  /\ UNCHANGED growth

\* gen_function loads the parameters that came on the stack, in order.
Parameter(i) == mem[fp + Depth(i)]

Load ==
  /\ pc = "load"
  /\ \E i \in save_on_stack :
       /\ Depth(i) = k - 1
       /\ IF spread
          THEN regs' = With(regs, Register(Home(i), Parameter(i))) /\ UNCHANGED mem
          ELSE /\ mem' = [mem EXCEPT ![sp + Home(i)[2]] = Parameter(i)]
               /\ regs' = With(regs, Register(<<"int", TempLhs>>, Parameter(i)))
  /\ k' = k + 1
  /\ UNCHANGED <<input, pc, sp, fp, growth>>

\* The body may change every register and everything below the caller's frame but the
\* callee's return address; gen_ret puts a result of either class into register ret.
Body ==
  /\ k > NStack /\ Goto("load", "epilogue")
  /\ regs' = [r \in DOMAIN regs \cup {<<"int", 0>>} |->
                IF r = <<"int", 0>> /\ dest # {} THEN Result ELSE Junk]
  /\ mem' = [a \in DOMAIN mem |-> IF a < fp /\ a # sp + 1 THEN Junk ELSE mem[a]]
  /\ UNCHANGED <<sp, fp, growth>>

Epilogue ==
  /\ Goto("epilogue", "result")
  /\ mem[sp + 1] = <<"ra", 0>>
  /\ sp' = sp + FrameSize
  /\ UNCHANGED <<regs, mem, fp, growth>>

-----------------------------------------------------------------------------
\* The result is moved, and sp goes back to where it was at entry.
TakeResult ==
  /\ Goto("result", "restore")
  /\ regs' = With(regs, [r \in dest |-> regs[<<r[1], 0>>]])
  /\ sp' = sp + SaveSize + ArgSize /\ growth' = growth - (SaveSize + ArgSize)
  /\ UNCHANGED <<mem, fp>>

Restore ==
  /\ Goto("restore", "done")
  /\ regs' = With(regs, [r \in call_saves |-> mem[SavedAt(r)]])
  /\ UNCHANGED <<mem, sp, fp, growth>>

Next ==
  \/ Save \/ Push \/ MoveInts \/ MoveFloats \/ \E large \in BOOLEAN : Call(large)
  \/ Load \/ Body \/ Epilogue \/ TakeResult \/ Restore
Spec == Init /\ [][Next]_vars

-----------------------------------------------------------------------------
\* When the callee's body starts every parameter is where the callee will look for it:
\* in its argument register, or at its home if it came on the stack.
ArgumentsArrive ==
  pc = "load" /\ k > NStack =>
    /\ \A i \in DOMAIN args : ~ OnStack(i) => regs[Target(i)] = args[i].place
    /\ \A i \in save_on_stack :
         (IF spread THEN regs[Home(i)] ELSE mem[sp + Home(i)[2]]) = args[i].place

\* The caller finds what it needs unchanged after the call, in registers and in its
\* frame, whatever the callee did, and the result is in the register it reads it from.
CallerResumes ==
  pc = "done" => /\ \A r \in live : regs[r] = r
                 /\ \A n \in 0 .. Frame : mem[Address(n)] = <<"slot", n>>
                 /\ \A r \in dest : regs[r] = Result
=============================================================================
