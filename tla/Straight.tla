------------------------------ MODULE Straight ------------------------------
(***************************************************************************)
(* The instructions of one basic block, for the passes that rewrite        *)
(* integer arithmetic instruction by instruction, and what they compute.   *)
(* An instruction has a name (0: none), op, operands, and the shift its    *)
(* second operand goes through, if LowerIR has put one there.              *)
(***************************************************************************)
EXTENDS Words, SequencesExt, FiniteSetsExt

VARIABLES
  pass,   \* the position in the sequence of passes
  code,   \* the instructions of the block, the ret last
  at      \* the iterator of the pass

Const(n) == <<"const", n>>
Name(n)  == <<"name", n>>
IsConst(o) == o[1] = "const"
IsZero(o) == o = Const(0)

NoShift == <<>>
Inst(name, op, args) == [name |-> name, op |-> op, args |-> args, shift |-> NoShift]
Shifted(inst, op, n) == [inst EXCEPT !.shift = <<op, n>>]
IsBinary(inst) == inst.op \in {"add", "sub", "rsub", "mul", "sdiv", "srem", "shl", "lshr", "ashr", "and"}

Fresh(insts) == 1 + Max({inst.name : inst \in ToSet(insts)} \cup {0})

\* Value::replace_all_use_with, and the instruction that has the value o (none if
\* it is a constant or an argument).
ReplaceUses(insts, o, new) ==
  <<>> \o [i \in DOMAIN insts |-> [insts[i] EXCEPT !.args = ReplaceAll(@, o, new)]]
DefAt(insts, o) == IF IsConst(o) THEN 0 ELSE SelectInSeq(insts, LAMBDA inst : inst.name = o[2])
DefIs(insts, o, op) == DefAt(insts, o) # 0 /\ insts[DefAt(insts, o)].op = op
Def(insts, o) == insts[DefAt(insts, o)]

\* new in front of the iterator, or in the place of the instruction there.
InsertBefore(insts, i, new) == SubSeq(insts, 1, i - 1) \o new \o SubSeq(insts, i, Len(insts))
Spliced(insts, i, new) == SubSeq(insts, 1, i - 1) \o new \o SubSeq(insts, i + 1, Len(insts))

-----------------------------------------------------------------------------
\* What it computes: env has the words of the names, Undef where nothing defines
\* what a value is, and of the arguments, which have negative names.
Undef == MaxInt + 1
Apply(op, a, b) ==
  IF Undef \in {a, b} \/ Undefined(op, a, b) \/ (op \in {"sdiv", "srem"} /\ b = 0) THEN Undef ELSE Eval(op, a, b)

InstValue(inst, env) ==
  LET val(i) == LET o == inst.args[i] IN IF IsConst(o) THEN o[2]
                                         ELSE IF o[2] \in DOMAIN env THEN env[o[2]] ELSE Undef
      second == IF inst.shift = NoShift THEN val(2) ELSE Apply(inst.shift[1], val(2), inst.shift[2])
  IN  CASE inst.op = "ret" -> val(1)
        [] inst.op = "muladd" -> Apply("add", Apply("mul", val(1), val(2)), val(3))
        [] inst.op = "mulsub" -> Apply("sub", val(3), Apply("mul", val(1), val(2)))
        [] inst.op = "rsub" -> Apply("sub", second, val(1))
        [] OTHER -> Apply(inst.op, val(1), second)

Outcome(insts, args) ==
  LET env == FoldLeft(LAMBDA e, inst : [n \in DOMAIN e \cup {inst.name} |->
                                          IF n = inst.name THEN InstValue(inst, e) ELSE e[n]],
                      args, insts)
  IN  env[0]
=============================================================================
