--------------------------------- MODULE Ssa ---------------------------------
(***************************************************************************)
(* A function on its own, as the clean-up passes see it, and what executing*)
(* it does, which is what a pass has to preserve.  Beside the fields module*)
(* Ir names, f.used says that some call uses its result; the function has  *)
(* one argument.                                                           *)
(***************************************************************************)
EXTENDS Ir

CONSTANTS
  Names,     \* of the instructions that have a value; 0 is the argument
  Modulus,   \* a word holds 0 .. Modulus - 1
  Fuel       \* an execution is followed for so many blocks

NamesAssumption == Names \subseteq Nat /\ 0 \notin Names
ASSUME NamesAssumption
WidthAssumption == Modulus \in Nat \ {0} /\ Fuel \in Nat
ASSUME WidthAssumption

Word == 0 .. Modulus - 1
Undef == -1

Arg == Name(0)

-----------------------------------------------------------------------------
\* Executing.  env holds the value of each name, a is the argument, `from` the
\* block control came from; seen are the calls executed so far.

ValueOf(o, env, a) == IF o[1] = "const" THEN o[2] ELSE IF o = Arg THEN a ELSE env[o[2]]

Result(op, x, y) ==
  CASE Undef \in {x, y} -> Undef
    [] op = "add" -> (x + y) % Modulus
    [] op = "eq"  -> IF x = y THEN 1 ELSE 0
    [] op = "zext" -> x

\* What the phis of b are set to, all at once.
PhiValue(phi, st, a) ==
  LET i == SelectInSeq(phi.blocks, LAMBDA c : c = st.from)
  IN  IF i = 0 THEN Undef ELSE ValueOf(phi.args[i], st.env, a)

AfterPhis(f, st, a) ==
  [st EXCEPT !.env = [n \in Names |->
     LET i == SelectInSeq(f.code[st.at], LAMBDA inst : IsPhi(inst) /\ inst.name = n)
     IN  IF i = 0 THEN st.env[n] ELSE PhiValue(f.code[st.at][i], st, a)]]

\* The calls of loads and functions the program does not see through
\* ("input") answer the argument too; a call whose effect is seen is "out".
Executed(inst, st, a) ==
  LET val(i) == ValueOf(inst.args[i], st.env, a)
      goto(t) == [st EXCEPT !.from = st.at, !.at = t]
  IN  CASE IsPhi(inst) -> st
        [] inst.op \in {"add", "eq"} -> [st EXCEPT !.env[inst.name] = Result(inst.op, val(1), val(2))]
        [] inst.op = "zext"  -> [st EXCEPT !.env[inst.name] = Result("zext", val(1), val(1))]
        [] inst.op = "input" -> [st EXCEPT !.env[inst.name] = a]
        [] inst.op = "out"   -> [st EXCEPT !.seen = Append(@, val(1))]
        [] inst.op = "ret"   -> [st EXCEPT !.end = "returned",
                                            !.seen = IF st.used THEN Append(@, val(1)) ELSE @]
        [] IsJump(inst)      -> goto(inst.blocks[1])
        [] IsCondBr(inst)    -> IF val(1) = Undef THEN [st EXCEPT !.end = "undefined"]
                                ELSE goto(inst.blocks[IF val(1) # 0 THEN 1 ELSE 2])

\* Control in a block that is no longer there is no behaviour the program has.
ExecBlock(f, st, a) ==
  IF st.end # "running" THEN st
  ELSE IF st.at \notin Blocks(f) THEN [st EXCEPT !.end = "lost"]
  ELSE FoldLeft(LAMBDA s, inst : Executed(inst, s, a), AfterPhis(f, st, a), f.code[st.at])

\* The states of an execution at the ends of the blocks it goes through.
Execution(f, a) ==
  LET start == [at |-> Entry(f), from |-> 0, env |-> [n \in Names |-> Undef],
                seen |-> <<>>, used |-> f.used, end |-> "running"]
      run[n \in 0 .. Fuel] == IF n = 0 THEN start ELSE LET st == run[n - 1] IN ExecBlock(f, st, a)
  IN  run

-----------------------------------------------------------------------------
\* new does what old did, as far as what old did is defined: the same calls
\* with the same values in the same order and the same result; if old comes to
\* no end, new has made at least as many calls.
Agree(x, y) == x = Undef \/ x = y
Behaves(old, new) ==
  /\ Len(old.seen) <= Len(new.seen)
  /\ \A i \in DOMAIN old.seen : Agree(old.seen[i], new.seen[i])
  /\ old.end = "returned" => new.end = "returned" /\ Len(old.seen) = Len(new.seen)
SameBehaviour(f, g) ==
  \A a \in Word : LET x == Execution(f, a) y == Execution(g, a) IN Behaves(x[Fuel], y[Fuel])
=============================================================================
