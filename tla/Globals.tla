------------------------------- MODULE Globals -------------------------------
(***************************************************************************)
(* The passes about globals: FuncInfo (which functions are pure),          *)
(* DeadGlobalElimination, and GlobalVarLocal (a global of one function     *)
(* becomes a local).  A function that has a pointer parameter says so in   *)
(* f.pointers.                                                             *)
(***************************************************************************)
EXTENDS Program

\* The instructions of f that use o, or an address computed from it.
Derived(f, o) ==
  LET geps == {q \in Places(f) : InstAt(f, q).op = "gep"}
  IN  Grown(Users(f, o), Cardinality(geps), LAMBDA uses : UNION {Users(f, Name(InstAt(f, q).name)) : q \in uses \cap geps})
AllUses(p, g) == UNION {{<<f, q>> : q \in Derived(p.fns[f], Global(g))} : f \in ToSet(p.list)}
OpAt(p, use) == InstAt(p.fns[use[1]], use[2]).op

Deleted(p, uses) ==
  [p EXCEPT !.fns = [f \in DOMAIN @ |->
     LET code == @[f].code
         kept(b) == SelectSeq([i \in DOMAIN code[b] |-> i], LAMBDA i : <<f, <<b, i>>>> \notin uses)
     IN  [@[f] EXCEPT !.code = <<>> \o [b \in DOMAIN code |-> Map(kept(b), LAMBDA i : code[b][i])]]]]

-----------------------------------------------------------------------------
\* DeadGlobalElimination, of one global.

\* MemAddress::get_const_offset of an address o of f; -1 if it is not constant.
ConstOffset(f, o) ==
  LET inst(x) == InstAt(f, Defining(f, x[2]))
      isGep(x) == x[1] = "name" /\ inst(x).op = "gep"
      at[n \in 0 .. Cardinality(Places(f)), x \in {o} \cup UNION {ToSet(InstAt(f, q).args) : q \in Places(f)}] ==
        IF ~ isGep(x) THEN 0
        ELSE IF inst(x).args[2][1] # "const" \/ at[n - 1, inst(x).args[1]] = -1 THEN -1
        ELSE at[n - 1, inst(x).args[1]] + inst(x).args[2][2]
  IN  at[Cardinality(Places(f)), o]

OnlyBy(p, g, op) == \A u \in AllUses(p, g) : OpAt(p, u) \in {op, "gep"}
IsZero(init) == \A i \in DOMAIN init : init[i] = 0
EraseGlobal(p, g) == [Deleted(p, AllUses(p, g)) EXCEPT !.globals[g] = <<>>]

\* The loads among the uses replaced by what Value(f, inst) says.
LoadsReplaced(p, g, Value(_, _)) ==
  FoldLeft(LAMBDA q, f :
             [q EXCEPT !.fns[f] =
                FoldLeft(LAMBDA h, b : FoldLeft(LAMBDA k, i : LET inst == p.fns[f].code[b][i] IN
                                                 IF inst.op = "load" /\ <<b, i>> \in Derived(p.fns[f], Global(g))
                                                 THEN ReplaceUses(k, Name(inst.name), Value(p.fns[f], inst)) ELSE k,
                                                h, [i \in DOMAIN p.fns[f].code[b] |-> i]),
                         @, p.fns[f].order)],
           p, p.list)

ElementNext(p, g, f, inst) ==       \* faulty: the element after
  LET off == ConstOffset(f, inst.args[1]) + 1
  IN  IF off + 1 \in DOMAIN p.globals[g] THEN Const(p.globals[g][off + 1]) ELSE Name(inst.name)
Element(p, g, f, inst) ==
  LET off == ConstOffset(f, inst.args[1])
  IN  IF off + 1 \in DOMAIN p.globals[g] THEN Const(p.globals[g][off + 1]) ELSE Name(inst.name)
ZeroAlways(p, g) == OnlyBy(p, g, "load")                \* faulty: whatever it starts with
ZeroForever(p, g) == IsZero(p.globals[g]) /\ OnlyBy(p, g, "load")

DeadGlobal(p, g) ==
  CASE p.globals[g] = <<>> -> p
    [] OnlyBy(p, g, "store") -> EraseGlobal(p, g)
    [] ZeroForever(p, g) -> EraseGlobal(LoadsReplaced(p, g, LAMBDA f, inst : Const(0)), g)
    [] OnlyBy(p, g, "load") /\ Len(p.globals[g]) > 1 -> LoadsReplaced(p, g, LAMBDA f, inst : Element(p, g, f, inst))
    [] OTHER -> p
DeadGlobals(p) == FoldLeft(DeadGlobal, p, [g \in DOMAIN p.globals |-> g])

-----------------------------------------------------------------------------
\* GlobalVarLocal.

\* remove_uncalled_func: one walk over the list.
RemoveUncalled(p) ==
  FoldLeft(LAMBDA q, f : IF f # "main" /\ CallsOf(q, f) = {} THEN [q EXCEPT !.list = Remove(@, f)] ELSE q,
           p, p.list)

\* The functions the global counts as used in: main, and those still called.
UsedIn(p, g) ==
  {f \in ToSet(p.list) : Users(p.fns[f], Global(g)) # {} /\ (f = "main" \/ CallsOf(p, f) # {})}

\* A local that starts with the initial value takes its place everywhere.
Localize(p, g, f) ==
  LET n == NextName(p.fns[f])
      local == <<Inst(n, "alloca", <<Const(1)>>, <<>>),
                 Inst(0, "store", <<Const(p.globals[g][1]), Name(n)>>, <<>>)>>
      replaced == [p EXCEPT !.fns = [h \in DOMAIN @ |-> ReplaceUses(@[h], Global(g), Name(n))]]
  IN  [replaced EXCEPT !.fns[f].code[Entry(p.fns[f])] = local \o @]
GlobalVarLocal(p) ==
  FoldLeft(LAMBDA q, g : IF Cardinality(UsedIn(q, g)) = 1 /\ Len(q.globals[g]) = 1
                         THEN Localize(q, g, CHOOSE f \in UsedIn(q, g) : TRUE) ELSE q,
           RemoveUncalled(p), [g \in DOMAIN p.globals |-> g])

\* A function other than main runs more than once: where it is the one that uses
\* a global, the value it leaves there is lost.
RunsOnce(p) ==
  LET q == RemoveUncalled(p) IN
  \A g \in DOMAIN p.globals : Len(p.globals[g]) = 1 /\ Cardinality(UsedIn(q, g)) = 1 => UsedIn(q, g) = {"main"}

-----------------------------------------------------------------------------
\* FuncInfo.

\* get_first_addr: what an address starts from.
FirstAddr(f, o) ==
  LET inst(x) == InstAt(f, Defining(f, x[2]))
      at[n \in 0 .. Cardinality(Places(f)), x \in {o} \cup UNION {ToSet(InstAt(f, q).args) : q \in Places(f)}] ==
        IF x[1] = "name" /\ inst(x).op = "gep" THEN at[n - 1, inst(x).args[1]] ELSE x
  IN  at[Cardinality(Places(f)), o]
IsLocal(f, o) == LET base == FirstAddr(f, o) IN base[1] = "name" /\ InstAt(f, Defining(f, base[2])).op = "alloca"
Address(inst) == inst.args[IF inst.op = "store" THEN 2 ELSE 1]

\* trivial_mark.
StoresMemory(f) ==                  \* faulty: a load of a global is no effect
  \E q \in Places(f) : InstAt(f, q).op = "store" /\ ~ IsLocal(f, Address(InstAt(f, q)))
TouchesMemory(f) ==
  \E q \in Places(f) : InstAt(f, q).op \in {"load", "store"} /\ ~ IsLocal(f, Address(InstAt(f, q)))
Marked(p) == {"input", "out", "main"} \cup {f \in ToSet(p.list) : p.fns[f].pointers \/ TouchesMemory(p.fns[f])}

\* process: the callers of an impure function are impure.
Impure(p) ==
  Grown(Marked(p), Len(p.list), LAMBDA fs : {c[1] : c \in UNION {CallsOf(p, f) : f \in fs}})
Pure(p) == ToSet(p.list) \ Impure(p)
=============================================================================
