--------------------------- MODULE Interprocedural ---------------------------
(***************************************************************************)
(* The passes on whole programs, in the order of compiler.cc: the dead     *)
(* globals, tail recursion, inlining, and the globals that become locals.  *)
(* A run may start with any of them, since each can be switched off; the   *)
(* passes between them are those of other modules.                         *)
(***************************************************************************)
EXTENDS Globals

(***************************************************************************)
(* The passes that take calls away.                                        *)
(*                                                                         *)
(* FuncInline (Optimize/FuncInline.cc): the call at a place of a caller is *)
(* replaced by the blocks of the callee.  The block of the call is cut in  *)
(* two; the callee's entry goes on where the first part ends, and what the *)
(* callee returns to is the second part.                                   *)
(*                                                                         *)
(* TailRecursionElim: a call of the function itself whose value is what    *)
(* the function returns becomes a jump to the top, the parameters turned   *)
(* into phis.  The value may first go through a chain of additions, or of  *)
(* multiplications: what they add is kept in an accumulator.  The state t  *)
(* of the pass: the function, and the blocks and phis made for it so far   *)
(* (0 before create_header, and before the first accumulating call).       *)
(***************************************************************************)
\* Only declared, main, and a function that calls itself stay.
Inlineable(p, f) == f # "main" /\ \A c \in CallsOf(p, f) : c[1] # f

\* The blocks of the callee the walk from its entry comes to.
Walked(g) ==
  LET reached == Grown({Entry(g)}, Len(g.order), LAMBDA from : UNION {ToSet(g.succ[b]) : b \in from})
  IN  SelectSeq(g.order, LAMBDA b : b \in reached)

\* get_new_val: the callee's names and blocks are numbered after the caller's,
\* but its entry is the block of the call.
Base(f, inst) == Max({NextName(f), inst.name + 1})
NewOperand(f, inst, o) ==
  IF o[1] = "param" THEN inst.args[o[2] + 1]
  ELSE IF o[1] = "name" THEN Name(Base(f, inst) + o[2]) ELSE o
NewBlock(f, g, at, b) ==
  IF b = Entry(g) THEN at ELSE NextBlock(f) + SelectInSeq(Walked(g), LAMBDA c : c = b) - 2
Cloned(f, g, at, inst, old) ==
  [old EXCEPT !.name = IF @ = 0 THEN 0 ELSE Base(f, inst) + @,
              !.args = Map(@, LAMBDA o : NewOperand(f, inst, o)),
              !.blocks = Map(@, LAMBDA b : NewBlock(f, g, at, b))]

\* The instructions of block b in the caller: a return goes to the block after
\* the call, and a local array moves to the caller's entry.
Body(f, g, at, inst, b, after) ==
  Map(SelectSeq(g.code[b], LAMBDA old : old.op # "alloca"),
      LAMBDA old : IF old.op = "ret" THEN Br(after) ELSE Cloned(f, g, at, inst, old))
Allocas(f, g, at, inst, blocks) ==
  FoldLeft(LAMBDA s, b : Map(SelectSeq(g.code[b], LAMBDA old : old.op = "alloca"),
                             LAMBDA old : Cloned(f, g, at, inst, old)) \o s, <<>>, blocks)

\* The values returned, each with the block it comes from.
Returns(f, g, at, inst, blocks) ==
  LET rets == SelectSeq(blocks, LAMBDA b : Terminator(g, b).op = "ret" /\ Terminator(g, b).args # <<>>)
  IN  [args |-> Map(rets, LAMBDA b : NewOperand(f, inst, Terminator(g, b).args[1])),
       blocks |-> Map(rets, LAMBDA b : NewBlock(f, g, at, b))]

\* The phis after the caller's block have the second part as predecessor.
PhisForgotten(f, at, after) == f    \* faulty: they keep the block cut
PhisFollow(f, at, after) ==
  FoldLeft(LAMBDA h, t : MapPhis(h, t, LAMBDA phi : [phi EXCEPT !.blocks = ReplaceAll(@, at, after)]),
           f, f.succ[after])

\* The block cut has no successors any more.
StillAttached(f, at) == f           \* faulty: it keeps them
Detached(f, at) == DropEdges(f, at)

\* The first block keeps what precedes the call, the new block has the rest and
\* the edges.
Cut(f, at, i, after) ==
  LET rest == SubSeq(f.code[at], i + 1, Len(f.code[at]))
      old == Reverse(f.succ[at])
      split == [WithBlocks(f, <<rest>>) EXCEPT !.code[at] = SubSeq(@, 1, i - 1), !.order = Append(@, after)]
      moved == FoldLeft(LAMBDA h, t : AddEdge(h, after, t), split, old)
  IN  PhisFollow(Detached(moved, at), at, after)

\* The blocks of g put after `at`, with their edges.
Spliced(f, g, at, inst, blocks, after) ==
  LET new(b) == NewBlock(f, g, at, b)
      room == [WithBlocks(f, Map(Tail(blocks), LAMBDA b : <<>>)) EXCEPT !.order = @ \o Map(Tail(blocks), LAMBDA b : new(b))]
      filled == FoldLeft(LAMBDA h, b : [h EXCEPT !.code[new(b)] = @ \o Body(f, g, at, inst, b, after)],
                         room, blocks)
      edges(h, b) == FoldLeft(LAMBDA k, t : AddEdge(k, new(b), t), h, Terminator(h, new(b)).blocks)
  IN  FoldLeft(edges, filled, blocks)

\* The value of the call: the one value returned, or a phi of them.
Answered(f, inst, returns, n, after) ==
  CASE returns.args = <<>> -> f
    [] Len(returns.args) = 1 -> ReplaceUses(f, Name(inst.name), returns.args[1])
    [] OTHER -> ReplaceUses([f EXCEPT !.code[after] = <<Phi(n, returns.args, returns.blocks)>> \o @],
                            Name(inst.name), Name(n))

InlineCall(p, place) ==
  LET f == p.fns[place[1]]
      at == place[2]
      inst == f.code[at][place[3]]
      g == p.fns[Callee(inst)]
      after == NextBlock(f)
      blocks == Walked(g)
      cut == Cut(f, at, place[3], after)
      body == Spliced(cut, g, at, inst, blocks, after)
      hoisted == [body EXCEPT !.code[Entry(f)] = Allocas(cut, g, at, inst, blocks) \o @]
      returns == Returns(cut, g, at, inst, blocks)
  IN  [p EXCEPT !.fns[place[1]] =
         Answered(hoisted, inst, returns, Base(hoisted, inst), after)]

-----------------------------------------------------------------------------
NoHeader == [preheader |-> 0, latch |-> 0, phis |-> <<>>, latches |-> <<>>, acc |-> 0, accLatch |-> 0]

\* get_candidate: the last call of the function itself in block b, 0 if none.
Candidate(f, self, b) ==
  LET calls == {i \in DOMAIN f.code[b] : IsCall(f.code[b][i]) /\ Callee(f.code[b][i]) = self}
  IN  IF calls = {} THEN 0 ELSE Max(calls)

\* The instructions from the call to the terminator, each of which takes the
\* one before as just one of its operands, all additions or all multiplications.
Chain(f, b, i) == SubSeq(f.code[b], i, Len(f.code[b]) - 1)
IsChain(s) ==
  \A k \in DOMAIN s \ {1} :
    /\ s[k].op \in {"add", "mul"}
    /\ k > 2 => s[k].op = s[2].op
    /\ Cardinality({j \in DOMAIN s[k].args : s[k].args[j] = Name(s[k - 1].name)}) = 1

\* The block that returns, the phi it returns, and the place of v in it.  The code takes
\* any instruction: one that is no phi has the last of the chain among its operands only
\* if the function gets to this return by calling itself, always.  That is left out.
ReturnBlock(f, b) == Terminator(f, b).blocks[1]
ReturnPhi(f, b) == LET v == Terminator(f, ReturnBlock(f, b)).args[1] IN f.code[Defining(f, v[2])[1]][Defining(f, v[2])[2]]
ReturnsPhi(f, b) ==
  /\ IsJump(Terminator(f, b))
  /\ Terminator(f, ReturnBlock(f, b)).op = "ret" /\ Terminator(f, ReturnBlock(f, b)).args # <<>>
  /\ LET v == Terminator(f, ReturnBlock(f, b)).args[1] IN v[1] = "name" /\ IsPhi(ReturnPhi(f, b))
Eliminable(f, b, i) ==
  /\ i # 0 /\ ReturnsPhi(f, b) /\ IsChain(Chain(f, b, i))
  /\ Name(Last(Chain(f, b, i)).name) \in ToSet(ReturnPhi(f, b).args)

\* create_header: preheader -> old entry, latch -> old entry, a phi at each for
\* every parameter, which takes over the uses of the parameter.
HeaderPhis(f) ==
  LET n == NextName(f) IN [phis |-> [i \in 1 .. f.params |-> n + i], latches |-> [i \in 1 .. f.params |-> n + f.params + i]]
CreateHeader(f, ret) ==
  LET e == Entry(f)  pre == NextBlock(f)  latch == pre + 1  made == HeaderPhis(f)
      taken == FoldLeft(LAMBDA g, i : ReplaceUses(g, Param(i), Name(made.phis[i])), f, [i \in 1 .. f.params |-> i])
      phi(i) == Phi(made.phis[i], <<Param(i), Name(made.latches[i])>>, <<pre, latch>>)
      atLatch == Map(made.latches, LAMBDA n : Phi(n, <<>>, <<>>)) \o <<CondBr(Const(1), e, ret)>>
      framed == [WithBlocks(taken, <<<<Br(e)>>, atLatch>>) EXCEPT
                   !.order = <<pre>> \o @ \o <<latch>>,
                   !.code[e] = Map([i \in 1 .. f.params |-> i], phi) \o @]
  IN  AddEdge(AddEdge(AddEdge(framed, pre, e), latch, ret), latch, e)
WithHeader(f, t, ret) ==
  IF t.preheader # 0 THEN [f |-> f, t |-> t]
  ELSE [f |-> CreateHeader(f, ret),
        t |-> [t EXCEPT !.preheader = NextBlock(f), !.latch = NextBlock(f) + 1,
                        !.phis = HeaderPhis(f).phis, !.latches = HeaderPhis(f).latches]]

IdentityZero(op) == 0               \* faulty: a product starts at 0
Identity(op) == IF op = "add" THEN 0 ELSE 1

\* The accumulator, and the value returned: op(acc, ret_phi).
WithAccumulator(f, t, op, retPhi, ret) ==
  LET acc == NextName(f)  accLatch == acc + 1  new == acc + 2
      onReturn == ReplaceUses(f, Name(retPhi), Name(new))
      e == onReturn.succ[t.preheader][1]
  IN  IF t.acc # 0 THEN [f |-> f, t |-> t]
      ELSE [f |-> [onReturn EXCEPT
                     !.code[e] = <<Phi(acc, <<Name(accLatch), Const(Identity(op))>>, <<t.latch, t.preheader>>)>> \o @,
                     !.code[t.latch] = <<Phi(accLatch, <<>>, <<>>)>> \o @,
                     !.code[ret] = Front(@) \o <<Inst(new, op, <<Name(acc), Name(retPhi)>>, <<>>), Last(@)>>],
            t |-> [t EXCEPT !.acc = acc, !.accLatch = accLatch]]

\* add_phi_pair_operand, and remove_operands(id, id + 1).
AddPair(f, b, n, o, from) ==
  MapPhis(f, b, LAMBDA phi : IF phi.name = n THEN [phi EXCEPT !.args = Append(@, o), !.blocks = Append(@, from)] ELSE phi)
RemovePair(f, b, n, o) ==
  MapPhis(f, b, LAMBDA phi : IF phi.name # n THEN phi
                             ELSE DropPair(phi, SelectInSeq(phi.args, LAMBDA x : x = o)))

\* eliminate_call, of the call at index i of block b.
EliminateCall(f, t, b, i) ==
  LET call == f.code[b][i]
      last == Last(Chain(f, b, i))
      accumulates == last # call
      ret == ReturnBlock(f, b)
      phiPlace == Defining(f, ReturnPhi(f, b).name)
      retPhi == ReturnPhi(f, b).name
      headed == WithHeader(f, t, ret)
      with == IF accumulates THEN WithAccumulator(headed.f, headed.t, last.op, retPhi, ret) ELSE headed
      accumulated == IF accumulates THEN AddPair(with.f, with.t.latch, with.t.accLatch, Name(last.name), b) ELSE with.f
      now == Last(SelectSeq(accumulated.code[b], LAMBDA inst : inst.name = call.name))
      passed == FoldLeft(LAMBDA g, k : AddPair(g, with.t.latch, with.t.latches[k], now.args[k + 1], b),
                         accumulated, [k \in 1 .. f.params |-> k])
      unpaired == RemovePair(passed, phiPlace[1], retPhi, Name(last.name))
      replaced == IF accumulates THEN ReplaceUses(unpaired, Name(call.name), Name(with.t.acc)) ELSE unpaired
      erased == Erase(replaced, call.name)
  IN  [f |-> JumpTo(DropEdges(erased, b), b, with.t.latch), t |-> with.t]

\* run on one function: the blocks there were, in order.
Eliminated(f, self) ==
  FoldLeft(LAMBDA x, b : LET i == Candidate(x.f, self, b) IN
                         IF Eliminable(x.f, b, i) THEN EliminateCall(x.f, x.t, b, i) ELSE x,
           [f |-> f, t |-> NoHeader], f.order).f

-----------------------------------------------------------------------------
\* What the pass handles: all the calls it takes accumulate, with one operator,
\* or none does (a call that does not accumulate leaves the accumulator without a
\* value), all return through one block, and a function without a value is not
\* asked for the operand of its return.
Operators(f, self) ==
  {LET s == Chain(f, b, Candidate(f, self, b)) IN IF Len(s) = 1 THEN "none" ELSE Last(s).op :
     b \in {c \in Blocks(f) : Eliminable(f, c, Candidate(f, self, c))}}
Uniform(f, self) == Cardinality(Operators(f, self)) <= 1

-----------------------------------------------------------------------------
CONSTANT Candidates      \* the programs that may be compiled

VARIABLES prog,     \* the module
          stage,    \* the pass
          todo,     \* the functions it still has to look at
          promised  \* what the program did before the passes

vars == <<prog, stage, todo, promised>>

\* What the passes are known to handle.
Handled(p, first) ==
  /\ first \in {"dead_globals", "tail"} => \A f \in ToSet(p.list) : Uniform(p.fns[f], f)

Init ==
  /\ prog \in Candidates
  /\ stage \in {"dead_globals", "tail", "inline", "local"}
  /\ Handled(prog, stage)
  /\ todo = prog.list
  /\ promised = Outcomes(prog)

Pass(now, next) == stage = now /\ todo = <<>> /\ stage' = next /\ todo' = prog.list /\ UNCHANGED <<prog, promised>>
Look(now) == stage = now /\ todo # <<>> /\ todo' = Tail(todo) /\ UNCHANGED <<stage, promised>>

\* DeadGlobalElimination::run.
RemoveGlobals == stage = "dead_globals" /\ todo # <<>> /\ prog' = DeadGlobals(prog) /\ todo' = <<>> /\ UNCHANGED <<stage, promised>>

\* TailRecursionElim::run, one function.
EliminateTails == Look("tail") /\ prog' = [prog EXCEPT !.fns[Head(todo)] = Eliminated(@, Head(todo))]

\* FuncInline::run: a call of the function it is at, and when none is left the
\* next function.
InlineOne ==
  /\ stage = "inline" /\ todo # <<>> /\ Inlineable(prog, Head(todo)) /\ CallsOf(prog, Head(todo)) # {}
  /\ prog' = InlineCall(prog, CHOOSE c \in CallsOf(prog, Head(todo)) : TRUE)
  /\ UNCHANGED <<stage, todo, promised>>
InlineNext ==
  /\ Look("inline") /\ (~ Inlineable(prog, Head(todo)) \/ CallsOf(prog, Head(todo)) = {}) /\ UNCHANGED prog

\* GloVarLocal::run.
LocalizeGlobals ==
  /\ stage = "local" /\ todo # <<>> /\ RunsOnce(prog)
  /\ prog' = GlobalVarLocal(prog) /\ todo' = <<>> /\ UNCHANGED <<stage, promised>>

Next ==
  \/ RemoveGlobals \/ EliminateTails \/ InlineOne \/ InlineNext \/ LocalizeGlobals
  \/ Pass("dead_globals", "tail") \/ Pass("tail", "inline") \/ Pass("inline", "local")

Spec == Init /\ [][Next]_vars
-----------------------------------------------------------------------------
\* No pass changes what the program writes and returns.
ProgramKept == Keeps(promised, prog)

\* The lists of predecessors and successors follow the terminators.
EdgesKept == Mirrored(prog)

\* A function FuncInfo calls pure can be called twice, or not at all: it reads
\* and writes nothing, changes no global, and depends on its arguments only.
Changed(globals) == [g \in DOMAIN globals |-> [i \in DOMAIN globals[g] |-> Wrap(globals[g][i] + 1)]]
Alike(x, y) == x.end # "returned" \/ y.end # "returned" \/ x.seen = y.seen
PurityHolds ==
  \A f \in Pure(prog), a \in Inputs :
    LET start == Start(prog, f, [i \in 1 .. prog.fns[f].params |-> a])
        once == Run(prog, a, start, Steps)
        other == Run(prog, 0, [start EXCEPT !.mem = Changed(@)], Steps)
    IN  /\ once.reads = 0 /\ Len(once.seen) <= 1
        /\ \A g \in DOMAIN prog.globals : once.mem[g] = prog.globals[g]
        /\ Alike(once, other)
=============================================================================
