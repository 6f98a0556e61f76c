----------------------------- MODULE Redundancy -----------------------------
(***************************************************************************)
(* What has been computed or is known to be in memory is used again.       *)
(*                                                                         *)
(* LocalCommonExpression (Optimize/LocalCommonExpression.hh) looks three   *)
(* times: block by block, along blocks with a single predecessor, and down *)
(* the tree of dominators.  A walk w has the function f, the chain of      *)
(* tables of what is available (aebs, the innermost last), and for the     *)
(* second look the blocks done and those still to come (work).             *)
(*                                                                         *)
(* Peephole::run_peephole_aa (Optimize/Peephole.cc) walks a block and      *)
(* remembers, for addresses that AliasAnalysis compares, the store that    *)
(* was last (ptr2store) and the value there (ptr2val).  A walk w is at     *)
(* instruction w.i of block w.b; w.stores holds pairs <<address, index>>,  *)
(* w.vals pairs <<address, value>>.                                        *)
(***************************************************************************)
EXTENDS Globals, Flow

Hashable == Arithmetic \cup Comparisons \cup {"zext", "gep", "phi"}

\* can_be_common_expression, and what Instruction::equal compares.
Common(pure, inst) == inst.op \in Hashable \/ (IsCall(inst) /\ Callee(inst) \in pure)
Expression(inst) == <<inst.op, inst.args, inst.blocks>>

\* A table is looked up by the hash its entries had when they came, and compares
\* them as they are now: an entry whose operands were replaced since is not found.
Entry1(inst) == [name |-> inst.name, key |-> Expression(inst)]
Finds(f, e, inst) ==
  e.key = Expression(inst) /\ Expression(InstAt(f, Defining(f, e.name))) = Expression(inst)
FoundIn(f, table, inst) == {e.name : e \in {e \in table : Finds(f, e, inst)}}

\* LVN, the loop of process_bb, and that of DVNT, which skips the phis.
Visit(w, pure, phis, b, i) ==
  LET inst == w.f.code[b][i]
      before == SelectInSeq(w.chain, LAMBDA table : FoundIn(w.f, table, inst) # {})
  IN  IF ~ Common(pure, inst) \/ (IsPhi(inst) /\ ~ phis) THEN w
      ELSE IF before = 0 THEN [w EXCEPT !.chain[Len(w.chain)] = @ \cup {Entry1(inst)}]
      ELSE [w EXCEPT !.f = ReplaceUses(@, Name(inst.name),
                                       Name(CHOOSE n \in FoundIn(w.f, w.chain[before], inst) : TRUE))]
Numbered(w, pure, phis, b) ==
  FoldLeft(LAMBDA v, i : Visit(v, pure, phis, b, i), [w EXCEPT !.chain = Append(@, {})],
           [i \in DOMAIN w.f.code[b] |-> i])
Left(w) == [w EXCEPT !.chain = Front(@)]
Fresh(f) == [f |-> f, chain |-> <<>>, done |-> {}, work |-> <<Entry(f)>>]

\* BBLCE.
EachBlock(f, pure) == FoldLeft(LAMBDA w, b : Left(Numbered(w, pure, TRUE, b)), Fresh(f), f.order).f

\* EBBLCE: a walk goes on from a block to the successors it is the only predecessor of.
ExtendsAlways(f, c) == TRUE          \* faulty: whoever else leads there
Extends(f, c) == Len(f.pre[c]) = 1

RECURSIVE SVN(_, _, _)
SVN(w, pure, b) ==
  LET in == Numbered([w EXCEPT !.done = @ \cup {b}], pure, TRUE, b)
      next(v, c) == IF Extends(v.f, c) THEN SVN(v, pure, c)
                    ELSE IF c \in v.done THEN v ELSE [v EXCEPT !.work = Append(@, c)]
  IN  IF b \in w.done THEN w ELSE Left(FoldLeft(next, in, w.f.succ[b]))
RECURSIVE Worked(_, _)
Worked(w, pure) ==
  IF w.work = <<>> THEN w ELSE Worked(SVN([w EXCEPT !.work = Tail(@)], pure, Head(w.work)), pure)
EachChain(f, pure) == Worked(Fresh(f), pure).f

\* DVNT: the blocks b dominates at once.
Children(f, b) ==
  LET dominates(a, c) == a # c /\ Dominates(Edges(f), Entry(f), a, c)
  IN  SelectSeq(f.order, LAMBDA c : dominates(b, c) /\ ~ \E a \in Blocks(f) : dominates(b, a) /\ dominates(a, c))
RECURSIVE DVNT(_, _, _)
DVNT(w, pure, b) ==
  Left(FoldLeft(LAMBDA v, c : DVNT(v, pure, c), Numbered(w, pure, FALSE, b), Children(w.f, b)))
EachTree(f, pure) == DVNT(Fresh(f), pure, Entry(f)).f

-----------------------------------------------------------------------------
\* MemAddress::has_const_base, and AliasAnalysis::alias, which exits if it is asked about
\* pointers of two types: here all elements are words.
ConstBase(f, o) ==
  LET base == FirstAddr(f, o) IN base[1] # "name" \/ InstAt(f, Defining(f, base[2])).op = "alloca"
Alias(f, v, w) ==
  LET x == ConstOffset(f, v)  y == ConstOffset(f, w)
      same == FirstAddr(f, v) = FirstAddr(f, w)
  IN  CASE ~ ConstBase(f, v) \/ ~ ConstBase(f, w) -> "may"
        [] same /\ x # -1 /\ x = y -> "must"
        [] ~ same \/ (x # -1 /\ y # -1) -> "no"
        [] OTHER -> "may"

-----------------------------------------------------------------------------
At(f, b) == [f |-> f, b |-> b, i |-> 1, stores |-> {}, vals |-> {}]
Current(w) == w.f.code[w.b][w.i]
Aliasing(w, table, how) == {e \in table : Alias(w.f, Address(Current(w)), e[1]) = how}

\* map::insert leaves the entry that is there.
Inserted(table, o, x) == IF \E e \in table : e[1] = o THEN table ELSE table \cup {<<o, x>>}
Remembered(w) ==
  [w EXCEPT !.stores = Inserted(@, Current(w).args[2], w.i),
            !.vals = Inserted(@, Current(w).args[2], Current(w).args[1])]
Forgot(w) == [w EXCEPT !.stores = {}, !.vals = {}]
Onward(w) == [w EXCEPT !.i = @ + 1]

\* A call may change all of the memory.
CalledKeeps(w) == w                 \* faulty: what is known stays known
Called(w) == Forgot(w)

StoredApart(w) == Remembered(w)
StoredOver(w) == Remembered(Forgot(w))

\* The store in entry s, whose address is that of the current one, goes.
Replaced(w, s, v) ==
  [w EXCEPT !.f.code[w.b] = RemoveAt(@, s[2]), !.i = @ - 1, !.vals = @ \ {v},
            !.stores = {<<e[1], IF e[2] > s[2] THEN e[2] - 1 ELSE e[2]>> : e \in @ \ {s}}]

\* The walks an instruction leads to; where several entries fit, the map's order,
\* that of the pointers, decides.
StoreSteps(w) ==
  LET must == Aliasing(w, w.stores, "must") IN
  IF Aliasing(w, w.stores, "may") # {} THEN {StoredOver(w)}
  ELSE IF must = {} THEN {StoredApart(w)}
  ELSE {Remembered(Replaced(w, x[1], x[2])) : x \in must \X Aliasing(w, w.vals, "must")}
LoadSteps(w) ==
  LET known == Aliasing(w, w.vals, "must")
      load == Current(w)
  IN  IF known = {} THEN {[w EXCEPT !.vals = {e \in @ : e[1] # load.args[1]} \cup {<<load.args[1], Name(load.name)>>}]}
      ELSE {[w EXCEPT !.f = ReplaceUses(@, Name(load.name), e[2])] : e \in known}

Walks(w) ==
  {Onward(v) : v \in CASE IsCall(Current(w)) -> {Called(w)}
                       [] Current(w).op = "store" -> StoreSteps(w)
                       [] Current(w).op = "load" -> LoadSteps(w)
                       [] OTHER -> {w}}

\* run_peephole_aa: what the walk over block b of f may come to.
RunPeephole(f, b) == FoldLeft(LAMBDA W, inst : UNION {Walks(w) : w \in W}, {At(f, b)}, f.code[b])

-----------------------------------------------------------------------------
\* What the walk gets right: between two calls a block stores nowhere it may have
\* loaded from, and reads no place that may be that of a store it repeats.
Between(f, b, i, j) == \A k \in i .. j : ~ IsCall(f.code[b][k])
Ordered(f) ==
  \A b \in Blocks(f) :
    LET at(op) == {i \in DOMAIN f.code[b] : f.code[b][i].op = op}
        how(i, j) == Alias(f, Address(f.code[b][i]), Address(f.code[b][j]))
    IN  /\ \A i \in at("load"), j \in at("store") : i < j /\ Between(f, b, i, j) => how(i, j) = "no"
        /\ \A i \in at("store"), j \in at("load"), k \in at("store") :
             i < j /\ j < k /\ Between(f, b, i, k) /\ how(i, k) = "must" => how(i, j) # "may"
=============================================================================
