------------------------------- MODULE Mem2Reg -------------------------------
(***************************************************************************)
(* Mem2Reg of Optimize/Mem2Reg.cc on one function.  Its run first has the  *)
(* dominators computed (module Dominators), then puts phis in and renames; *)
(* and then the program it leaves is run beside the program it was given.  *)
(* A block is a sequence of loads and stores of scalar variables; a store  *)
(* writes a computed value or what an earlier load of its block has read.  *)
(* Sets of blocks, which the code orders by address, are taken in any      *)
(* order.                                                                  *)
(*                                                                         *)
(* A name is a value of the new program: <<b, i>> is what instruction i of *)
(* block b computes and stores, <<b, v>> the phi for variable v in b.      *)
(***************************************************************************)
EXTENDS Naturals, Sequences, SequencesExt, FiniteSets

CONSTANTS Block, Entry, Var,
          Codes(_),            \* the instruction sequences in a function of n blocks
          NoBlock,             \* nullptr
          NoName               \* back() of an empty stack: undefined

load(v) == [op |-> "load", lval |-> v, from |-> 0]
store(v, i) == [op |-> "store", lval |-> v, from |-> i]    \* i = 0: a computed value
Instruction == [op : {"load", "store"}, lval : Var, from : Nat]

ASSUME VarAssumption == IsFiniteSet(Var)
ASSUME CodesAssumption ==
  /\ Block \cap Nat = {} /\ Var \cap Nat = {} /\ NoName \notin Block \X (Nat \cup Var)
  /\ \A n \in 1 .. Cardinality(Block) : \A c \in Codes(n) : c \in Seq(Instruction) /\ \A k \in DOMAIN c :
       \/ c[k] \in {load(v) : v \in Var}
       \/ \E v \in Var, i \in 0 .. k - 1 :
            /\ c[k] = store(v, i)
            /\ i # 0 => c[i].op = "load" /\ \A j \in i .. k - 1 : c[j].op = "load"

VARIABLES
  cfg, root, blocks, visits, visited, visit_order, idom, pass, changed,
  dom_frontier, dom_tree_succ_blocks,          \* see Dominators
  code,              \* the instructions of every block, once Mem2Reg looks at them
  todo,              \* blocks of bb_queue, for each variable
  phis,              \* all_bb_phi
  calls,             \* the activations of rename: a block and its children left
  var_to_val_stack,
  replaced,          \* the name put in the place of each deleted load
  pairs,             \* the operand of phi p for a predecessor b, under <<p, b>>
  at,                \* where the two programs are: block and instruction
  stored,            \* the variables that the first program has stored to
  same               \* the names that hold, in the second, what a variable holds
domVars == <<cfg, root, blocks, visits, visited, visit_order, idom, pass, changed,
             dom_frontier, dom_tree_succ_blocks>>
work == <<todo, phis, calls, var_to_val_stack, replaced, pairs>>
vars == <<domVars, code, work, at, stored, same>>

D == INSTANCE Dominators WITH calls <- visits
F == INSTANCE Flow
ASSUME NullAssumption == D!GraphAssumption

Stores(b, v) == {k \in DOMAIN code[b] : code[b][k].op = "store" /\ code[b][k].lval = v}

Init ==
  /\ D!Init
  /\ code = <<>> /\ todo = <<>>
  /\ phis = {} /\ calls = <<>> /\ var_to_val_stack = <<>> /\ replaced = <<>> /\ pairs = <<>>
  /\ at = <<>> /\ stored = {} /\ same = [v \in Var |-> {}]

ComputeDominators == D!Next /\ UNCHANGED <<code, work, at, stored, same>>

-----------------------------------------------------------------------------
\* generate_phi begins: the blocks that store queue up.  visit_order and visited are
\* cleared when they are used again; forgetting them here leaves fewer states.
Collect ==
  /\ D!Finished /\ root = Entry /\ code = <<>>
  /\ code' \in [blocks -> Codes(Cardinality(blocks))]
  /\ todo' = [v \in Var |-> {b \in blocks : Stores(b, v)' # {}}]
  /\ visited' = {} /\ visit_order' = <<>>
  /\ UNCHANGED <<cfg, root, blocks, visits, idom, pass, changed, dom_frontier,
                 dom_tree_succ_blocks, phis, calls, var_to_val_stack, replaced, pairs,
                 at, stored, same>>

\* A block of bb_queue puts phis in its frontier, and these queue too.
QueuedNever(B) == {}                             \* faulty: a phi is no store
Queued(B) == B

InsertPhis(v, b) ==
  /\ code # <<>> /\ b \in todo[v]
  /\ LET new == {c \in dom_frontier[b] : <<c, v>> \notin phis}
     IN  /\ phis' = phis \cup (new \X {v})
         /\ todo' = [todo EXCEPT ![v] = (@ \ {b}) \cup Queued(new)]
  /\ UNCHANGED <<domVars, code, calls, var_to_val_stack, replaced, pairs,
                 at, stored, same>>

-----------------------------------------------------------------------------
\* rename.  A variable has a stack from its first store or phi on.
Push(st, v, name) ==
  [w \in DOMAIN st \cup {v} |->
     IF w # v THEN st[w] ELSE IF v \in DOMAIN st THEN Append(st[v], name) ELSE <<name>>]
Joined(f, g) == [x \in DOMAIN f \cup DOMAIN g |-> IF x \in DOMAIN f THEN f[x] ELSE g[x]]
Back(st, v) == IF st[v] = <<>> THEN NoName ELSE Last(st[v])

PhiVars(b) == {v \in Var : <<b, v>> \in phis}

\* What a store writes, its loads replaced; a load that stays has no value to give.
Written(b, k, rep) ==
  LET i == code[b][k].from
  IN  IF i = 0 THEN <<b, k>> ELSE IF <<b, i>> \in DOMAIN rep THEN rep[<<b, i>>] ELSE NoName

Rewrite(b, s, k) ==
  LET v == code[b][k].lval
  IN  CASE code[b][k].op = "store" -> [s EXCEPT !.stacks = Push(@, v, Written(b, k, s.replaced))]
        [] code[b][k].op = "load" /\ v \in DOMAIN s.stacks ->
             [s EXCEPT !.replaced = Joined(@, [place \in {<<b, k>>} |-> Back(s.stacks, v)])]
        [] OTHER -> s

Rewritten(b) ==
  LET st == FoldLeft(LAMBDA s, v : Push(s, v, <<b, v>>), var_to_val_stack, SetToSeq(PhiVars(b)))
  IN  FoldLeft(LAMBDA s, k : Rewrite(b, s, k), [stacks |-> st, replaced |-> replaced],
               [k \in DOMAIN code[b] |-> k])

FilledForward(b, st) ==                          \* faulty: not for a loop of one block
  {p \in phis : p[1] \in F!Succs(cfg, b) \ {b} /\ p[2] \in DOMAIN st /\ st[p[2]] # <<>>}

\* The operands b gives to the phis of its successors: none for an empty stack.
Filled(b, st) ==
  {p \in phis : p[1] \in F!Succs(cfg, b) /\ p[2] \in DOMAIN st /\ st[p[2]] # <<>>}

\* The call of rename for b, as far as its own recursive calls.
Enter(b, waiting) ==
  LET r == Rewritten(b)
  IN  /\ var_to_val_stack' = r.stacks /\ replaced' = r.replaced
      /\ pairs' = Joined(pairs, [x \in {<<p, b>> : p \in Filled(b, r.stacks)} |-> Last(r.stacks[x[1][2]])])
      /\ calls' = Append(waiting, [block |-> b, rest |-> dom_tree_succ_blocks[b]])
      /\ UNCHANGED <<domVars, code, todo, phis, at, stored, same>>

Start ==
  /\ code # <<>> /\ todo = [v \in Var |-> {}] /\ calls = <<>> /\ at = <<>>
  /\ Enter(Entry, <<>>)

Recur(b) ==
  /\ calls # <<>> /\ b \in Last(calls).rest
  /\ Enter(b, [calls EXCEPT ![Len(calls)].rest = @ \ {b}])

PoppedStores(b, v) == Cardinality(Stores(b, v))  \* faulty: the phi stays
Popped(b, v) == Cardinality(Stores(b, v)) + Cardinality({v} \cap PhiVars(b))

\* The pops; when the call for the entry returns, the allocas go and the program runs.
Return ==
  /\ calls # <<>> /\ Last(calls).rest = {}
  /\ LET b == Last(calls).block
     IN  var_to_val_stack' = [v \in DOMAIN var_to_val_stack |->
           SubSeq(var_to_val_stack[v], 1, Len(var_to_val_stack[v]) - Popped(b, v))]
  /\ calls' = Front(calls)
  /\ at' = IF calls' = <<>> THEN <<Entry, 1>> ELSE at
  /\ UNCHANGED <<domVars, code, todo, phis, replaced, pairs, stored, same>>

-----------------------------------------------------------------------------
\* The two programs step together.
Ongoing == at # <<>> /\ at[2] \in DOMAIN code[at[1]]
Instr == code[at[1]][at[2]]

Load ==
  /\ Ongoing /\ Instr.op = "load"
  /\ at' = <<at[1], at[2] + 1>>
  /\ UNCHANGED <<domVars, code, work, stored, same>>

\* The name of a store that computes is bound anew and no other variable has its value.
Store ==
  /\ Ongoing /\ Instr.op = "store"
  /\ LET v == Instr.lval
         w == code[at[1]][Instr.from].lval
     IN  IF Instr.from = 0
         THEN /\ stored' = stored \cup {v}
              /\ same' = [x \in Var |-> IF x = v THEN {at} ELSE same[x] \ {at}]
         ELSE /\ stored' = IF w \in stored THEN stored \cup {v} ELSE stored \ {v}
              /\ same' = [same EXCEPT ![v] = same[w]]
  /\ at' = <<at[1], at[2] + 1>>
  /\ UNCHANGED <<domVars, code, work>>

\* All the phis of the block read their operands before one of them is written.
Goto(c) ==
  /\ at # <<>> /\ ~ Ongoing /\ c \in F!Succs(cfg, at[1])
  /\ LET now == {p \in phis : p[1] = c}
         Holds(p, v) == <<p, at[1]>> \in DOMAIN pairs /\ pairs[<<p, at[1]>>] \in same[v]
     IN  same' = [v \in Var |-> (same[v] \ now) \cup {p \in now : Holds(p, v)}]
  /\ at' = <<c, 1>>
  /\ UNCHANGED <<domVars, code, work, stored>>

Next ==
  \/ ComputeDominators \/ Collect
  \/ \E v \in Var, b \in Block : InsertPhis(v, b)
  \/ Start \/ Return \/ \E b \in Block : Recur(b)
  \/ Load \/ Store \/ \E c \in Block : Goto(c)
Spec == Init /\ [][Next]_vars

-----------------------------------------------------------------------------
\* The dominators and their frontiers are those of the definition when Mem2Reg, or a
\* pass over the reversed graph, begins to use them, and idom only climbs on the way.
DominatesIsDominance == code = <<>> => D!DominatesIsDominance /\ D!FrontierIsFrontier
OnlyClimbs == D!OnlyClimbs

\* The point of the pass: when the program reads a variable that it has stored to,
\* the name that replaced the load holds what the variable holds, on every path; and
\* a phi of such a variable has an operand for the edge the program takes.
LoadsKeepTheirValue ==
  /\ Ongoing /\ Instr.op = "load" /\ Instr.lval \in stored =>
       at \in DOMAIN replaced /\ replaced[at] \in same[Instr.lval]
  /\ at # <<>> /\ ~ Ongoing =>
       \A p \in phis : p[1] \in F!Succs(cfg, at[1]) /\ p[2] \in stored =>
         <<p, at[1]>> \in DOMAIN pairs

\* The stacks hold the stores and phis of the blocks whose calls are in progress,
\* no more, so a sibling in the tree never sees them.
StacksAreScoped ==
  \A v \in DOMAIN var_to_val_stack :
    var_to_val_stack[v] =
      FlattenSeq([n \in DOMAIN calls |->
        LET b == calls[n].block
            At(k) == IF code[b][k].op = "store" /\ code[b][k].lval = v
                     THEN <<Written(b, k, replaced)>> ELSE <<>>
        IN  (IF v \in PhiVars(b) THEN << <<b, v>> >> ELSE <<>>)
              \o FlattenSeq([k \in DOMAIN code[b] |-> At(k)])])
=============================================================================
