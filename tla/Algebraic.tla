------------------------------ MODULE Algebraic ------------------------------
(***************************************************************************)
(* Optimize/AlgebraicSimplification.cc: every 32-bit sum, difference and   *)
(* product is written as a linear combination of the values that are none  *)
(* of these, and computed anew where that has collected terms.             *)
(*                                                                         *)
(* A node of the expression forest is a record: the terms, a function from *)
(* values to coefficients; const; isConst, its value is const; replace,    *)
(* need_replace.  A leaf is no node.                                       *)
(***************************************************************************)
EXTENDS Straight

VARIABLE nodes   \* value2node, from the names of arithmetic instructions

IsAlge(inst) == inst.op \in {"add", "sub", "mul"}
NewNode == [terms |-> <<>>, const |-> 0, isConst |-> FALSE, replace |-> FALSE]

\* add_term(value, num)
AddValue(nd, o, num) ==
  IF IsConst(o)
  THEN [nd EXCEPT !.replace = @ \/ nd.const # 0, !.const = Wrap(@ + o[2] * num)]
  ELSE IF o \in DOMAIN nd.terms
  THEN [nd EXCEPT !.terms[o] = Wrap(@ + num), !.replace = TRUE]
  ELSE [nd EXCEPT !.terms = [t \in DOMAIN @ \cup {o} |-> IF t = o THEN num ELSE @[t]]]

IsNode(table, o) == ~ IsConst(o) /\ o[2] \in DOMAIN table

\* add_term(node, n)
AddTerm(table, nd, o, n) ==
  IF ~ IsNode(table, o) THEN AddValue(nd, o, n)
  ELSE LET other == table[o[2]]
           all == FoldSet(LAMBDA t, acc : AddValue(acc, t, Wrap(other.terms[t] * n)), nd, DOMAIN other.terms)
       IN  IF other.const = 0 THEN all
           ELSE [all EXCEPT !.const = Wrap(@ + other.const * n), !.replace = TRUE]

KnownConst(table, o) == IsConst(o) \/ (IsNode(table, o) /\ table[o[2]].isConst)
ConstOf(table, o) == IF IsConst(o) THEN o[2] ELSE table[o[2]].const

\* add_sub_node_new, mul_node_new
SumNode(table, inst) ==
  LET nd == AddTerm(table, AddTerm(table, NewNode, inst.args[1], 1),
                    inst.args[2], IF inst.op = "add" THEN 1 ELSE -1)
  IN  [nd EXCEPT !.isConst = (nd.terms = <<>>)]
ProductNode(table, inst) ==
  LET l == inst.args[1]  r == inst.args[2]
  IN  IF KnownConst(table, l) /\ KnownConst(table, r)
      THEN [NewNode EXCEPT !.const = Wrap(ConstOf(table, l) * ConstOf(table, r)), !.isConst = TRUE]
      ELSE IF KnownConst(table, l) THEN AddTerm(table, NewNode, r, ConstOf(table, l))
      ELSE IF KnownConst(table, r) THEN AddTerm(table, NewNode, l, ConstOf(table, r))
      ELSE AddValue(NewNode, Name(inst.name), 1)

\* update_tree and reassociation; in a block every operand comes first.
Forest(insts) ==
  FoldLeft(LAMBDA table, inst :
             IF ~ IsAlge(inst) THEN table
             ELSE [n \in DOMAIN table \cup {inst.name} |->
                     IF n # inst.name THEN table[n]
                     ELSE IF inst.op = "mul" THEN ProductNode(table, inst) ELSE SumNode(table, inst)],
           <<>>, insts)

-----------------------------------------------------------------------------
\* utils::add_i32 and its like: a result [new: the instructions inserted so far,
\* val] and the name a further instruction takes.
Emit(res, n, op, a, b) ==
  LET name == n + Len(res.new) IN [new |-> Append(res.new, Inst(name, op, <<a, b>>)), val |-> Name(name)]
Is(res, v) == [res EXCEPT !.val = v]
add_i32(res, n, a, b) ==
  CASE IsConst(a) /\ IsConst(b) -> Is(res, Const(Wrap(a[2] + b[2])))
    [] IsZero(a) -> Is(res, b)
    [] IsZero(b) -> Is(res, a)
    [] OTHER -> Emit(res, n, "add", a, b)
sub_i32(res, n, a, b) ==
  CASE IsConst(a) /\ IsConst(b) -> Is(res, Const(Wrap(a[2] - b[2])))
    [] IsZero(b) -> Is(res, a)
    [] OTHER -> Emit(res, n, "sub", a, b)
mul_i32(res, n, a, b) ==
  CASE IsConst(a) /\ IsConst(b) -> Is(res, Const(Wrap(a[2] * b[2])))
    [] a = Const(1) -> Is(res, b)
    [] b = Const(1) -> Is(res, a)
    [] IsZero(a) \/ IsZero(b) -> Is(res, Const(0))
    [] OTHER -> Emit(res, n, "mul", a, b)

\* The terms by falling coefficient; those with the same one are added first (in
\* an order that is up to a hash table).
Coefficients(nd) == SetToSortSeq({nd.terms[t] : t \in DOMAIN nd.terms}, LAMBDA a, b : a > b)
ValuesOf(nd, c) == SetToSortSeq({t \in DOMAIN nd.terms : nd.terms[t] = c}, LAMBDA a, b : a[2] < b[2])

AddGroup(nd, res, n, c) ==
  LET vals == ValuesOf(nd, c)
      sum == FoldLeft(LAMBDA s, v : add_i32(s, n, s.val, v), Is(res, vals[1]), Tail(vals))
      term == mul_i32(sum, n, sum.val, Const(Wrap(Magnitude(c))))
  IN  IF c > 0 THEN add_i32(term, n, res.val, term.val) ELSE sub_i32(term, n, res.val, term.val)

Combination(nd, n) ==
  LET res == FoldLeft(LAMBDA r, c : AddGroup(nd, r, n, c), [new |-> <<>>, val |-> Const(0)], Coefficients(nd))
  IN  add_i32(res, n, res.val, Const(nd.const))

-----------------------------------------------------------------------------
\* replace_instruction, for the instruction at the iterator; the forest is there
\* when it starts.
Table == IF at = 1 THEN Forest(code) ELSE nodes
Replaced(inst) == IsAlge(inst) /\ inst.name \in DOMAIN Table /\ Table[inst.name].replace

ReplaceInstruction ==
  /\ at \in DOMAIN code /\ Replaced(code[at])
  /\ LET new == Combination(Table[code[at].name], Fresh(code))
     IN  /\ code' = ReplaceUses(InsertBefore(code, at, new.new), Name(code[at].name), new.val)
         /\ at' = at + Len(new.new) + 1
  /\ nodes' = Table

KeepInstruction ==
  /\ at \in DOMAIN code /\ ~ Replaced(code[at])
  /\ at' = at + 1 /\ nodes' = Table
  /\ UNCHANGED code

Next == ReplaceInstruction \/ KeepInstruction
=============================================================================
