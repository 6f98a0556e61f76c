----------------------------- MODULE BlockEdge ------------------------------
(***************************************************************************)
(* The end of a basic block: Codegen::gen_br and resolve_moves of          *)
(* codegen_new/codegen.cc with the copies RegAlloc::resolve computed for   *)
(* the edges (codegen_new/regalloc.cc).                                    *)
(*                                                                         *)
(* Linear scan may leave a value in different places at the end of a block *)
(* and at the start of its successor, and a phi wants its operand in its   *)
(* own place.  `want` says, per successor, which value each place must     *)
(* hold there, be it the value itself or a phi that takes it.  The code of *)
(* the branch is emitted first and then run; a list of copies is performed *)
(* at once, which is what ParallelMov shows of parallel_mov.               *)
(***************************************************************************)
EXTENDS Naturals, Sequences

CONSTANTS
  Val,      \* the values alive at the branch
  Place,    \* registers and stack slots
  Block,    \* the successors
  Kind,     \* the branches considered, a subset of AllKinds
  Reload    \* may a value change its place at the branch itself (pos + 1)?

AllKinds == {"jump", "int", "float"}
BranchAssumption == Kind \subseteq AllKinds /\ Reload \in BOOLEAN /\ "none" \notin Block

VARIABLES
  kind, target,  \* the branch: one target, or target["then"] and target["else"]
  before, after, \* where a value is at pos and at pos + 1
  want,          \* what each successor expects, place by place
  mapping,       \* the targets that still have an entry in move_mapping
  code,          \* the emitted code
  pc, content,   \* its execution: next item, and what each place holds
  arrived        \* the successor that was reached, or "none"

vars == <<kind, target, before, after, want, mapping, code, pc, content, arrived>>

Locations == {f \in [Val -> Place] : \A v, w \in Val : f[v] = f[w] => v = w}
Wishes == UNION {[P -> Val] : P \in SUBSET Place}

\* A conditional branch has two targets.  With one target twice, the entry of the edge
\* would be gone when the second part of the code asks for it (resolve_moves).  The
\* builder makes no such branch, and try_replace_empty_jump (SimplifyCFG.hh:233) none.
Init ==
  /\ kind \in Kind
  /\ target \in [{"then", "else"} -> Block]
  /\ (kind = "jump") <=> target["then"] = target["else"]
  /\ before \in Locations /\ after \in (IF Reload THEN Locations ELSE {before})
  /\ want \in [Block -> Wishes]
  /\ mapping = Block
  /\ code = <<>> /\ pc = 1 /\ arrived = "none"
  /\ content = [p \in Place |-> {v \in Val : before[v] = p}]

-----------------------------------------------------------------------------
\* One item of code: a list of copies <<to, from>>, a conditional jump to the
\* label in front of the else part, or a jump to a successor.
Copies(M) == [op |-> "copy", moves |-> M]
BranchInner == [op |-> "inner"]
Jump(b) == [op |-> "jump", to |-> b]

\* resolve_split(pos + 1): the copies of the split positions.
ResolveSplit == Copies({<<after[v], before[v]>> : v \in {x \in Val : after[x] # before[x]}})

\* move_mapping of an edge: get_loc(val, pred_end) to get_loc(val, begin), if they differ.
EdgeMovesBefore(b) ==               \* faulty: the place before the branch
  {<<p, before[want[b][p]]>> : p \in {q \in DOMAIN want[b] : before[want[b][q]] # q}}
EdgeMoves(b) == {<<p, after[want[b][p]]>> : p \in {q \in DOMAIN want[b] : after[want[b][q]] # q}}
\* resolve_moves emits them and erases the entry.
ResolveMoves(b, M) == Copies(IF b \in M THEN EdgeMoves(b) ELSE {})

GenJump ==
  /\ kind = "jump"
  /\ code' = <<ResolveSplit, ResolveMoves(target["then"], mapping), Jump(target["then"])>>

ThenPart == <<ResolveMoves(target["then"], mapping)>>
ElsePart == <<ResolveMoves(target["else"], mapping \ {target["then"]}), Jump(target["else"])>>

\* An integer condition: the copies stand after the conditional jump.
GenIntBranch ==
  /\ kind = "int"
  /\ code' = <<BranchInner, ResolveSplit>> \o ThenPart \o <<Jump(target["then"])>> \o ElsePart

\* A float condition: they stand in front of it.
GenFloatBranch ==
  /\ kind = "float"
  /\ code' = <<ResolveSplit>> \o ThenPart \o <<BranchInner, Jump(target["then"])>> \o ElsePart

GenBr ==
  /\ code = <<>>
  /\ GenJump \/ GenIntBranch \/ GenFloatBranch
  /\ mapping' = mapping \ {target["then"], target["else"]}
  /\ UNCHANGED <<kind, target, before, after, want, pc, content, arrived>>

-----------------------------------------------------------------------------
Running(op) == code # <<>> /\ arrived = "none" /\ code[pc].op = op

\* A condition may go either way; the inner label is in front of the else part.
InnerLabelLast == Len(code)         \* faulty: behind its copies
InnerLabel == Len(code) - 1

Copy ==
  /\ Running("copy")
  /\ content' = [p \in Place |->
       LET sources == {m[2] : m \in {x \in code[pc].moves : x[1] = p}}
       IN  IF sources = {} THEN content[p] ELSE UNION {content[q] : q \in sources}]
  /\ pc' = pc + 1
  /\ UNCHANGED <<kind, target, before, after, want, mapping, code, arrived>>

Test ==
  /\ Running("inner")
  /\ pc' \in {pc + 1, InnerLabel}
  /\ UNCHANGED <<kind, target, before, after, want, mapping, code, content, arrived>>

Leave ==
  /\ Running("jump")
  /\ arrived' = code[pc].to
  /\ UNCHANGED <<kind, target, before, after, want, mapping, code, pc, content>>

Next == GenBr \/ Copy \/ Test \/ Leave
Spec == Init /\ [][Next]_vars

-----------------------------------------------------------------------------
Delivered(b) == \A p \in DOMAIN want[b] : content[p] = {want[b][p]}

\* A successor finds every value it reads, and every operand of its phis, in the place
\* it expects them: the copies of the split positions and of the edge are performed on
\* the way there, in that order.  This is so on the way to the first target, however
\* the copies overlap; and on the way to the second, if nothing changes its place at
\* the branch of an integer condition, and if the first target needs no copies before
\* that of a float condition, whose copies stand in front of the test.
BothEdgesDeliver ==
  /\ arrived = target["then"] => Delivered(arrived)
  /\ /\ arrived = target["else"] /\ kind # "jump"
     /\ IF kind = "int" THEN after = before ELSE EdgeMoves(target["then"]) = {}
     => Delivered(arrived)
=============================================================================
