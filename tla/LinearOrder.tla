----------------------------- MODULE LinearOrder ----------------------------
(***************************************************************************)
(* The order in which register allocation and code generation walk the     *)
(* blocks: RegAlloc::construct_linear_order and its recursive helper of    *)
(* codegen_new/regalloc.cc.  A frame is one activation: the blocks it may  *)
(* use, the loop header it started from, and its work list `bbs`, a set of *)
(* pointers in no particular order.  base2loop is what LoopSearch found.    *)
(***************************************************************************)
EXTENDS Naturals, Sequences, SequencesExt, FiniteSets

CONSTANTS Block, Entry
F == INSTANCE Flow

VARIABLES cfg, base2loop, linear_list, frames
vars == <<cfg, base2loop, linear_list, frames>>

Frame(loopset, entry) == [loopset |-> loopset, entry |-> entry, bbs |-> {entry}]
linear_set == ToSet(linear_list)

Init == linear_list = <<>> /\ frames = <<>>

Start ==
  /\ frames = <<>> /\ frames' = <<Frame(Block, Entry)>>
  /\ UNCHANGED <<cfg, base2loop, linear_list>>

Top == Last(frames)
Outermost == Len(frames) = 1
IsLoop(b) == b \in DOMAIN base2loop

\* A block is ready when its predecessors are listed, those of its own loop
\* aside.  A ready loop header goes first.
ReadyStrict(b) == F!Preds(cfg, b) \subseteq linear_set       \* faulty: waits for its own loop
ReadySoon(b) == b = Entry \/ F!Preds(cfg, b) \cap linear_set # {}   \* faulty: one is enough
Ready(b) == F!Preds(cfg, b) \subseteq linear_set \cup (IF IsLoop(b) THEN base2loop[b] ELSE {})
ReadyLoops == {b \in Top.bbs : IsLoop(b) /\ Ready(b)}
Candidates == IF ReadyLoops # {} THEN ReadyLoops ELSE {b \in Top.bbs : Ready(b)}

\* The header an activation started from is an ordinary block to it.
OpensOutside(b) == IsLoop(b) /\ Outermost                    \* faulty: inner loops are not opened
Opens(b) == IsLoop(b) /\ (Outermost \/ b # Top.entry)

\* What follows a listed block.
FollowersAll(b) == IF Outermost THEN F!Succs(cfg, b) ELSE F!Succs(cfg, b) \ (linear_set \cup {b})  \* faulty
FollowersAgain(b) == IF Outermost THEN F!Succs(cfg, b) ELSE F!Succs(cfg, b) \cap Top.loopset        \* faulty
Followers(b) ==
  IF Outermost THEN F!Succs(cfg, b) ELSE (F!Succs(cfg, b) \cap Top.loopset) \ (linear_set \cup {b})

Recurse(b) ==
  /\ b \in Candidates /\ Opens(b)
  /\ frames' = Append(frames, Frame(base2loop[b], b))
  /\ UNCHANGED <<cfg, base2loop, linear_list>>

Push(b) ==
  /\ b \in Candidates /\ ~ Opens(b)
  /\ linear_list' = Append(linear_list, b)
  /\ frames' = [frames EXCEPT ![Len(frames)].bbs = (@ \ {b}) \cup Followers(b)]
  /\ UNCHANGED <<cfg, base2loop>>

\* Back in the caller: the loop leaves its work list, what the loop exits to joins it.
Return ==
  LET inner == Top.loopset
      caller == frames[Len(frames) - 1]
      exits == (UNION {F!Succs(cfg, b) : b \in inner}) \ linear_set
      more == IF Len(frames) = 2 THEN exits \ inner ELSE exits \cap caller.loopset
  IN  /\ ~ Outermost /\ Top.bbs = {}
      /\ frames' = [Front(frames) EXCEPT ![Len(frames) - 1].bbs = (@ \ inner) \cup more]
      /\ UNCHANGED <<cfg, base2loop, linear_list>>

Finished == frames # <<>> /\ Outermost /\ Top.bbs = {}
Next == frames # <<>> /\ (Return \/ \E b \in Top.bbs : Recurse(b) \/ Push(b))

-----------------------------------------------------------------------------
\* "must be non-null": as long as the work list holds a block, one is ready, in
\* every activation; the helper would go on with an uninitialised pointer.
AlwaysACandidate == frames # <<>> /\ Top.bbs # {} => Candidates # {}

Index(b) == CHOOSE i \in DOMAIN linear_list : linear_list[i] = b

\* Every block is listed once, and after its predecessors except over a back edge; the
\* blocks of a loop stand together, its header first.  build_intervals needs both: a
\* definition stands before its uses, and extending a live range from a header to the
\* last block of its loop covers the loop and nothing else.
LegalOrder ==
  Finished =>
    /\ IsInjective(linear_list) /\ linear_set = F!Reach(cfg, {Entry})
    /\ \A e \in cfg \ F!BackEdges(cfg, Entry) : Index(e[1]) < Index(e[2])
    /\ \A h \in DOMAIN base2loop :
         {Index(b) : b \in base2loop[h]} = Index(h) .. Index(h) + Cardinality(base2loop[h]) - 1

\* gen_ret emits nothing for a void return and so runs on into what comes next: the
\* block that returns is the last one, for the function's return label to follow it.
ReturnLast ==
  Finished => \A b \in linear_set :
    F!Succs(cfg, b) = {} /\ (\A c \in linear_set : b \in F!Reach(cfg, {c})) => Last(linear_list) = b
=============================================================================
