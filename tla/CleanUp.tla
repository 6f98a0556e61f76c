------------------------------- MODULE CleanUp -------------------------------
(***************************************************************************)
(* The clean-up sequences of compiler.cc: constants are propagated (Sccp), *)
(* dead code is eliminated, by DeadCode the first time and by ADCE the     *)
(* second, and the control flow is simplified (SimplifyCFG).  The passes   *)
(* work on one function, each on what the one before has left.             *)
(***************************************************************************)
EXTENDS Ssa

CONSTANTS
  Functions0,  \* the functions the passes are given
  MaxIter

VARIABLES original, stage, f, solver, iter, pro, changed
vars == <<original, stage, f, solver, iter, pro, changed>>

S == INSTANCE Sccp
D == INSTANCE DeadCode
C == INSTANCE SimplifyCFG

Init ==
  /\ original \in Functions0 /\ f = original
  /\ stage = "sccp start"
  /\ solver = S!Fresh(original)
  /\ iter = 0
  /\ C!Init

Propagate ==
  /\ S!Next
  /\ UNCHANGED <<original, iter, pro, changed>>

\* Every block that is reached leads to the return; ADCE is modelled for these
\* functions only.
Ends(g) == C!Reached(g) \subseteq D!Leads(g)

EndPropagate ==
  /\ stage = "sccp done"
  /\ stage' \in {"dead code"} \cup {s \in {"adce"} : Ends(f)}
  /\ solver' = S!Fresh(original)
  /\ UNCHANGED <<original, f, iter, pro, changed>>

Eliminate ==
  /\ D!Next
  /\ UNCHANGED <<original, solver, pro, changed>>

EndEliminate ==
  /\ stage \in {"dead code done", "adce done"}
  /\ stage' = "cfg"
  /\ iter' = 0
  /\ UNCHANGED <<original, f, solver, pro, changed>>

Simplify ==
  /\ C!Next
  /\ UNCHANGED <<original, solver, iter>>

Next == Propagate \/ EndPropagate \/ Eliminate \/ EndEliminate \/ Simplify
Spec == Init /\ [][Next]_vars

-----------------------------------------------------------------------------
\* What SCCPSolver finds constant or not executable is so in every execution,
\* and it takes back nothing (see Sccp).
ConstantsHold == S!ConstantsHold /\ S!EdgesFeasible
OnlyDown == S!OnlyDown

\* After each pass, and each round of SimplifyCFG, the function behaves as the
\* one the sequence began with: the same calls, and the same result if it is used.
BehaviourKept ==
  stage \in {"sccp done", "dead code done", "adce done", "cfg round", "cfg done"} => SameBehaviour(original, f)

\* After each pass pre_bbs_ and succ_bbs_ of every block, which the passes edit
\* by hand, are the edges its terminator makes; and what SimplifyCFG leaves has no phi
\* with a pair of a block that is no predecessor, or two of one.
ListsMirrored ==
  /\ stage \in {"sccp done", "dead code done", "adce done", "cfg done"} => EdgesMirrored(f)
  /\ stage = "cfg done" => PhisFit(f)

\* The passes' own checks.  ADCE converges in ten iterations; SCCP exits only if a
\* variable that may be unset has made a phi without the pair of some
\* predecessor; SimplifyCFG exits, or never returns, only if there are endless
\* loops.
Partial(g) ==
  \E p \in Places(g) : LET inst == InstAt(g, p)
                       IN  IsPhi(inst) /\ ToSet(inst.blocks) # ToSet(g.pre[p[1]])
NoExit ==
  /\ stage # "dce exit"
  /\ stage = "sccp exit" => Partial(original)
  /\ stage \in {"cfg exit", "cfg hang"} => ~ Ends(f)
=============================================================================
