-------------------------------- MODULE Layout -------------------------------
(***************************************************************************)
(* How the back end lays a function out: RegAlloc::execute runs the loop   *)
(* search (LoopSearch, whose cycles Tarjan finds), orders the blocks       *)
(* (LinearOrder) and numbers them to build the live ranges                 *)
(* (BuildIntervals).  Each part hands its result to the next.              *)
(***************************************************************************)
EXTENDS Integers, Sequences, FiniteSets, TLC

CONSTANTS
  Block, Entry,
  MaxSearched,   \* a graph of at most so many nodes is searched step by step
  MaxIntervals,  \* a function of at most so many blocks goes on to live ranges
  Length, MaxUse \* of BuildIntervals

\* A function has finitely many blocks.
ASSUME BlockAssumption == IsFiniteSet(Block) /\ Entry \in Block

ASSUME LengthAssumption == Length \in Nat

VARIABLES stage, cfg,
          nodes, next, pre, sccs, reserved, base2loop, bb2base,           \* LoopSearch
          dfn, low, in_stack, stack, index_count, calls, result,          \* Tarjan
          linear_list, frames,                                            \* LinearOrder
          N, edges, def, uses, phi_uses, todo, s, use_pos, liveIn         \* BuildIntervals

search    == <<nodes, next, pre, sccs, reserved, base2loop, bb2base>>
traverse  == <<dfn, low, in_stack, stack, index_count, calls, result>>
order     == <<linear_list, frames>>
intervals == <<N, edges, def, uses, phi_uses, todo, s, use_pos, liveIn>>
vars == <<stage, cfg, search, traverse, order, intervals>>

LS == INSTANCE LoopSearch
T  == INSTANCE Tarjan
LO == INSTANCE LinearOrder
BI == INSTANCE BuildIntervals WITH cfg <- edges

Init ==
  /\ stage = "loops"
  /\ LS!Init /\ T!Init /\ LO!Init /\ BI!Init
  /\ N = 0 /\ edges = {}

\* loop_search::run: a search for cycles; `to` is where it leads.
Searched == Cardinality(nodes) <= MaxSearched
Goes(to) == stage' = to /\ UNCHANGED <<cfg, order, intervals>>

Search ==
  /\ Searched /\ sccs = {} /\ stage = "loops"
  /\ T!Next
  /\ Goes("loops") /\ UNCHANGED search

Finds(found) ==
  /\ sccs = {} /\ stage = "loops"
  /\ T!Reset
  /\ sccs' = found
  /\ Goes(IF found = {} THEN "order" ELSE "loops")
  /\ UNCHANGED <<nodes, next, pre, reserved, base2loop, bb2base>>

EndSearch == Searched /\ T!Finished /\ Finds(result)
SearchAtOnce == ~ Searched /\ Finds(T!F!Cycles(next, nodes))

Record ==
  /\ \E scc \in sccs : LS!Record(scc)
  /\ Goes("loops") /\ UNCHANGED traverse

\* construct_linear_order.
Order ==
  /\ stage = "order"
  /\ LO!Start \/ LO!Next
  /\ UNCHANGED <<stage, search, traverse, intervals>>

\* build_intervals takes the blocks by their places in the order.
Number ==
  /\ stage = "order" /\ LO!Finished
  /\ Len(linear_list) <= MaxIntervals
  /\ stage' = "intervals"
  /\ N' = Len(linear_list)
  /\ edges' = {<<LO!Index(e[1]), LO!Index(e[2])>> : e \in cfg}
  /\ UNCHANGED <<cfg, search, traverse, order, def, uses, phi_uses, todo, s, use_pos, liveIn>>

Intervals ==
  /\ stage = "intervals"
  /\ BI!Next
  /\ UNCHANGED <<stage, cfg, search, traverse, order>>

Next == Search \/ EndSearch \/ SearchAtOnce \/ Record \/ Order \/ Number \/ Intervals
Spec == Init /\ [][Next]_vars

\* The blocks but the entry may change names.
Symmetry == Permutations(Block \ {Entry})

-----------------------------------------------------------------------------
\* Tarjan's search, with its one set of marks, finds the cycles of what is left of the
\* graph: seen through the sets that loop_search keeps, a search is one step of LoopSearch,
\* which takes them from their definition.
SearchSpec == [][LS!Next]_<<cfg, search>>

\* The properties of the parts, of what each one is given by the part before it.
\* The loops that are found are the natural loops of the graph, all of them.
LoopsAreNatural == LS!LoopsAreNatural /\ (stage # "loops" => LS!EveryLoopFound)

\* A block belongs to the innermost loop around it, and the parent of a loop encloses it.
InnermostBase == stage # "loops" => LS!InnermostBase /\ LS!ParentIsNoStranger

\* There is always a next block, the loops lie together in the order with their base
\* first, and the block that returns comes last.
LegalOrder == stage = "order" => LO!AlwaysACandidate /\ LO!LegalOrder /\ LO!ReturnLast

\* Linear scan is given the liveness that the paths of the graph define.
IntervalIsLiveness == stage = "intervals" => BI!IntervalIsLiveness
=============================================================================
