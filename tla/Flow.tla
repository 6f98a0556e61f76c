-------------------------------- MODULE Flow --------------------------------
(***************************************************************************)
(* Control-flow graphs as sets of edges <<from, to>>, and the textbook     *)
(* definitions the algorithms on them are compared with.                   *)
(***************************************************************************)
EXTENDS Naturals, FiniteSets

Succs(E, b) == {e[2] : e \in {f \in E : f[1] = b}}
Preds(E, b) == {e[1] : e \in {f \in E : f[2] = b}}

\* The nodes that a path of E leads to from X, X included.
Reach(E, X) ==
  LET R[n \in 0 .. Cardinality(E)] ==
        IF n = 0 THEN X ELSE LET Y == R[n - 1] IN Y \cup {e[2] : e \in {f \in E : f[1] \in Y}}
  IN  R[Cardinality(E)]

Without(E, a) == {e \in E : a \notin {e[1], e[2]}}

\* Every path from r to b goes through a.
Dominates(E, r, a, b) == a = b \/ b \notin Reach(Without(E, a), {r} \ {a})

\* A back edge leads to a block that dominates its source; without them a
\* reducible graph has no cycle.
BackEdges(E, r) == {e \in E : Dominates(E, r, e[2], e[1])}
Acyclic(E) == \A e \in E : e[1] \notin Reach(E, {e[2]})
Reducible(E, r) == Acyclic(E \ BackEdges(E, r))

\* A loop is named by its header: the blocks that lead back to the header
\* without passing it.
Headers(E, r) == {e[2] : e \in BackEdges(E, r)}
NaturalLoop(E, r, h) ==
  LET ends == {e[1] : e \in {back \in BackEdges(E, r) : back[2] = h}}
      rest == Without(E, h)
  IN  {h} \cup {b \in Reach(E, {h}) : ends \cap Reach(rest, {b}) # {}}

\* The strongly connected components that hold a cycle.
Cycles(E, N) ==
  {{c \in N : c \in Reach(E, {b}) /\ b \in Reach(E, {c})} :
     b \in {x \in N : x \in Reach(E, Succs(E, x))}}

\* Where a block ends in a return, a jump or a conditional branch, and no edge
\* enters r.  In a program every block can be reached from r; the others are left out.
Graphs(B, r) ==
  LET Exits == {S \in SUBSET (B \ {r}) : Cardinality(S) <= 2}
  IN  {UNION {{<<b, c>> : c \in x[b]} : b \in B} : x \in [B -> Exits]}
Programs(B, r) == {E \in Graphs(B, r) : \A e \in E : e[1] \in Reach(E, {r})}

Reversed(E) == {<<e[2], e[1]>> : e \in E}
=============================================================================
