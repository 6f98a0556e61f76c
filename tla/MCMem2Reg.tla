------------------------------ MODULE MCMem2Reg ------------------------------
(* Mem2Reg with every block loading every variable first; then it may store.   *)
(* Four blocks have one variable, fewer have three that are copied around.     *)
EXTENDS Mem2Reg
CONSTANTS x, y, t
\* x = y and the exchange of x and y through t.
Copies ==
  LET Loads == <<load(x), load(y)>>
      Exchange == <<load(x), store(t, 1), load(y), store(x, 3), load(t), store(y, 5)>>
  IN  {Loads, Exchange} \cup {Append(Loads, store(p[1], p[2])) : p \in {<<x, 0>>, <<y, 0>>, <<x, 2>>}}
MCCodes(n) == IF n = 4 THEN {<<load(x)>>, <<load(x), store(x, 0)>>} ELSE Copies
Symmetry == Permutations(Block \ {Entry})
=============================================================================
