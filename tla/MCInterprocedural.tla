-------------------------- MODULE MCInterprocedural --------------------------
(***************************************************************************)
(* Programs with two functions below main, f and g, each a test with a     *)
(* body on either side; global 1 is a scalar, global 2 an array.           *)
(***************************************************************************)
EXTENDS Interprocedural

MCInputs == {-1, 1, 2}

\* Bodies: instructions and the value they leave, with names from n on, and the
\* function `other` at hand.
Less(n) == Inst(n, "sub", <<Param(1), Const(1)>>, <<>>)
Piece(kind, n, self, other) ==
  CASE kind = "param" -> [code |-> <<>>, val |-> Param(1)]
    [] kind = "one" -> [code |-> <<>>, val |-> Const(1)]
    [] kind = "double" -> [code |-> <<Inst(n, "add", <<Param(1), Param(1)>>, <<>>)>>, val |-> Name(n)]
    [] kind = "tail" -> [code |-> <<Less(n), Call(n + 1, self, <<Name(n)>>)>>, val |-> Name(n + 1)]
    [] kind = "sum" -> [code |-> <<Less(n), Call(n + 1, self, <<Name(n)>>), Inst(n + 2, "add", <<Name(n + 1), Param(1)>>, <<>>)>>,
                        val |-> Name(n + 2)]
    [] kind = "product" -> [code |-> <<Less(n), Call(n + 1, self, <<Name(n)>>), Inst(n + 2, "mul", <<Param(1), Name(n + 1)>>, <<>>)>>,
                            val |-> Name(n + 2)]
    [] kind = "after" -> [code |-> <<Less(n), Call(n + 1, self, <<Name(n)>>), Call(0, "out", <<Name(n + 1)>>)>>, val |-> Name(n + 1)]
    [] kind = "call" -> [code |-> <<Call(n, other, <<Param(1)>>)>>, val |-> Name(n)]
    [] kind = "load" -> [code |-> <<Inst(n, "load", <<Global(1)>>, <<>>)>>, val |-> Name(n)]
    [] kind = "bump" -> [code |-> <<Inst(n, "load", <<Global(1)>>, <<>>), Inst(n + 1, "add", <<Name(n), Param(1)>>, <<>>),
                                    Inst(0, "store", <<Name(n + 1), Global(1)>>, <<>>)>>, val |-> Name(n)]
    [] kind = "local" -> [code |-> <<Inst(n, "alloca", <<Const(1)>>, <<>>), Inst(0, "store", <<Param(1), Name(n)>>, <<>>),
                                     Inst(n + 1, "load", <<Name(n)>>, <<>>)>>, val |-> Name(n + 1)]
    [] kind = "set" -> [code |-> <<Inst(n, "gep", <<Global(2), Const(1)>>, <<>>), Inst(0, "store", <<Param(1), Name(n)>>, <<>>)>>,
                        val |-> Const(0)]
    [] kind = "get" -> [code |-> <<Inst(n, "gep", <<Global(2), Const(1)>>, <<>>), Inst(n + 1, "load", <<Name(n)>>, <<>>)>>,
                        val |-> Name(n + 1)]

\* if (x < 1) left; else right; and one return after both, or one in each.
Test == <<Inst(1, "lt", <<Param(1), Const(1)>>, <<>>), CondBr(Name(1), 2, 3)>>
Function(left, right, joined, self, other) ==
  LET l == Piece(left, 2, self, other)  r == Piece(right, 5, self, other)
      code == IF joined
              THEN <<Test, l.code \o <<Br(4)>>, r.code \o <<Br(4)>>,
                     <<Phi(8, <<l.val, r.val>>, <<2, 3>>), Ret(Name(8))>>>>
              ELSE <<Test, l.code \o <<Ret(l.val)>>, r.code \o <<Ret(r.val)>>>>
  IN  [Listed(code) EXCEPT !.params = 1]

\* A second test chooses between two bodies that may both call again.
Choice(left, right, self, other) ==
  LET l == Piece(left, 3, self, other)  r == Piece(right, 6, self, other)
      code == <<<<Inst(1, "lt", <<Param(1), Const(1)>>, <<>>), CondBr(Name(1), 5, 2)>>,
                <<Inst(2, "lt", <<Param(1), Const(2)>>, <<>>), CondBr(Name(2), 3, 4)>>,
                l.code \o <<Br(5)>>, r.code \o <<Br(5)>>,
                <<Phi(9, <<Const(1), l.val, r.val>>, <<1, 3, 4>>), Ret(Name(9))>>>>
  IN  [Listed(code) EXCEPT !.params = 1]

\* main calls f twice, the second time with what the first one answers, or in a loop.
Straight ==
  Listed(<<<<Call(1, "input", <<>>), Call(2, "f", <<Name(1)>>), Call(0, "out", <<Name(2)>>),
             Call(3, "f", <<Const(1)>>), Inst(4, "load", <<Global(1)>>, <<>>), Call(0, "out", <<Name(4)>>), Ret(Name(3))>>>>)
Looping ==
  Listed(<<<<Br(2)>>,
           <<Phi(1, <<Const(0), Name(4)>>, <<1, 2>>), Call(2, "input", <<>>), Call(3, "f", <<Name(2)>>),
             Call(0, "out", <<Name(3)>>), Inst(4, "add", <<Name(1), Const(1)>>, <<>>),
             Inst(5, "lt", <<Name(4), Const(2)>>, <<>>), CondBr(Name(5), 2, 3)>>,
           <<Ret(Const(0))>>>>)

Lefts == {"one", "tail"}
Rights == {"double", "tail", "sum", "product", "after", "call", "load", "bump", "local", "set", "get"}
Fs == {Function(x[1], x[2], x[3], "f", "g") : x \in Lefts \X Rights \X BOOLEAN}
Again == {Choice(x[1], x[2], "f", "g") : x \in {"tail", "sum", "product"} \X {"tail", "sum", "product", "double"}}
Gs == {Function("one", right, FALSE, "g", "f") : right \in {"call", "local", "bump"}}
Mains == {<<Straight, <<0>>>>, <<Straight, <<1>>>>, <<Looping, <<0>>>>}
Module(f, g, main) ==
  [list |-> <<"f", "g", "main">>, globals |-> <<main[2], <<0, main[2][1]>>>>,
   fns |-> [n \in {"f", "g", "main"} |-> IF n = "f" THEN f ELSE IF n = "g" THEN g ELSE main[1]]]
MCCandidates ==
  {Module(x[1], x[2], x[3]) : x \in (Fs \X Gs \X Mains) \cup (Again \X {Function("one", "one", FALSE, "g", "f")} \X Mains)}
=============================================================================
