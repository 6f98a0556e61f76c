---------------------------- MODULE MCLocalPasses ----------------------------
(***************************************************************************)
(* Programs of main and two functions: p is pure, s writes to global 1, a  *)
(* scalar.  Global 2 is an array of two.                                   *)
(***************************************************************************)
EXTENDS LocalPasses

MCInputs == {0, 1, 3}

Op(n, op, x, y) == Inst(n, op, <<x, y>>, <<>>)
Load(n, at) == Inst(n, "load", <<at>>, <<>>)
Store(val, at) == Inst(0, "store", <<val, at>>, <<>>)
Out(o) == Call(0, "out", <<o>>)
Whole(code) ==
  [list |-> <<"p", "s", "main">>, globals |-> <<<<1>>, <<2, 3>>>>,
   fns |-> [n \in {"p", "s", "main"} |->
              CASE n = "p" -> [Listed(<<<<Op(1, "mul", Param(1), Param(1)), Ret(Name(1))>>>>) EXCEPT !.params = 1]
                [] n = "s" -> Listed(<<<<Store(Const(6), Global(1)), Ret(Const(0))>>>>)
                [] n = "main" -> Listed(code)]]

\* What is left in memory is written at the end.
Report(n) == <<Load(n, Global(1)), Out(Name(n)), Load(n + 1, Global(2)), Out(Name(n + 1)),
               Inst(n + 2, "gep", <<Global(2), Const(1)>>, <<>>), Load(n + 3, Name(n + 2)), Out(Name(n + 3)), Ret(Const(0))>>

-----------------------------------------------------------------------------
\* Forwarding: three accesses to the scalar, to an element, and to any element.
Places1 == {Global(1), Name(2), Name(3), Name(4)}
Access(k) ==
  {<<Load(10 + k, at), Out(Name(10 + k))>> : at \in {Global(1), Name(3)}} \cup {<<Store(Const(k + 3), at)>> : at \in Places1}
Silent(k) == {<<Load(10 + k, at)>> : at \in Places1} \cup {<<Store(Const(k + 3), at)>> : at \in Places1} \cup {<<Call(0, "s", <<>>)>>}
Forwarding ==
  {Whole(<<<<Call(1, "input", <<>>), Inst(2, "gep", <<Global(2), Name(1)>>, <<>>), Inst(3, "gep", <<Global(2), Const(1)>>, <<>>),
                Inst(4, "gep", <<Global(2), Const(1)>>, <<>>)>> \o x[1] \o x[2] \o x[3] \o <<Br(2)>>, Report(20)>>) :
     x \in Silent(1) \X Silent(2) \X Access(3)}

-----------------------------------------------------------------------------
\* Merging: an expression in each block of a diamond, and of a loop.
Expression0(kind, n) ==
  CASE kind = "sum" -> Op(n, "add", Name(1), Const(1))
    [] kind = "mus" -> Op(n, "add", Const(1), Name(1))
    [] kind = "pure" -> Call(n, "p", <<Name(1)>>)
    [] kind = "load" -> Load(n, Global(1))
    [] kind = "last" -> Op(n, "mul", Name(2), Name(2))
Kinds == {"sum", "mus", "pure", "load", "last"}
Shown(kind, n) == <<Expression0(kind, n), Out(Name(n)), Op(n + 10, "sub", Name(n), Name(1)), Out(Name(n + 10))>>
Diamond(x) ==
  Whole(<<<<Call(1, "input", <<>>), Op(2, "lt", Name(1), Const(1))>> \o Shown(x[1], 3) \o <<CondBr(Name(2), 2, 3)>>,
             Shown(x[2], 4) \o <<Store(Name(1), Global(1)), Br(4)>>, Shown(x[3], 5) \o <<Br(4)>>,
             <<Phi(6, <<Name(4), Name(5)>>, <<2, 3>>), Phi(7, <<Name(4), Name(5)>>, <<2, 3>>), Out(Name(6)), Out(Name(7))>>
               \o Shown(x[4], 8) \o <<Ret(Name(8))>>>>)
While(x) ==
  Whole(<<<<Call(1, "input", <<>>), Br(2)>>,
             <<Phi(2, <<Const(0), Name(5)>>, <<1, 3>>), Phi(3, <<Const(0), Name(5)>>, <<1, 3>>)>> \o Shown(x[1], 4)
               \o <<Op(6, "lt", Name(2), Const(2)), CondBr(Name(6), 3, 4)>>,
             <<Op(5, "add", Name(2), Const(1))>> \o Shown(x[2], 7) \o <<Store(Name(3), Global(1)), Br(2)>>,
             Shown(x[3], 8) \o <<Ret(Name(8))>>>>)
Merging == {Diamond(x) : x \in Kinds \X Kinds \X Kinds \X Kinds} \cup {While(x) : x \in Kinds \X Kinds \X Kinds}

-----------------------------------------------------------------------------
\* Moving: a loop that tests first, with something in its base, something in its
\* body, and something on one side of a test in the body; and a loop of one block.
Piece(kind, n) ==
  CASE kind = "none" -> <<>>
    [] kind = "product" -> <<Op(n, "mul", Name(1), Name(1)), Out(Name(n))>>
    [] kind = "chain" -> <<Op(n, "mul", Name(1), Name(1)), Op(n + 1, "add", Name(n), Const(2)), Out(Name(n + 1))>>
    [] kind = "pure" -> <<Call(n, "p", <<Name(1)>>), Out(Name(n))>>
    [] kind = "load" -> <<Load(n, Global(1)), Out(Name(n))>>
    [] kind = "store" -> <<Store(Name(1), Global(1))>>
    [] kind = "element" -> <<Inst(n, "gep", <<Global(2), Const(1)>>, <<>>), Store(Const(5), Name(n))>>
    [] kind = "varying" -> <<Inst(n, "gep", <<Global(2), Name(2)>>, <<>>), Store(Const(5), Name(n))>>
    [] kind = "readfirst" -> <<Load(n, Global(1)), Out(Name(n)), Store(Const(4), Global(1))>>
    [] kind = "readafter" -> <<Store(Const(4), Global(1)), Load(n, Global(1)), Out(Name(n))>>
    [] kind = "link" -> <<Op(n, "add", Name(10), Const(1)), Out(Name(n))>>
    [] kind = "write" -> <<Call(0, "s", <<>>)>>
Pieces == {"none", "product", "chain", "pure", "load", "store", "element", "varying", "readfirst", "readafter"}
Looped(x) ==
  Whole(<<<<Call(1, "input", <<>>), Br(2)>>,
             <<Phi(2, <<Const(0), Name(3)>>, <<1, 5>>)>> \o Piece(x[1], 10) \o <<Op(4, "lt", Name(2), Name(1)), CondBr(Name(4), 3, 6)>>,
             Piece(x[2], 20) \o <<Op(5, "lt", Name(2), Const(1)), CondBr(Name(5), 4, 5)>>,
             Piece(x[3], 30) \o <<Br(5)>>,
             <<Op(3, "add", Name(2), Const(1)), Br(2)>>, Report(40)>>)
Nested(x) ==
  Whole(<<<<Call(1, "input", <<>>), Br(2)>>,
             <<Phi(2, <<Const(0), Name(3)>>, <<1, 4>>)>> \o Piece(x[1], 10) \o <<Br(3)>>,
             <<Phi(4, <<Const(0), Name(5)>>, <<2, 3>>)>> \o Piece(x[2], 20)
               \o <<Op(5, "add", Name(4), Const(1)), Op(6, "lt", Name(5), Const(2)), CondBr(Name(6), 3, 4)>>,
             <<Op(3, "add", Name(2), Const(1)), Op(7, "lt", Name(3), Const(2)), CondBr(Name(7), 2, 5)>>, Report(40)>>)
Moving == {Looped(x) : x \in Pieces \X {"none", "chain", "load", "store", "varying", "write"} \X {"none", "product", "pure", "store"}}
            \cup {Looped(<<"product", "link", x>>) : x \in {"none", "load"}} \cup {Nested(x) : x \in Pieces \X Pieces}

-----------------------------------------------------------------------------
\* Unrolling: a loop with a sum, from a constant to a constant or to what is read.
Body(kind, i) ==
  CASE kind = "show" -> <<Out(i)>> [] kind = "keep" -> <<Store(i, Global(1))>>
Counting(from, to, op, by, predicate, body) ==
  Whole(<<<<Call(1, "input", <<>>), Br(2)>>,
             <<Op(2, predicate, Const(from), to), CondBr(Name(2), 3, 7)>>,
             <<Br(4)>>,
             <<Phi(3, <<Const(from), Name(5)>>, <<3, 5>>), Phi(4, <<Const(0), Name(6)>>, <<3, 5>>)>> \o Body(body, Name(3))
               \o <<Op(6, "add", Name(4), Name(3)), Op(5, op, Name(3), Const(by)), Br(5)>>,
             <<Op(7, predicate, Name(5), to), CondBr(Name(7), 4, 6)>>,
             <<Br(7)>>,
             <<Phi(8, <<Const(from), Name(5)>>, <<2, 6>>), Phi(9, <<Const(0), Name(6)>>, <<2, 6>>), Op(10, "add", Name(8), Const(1)), Br(8)>>,
             <<Out(Name(9)), Out(Name(10))>> \o Report(40)>>)
Unrolling ==
  {Counting(x[1], x[2], x[3][1], x[4], x[3][2], x[5]) :
     x \in {0, 5} \X ({Const(c) : c \in {0, 1, 2, 4, 6}} \cup {Name(1)}) \X {<<"add", "lt">>, <<"add", "le">>, <<"sub", "gt">>, <<"sub", "ge">>}
           \X {1, 2} \X {"show", "keep"}}

MCForwarding == [forward |-> Forwarding]
MCCandidates == [unroll |-> Unrolling, merge |-> Merging, forward |-> Forwarding, motion |-> Moving]
===============================================================================
