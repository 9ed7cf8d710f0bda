---- MODULE MCCompiler ----
(***************************************************************************)
(* The programs the code generator is checked on: groups of trees          *)
(* (top-level lists), each with the nodes its bodies are made of.          *)
(***************************************************************************)
EXTENDS CompilerProperties

Fn(id, params) == [k |-> "define", id |-> id, n |-> 0, params |-> params]
Var(id, n)     == [k |-> "assign", id |-> id, n |-> n, params |-> <<>>]

Num         == N("num", "", 1)
Name(id)    == N("var", id, NoIndex)
Elem(id)    == N("var", id, Computed)
Op2(op)     == N("bin", op, 0)
Not         == N("not", "", 0)
Half(op)    == N("bin", op, 1)
NotNothing  == N("not", "", 1)
In          == N("in", "", 0)
Call(id, n) == N("call", id, n)
Set(id, n)  == N("assign", id, n)
If          == N("if", "", 0)
IfElse      == N("if", "", 1)
While       == N("while", "", 0)
Out         == N("out", "", 0)
Return      == N("return", "", 0)

(* Expressions: one function with a parameter, calls nested in operands    *)
(* and in arguments; operators that lack an operand.                       *)
ExprTrees == { << Fn("f", <<"p">>), Fn("main", <<>>) >> }
ExprExprs == {Num, Name("p"), Op2("sub"), Op2("cmp"), Half("sub"), Not, NotNothing, In, Call("f", 1)}
ExprStmts == {Return, Out, Call("f", 1)}

(* Control flow: loops and branches nested in each other.                  *)
FlowTrees == { << Fn("main", <<>>) >> }
FlowNodes == {Num, Return, While, If, IfElse}

(* Storage: variables, arrays and parameters in nested scopes.             *)
DataTrees == { << Var("g", 1), Fn("main", <<"p">>) >>, << Var("x", NoIndex), Fn("main", <<"p">>) >> }
DataExprs == {Num, Elem("x"), Name("x")}
DataStmts == {Return, Set("x", NoIndex), Set("x", 1), Set("y", 2), Set("x", Computed), While, IfElse}

(* Whole programs: forward and backward calls, globals, and the programs   *)
(* that are rejected.                                                      *)
MainFn == Fn("main", <<>>)
ProgTrees == {
    << Fn("f", <<"q", "p">>), MainFn >>, << MainFn, Fn("f", <<"q", "p">>) >>,
    << Var("g", NoIndex), MainFn, Var("h", 1), Fn("f", <<"p">>) >>,
    << Fn("f", <<"p">>), Var("g", NoIndex), Var("h", NoIndex), MainFn >> }
WrongTrees == {
    << Var("g", NoIndex), Var("g", NoIndex), MainFn >>, << Var("f", NoIndex), Fn("f", <<>>), MainFn >>,
    << MainFn, Fn("f", <<"p", "p">>) >>, << Fn("f", <<"main">>), MainFn >>,
    << MainFn, Fn("f", <<>>), MainFn, Fn("g", <<>>) >>, << MainFn, MainFn >>, << Fn("f", <<>>) >>,
    << MainFn, MainFn, Var("g", NoIndex), Fn("g", <<"a", "b", "c", "d", "e", "f", "h", "i">>) >> }
ProgExprs == {Num, Name("g"), Call("f", 2), Call("f", 1), Call("main", 0), Op2("pow")}
ProgStmts == {Return, Set("g", NoIndex), Call("f", 2), Call("g", 0)}
AllProgs  == ProgTrees \union WrongTrees

MCTrees == ExprTrees \union AllProgs \union FlowTrees \union DataTrees
MCExprs == ExprExprs \union ProgExprs \union DataExprs
MCStmts == ExprStmts \union ProgStmts \union DataStmts \union {If}
MCUses  == [t \in MCTrees |-> CASE t \in ExprTrees -> ExprExprs \union ExprStmts
                               [] t \in FlowTrees -> FlowNodes
                               [] t \in DataTrees -> DataExprs \union DataStmts
                               [] OTHER           -> ProgExprs \union ProgStmts]
MCMax   == [t \in MCTrees |-> CASE t \in FlowTrees -> 10
                               [] t \in DataTrees -> 8
                               [] OTHER           -> 6]

(* A pending value across a call to the library.                           *)
LibTrees == { << MainFn >> }
LibExprs == {Num, Op2("add"), In}
LibStmts == {Return}
LibUses  == [t \in LibTrees |-> LibExprs \union LibStmts]
LibMax   == [t \in LibTrees |-> 5]
====
