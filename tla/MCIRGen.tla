---- MODULE MCIRGen ----
(* Small programs for IRGenProperties.                                     *)
EXTENDS IRGenProperties

Num      == [k |-> "num",  id |-> "", n |-> 1]
X        == [k |-> "var",  id |-> "x", n |-> 0]
Xi       == [k |-> "var",  id |-> "x", n |-> 1]
Plus     == [k |-> "bin",  id |-> "+", n |-> 0]
Pow      == [k |-> "bin",  id |-> "^", n |-> 0]
Not      == [k |-> "not",  id |-> "", n |-> 0]
In       == [k |-> "in",   id |-> "", n |-> 0]
F1       == [k |-> "call", id |-> "f", n |-> 1]
IfThen   == [k |-> "if",   id |-> "", n |-> 0]
IfElse   == [k |-> "if",   id |-> "", n |-> 1]
WhileDo  == [k |-> "while", id |-> "", n |-> 0]
CallF    == [k |-> "call", id |-> "f", n |-> 1]
Return   == [k |-> "return", id |-> "", n |-> 0]
Out      == [k |-> "out",  id |-> "", n |-> 0]
AssignX  == [k |-> "assign", id |-> "x", n |-> 0]

Main     == [k |-> "define", id |-> "main", params |-> <<>>]
F(params) == [k |-> "define", id |-> "f", params |-> params]
Taken    == [k |-> "define", id |-> globals_init, params |-> <<>>]
Global(id) == [k |-> "assign", id |-> id, params |-> <<>>]

MCExprs == {Num, X, Xi, Plus, Pow, Not, In, F1}
MCStmts == {IfThen, IfElse, WhileDo, Return, AssignX, Out, CallF}

(* Bodies full of branches, and initialisers and calls between them.       *)
FlowTrees == {<< Main >>, << F(<<"x">>), Global("g") >>}
DataTrees == {<< Main, Global("x") >>, << Global("x"), F(<<"y">>), Global("y"), Main >>,
              << F(<<"x">>), Global("g"), F(<<"y">>) >>, << Global("g"), Global("g") >>, << Global("g") >>,
              << Taken, Global("g") >>}
CallTrees == {<< F(<<"x", "y">>), Main >>}
MCTrees   == CallTrees \union FlowTrees \union DataTrees
MCUses    == [t \in MCTrees |->
                IF t \in FlowTrees THEN {Num, X, IfThen, IfElse, WhileDo, Return, AssignX}
                ELSE {Num, Xi, Plus, Pow, Not, In, F1, Return, AssignX, Out, CallF, IfThen}]
MCMax     == [t \in MCTrees |-> IF t \in FlowTrees THEN 9 ELSE 5]
CallUses  == [t \in CallTrees |-> MCUses[t]]
CallMax   == [t \in CallTrees |-> MCMax[t]]
====
