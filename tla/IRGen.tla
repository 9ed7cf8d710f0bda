---- MODULE IRGen ----
(***************************************************************************)
(* The LLVM backend: IRGenerator of backend/llvm/ir_gen.cpp and .h, and    *)
(* what llvm/main.cpp makes of its exceptions.                             *)
(*                                                                         *)
(* The recursion is a machine, as in LegacyCompiler: `todo' is what is     *)
(* still to be compiled, and the nodes of the tree are chosen when they    *)
(* are reached.  Of an instruction there is what the control flow and the  *)
(* variables need; arithmetic, which the builder may fold away, leaves     *)
(* none.  LLVM itself is external: a builder with an insertion point that  *)
(* appends to a block.                                                     *)
(***************************************************************************)
EXTENDS Integers, Sequences, SequencesExt

CONSTANTS
    Trees,   (* the top-level statement lists: seqs of [k, id, params], the  *)
             (* parameters from the last to the first                        *)
    Exprs,   (* the nodes an expression may have: [k, id, n]                 *)
    Stmts,   (* the nodes a statement may have                               *)
    Uses,    (* the nodes that occur below each of the Trees                 *)
    MaxNodes (* bound, for each of the Trees: past it only Finishers         *)

Node    == [k : STRING, id : STRING, n : Nat]
TopNode == [k : {"define", "assign"}, id : STRING, params : Seq(STRING)]

ASSUME IRGenAssumption ==
    /\ Trees \subseteq Seq(TopNode) \ {<<>>}
    /\ Exprs \subseteq Node /\ Stmts \subseteq Node
    /\ Uses \in [Trees -> SUBSET Node] /\ MaxNodes \in [Trees -> Nat]

VARIABLES
    tree, top,  (* the program, and its next top-level statement             *)
    outcome,    (* "none", "printed", "exception" or "assert"                *)
    size,       (* nodes chosen (bound)                                      *)
    todo,       (* the control stack of the recursion                        *)
    functions,  (* module_: the declared functions and their parameters      *)
    blocks,     (* the basic blocks: the function of each, and its code      *)
    ip,         (* the block the builder appends to                          *)
    scopes,     (* scopes_                                                   *)
    vals,       (* the llvm::Value* the active functions hold: null or not   *)
    last,       (* compile_stmt returned a terminator                        *)
    owner,      (* the function whose source is being compiled (auxiliary)   *)
    loops,      (* the blocks of while bodies (auxiliary)                    *)
    falls       (* the blocks function bodies end in without a return (aux.) *)

module == <<functions, blocks, ip>>
aux    == <<owner, loops, falls>>
vars   == <<tree, top, outcome, size, todo, module, scopes, vals, last, aux>>

globals_init == "__ass_globals_init"
Library      == << [id |-> "__ass_scan", params |-> <<>>], [id |-> "__ass_print", params |-> <<"value">>] >>

It(k)          == [k |-> k]
Load(id)       == [k |-> "load", id |-> id]
Bin(op)        == [k |-> "bin", op |-> op]
Store(id)      == [k |-> "store", id |-> id]
Args(f, left)  == [k |-> "args", f |-> f, left |-> left]
If(else)       == [k |-> "if", else |-> else]
Then(b, exit)  == [k |-> "then", b |-> b, exit |-> exit]
Join(exit, next)         == [k |-> "join", exit |-> exit, next |-> next]
While(body, exit)        == [k |-> "while", body |-> body, exit |-> exit]
Repeat(cond, exit)       == [k |-> "repeat", cond |-> cond, exit |-> exit]

Running == outcome = "none" /\ todo # <<>>
At(k)   == Running /\ Head(todo).k = k
Do(items) == todo' = items \o Tail(todo)
Body == << It("stmt"), It("more") >>

(* An instruction: `var' is the allocation it is about, `to' the blocks it *)
(* may jump to, `src' the function it was compiled for (auxiliary).        *)
Instr(op, var, to) == [op |-> op, var |-> var, to |-> to, src |-> owner]
None               == [block |-> 0, at |-> 0, arg |-> 0]
Ret                == Instr("ret", None, {})
Br(target)         == Instr("br", None, {target})
CondBr(yes, no)    == Instr("br", None, {yes, no})
IsInstTerminator(i) == i.op \in {"ret", "br"}

Append_(bs, b, code) == [bs EXCEPT ![b].code = @ \o code]
Emit(code)   == blocks' = Append_(blocks, ip, code)
Block(f)     == [fn |-> f, code |-> <<>>]
Parent       == blocks[ip].fn
Back(f)      == CHOOSE b \in 1..Len(blocks) : blocks[b].fn = f /\ \A c \in b+1..Len(blocks) : blocks[c].fn # f
BlocksMade   == Len(blocks)

Function(id) == SelectSeq(functions, LAMBDA f : f.id = id)

(* SymbolTable::find goes from the outermost table on; a table is a map.   *)
Tables(id) == {i \in 1..Len(scopes) : id \in DOMAIN scopes[i]}
Found(id)  == Tables(id) # {}
find(id)   == scopes[CHOOSE i \in Tables(id) : \A j \in Tables(id) : i <= j][id]
is_global  == Len(scopes) = 1
NoNames    == [id \in {} |-> None]
PopScope   == SubSeq(scopes, 1, Len(scopes) - 1)
Insert(scope, id, var) == [x \in DOMAIN scope \union {id} |-> IF x = id THEN var ELSE scope[x]]

Stop(why) ==
    /\ outcome' = why /\ todo' = <<>>
    /\ UNCHANGED <<tree, top, size, module, scopes, vals, last, aux>>

Keep   == UNCHANGED <<tree, top, outcome, owner>>
Pure   == Keep /\ UNCHANGED <<functions, scopes, last, loops, falls>>

Finishers == {e \in Exprs : e.k = "num"} \union {s \in Stmts : s.k = "return"}
Bounded(nodes) ==
    nodes \intersect (IF size < MaxNodes[tree] THEN Uses[tree] ELSE Finishers)

(* compile, declare_functions                                              *)

Init ==
    /\ tree \in Trees /\ top = 0
    /\ outcome = "none" /\ size = 0 /\ todo = <<>>
    /\ functions = << [id |-> globals_init, params |-> <<>>] >> \o Library
    /\ blocks = << Block(globals_init) >> /\ ip = 1
    /\ scopes = <<>> /\ vals = <<>> /\ last = FALSE
    /\ owner = globals_init /\ loops = {} /\ falls = {}

(* A function may not have the name of one that is in the module, those of *)
(* the generator and of the library included.                              *)
Defines == SelectSeq(tree, LAMBDA t : t.k = "define")
DefinedTwice ==
    \E i \in 1..Len(tree) :
        /\ tree[i].k = "define"
        /\ \/ \E f \in DOMAIN functions : functions[f].id = tree[i].id
           \/ \E j \in 1..i-1 : tree[j].k = "define" /\ tree[j].id = tree[i].id

declare_functions ==
    /\ outcome = "none" /\ top = 0
    /\ \/ /\ ~DefinedTwice
          /\ functions' = functions \o [i \in 1..Len(Defines) |->
                                           [id |-> Defines[i].id, params |-> Defines[i].params]]
          /\ scopes' = << NoNames >> /\ top' = 1
          /\ UNCHANGED <<tree, outcome, size, todo, blocks, ip, vals, last, aux>>
       \/ DefinedTwice /\ Stop("exception")

AtTop == outcome = "none" /\ top \in 1..Len(tree) /\ todo = <<>>

(* For each parameter all the arguments are stored, and its name is bound  *)
(* to the first: emplace leaves a name that is there alone.                *)
Locals(params, b) ==
    LET n == Len(params) IN
    [i \in 1..n * n |-> [block |-> b, at |-> 2 * i - 1, arg |-> ((i - 1) % n) + 1]]
BoundTo(params, id) == CHOOSE i \in 1..Len(params) : params[i] = id /\ \A j \in 1..i-1 : params[j] # id
ParamScope(params, locals) ==
    [id \in ToSet(params) |-> locals[(BoundTo(params, id) - 1) * Len(params) + 1]]
StoreLocals(locals, f) ==
    [i \in 1..2 * Len(locals) |->
        [op |-> IF i % 2 = 1 THEN "alloca" ELSE "store",
         var |-> locals[(i + 1) \div 2], to |-> {}, src |-> f]]

compile_define ==
    /\ AtTop /\ tree[top].k = "define"
    /\ LET def    == tree[top]
           b      == BlocksMade + 1
           locals == Locals(def.params, b)
       IN  /\ blocks' = Append(blocks, [fn |-> def.id, code |-> StoreLocals(locals, def.id)])
           /\ ip' = b
           /\ scopes' = Append(scopes, ParamScope(def.params, locals))
           /\ owner' = def.id
    /\ todo' = Body \o << It("end define") >>
    /\ top' = top + 1 /\ last' = FALSE
    /\ UNCHANGED <<tree, outcome, size, functions, vals, loops, falls>>

EndDefine ==
    /\ At("end define")
    /\ scopes' = PopScope /\ owner' = globals_init /\ last' = FALSE
    /\ falls' = IF last THEN falls ELSE falls \union {ip}
    /\ Do(<<>>)
    /\ UNCHANGED <<tree, top, outcome, size, module, vals, loops>>

(* The initialisers are appended to the last block of globals_init,        *)
(* whatever the builder was at.                                            *)
SetInsertPoint_bug(f) == ip
SetInsertPoint(f) == Back(f)

GlobalAssign ==
    /\ AtTop /\ tree[top].k = "assign"
    /\ top' = top + 1
    /\ IF Found(tree[top].id)
       THEN /\ outcome' = "exception"
            /\ UNCHANGED <<tree, size, todo, module, scopes, vals, last, aux>>
       ELSE /\ scopes' = << Insert(scopes[1], tree[top].id, None) >>
            /\ ip' = SetInsertPoint(globals_init)
            /\ todo' = << It("expr"), Store(tree[top].id) >>
            /\ UNCHANGED <<tree, outcome, size, functions, blocks, vals, last, aux>>

(* The global initialiser is called from a block in front of main; without *)
(* a main there is an assertion.  Then everything is printed.              *)
EndCompile ==
    /\ outcome = "none" /\ top = Len(tree) + 1 /\ todo = <<>>
    /\ LET prepares == DOMAIN scopes[1] # {}
           mains    == {b \in 1..BlocksMade : blocks[b].fn = "main"}
           entry    == CHOOSE b \in mains : \A c \in mains : b <= c
           prepare  == [fn |-> "main", code |->
                          << [op |-> "call", var |-> None, to |-> {}, src |-> "main"],
                             [op |-> "br", var |-> None, to |-> {entry}, src |-> "main"] >>]
           ended    == Append_(blocks, Back(globals_init), << Ret >>)
       IN  IF prepares /\ mains = {}
           THEN outcome' = "assert" /\ UNCHANGED <<blocks, scopes>>
           ELSE /\ outcome' = "printed" /\ scopes' = PopScope
                /\ blocks' = IF prepares THEN Append(ended, prepare) ELSE ended
    /\ UNCHANGED <<tree, top, size, todo, functions, ip, vals, last, aux>>

(* compile_expr, compile_call                                              *)

Operators == {"+", "-", "*", "/", "&&", "||", "==", "!=", ">", "<", ">=", "<="}

Of(k) == {e \in Bounded(Exprs) : e.k = k}

NumberExpr ==
    /\ At("expr") /\ Of("num") # {}
    /\ size' = size + 1 /\ vals' = Append(vals, "value") /\ Do(<<>>)
    /\ Pure /\ UNCHANGED <<blocks, ip>>

(* An index (n = 1) is compiled before the name is looked for.             *)
VariableExpr ==
    /\ At("expr")
    /\ \E e \in Of("var") :
          Do(IF e.n = 1 THEN << It("expr"), Load(e.id) >> ELSE << It("zero"), Load(e.id) >>)
    /\ size' = size + 1
    /\ Pure /\ UNCHANGED <<blocks, ip, vals>>

ZeroIndex ==
    /\ At("zero") /\ vals' = Append(vals, "value") /\ Do(<<>>)
    /\ Pure /\ UNCHANGED <<size, blocks, ip>>

LoadVariable ==
    /\ At("load")
    /\ \/ /\ Found(Head(todo).id) /\ Last(vals) # "null"
          /\ Emit(<< Instr("load", find(Head(todo).id), {}) >>)
          /\ vals' = Append(Front(vals), "value") /\ Do(<<>>)
          /\ Pure /\ UNCHANGED <<size, ip>>
       \/ ~Found(Head(todo).id) /\ Stop("exception")
       \/ Found(Head(todo).id) /\ Last(vals) = "null" /\ Stop("assert")

(* The right operand comes first; `not' is an `or' of one operand, which   *)
(* is the operand itself.                                                  *)
BinaryExpr ==
    /\ At("expr")
    /\ \/ \E e \in Of("bin") : Do(<< It("expr"), It("expr"), Bin(e.id) >>)
       \/ Of("not") # {} /\ Do(<< It("expr") >>)
    /\ size' = size + 1
    /\ Pure /\ UNCHANGED <<blocks, ip, vals>>

(* `^' has no case: the result is null, which the next user trips over.    *)
compile_expr_bin ==
    /\ At("bin")
    /\ LET operands == SubSeq(vals, Len(vals) - 1, Len(vals)) IN
       IF Head(todo).op \in Operators /\ "null" \in ToSet(operands)
       THEN Stop("assert")
       ELSE /\ vals' = Append(SubSeq(vals, 1, Len(vals) - 2),
                              IF Head(todo).op \in Operators THEN "value" ELSE "null")
            /\ Do(<<>>)
            /\ Pure /\ UNCHANGED <<size, blocks, ip>>

(* The function is looked up and the arguments counted before any of them  *)
(* is compiled.                                                            *)
Call(id, n, then) ==
    LET f == Function(id) IN
    IF f # <<>> /\ Len(f[1].params) = n
    THEN /\ Do([i \in 1..n |-> It("expr")] \o << Args(id, n) >> \o then)
         /\ Keep /\ UNCHANGED <<module, scopes, vals, last, loops, falls>>
    ELSE /\ outcome' = "exception" /\ todo' = <<>>
         /\ UNCHANGED <<tree, top, module, scopes, vals, last, aux>>

CallExpr ==
    /\ At("expr") /\ size' = size + 1
    /\ \/ \E e \in Of("call") : Call(e.id, e.n, <<>>)
       \/ Of("in") # {} /\ Call("__ass_scan", 0, <<>>)

CallEnd ==
    /\ At("args")
    /\ LET n    == Head(todo).left
           args == SubSeq(vals, Len(vals) - n + 1, Len(vals))
       IN  IF "null" \in ToSet(args)
           THEN Stop("assert")
           ELSE /\ vals' = Append(SubSeq(vals, 1, Len(vals) - n), "value")
                /\ Emit(<< Instr("call", None, {}) >>)
                /\ Do(<<>>)
                /\ Pure /\ UNCHANGED <<size, ip>>

(* compile_stmt                                                            *)

Stmt(k) == {s \in Bounded(Stmts) : s.k = k}

(* A list is left as soon as one of its statements is a terminator.        *)
LeaveList_bug == FALSE
LeaveList == last

compile_stmt ==
    /\ At("more")
    /\ \/ LeaveList /\ Do(<<>>)
       \/ ~LeaveList /\ (Do(<<>>) \/ (size < MaxNodes[tree] /\ Do(Body)))
    /\ Pure /\ UNCHANGED <<size, blocks, ip, vals>>

(* The variable is declared, in the innermost table, before its value is   *)
(* compiled; a number as index makes it larger, and the index of an        *)
(* element that is no number is read as 0.                                 *)
AssignStmt ==
    /\ At("stmt")
    /\ \E s \in Stmt("assign") :
          LET var == [block |-> ip, at |-> Len(blocks[ip].code) + 1, arg |-> 0] IN
          /\ Do(<< It("expr"), Store(s.id) >>)
          /\ IF Found(s.id)
             THEN UNCHANGED <<blocks, scopes>>
             ELSE /\ Emit(<< Instr("alloca", var, {}) >>)
                  /\ scopes' = Append(Front(scopes), Insert(Last(scopes), s.id, var))
    /\ size' = size + 1
    /\ Keep /\ UNCHANGED <<functions, ip, vals, last, loops, falls>>

compile_assign ==
    /\ At("store")
    /\ IF Last(vals) = "null"
       THEN Stop("assert")
       ELSE /\ Emit(<< Instr("store", find(Head(todo).id), {}) >>)
            /\ vals' = Front(vals) /\ last' = FALSE /\ Do(<<>>)
            /\ Keep /\ UNCHANGED <<size, functions, ip, scopes, loops, falls>>

CallStmt ==
    /\ At("stmt") /\ size' = size + 1
    /\ \/ \E s \in Stmt("call") : Call(s.id, s.n, << It("drop") >>)
       \/ Stmt("out") # {} /\ Call("__ass_print", 1, << It("drop") >>)

Drop ==
    /\ At("drop")
    /\ vals' = Front(vals) /\ last' = FALSE /\ Do(<<>>)
    /\ Keep /\ UNCHANGED <<size, module, scopes, loops, falls>>

ReturnStmt ==
    /\ At("stmt") /\ Stmt("return") # {}
    /\ Do(<< It("expr"), It("return") >>)
    /\ size' = size + 1
    /\ Pure /\ UNCHANGED <<blocks, ip, vals>>

compile_return ==
    /\ At("return")
    /\ Emit(<< Ret >>)
    /\ vals' = Front(vals) /\ last' = TRUE /\ Do(<<>>)
    /\ Keep /\ UNCHANGED <<size, functions, ip, scopes, loops, falls>>

IfStmt ==
    /\ At("stmt")
    /\ \E s \in Stmt("if") : Do(<< It("expr"), If(s.n = 1) >>)
    /\ size' = size + 1
    /\ Pure /\ UNCHANGED <<blocks, ip, vals>>

OpenScope  == Append(scopes, NoNames)

CloseScope_bug == scopes
CloseScope == PopScope

(* Three blocks after the condition; the else branch is compiled first,    *)
(* and is a jump to the exit when there is none.                           *)
compile_if ==
    /\ At("if")
    /\ LET then == BlocksMade + 1
           else == BlocksMade + 2
           exit == BlocksMade + 3
           jump == Append_(blocks, ip, << CondBr(then, else) >>)
           made == jump \o [i \in 1..3 |-> Block(Parent)]
       IN  IF Last(vals) = "null"
           THEN Stop("assert")
           ELSE /\ vals' = Front(vals)
                /\ IF Head(todo).else
                   THEN /\ blocks' = made /\ ip' = else /\ scopes' = OpenScope
                        /\ Do(Body \o << Join(exit, then), Then(then, exit) >>)
                   ELSE /\ blocks' = Append_(made, else, << Br(exit) >>)
                        /\ ip' = then /\ UNCHANGED scopes
                        /\ Do(<< Then(then, exit) >>)
                /\ last' = FALSE
                /\ Keep /\ UNCHANGED <<size, functions, loops, falls>>

Branch ==
    /\ At("then")
    /\ ip' = Head(todo).b /\ scopes' = OpenScope /\ last' = FALSE
    /\ Do(Body \o << Join(Head(todo).exit, Head(todo).exit) >>)
    /\ Keep /\ UNCHANGED <<size, functions, blocks, vals, loops, falls>>

EndBranch ==
    /\ At("join")
    /\ IF last THEN UNCHANGED blocks ELSE Emit(<< Br(Head(todo).exit) >>)
    /\ scopes' = CloseScope /\ ip' = Head(todo).next /\ last' = FALSE
    /\ Do(<<>>)
    /\ Keep /\ UNCHANGED <<size, functions, vals, loops, falls>>

WhileStmt ==
    /\ At("stmt") /\ Stmt("while") # {}
    /\ LET cond == BlocksMade + 1
           body == BlocksMade + 2
           exit == BlocksMade + 3
       IN  /\ blocks' = Append_(blocks, ip, << Br(cond) >>) \o [i \in 1..3 |-> Block(Parent)]
           /\ ip' = cond
           /\ Do(<< It("expr"), While(body, exit) >> \o Body \o << Repeat(cond, exit) >>)
    /\ size' = size + 1
    /\ Pure /\ UNCHANGED vals

TestCondition ==
    /\ At("while")
    /\ IF Last(vals) = "null"
       THEN Stop("assert")
       ELSE /\ Emit(<< CondBr(Head(todo).body, Head(todo).exit) >>)
            /\ ip' = Head(todo).body /\ vals' = Front(vals) /\ last' = FALSE
            /\ loops' = loops \union {Head(todo).body}
            /\ Do(<<>>)
            /\ Keep /\ UNCHANGED <<size, functions, scopes, falls>>

(* No table was opened for the body: its variables stay visible.           *)
compile_while ==
    /\ At("repeat")
    /\ IF last THEN UNCHANGED blocks ELSE Emit(<< Br(Head(todo).cond) >>)
    /\ ip' = Head(todo).exit /\ last' = FALSE
    /\ Do(<<>>)
    /\ Keep /\ UNCHANGED <<size, functions, scopes, vals, loops, falls>>

Terminating == outcome # "none" /\ UNCHANGED vars

Top       == declare_functions \/ compile_define \/ EndDefine \/ GlobalAssign \/ EndCompile
Expr_     == NumberExpr \/ VariableExpr \/ ZeroIndex \/ LoadVariable \/ BinaryExpr
             \/ compile_expr_bin \/ CallExpr \/ CallEnd
Statement == compile_stmt \/ AssignStmt \/ compile_assign \/ CallStmt \/ Drop \/ ReturnStmt
             \/ compile_return \/ IfStmt \/ compile_if \/ Branch \/ EndBranch \/ WhileStmt
             \/ TestCondition \/ compile_while

Next == Top \/ Expr_ \/ Statement \/ Terminating
Spec == Init /\ [][Next]_vars

====
