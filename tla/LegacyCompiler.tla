---- MODULE LegacyCompiler ----
(***************************************************************************)
(* The code generator of the legacy (x86-64) backend,                      *)
(* backend/legacy/compiler.cpp: compile_tree and every compile_* handler.  *)
(*                                                                         *)
(* The C++ is a recursive walk.  Here the walk is a machine: `todo' is the *)
(* control stack of that recursion (what is still to be compiled, next     *)
(* first) and one action does what one handler does between two recursive  *)
(* calls.  The tree is not an input: the first pass chooses each node as   *)
(* it reaches it and records it in `prog', and the second pass, which      *)
(* walks the same tree again, replays `prog'.  So a run of the model is    *)
(* one tree, and TLC explores every tree within the bounds.                *)
(*                                                                         *)
(* Abstracted: every instruction is one unit long (sizeof(__call), ...     *)
(* is 1), so an address is an index into `text' and a displacement is      *)
(* still target - (address + 1), as the code computes it.                  *)
(*                                                                         *)
(* The frame, .bss and the addends of variables are cut to imm32, as the   *)
(* code cuts them; IMM stands for 2^32.  The sizes themselves are counted  *)
(* without the wrap of size_t and ptrdiff_t, which a multiple of IMM is    *)
(* and so no instruction can tell.  Displacements, the addends of          *)
(* parameters and the bytes pushed for a call are not cut: bounds of the   *)
(* model are code below 2^31 bytes and fewer than 2^28 parameters.         *)
(***************************************************************************)
EXTENDS Integers, Sequences, FiniteSets, SequencesExt

CONSTANTS
    NREG,       (* r8 .. r15 hold pending values; the mask 0b111 is NREG - 1 *)
    IMM,        (* how many values an imm32 has                              *)
    Trees,      (* the top-level statement lists of the programs             *)
    Exprs,      (* the expression nodes a tree may contain                   *)
    Stmts,      (* the statement nodes a tree may contain                    *)
    Uses,       (* the nodes that occur below each of the Trees              *)
    MaxNodes    (* bound, for each of the Trees: past it only Finishers are chosen *)

NoIndex  == -1   (* ident->right is null        *)
Computed == -2   (* ident->right is not a number *)

Index    == Nat \union {NoIndex, Computed}

(* A node of the tree: its keyword, its identifier, its number.            *)
(*   num(n)  var(id, index)  bin(op)  not  in  call(id, arguments)         *)
(*   (the n of bin and not: how many of the operands are absent)           *)
(*   assign(id, index)  if(-, 1 when it has an else)  while  out  return   *)
(*   next / stop: whether the list of statements goes on                   *)
Node == [k : STRING, id : STRING, n : Int]
N(k, id, n) == [k |-> k, id |-> id, n |-> n]
Next1 == N("next", "", 0)
Stop  == N("stop", "", 0)

(* How many of a node's operands are absent, as in a tree file that lost   *)
(* its end.  (The other children that one can lack end the walk where they *)
(* are missed and are no input here: a statement or an argument is a syntax *)
(* error, and of a null pointer the program dies.)                         *)
Absent(n) == IF n.k \in {"bin", "not"} THEN n.n ELSE 0

Finishers == {e \in Exprs : e.k = "num"} \union {s \in Stmts : s.k = "return"}

(* A top-level statement: define(id, params) or an assignment of a global. *)
(* params is the PARAM chain: its head is the last parameter of the source. *)
TopNode == [k : {"define", "assign"}, id : STRING, n : Index, params : Seq(STRING)]

ASSUME RegistersAssumption == NREG \in Nat \ {0}
ASSUME ImmAssumption       == IMM \in Nat \ {0} /\ IMM % 32 = 0
ASSUME TreesAssumption     == Trees \subseteq Seq(TopNode) \ {<<>>}
ASSUME NodesAssumption     == /\ Exprs \subseteq Node /\ Stmts \subseteq Node
                              /\ \A s \in Stmts : s.k = "assign" => s.n \in Index
                              /\ \A e \in Exprs : e.k = "bin" => e.n \in 0..2
                              /\ \A e \in Exprs : e.k = "not" => e.n \in 0..1
                              /\ \A s \in Stmts : Absent(s) = 0
ASSUME BoundsAssumption    == MaxNodes \in [Trees -> Nat]

VARIABLES
    tree,     (* the top-level list of this program                          *)
    phase,    (* "declare", "pass1", "pass2", "start", "end"                 *)
    outcome,  (* why compile_tree ended                                      *)
    prog, pc, (* the nodes below the top level, in the order of the walk     *)
    top,      (* the next top-level statement                                *)
    todo,     (* the control stack of the recursion                          *)
    scopes,   (* symtabs: functions, globals, then the local tables          *)
    reg,      (* vm.reg.stack                                                *)
    text,     (* SEC_TEXT                                                    *)
    relas,    (* SEC_RELA_TEXT                                               *)
    bss,      (* secs[SEC_BSS].size                                          *)
    frame,    (* secs[SEC_NULL].size: bytes of locals of this function       *)
    start,    (* vm._start                                                   *)
    (* auxiliary, read by no action's guard *)
    absent,   (* operands absent from the nodes read so far                  *)
    sp,       (* words the emitted code has pushed since the last statement  *)
    sites,    (* what held at each emitted call                              *)
    frames    (* the extent of each compiled function                        *)

control == <<tree, phase, outcome, top>>
source  == <<prog, pc, absent>>
code    == <<text, relas>>
storage == <<scopes, bss, frame>>
aux     == <<sites, frames>>
vars    == <<control, source, todo, storage, reg, code, start, sp, aux>>

(* The control stack.  Every item carries h and d: the depth of the        *)
(* register stack and the number of scopes at which the code that pushed   *)
(* the item expects it to be popped (auxiliary: no action reads them).     *)

It(k, h, d)          == [k |-> k, h |-> h, d |-> d]
Expr(h, d)           == [k |-> "expr", h |-> h, d |-> d]
Bin(h, d, op)        == [k |-> "bin", h |-> h, d |-> d, op |-> op]
Access(k, h, d, s)   == [k |-> k, h |-> h, d |-> d, vis |-> s.vis, addend |-> s.addend]
Jump(k, h, d, cond, at) == [k |-> k, h |-> h, d |-> d, cond |-> cond, at |-> at]
Assign(h, d, id, n, at) ==
    [k |-> "assign", h |-> h, d |-> d, id |-> id, n |-> n, at |-> at]
Args(h, d, id, left, given, pushed, saved) ==
    [k |-> "args", h |-> h, d |-> d, id |-> id, left |-> left, given |-> given,
     pushed |-> pushed, saved |-> saved]

depth == Len(scopes)

(* The depth of the register stack if no operand were absent.              *)
level == reg + absent

(* The statement list of a body: a first statement, then maybe more.       *)
Body(h, d) == << It("stmt", h, d), It("more", h, d) >>

Running == phase \in {"pass1", "pass2"}
At(k)   == Running /\ todo # <<>> /\ Head(todo).k = k
Do(block) == todo' = block \o Tail(todo)

(* The walk comes to node n, one of `choices'.                             *)
Read(n, choices) ==
    \/ /\ phase = "pass1" /\ n \in choices
       /\ prog' = Append(prog, n) /\ pc' = pc /\ absent' = absent + Absent(n)
    \/ /\ phase = "pass2" /\ pc <= Len(prog) /\ n = prog[pc]
       /\ pc' = pc + 1 /\ prog' = prog /\ absent' = absent + Absent(n)

More           == Len(prog) < MaxNodes[tree]
Bounded(nodes) == nodes \intersect (IF More THEN Uses[tree] ELSE Finishers)

(* syntax_error: every caller returns the error up to compile_tree, which  *)
(* reads it after the first pass and drops it after the second (l. 155).   *)
Fail ==
    /\ todo' = <<>>
    /\ IF phase = "pass1" THEN phase' = "end" /\ outcome' = "syntax"
                          ELSE phase' = "start" /\ outcome' = "second"
    /\ UNCHANGED <<tree, top, storage, reg, code, start, sp, aux>>

(* Registers, instructions and symbols.                                    *)

(* Definitions whose name ends in _bug are mutants: the definition after   *)
(* them with a plausible slip.  No specification uses them.                *)
Mask_bug(d) == d
Mask(d) == d % NREG

(* An instruction: its operation, destination, source and operand.         *)
I(op, r, s, x) == [op |-> op, r |-> r, s |-> s, x |-> x]
Op(op)         == I(op, 0, 0, 0)
Load    == [local |-> "load local",   global |-> "load global"]
Loadx   == [local |-> "loadx local",  global |-> "loadx global"]
Store   == [local |-> "store local",  global |-> "store global"]
Storex  == [local |-> "storex local", global |-> "storex global"]
Library == [scan |-> "call scan", print |-> "call print"]
Unset          == 0
rip            == Len(text)
Displace_bug(target, at) == target - at
Displace(target, at) == target - at - 1

WORD == 8

(* The words an instruction pushes on the machine's stack.                 *)
Words(i) == CASE i.op = "push"    -> 1
              [] i.op = "pop"     -> -1
              [] i.op = "sub rsp" -> i.x \div WORD
              [] i.op = "add rsp" -> -(i.x \div WORD)
              [] OTHER            -> 0
Pushed(list) ==
    LET sum[n \in 0..Len(list)] == IF n = 0 THEN 0 ELSE sum[n - 1] + Words(list[n])
    IN  sum[Len(list)]

Emit(list)   == text' = text \o list /\ sp' = sp + Pushed(list)
Patch_bug(at, x) == [text EXCEPT ![at].x = x]
Patch(at, x) == [text EXCEPT ![at + 1].x = x]

Align_bug(size, align) == size - (size % align)
Align(size, align) == size + ((align - size) % align)

(* The conversion of a number of bytes to imm32.                           *)
HALF   == IMM \div 2
Imm(x) == ((x + HALF) % IMM) - HALF

Symbol == [type : {"func", "var"}, vis : {"local", "global"}, id : STRING,
           addend : Int, offset : Nat, info : Nat]
Sym(type, vis, id, addend, offset, info) ==
    [type |-> type, vis |-> vis, id |-> id, addend |-> addend,
     offset |-> offset, info |-> info]

(* find_symbol walks the tables bottom-up: the first entry wins.           *)
Places   == UNION {{<<i, j>> : j \in 1..Len(scopes[i])} : i \in 1..Len(scopes)}
Hits(id) == {p \in Places : scopes[p[1]][p[2]].id = id}
Found(id) == Hits(id) # {}
Place(id) == CHOOSE p \in Hits(id) : \A q \in Hits(id) :
                p[1] < q[1] \/ (p[1] = q[1] /\ p[2] <= q[2])
find_symbol(id) == scopes[Place(id)[1]][Place(id)[2]]

is_global_scope == Len(scopes) <= 2
PopScope_bug    == scopes
PopScope        == SubSeq(scopes, 1, Len(scopes) - 1)
Mains           == {i \in 1..Len(scopes[1]) : scopes[1][i].id = "main"}
main            == scopes[1][CHOOSE i \in Mains : \A j \in Mains : i <= j]

(* A data access is relocated against SYM_BSS, a library call against its  *)
(* own symbol; `at' is the address of the instruction to be patched.       *)
Rela(at, sym, addend) == [at |-> at, sym |-> sym, addend |-> addend]
RelaOf_bug(vis, at, addend) ==
    IF vis = "global" THEN << Rela(at + 1, "bss", addend) >> ELSE <<>>
RelaOf(vis, at, addend) ==
    IF vis = "global" THEN << Rela(at, "bss", addend) >> ELSE <<>>

(* compile_tree                                                            *)

Init ==
    /\ tree \in Trees
    /\ phase = "declare" /\ outcome = "none"
    /\ prog = <<>> /\ pc = 1 /\ absent = 0 /\ top = 1 /\ todo = <<>>
    /\ scopes = << <<>> >>
    /\ reg = 0 /\ text = <<>> /\ relas = <<>> /\ bss = 0 /\ frame = 0
    /\ start = 0 /\ sp = 0 /\ sites = {} /\ frames = {}

(* declare_functions: a second definition of a name stops the walk, and    *)
(* compile_tree drops the error it returns (l. 116).                       *)
Declare ==
    /\ phase = "declare" /\ top <= Len(tree)
    /\ LET t == tree[top] IN
       IF t.k = "define" /\ Found(t.id)
       THEN top' = Len(tree) + 1 /\ UNCHANGED scopes
       ELSE /\ top' = top + 1
            /\ scopes' = IF t.k = "assign" THEN scopes
                         ELSE [scopes EXCEPT ![1] =
                              Append(@, Sym("func", "global", t.id, 0, 0, Len(t.params)))]
    /\ UNCHANGED <<tree, phase, outcome, source, todo, reg, code, bss, frame, start, sp, aux>>

Declared ==
    /\ phase = "declare" /\ top > Len(tree)
    /\ scopes' = Append(scopes, <<>>)
    /\ top' = 1
    /\ IF Mains = {} THEN phase' = "end" /\ outcome' = "nomain"
                     ELSE phase' = "pass1" /\ UNCHANGED outcome
    /\ UNCHANGED <<tree, source, todo, reg, code, bss, frame, start, sp, aux>>

(* section_free and free_array leave nothing of what was there.            *)
section_free_bug(data) == data
free_array_bug(table)  == table
section_free(data) == <<>>
free_array(table)  == <<>>

(* Between the passes the sections and the table of globals are freed; the *)
(* offsets of the functions, which the first pass found, stay.             *)
SecondPass ==
    /\ phase = "pass1" /\ todo = <<>> /\ top > Len(tree)
    /\ text' = section_free(text) /\ relas' = section_free(relas) /\ bss' = 0
    /\ scopes' = [scopes EXCEPT ![2] = free_array(@)]
    /\ top' = 1
    /\ IF reg # 0 THEN phase' = "end" /\ outcome' = "unbalanced"
                  ELSE phase' = "pass2" /\ UNCHANGED outcome
    /\ sites' = {} /\ frames' = {}
    /\ UNCHANGED <<tree, source, todo, reg, frame, start, sp>>

CompilePassEnd ==
    /\ phase = "pass2" /\ todo = <<>> /\ top > Len(tree)
    /\ phase' = "start"
    /\ UNCHANGED <<tree, outcome, top, source, todo, storage, reg, code, start, sp, aux>>

(* compile_start: call every initialiser, then main, then exit.            *)
StartTargets_bug == LET globals == scopes[Len(scopes)]
                    IN  <<main.offset>> \o [i \in 1..Len(globals) |-> globals[i].offset]
StartTargets == LET globals == scopes[Len(scopes)]
                IN  Append([i \in 1..Len(globals) |-> globals[i].offset], main.offset)

compile_start ==
    /\ phase = "start"
    /\ start' = rip
    /\ text' = text
         \o [i \in 1..Len(StartTargets) |->
                I("call", 0, 0, Displace(StartTargets[i], rip + i - 1))]
         \o << Op("mov rdi, rax"), Op("mov rax, 0x3c"), Op("syscall") >>
    /\ phase' = "end"
    /\ outcome' = IF outcome = "none" THEN "ok" ELSE outcome
    /\ UNCHANGED <<tree, top, source, todo, storage, reg, relas, sp, aux>>

(* compile_define: look the function up, open its scope with its           *)
(* parameters (no name may be visible already), prologue, body, and then   *)
(* patch the size of its frame, which is known only after the body.        *)

Params(f, n) == [j \in 1..Len(f.params) |->
                    Sym("var", "local", f.params[j], WORD * (n - j + 2), 0, WORD)]

(* A parameter's name is already visible, or repeats in the list.          *)
ParamsVisible_bug(params) ==
    \E j \in 1..Len(params) : \E i \in 1..(j - 1) : params[i] = params[j]
ParamsVisible(params) ==
    \E j \in 1..Len(params) :
        Found(params[j]) \/ \E i \in 1..(j - 1) : params[i] = params[j]

AtTop(k) == Running /\ todo = <<>> /\ top <= Len(tree) /\ tree[top].k = k

DefineFails(f) ==
    \/ Found(f.id) => find_symbol(f.id).info # Len(f.params)
    \/ ParamsVisible(f.params)

compile_define ==
    /\ AtTop("define") /\ ~DefineFails(tree[top])
    /\ LET f == tree[top]
           p == Place(f.id)
       IN  /\ scopes' = Append([scopes EXCEPT ![p[1]][p[2]].offset = rip],
                               Params(f, find_symbol(f.id).info))
           /\ Emit(<< Op("push rbp"), Op("mov rbp, rsp"), I("sub rsp, frame", 0, 0, Unset) >>)
           /\ todo' = Body(level, depth + 1)
                       \o << Jump("enddefine", level, depth + 1, 0, rip + 2) >>
    /\ top' = top + 1
    /\ UNCHANGED <<tree, phase, outcome, source, reg, relas, bss, frame, start, aux>>

(* The code has opened the scope by then, and leaves it open: compile_tree *)
(* frees it, and no later step looks at it (see SecondPassNeverFails).     *)
DefineRejected ==
    /\ AtTop("define") /\ DefineFails(tree[top])
    /\ UNCHANGED source
    /\ Fail

EndDefine ==
    /\ At("enddefine")
    /\ LET sub == Head(todo).at IN
       /\ text' = Patch(sub, Imm(Align(frame, 16)))
       /\ frames' = frames \union {[sub |-> sub, last |-> rip - 1, size |-> frame]}
    /\ scopes' = PopScope
    /\ frame' = 0
    /\ Do(<<>>)
    /\ UNCHANGED <<control, source, reg, relas, bss, start, sp, sites>>

(* Expressions: each leaves its value in the next register.                *)

(* The expression node n at the head of the control stack.                 *)
ReadExpr(n) == At("expr") /\ Read(n, Bounded(Exprs))

Keep == UNCHANGED <<control, storage, start, aux>>

compile_load_num ==
    \E n \in Exprs :
        /\ n.k = "num" /\ ReadExpr(n)
        /\ reg' = reg + 1
        /\ Emit(<< I("mov imm", Mask(reg + 1), 0, n.n) >>)
        /\ Do(<<>>)
        /\ Keep /\ UNCHANGED relas

(* An identifier: its index first, if it has one, then stack_load or       *)
(* data_load into the same register.                                       *)
LoadVariable ==
    \E n \in Exprs :
        /\ n.k = "var" /\ ReadExpr(n) /\ Found(n.id)
        /\ LET s == find_symbol(n.id) IN
           IF n.n = NoIndex
           THEN /\ reg' = reg + 1
                /\ relas' = relas \o RelaOf(s.vis, rip, s.addend)
                /\ Emit(<< I(Load[s.vis], Mask(reg + 1), 0, s.addend) >>)
                /\ Do(<<>>)
           ELSE /\ Do(<< Expr(level, depth), Access("load", level + 1, depth, s) >>)
                /\ UNCHANGED <<reg, code, sp>>
        /\ Keep

LoadElement ==
    /\ At("load")
    /\ LET it == Head(todo) IN
       /\ relas' = relas \o RelaOf(it.vis, rip, it.addend)
       /\ Emit(<< I(Loadx[it.vis], Mask(reg), Mask(reg), it.addend) >>)
    /\ Do(<<>>)
    /\ Keep /\ UNCHANGED <<source, reg>>

VariableRejected ==
    \E n \in Exprs : n.k = "var" /\ ReadExpr(n) /\ ~Found(n.id) /\ Fail

(* The operands that are there, then the operator: of its code it does not *)
(* matter which of them is absent.                                         *)
BinaryExpr ==
    \E n \in Exprs :
        /\ n.k = "bin" /\ ReadExpr(n)
        /\ Do(SubSeq(<< Expr(level, depth), Expr(level + 1, depth) >>, n.n + 1, 2)
                 \o << Bin(level + 2, depth, n.id) >>)
        /\ Keep /\ UNCHANGED <<reg, code, sp>>

(* compile_expr_add, _sub, _mul, _div, _and, _or, _cmp: the top register   *)
(* is popped into the one below it.                                        *)
BinCode(op) ==
    LET a == Mask(reg)
        b == Mask(reg - 1)
    IN  CASE op = "div" -> << I("mov rax, r", 0, b, 0), Op("cqo"),
                              I("idiv", 0, a, 0), I("mov r, rax", b, 0, 0) >>
          [] op = "cmp" -> << I("cmp", b, a, 0), Op("mov rax, 1"),
                              I("mov imm", b, 0, 0), I("cmov", b, 0, 0) >>
          [] OTHER      -> << I(op, b, a, 0) >>

Compiled == {"add", "sub", "mul", "div", "and", "or", "cmp"}

compile_expr_bin ==
    /\ At("bin") /\ Head(todo).op \in Compiled
    /\ Emit(BinCode(Head(todo).op))
    /\ reg' = reg - 1
    /\ Do(<<>>)
    /\ Keep /\ UNCHANGED <<source, relas>>

(* The switch of compile_expr has no case for AST_POW, AST_SIN, ...        *)
OperatorRejected ==
    /\ At("bin") /\ Head(todo).op \notin Compiled
    /\ UNCHANGED source
    /\ Fail

NotExpr ==
    \E n \in Exprs :
        /\ n.k = "not" /\ ReadExpr(n)
        /\ Do(SubSeq(<< Expr(level, depth) >>, n.n + 1, 1) \o << It("not", level + 1, depth) >>)
        /\ Keep /\ UNCHANGED <<reg, code, sp>>

compile_expr_not ==
    /\ At("not")
    /\ Emit(<< I("xor 1", Mask(reg), 0, 1) >>)
    /\ Do(<<>>)
    /\ Keep /\ UNCHANGED <<source, reg, relas>>

(* Calls                                                                   *)

(* compile_call_begin: the words a call with n arguments takes.            *)
compile_call_begin(n) == IF (n + 1) % 2 = 1 THEN n + 1 ELSE n
PadCode(n) == IF compile_call_begin(n) = n THEN <<>> ELSE << I("sub rsp", 0, 0, WORD) >>

(* compile_call_end: the result goes to the next register.                 *)
compile_call_end_bug(live, pushed) ==
    << I("mov r, rax", Mask(live + 1), 0, 0), I("add rsp", 0, 0, WORD * (pushed - 1)) >>
compile_call_end(live, pushed) ==
    << I("mov r, rax", Mask(live + 1), 0, 0), I("add rsp", 0, 0, WORD * pushed) >>

(* The registers in use are saved before a call and restored after it.     *)
SaveCode_bug(n) == [i \in 1..n |-> I("push", i - 1, 0, 0)]
SaveCode(n)    == [i \in 1..n |-> I("push", i, 0, 0)]
RestoreCode(n) == [i \in 1..n |-> I("pop", n + 1 - i, 0, 0)]

(* What a call was compiled under: the pending values and the registers    *)
(* saved for it.                                                           *)
Site(kind, id, at, live, saved) ==
    [kind |-> kind, id |-> id, at |-> at, live |-> live,
     saved |-> SaveCode(saved), restored |-> RestoreCode(saved)]

IsFunction(id) == Found(id) /\ find_symbol(id).type = "func"

(* The registers to save are counted by register_top, which is masked.     *)
CallBegin(n, after) ==
    LET saved  == Mask(reg)
        info   == find_symbol(n.id).info
    IN  /\ Emit(SaveCode(saved) \o PadCode(info))
        /\ Do(<< Args(level, depth, n.id, info, n.n, compile_call_begin(info), saved) >> \o after)
        /\ Keep /\ UNCHANGED <<reg, relas>>

CallExpr ==
    \E n \in Exprs :
        n.k = "call" /\ ReadExpr(n) /\ IsFunction(n.id) /\ CallBegin(n, <<>>)

(* The next parameter of the chain; a missing one is an error, a spare one *)
(* is never looked at.                                                     *)
CallArgument ==
    /\ At("args") /\ Head(todo).left > 0 /\ Head(todo).given > 0
    /\ LET a == Head(todo) IN
       Do(<< Expr(level, depth), It("push", level + 1, depth),
             Args(level, depth, a.id, a.left - 1, a.given - 1, a.pushed, a.saved) >>)
    /\ Keep /\ UNCHANGED <<source, reg, code, sp>>

PushArgument ==
    /\ At("push")
    /\ Emit(<< I("push", Mask(reg), 0, 0) >>)
    /\ reg' = reg - 1
    /\ Do(<<>>)
    /\ Keep /\ UNCHANGED <<source, relas>>

CallEnd ==
    /\ At("args") /\ Head(todo).left = 0
    /\ LET a == Head(todo) IN
       /\ Emit(<< I("call", 0, 0, Displace(find_symbol(a.id).offset, rip)) >>
               \o compile_call_end(reg, a.pushed) \o RestoreCode(a.saved))
       /\ sites' = sites \union {Site("user", a.id, rip, reg, a.saved)}
    /\ reg' = reg + 1
    /\ Do(<<>>)
    /\ UNCHANGED <<control, source, storage, relas, start, frames>>

CallRejected ==
    \/ \E n \in Exprs : n.k = "call" /\ ReadExpr(n) /\ ~IsFunction(n.id) /\ Fail
    \/ At("args") /\ Head(todo).left > 0 /\ Head(todo).given = 0 /\ UNCHANGED source /\ Fail

(* compile_stdcall: IN takes no argument, OUT takes its operand.           *)
compile_stdcall(sym, args) ==
    LET before == PadCode(args) \o [i \in 1..args |-> I("push", Mask(reg - i + 1), 0, 0)]
        at     == rip + Len(before)
    IN  /\ Emit(before \o << I(Library[sym], 0, 0, 0) >>
                \o compile_call_end(reg - args, compile_call_begin(args)))
        /\ relas' = Append(relas, Rela(at, sym, 0))
        /\ sites' = sites \union {Site("std", sym, at, reg - args, 0)}

InExpr ==
    \E n \in Exprs :
        /\ n.k = "in" /\ ReadExpr(n)
        /\ compile_stdcall("scan", 0)
        /\ reg' = reg + 1
        /\ Do(<<>>)
        /\ UNCHANGED <<control, storage, start, frames>>

(* Statements                                                              *)

ReadStmt(n) == At("stmt") /\ Read(n, Bounded(Stmts))

(* Statement lists; the last statement of a body is found by `stop'.       *)
compile_stmt ==
    /\ At("more")
    /\ \E n \in {Next1, Stop} :
        /\ Read(n, IF More THEN {Next1, Stop} ELSE {Stop})
        /\ Do(IF n = Next1 THEN Body(level, depth) ELSE <<>>)
    /\ Keep /\ UNCHANGED <<reg, code, sp>>

(* compile_assign notes the address and compiles the right-hand side ...   *)
AssignStmt ==
    \E n \in Stmts :
        /\ n.k = "assign" /\ ReadStmt(n)
        /\ Do(<< Expr(level, depth), Assign(level + 1, depth, n.id, n.n, rip) >>)
        /\ Keep /\ UNCHANGED <<reg, code, sp>>

GlobalAssign ==
    /\ AtTop("assign")
    /\ todo' = << Expr(level, depth),
                Assign(level + 1, depth, tree[top].id, tree[top].n, rip) >>
    /\ top' = top + 1
    /\ UNCHANGED <<tree, phase, outcome, source, storage, reg, code, start, sp, aux>>

(* ... then stores the value.  A store at global scope is an initialiser:  *)
(* it ends with a ret.                                                     *)
RetCode(vis) == IF vis = "global" /\ is_global_scope THEN << Op("ret") >> ELSE <<>>

(* compile_store, when there is no index (n = NoIndex) or a number.        *)
compile_store(s, n) ==
    IF n = NoIndex
    THEN /\ Emit(<< I(Store[s.vis], 0, Mask(reg), s.addend) >> \o RetCode(s.vis))
         /\ relas' = relas \o RelaOf(s.vis, rip, s.addend)
    ELSE /\ Emit(<< I("mov imm", Mask(reg + 1), 0, n),
                    I(Storex[s.vis], Mask(reg + 1), Mask(reg), s.addend) >>
                 \o RetCode(s.vis))
         /\ relas' = relas \o RelaOf(s.vis, rip + 1, s.addend)

(* An assignment to a name that is visible stores to it; at global scope   *)
(* it is an error.                                                         *)
Reassign ==
    /\ At("assign") /\ Found(Head(todo).id) /\ ~is_global_scope
    /\ LET it == Head(todo)
           s  == find_symbol(it.id)
       IN  IF it.n = Computed
           THEN /\ Do(<< Expr(level, depth), Access("store", level + 1, depth, s) >>)
                /\ UNCHANGED <<reg, code, sp>>
           ELSE /\ compile_store(s, it.n)
                /\ reg' = reg - 1
                /\ Do(<<>>)
    /\ Keep /\ UNCHANGED source

StoreElement ==
    /\ At("store")
    /\ LET it == Head(todo) IN
       /\ relas' = relas \o RelaOf(it.vis, rip, it.addend)
       /\ Emit(<< I(Storex[it.vis], Mask(reg), Mask(reg - 1), it.addend) >>
               \o RetCode(it.vis))
    /\ reg' = reg - 2
    /\ Do(<<>>)
    /\ Keep /\ UNCHANGED source

(* A new name is declared: in .bss at global scope, in the frame elsewhere. *)
(* x[n] = e declares n + 1 words.                                          *)
Extent(n) == IF n = NoIndex THEN WORD ELSE WORD * (n + 1)
LocalAddend_bug(info) == Imm(-(frame + WORD))
LocalAddend(info) == Imm(-(frame + info))

DeclareVariable ==
    /\ At("assign") /\ ~Found(Head(todo).id) /\ Head(todo).n # Computed
    /\ LET it   == Head(todo)
           info == Extent(it.n)
           s    == IF is_global_scope
                   THEN Sym("var", "global", it.id, Imm(bss), it.at, info)
                   ELSE Sym("var", "local", it.id, LocalAddend(info), it.at, info)
       IN  /\ scopes' = [scopes EXCEPT ![Len(scopes)] = Append(@, s)]
           /\ IF is_global_scope THEN bss' = bss + info /\ frame' = frame
                                 ELSE frame' = frame + info /\ bss' = bss
           /\ compile_store(s, it.n)
    /\ reg' = reg - 1
    /\ Do(<<>>)
    /\ UNCHANGED <<control, source, start, aux>>

AssignRejected ==
    /\ At("assign")
    /\ IF Found(Head(todo).id) THEN is_global_scope ELSE Head(todo).n = Computed
    /\ UNCHANGED source
    /\ Fail

(* compile_while and compile_if open one scope each, test the condition    *)
(* and emit a je whose target is patched when it is known.                 *)
Conditional ==
    \E n \in Stmts :
        /\ n.k \in {"while", "if"} /\ ReadStmt(n)
        /\ scopes' = Append(scopes, <<>>)
        /\ Do(<< Expr(level, depth + 1),
                 Jump(IF n.k = "while" THEN "test while"
                      ELSE IF n.n = 1 THEN "test if else" ELSE "test if",
                      level + 1, depth + 1, rip, 0) >>)
        /\ UNCHANGED <<control, bss, frame, reg, code, start, sp, aux>>

TestCondition ==
    /\ At("test while") \/ At("test if") \/ At("test if else")
    /\ Emit(<< I("test", Mask(reg), Mask(reg), 0), I("je", 0, 0, Unset) >>)
    /\ LET it == Head(todo)
           je == rip + 1
           then == CASE it.k = "test while"   -> "endwhile"
                     [] it.k = "test if else" -> "else"
                     [] OTHER                 -> "endif"
       IN  Do(Body(level - 1, depth) \o << Jump(then, level - 1, depth, it.cond, je) >>)
    /\ reg' = reg - 1
    /\ Keep /\ UNCHANGED <<source, relas>>

(* A jmp is emitted before the je over it is patched to the address after it. *)
after_jmp_bug == rip
after_jmp == rip + 1

EndWhile ==
    /\ At("endwhile")
    /\ LET it   == Head(todo)
           back == I("jmp", 0, 0, Displace(it.cond, rip))
       IN  text' = Append(Patch(it.at, Displace(after_jmp, it.at)), back)
    /\ scopes' = PopScope
    /\ Do(<<>>)
    /\ UNCHANGED <<control, source, bss, frame, reg, relas, start, sp, aux>>

Else ==
    /\ At("else")
    /\ LET it == Head(todo) IN
       /\ text' = Append(Patch(it.at, Displace(after_jmp, it.at)), I("jmp", 0, 0, Unset))
       /\ Do(Body(level, depth) \o << Jump("endif", level, depth, it.cond, rip) >>)
    /\ Keep /\ UNCHANGED <<source, reg, relas, sp>>

EndIf ==
    /\ At("endif")
    /\ text' = Patch(Head(todo).at, Displace(rip, Head(todo).at))
    /\ scopes' = PopScope
    /\ Do(<<>>)
    /\ UNCHANGED <<control, source, bss, frame, reg, relas, start, sp, aux>>

(* AST_CALL as a statement drops the result.                               *)
CallStmt ==
    \E n \in Stmts :
        /\ n.k = "call" /\ ReadStmt(n) /\ IsFunction(n.id)
        /\ CallBegin(n, << It("drop", level + 1, depth) >>)

CallStmtRejected ==
    \E n \in Stmts : n.k = "call" /\ ReadStmt(n) /\ ~IsFunction(n.id) /\ Fail

DropResult_bug ==
    /\ At("drop")
    /\ Do(<<>>)
    /\ Keep /\ UNCHANGED <<source, code, reg, sp>>
DropResult ==
    /\ At("drop")
    /\ reg' = reg - 1
    /\ Do(<<>>)
    /\ Keep /\ UNCHANGED <<source, code, sp>>

OutOrReturn ==
    \E n \in Stmts :
        /\ n.k \in {"out", "return"} /\ ReadStmt(n)
        /\ Do(<< Expr(level, depth), It(n.k, level + 1, depth) >>)
        /\ Keep /\ UNCHANGED <<reg, code, sp>>

OutStmt ==
    /\ At("out")
    /\ compile_stdcall("print", 1)
    /\ reg' = reg - 1
    /\ Do(<<>>)
    /\ UNCHANGED <<control, source, storage, start, frames>>

compile_return ==
    /\ At("return")
    /\ Emit(<< I("mov rax, r", 0, Mask(reg), 0), Op("mov rsp, rbp"), Op("pop rbp"), Op("ret") >>)
    /\ reg' = reg - 1
    /\ Do(<<>>)
    /\ Keep /\ UNCHANGED <<source, relas>>

Terminating == phase = "end" /\ UNCHANGED vars

Next ==
    \/ Declare \/ Declared \/ SecondPass \/ CompilePassEnd \/ compile_start
    \/ compile_define \/ DefineRejected \/ EndDefine
    \/ compile_load_num \/ LoadVariable \/ LoadElement \/ VariableRejected
    \/ BinaryExpr \/ compile_expr_bin \/ OperatorRejected \/ NotExpr \/ compile_expr_not
    \/ CallExpr \/ CallArgument \/ PushArgument \/ CallEnd \/ CallRejected \/ InExpr
    \/ compile_stmt \/ AssignStmt \/ GlobalAssign \/ Reassign \/ StoreElement
    \/ DeclareVariable \/ AssignRejected \/ Conditional \/ TestCondition
    \/ EndWhile \/ Else \/ EndIf \/ CallStmt \/ CallStmtRejected \/ DropResult
    \/ OutOrReturn \/ OutStmt \/ compile_return
    \/ Terminating

Spec == Init /\ [][Next]_vars

====
