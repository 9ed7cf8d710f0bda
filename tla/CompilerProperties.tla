---- MODULE CompilerProperties ----
(***************************************************************************)
(* What the code generator of LegacyCompiler owes its callers, the machine *)
(* and the linker.                                                         *)
(***************************************************************************)
EXTENDS LegacyCompiler

Ok == outcome = "ok"

(* Instructions by address.                                                *)
Instr(a)  == text[a + 1]
Addresses == 0..(Len(text) - 1)
With(ops) == {a \in Addresses : Instr(a).op \in ops}
Target(a) == a + 1 + Instr(a).x
Jumps     == With({"je", "jmp"})

Register == 0..(NREG - 1)
Opcodes ==
    {"push", "pop", "ret", "call", "call scan", "call print", "syscall", "je", "jmp", "test",
     "sub rsp", "add rsp", "sub rsp, frame", "push rbp", "pop rbp", "mov rbp, rsp", "mov rsp, rbp",
     "load local", "load global", "loadx local", "loadx global",
     "store local", "store global", "storex local", "storex global",
     "mov imm", "mov r, rax", "mov rax, r", "mov rdi, rax", "mov rax, 1", "mov rax, 0x3c",
     "cqo", "idiv", "cmov", "cmp", "add", "sub", "mul", "and", "or", "xor 1"}
InstrType == [op : Opcodes, r : Register, s : Register, x : Int]
RelaType  == [at : Nat, sym : {"bss", "scan", "print"}, addend : Int]

Scopes == Nat \ {0, 1}

ItemType ==
         [k : {"bin"}, h : Nat, d : Scopes, op : STRING]
  \union [k : {"load", "store"}, h : Nat, d : Scopes, vis : {"local", "global"}, addend : Int]
  \union [k : {"assign"}, h : Nat, d : Scopes, id : STRING, n : Index, at : Nat]
  \union [k : {"args"}, h : Nat, d : Scopes, id : STRING, left : Nat, given : Int,
          pushed : Nat, saved : Register]
  \union [k : {"enddefine", "test while", "test if", "test if else",
               "endwhile", "else", "endif"}, h : Nat, d : Scopes, cond : Nat, at : Nat]
  \union [k : {"expr", "stmt", "more", "not", "push", "drop", "out", "return"}, h : Nat, d : Scopes]

(* The types of the state.  A register number fits the three bits of an    *)
(* instruction's register field (modrm, sib, opcode: iencode.h).           *)
TypeOK ==
    /\ tree \in Trees
    /\ phase \in {"declare", "pass1", "pass2", "start", "end"}
    /\ outcome \in {"none", "syntax", "nomain", "unbalanced", "second", "ok"}
    /\ prog \in Seq(Exprs \union Stmts \union {Next1, Stop}) /\ pc \in Nat \ {0}
    /\ absent \in Nat
    /\ top \in Nat \ {0}
    /\ todo \in Seq(ItemType)
    /\ scopes \in Seq(Seq(Symbol))
    /\ reg \in Int
    /\ text \in Seq(InstrType)
    /\ relas \in Seq(RelaType)
    /\ bss \in Nat /\ frame \in Nat /\ start \in Nat

(* compile_tree reports an "Unbalanced register stack" (l. 150) for the    *)
(* trees in which an operator lacks an operand, and for no other: with all *)
(* operands there every value is popped by exactly one consumer, and each  *)
(* absent one leaves the stack one short.  Every scope is closed by the    *)
(* construct that opened it, so that the top of symtabs is the table of    *)
(* globals, which compile_start takes it for (l. 205).                     *)
Balanced ==
    /\ Running /\ todo = <<>> => reg = -absent /\ depth = 2
    /\ outcome = "unbalanced" => absent > 0
    /\ phase \in {"pass2", "start"} \/ outcome \in {"ok", "second"} => absent = 0

(* What an item of the control stack does to the register stack, and to    *)
(* the number of scopes, by the time the items it expands to are done.     *)
NetRegs(k) ==
    CASE k \in {"expr", "args"} -> 1
      [] k = "store"            -> -2
      [] k \in {"bin", "assign", "push", "drop", "out", "return",
                "test while", "test if", "test if else"} -> -1
      [] OTHER                  -> 0
NetScopes(k) ==
    IF k \in {"enddefine", "test while", "test if", "test if else",
              "endwhile", "else", "endif"} THEN -1 ELSE 0

(* The items s take the depths <<h, d>> to <<e, f>>, each starting where   *)
(* the one before it stops.                                                *)
Linked(s, h, d, e, f) ==
    IF s = <<>> THEN h = e /\ d = f
    ELSE /\ s[1].h = h /\ s[1].d = d
         /\ \A i \in 1..(Len(s) - 1) :
               /\ s[i + 1].h = s[i].h + NetRegs(s[i].k)
               /\ s[i + 1].d = s[i].d + NetScopes(s[i].k)
         /\ e = s[Len(s)].h + NetRegs(s[Len(s)].k)
         /\ f = s[Len(s)].d + NetScopes(s[Len(s)].k)

ControlLinked == Running => Linked(todo, level, depth, 0, 2)

UserCalls == {s \in sites : s.kind = "user"}
Regs(s)   == {s[i].r : i \in 1..Len(s)}

(* No node read lacks an operand as long as none is counted.               *)
Complete == absent = 0 => \A i \in 1..Len(prog) : Absent(prog[i]) = 0

(* An operand is missed by the end of the first pass, and no pass begins   *)
(* with an outcome.                                                        *)
Reported ==
    /\ phase = "declare" \/ Running => outcome = "none"
    /\ outcome = "unbalanced" => absent > 0
    /\ phase \in {"pass2", "start"} \/ outcome \in {"ok", "second"} => absent = 0

(* A pending call is to a function, and restores the registers it saved.   *)
FunctionNames == {scopes[1][j].id : j \in 1..Len(scopes[1])}
CallsPending ==
    \A i \in 1..Len(todo) :
        todo[i].k = "args" => /\ absent = 0 => todo[i].saved = Mask(todo[i].h)
                              /\ todo[i].id \in FunctionNames
SitesSaved ==
    absent = 0 =>
    \A c \in UserCalls : /\ c.live \in Nat
                         /\ c.saved = SaveCode(Mask(c.live))
                         /\ c.restored = RestoreCode(Mask(c.live))

(* The tables of functions and of globals stay open, and main in the       *)
(* first, until the code of _start is written.  Functions are only there.  *)
TablesOpen ==
    /\ phase = "declare" => depth = 1 /\ reg = 0 /\ absent = 0 /\ todo = <<>>
    /\ phase \in {"pass1", "pass2", "start"} => depth >= 2 /\ "main" \in FunctionNames
FunctionsFirst ==
    \A i \in 2..Len(scopes) : \A j \in 1..Len(scopes[i]) : scopes[i][j].type = "var"

(* The inductive form of TypeOK, Balanced and PendingValuesSurvive.  All   *)
(* that is still to be compiled, taken together, brings the registers and  *)
(* the scopes back to where they were before the top-level statement, but  *)
(* for a register less with each operand that is absent.                   *)
CompilerInv ==
    /\ TypeOK
    /\ ControlLinked
    /\ CallsPending
    /\ SitesSaved
    /\ TablesOpen
    /\ FunctionsFirst
    /\ Complete
    /\ Reported

AtStatement == todo = <<>> \/ Head(todo).k \in {"stmt", "more"}

(* Between statements the emitted code has popped every word it pushed:    *)
(* the padding of compile_call_begin, the arguments and the saved          *)
(* registers are all given back, so locals keep their distance to rsp.     *)
MachineStackBalanced == Running /\ AtStatement => sp = 0

(* A call to a function of the program keeps every pending value: the      *)
(* registers below it are pushed before and popped in the reverse order    *)
(* after, and none of the pops overwrites the result.  For fewer than NREG *)
(* pending values (compile_call counts them with a masked register_top),   *)
(* and as long as no operand is absent: such a tree is reported.           *)
PendingValuesSurvive ==
    absent = 0 =>
    \A c \in UserCalls :
        c.live < NREG =>
            /\ \A d \in 1..c.live : Mask(d) \in Regs(c.saved)
            /\ Len(c.restored) = Len(c.saved)
            /\ \A i \in 1..Len(c.saved) :
                  c.restored[i].r = c.saved[Len(c.saved) + 1 - i].r
            /\ Mask(c.live + 1) \notin Regs(c.restored)

DistinctFunctions ==
    \A i, j \in 1..Len(tree) :
        tree[i].k = "define" /\ tree[j].k = "define" /\ tree[i].id = tree[j].id => i = j

(* Every call of the finished program lands on the prologue of a function  *)
(* with the name it was compiled for, also a call compiled before the      *)
(* function (its offset is then the one the first pass left).  For programs that *)
(* define each function once.                                              *)
CallsResolved ==
    Ok /\ DistinctFunctions =>
        \A c \in UserCalls :
            /\ Instr(c.at).op = "call"
            /\ Target(c.at) \in With({"push rbp"})
            /\ \E s \in Range(scopes[1]) :
                  s.id = c.id /\ s.type = "func" /\ s.offset = Target(c.at)

Offsets == [i \in 1..Len(scopes[1]) |-> scopes[1][i].offset]

(* The second pass lays the code out exactly as the first one did: it      *)
(* moves no function, so the forward calls it emits, with the first pass's *)
(* offsets, are right.  (For programs that define each function once.)     *)
SecondPassMovesNothing ==
    [][phase = "pass2" /\ DistinctFunctions => Offsets' = Offsets]_vars

(* What compiled once compiles again: compile_tree ignores the result of   *)
(* its second compile_stmt (l. 155).                                       *)
SecondPassNeverFails == outcome # "second"

(* _start calls the initialisers of the globals in the order of their      *)
(* declaration, each of which stores to its own global and returns, and    *)
(* then main.  (For programs that define each function once: past a second *)
(* definition declare_functions declares nothing, and compile_define takes *)
(* a global of the function's name for it, and moves its initialiser.)     *)
StartInitialisesGlobals ==
    Ok /\ DistinctFunctions =>
      LET globals == scopes[2]
          n       == Len(globals)
          Stores  == With({"store global", "storex global"})
          Calls   == With({"call"})
      IN  /\ \A i \in 1..n :
                /\ start + i - 1 \in Calls
                /\ LET first == Target(start + i - 1) IN
                   \E ret \in With({"ret"}) :
                      /\ first <= ret
                      /\ \A a \in first..ret : Instr(a).op # "push rbp"
                      /\ \A a \in first..(ret - 1) : Instr(a).op # "ret"
                      /\ ret - 1 \in Stores
                      /\ \E r \in Range(relas) :
                            r.at = ret - 1 /\ r.addend = globals[i].addend
          /\ start + n \in Calls /\ Target(start + n) = main.offset

(* The jumps whose target the compiler still owes are those of the         *)
(* constructs it is inside of; nothing else in the code is unfinished.     *)
JumpsOwed ==
    Running =>
        {a \in Jumps : Instr(a).x = Unset}
            = {todo[i].at : i \in {j \in 1..Len(todo) : todo[j].k \in {"endwhile", "else", "endif"}}}

(* A loop of the finished program has one way back, to its condition, and  *)
(* one way out, past its last instruction; no other jump enters or leaves  *)
(* it.                                                                     *)
LoopsClosed ==
    Ok => \A back \in {a \in Jumps : Target(a) <= a} :
            LET inside == Target(back)..back
            IN  /\ \E exit \in With({"je"}) : exit \in inside /\ Target(exit) = back + 1
                /\ \A a \in Jumps :
                      /\ a \in inside /\ Target(a) \notin inside =>
                            Instr(a).op = "je" /\ Target(a) = back + 1
                      /\ a \notin inside => Target(a) \notin inside \ {Target(back)}

LocalAccess == {"load local", "store local", "loadx local", "storex local"}

(* The frame that a function's prologue reserves, patched in after its     *)
(* body, holds every local its code touches, and is a multiple of 16: when *)
(* the bytes of the frame fit the instruction's imm32 (l. 1408 casts them; *)
(* of a frame of 2^32 bytes nothing is reserved).                          *)
FrameHoldsLocals ==
    \A f \in frames :
        Align(f.size, 16) < HALF =>
            /\ Instr(f.sub).op = "sub rsp, frame"
            /\ Instr(f.sub).x % 16 = 0
            /\ \A a \in f.sub..f.last :
                  Instr(a).op \in LocalAccess /\ Instr(a).x < 0 => -Instr(a).x <= Instr(f.sub).x

Visible(vis) == {p \in Places : LET s == scopes[p[1]][p[2]] IN
                                s.type = "var" /\ s.vis = vis}
ExtentOf(p) == LET s == scopes[p[1]][p[2]] IN s.addend..(s.addend + s.info - 1)

(* No two visible variables share a byte: parameters lie above the return  *)
(* address, locals inside the frame, globals inside .bss, and no two       *)
(* extents overlap.  Of the locals as long as the frame, and of the        *)
(* globals as long as .bss, is no larger than an addend can reach.         *)
StorageDisjoint ==
    \A vis \in {"local", "global"} :
        (IF vis = "global" THEN bss <= HALF ELSE frame <= HALF) =>
            /\ \A p, q \in Visible(vis) : p # q => ExtentOf(p) \intersect ExtentOf(q) = {}
            /\ \A p \in Visible(vis) : \A b \in ExtentOf(p) :
                  IF vis = "global" THEN b \in 0..(bss - 1)
                                    ELSE b >= 2 * WORD \/ b \in -frame..(-1)

(* find_symbol's first match is the only match: no visible name is         *)
(* declared twice.                                                         *)
NoShadowing == \A p \in Places : Cardinality(Hits(scopes[p[1]][p[2]].id)) = 1

(* The linker gets exactly one relocation per instruction that needs one:  *)
(* data accesses go to .bss, library calls to their symbol.                *)
NeedsBss == {"load global", "store global", "loadx global", "storex global"}
RelocationsMatch ==
    /\ \A i, j \in 1..Len(relas) : relas[i].at = relas[j].at => i = j
    /\ {relas[i].at : i \in 1..Len(relas)} = With(NeedsBss \union {"call scan", "call print"})
    /\ \A i \in 1..Len(relas) :
          IF relas[i].sym = "bss" THEN Instr(relas[i].at).x = relas[i].addend
                                  ELSE Instr(relas[i].at).op = Library[relas[i].sym]

(* "We have to save registers because called function can change their     *)
(* values" (compile_call, l. 1092), for the calls to the library as well.  *)
SavedForLibrary ==
    \A c \in sites : c.kind = "std" => \A d \in 1..c.live : Mask(d) \in Regs(c.saved)

====
