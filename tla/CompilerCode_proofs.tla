---- MODULE CompilerCode_proofs ----
(***************************************************************************)
(* What the code that the code generator emits guarantees for every tree:  *)
(* jumps, loops, frames, the initialisers of the globals and the words on  *)
(* the machine's stack.  The handlers are sorted first by what they do to  *)
(* the code and to the control stack; each invariant is then proved for    *)
(* these kinds of steps.                                                   *)
(***************************************************************************)
EXTENDS LegacyCompiler_proofs

(* The items of the control stack: of a construct whose condition is being *)
(* compiled, of one whose jump is owed, of an expression, and those that   *)
(* do not come off before an instruction is emitted.                       *)
Tests     == {"test while", "test if", "test if else"}
Owed      == {"endwhile", "else", "endif"}
Branches  == Tests \union Owed
Opens     == Branches \union {"enddefine"}
ExprKinds == {"expr", "bin", "load", "not", "args", "push"}
StmtKinds == ExprKinds \union {"stmt", "more", "assign", "store", "drop", "out", "return"}
Sure      == (StmtKinds \ {"more", "drop"}) \union Tests
Items(K)  == {l \in 1..Len(todo) : todo[l].k \in K}

(* Steps on the control stack.                                             *)

(* The head makes room for n items.                                        *)
Shift(n) ==
    /\ todo # <<>> /\ n \in Nat
    /\ Len(todo) \in Nat \ {0} /\ Len(todo') = n + Len(todo) - 1
    /\ \A i \in (n + 1)..Len(todo') : todo'[i] = todo[i - n + 1]

(* A pending access to the frame stays inside it; a pending assignment     *)
(* notes where its code begins.                                            *)
Fine(x) == /\ x.k \in {"load", "store"} /\ x.vis = "local" => -frame' <= x.addend
           /\ x.k = "assign" => x.at = Len(text)
Moves(K) == \E n \in Nat : Shift(n) /\ \A i \in 1..n : todo'[i].k \in K /\ Fine(todo'[i])

LEMMA DoShift ==
    ASSUME CompilerInv, NEW k, At(k), NEW S, NEW block \in Seq(S), Do(block)
    PROVE  Shift(Len(block)) /\ \A i \in 1..Len(block) : todo'[i] = block[i]
  <1>1. todo \in Seq(ItemType) /\ todo # <<>>
    BY DEF At, CompilerInv, TypeOK
  <1>2. /\ Len(todo) \in Nat \ {0} /\ Tail(todo) \in Seq(ItemType) /\ Len(Tail(todo)) = Len(todo) - 1
        /\ \A i \in 1..Len(Tail(todo)) : Tail(todo)[i] = todo[i + 1]
    BY <1>1
  <1> DEFINE rest == Tail(todo)
             n    == Len(block)
  <1>3. /\ n \in Nat /\ Len(rest) \in Nat /\ Len(todo') = n + Len(rest)
        /\ \A i \in 1..Len(todo') : todo'[i] = IF i <= n THEN block[i] ELSE rest[i - n]
    BY <1>2 DEF Do
  <1>4. \A i \in 1..n : todo'[i] = block[i]
    BY <1>2, <1>3
  <1>5. ASSUME NEW i \in (n + 1)..Len(todo')
        PROVE  todo'[i] = todo[i - n + 1]
    <2>1. i \in 1..Len(todo') /\ ~(i <= n) /\ i - n \in 1..Len(rest) /\ (i - n) + 1 = i - n + 1
      BY <1>3
    <2> QED BY <1>2, <1>3, <2>1
  <1> QED BY <1>1, <1>2, <1>3, <1>4, <1>5 DEF Shift

(* Nothing is put on top of the rest.                                      *)
LEMMA PutsNone ==
    ASSUME CompilerInv, NEW k, At(k), Do(<<>>), NEW K
    PROVE  Shift(0) /\ Moves(K)
  <1>1. <<>> \in Seq(ItemType) /\ Len(<<>>) = 0
    BY EmptySeq
  <1>2. Shift(0)
    BY <1>1, DoShift
  <1> QED BY <1>2 DEF Moves

(* Up to three items are.                                                  *)
LEMMA PutsFew ==
    ASSUME CompilerInv, NEW k, At(k), NEW x, NEW y, NEW z, NEW K,
           x.k \in K, y.k \in K, z.k \in K, Fine(x), Fine(y), Fine(z),
           Do(<<x>>) \/ Do(<<x, y>>) \/ Do(<<x, y, z>>)
    PROVE  Moves(K) /\ Len(todo') > 0 /\ todo'[1] = x
  <1> DEFINE S == {x, y, z}
  <1>1. ASSUME NEW b \in Seq(S), Do(b), Len(b) \in {1, 2, 3}, b[1] = x
        PROVE  Moves(K) /\ Len(todo') > 0 /\ todo'[1] = x
    <2>1. Shift(Len(b)) /\ \A i \in 1..Len(b) : todo'[i] = b[i]
      BY <1>1, DoShift
    <2>2. \A i \in 1..Len(b) : b[i] \in S
      BY <1>1
    <2>3. \A i \in 1..Len(b) : todo'[i].k \in K /\ Fine(todo'[i])
      BY <2>1, <2>2
    <2>4. Len(b) \in Nat /\ 1 \in 1..Len(b)
      BY <1>1
    <2>5. Moves(K)
      BY <2>1, <2>3, <2>4 DEF Moves
    <2>6. Len(todo') > 0
      BY <1>1, <2>1, <2>4 DEF Shift
    <2> QED BY <1>1, <2>1, <2>4, <2>5, <2>6
  <1>2. /\ <<x>> \in Seq(S) /\ Len(<<x>>) = 1 /\ <<x>>[1] = x
        /\ <<x, y>> \in Seq(S) /\ Len(<<x, y>>) = 2 /\ <<x, y>>[1] = x
        /\ <<x, y, z>> \in Seq(S) /\ Len(<<x, y, z>>) = 3 /\ <<x, y, z>>[1] = x
    OBVIOUS
  <1> HIDE DEF S
  <1> QED BY <1>1, <1>2

(* A body is put there, and what follows it.                               *)
LEMMA PutsBody ==
    ASSUME CompilerInv, NEW k, At(k), NEW h, NEW d, NEW c, Do(Body(h, d) \o <<c>>)
    PROVE  /\ Shift(3) /\ Len(todo') > 0
           /\ todo'[1].k = "stmt" /\ todo'[2].k = "more" /\ todo'[3] = c
  <1> DEFINE a == It("stmt", h, d)
             b == It("more", h, d)
             S == {a, b, c}
  <1>1. a.k = "stmt" /\ b.k = "more" /\ Body(h, d) = <<a, b>>
    BY DEF Body, It
  <1> HIDE DEF a, b
  <1>2. Body(h, d) \o <<c>> = <<a, b, c>>
    BY <1>1, ShortConcat
  <1>3. /\ <<a, b, c>> \in Seq(S) /\ Len(<<a, b, c>>) = 3
        /\ <<a, b, c>>[1] = a /\ <<a, b, c>>[2] = b /\ <<a, b, c>>[3] = c
    OBVIOUS
  <1> HIDE DEF S
  <1>4. Shift(3) /\ \A i \in 1..3 : todo'[i] = <<a, b, c>>[i]
    BY <1>2, <1>3, DoShift
  <1>5. 1 \in 1..3 /\ 2 \in 1..3 /\ 3 \in 1..3
    OBVIOUS
  <1>6. todo'[1] = a /\ todo'[2] = b /\ todo'[3] = c
    BY <1>3, <1>4, <1>5
  <1>7. Len(todo') > 0
    BY <1>4 DEF Shift
  <1> QED BY <1>1, <1>4, <1>6, <1>7

(* Emitted code.                                                           *)

(* The code of a body neither jumps nor begins a function, and its         *)
(* accesses to locals stay inside a frame of f bytes; that of an           *)
(* expression does not return either.                                      *)
Structure == {"je", "jmp", "sub rsp, frame", "push rbp"}
Tame(f) == {c \in InstrType : /\ c.op \notin Structure
                              /\ c.op \in LocalAccess => -f <= c.x}
Flat(f) == {c \in Tame(f) : c.op # "ret"}
Emits(C) == \E a \in Seq(C) : text' = text \o a

Unsteady == Structure \union LocalAccess \union {"ret"}
LEMMA FlatOps ==
    /\ "push" \in Opcodes \ Unsteady /\ "pop" \in Opcodes \ Unsteady
    /\ "call" \in Opcodes \ Unsteady
    /\ "call scan" \in Opcodes \ Unsteady /\ "call print" \in Opcodes \ Unsteady
    /\ "syscall" \in Opcodes \ Unsteady /\ "test" \in Opcodes \ Unsteady
    /\ "sub rsp" \in Opcodes \ Unsteady /\ "add rsp" \in Opcodes \ Unsteady
    /\ "pop rbp" \in Opcodes \ Unsteady /\ "mov rbp, rsp" \in Opcodes \ Unsteady
    /\ "mov rsp, rbp" \in Opcodes \ Unsteady /\ "mov imm" \in Opcodes \ Unsteady
    /\ "mov r, rax" \in Opcodes \ Unsteady /\ "mov rax, r" \in Opcodes \ Unsteady
    /\ "mov rdi, rax" \in Opcodes \ Unsteady /\ "mov rax, 1" \in Opcodes \ Unsteady
    /\ "mov rax, 0x3c" \in Opcodes \ Unsteady /\ "cqo" \in Opcodes \ Unsteady
    /\ "idiv" \in Opcodes \ Unsteady /\ "cmov" \in Opcodes \ Unsteady
    /\ "cmp" \in Opcodes \ Unsteady /\ "xor 1" \in Opcodes \ Unsteady
    /\ Compiled \ {"div"} \subseteq Opcodes \ Unsteady
  <1>1. /\ "add" \notin Unsteady /\ "sub" \notin Unsteady /\ "mul" \notin Unsteady
        /\ "and" \notin Unsteady /\ "or" \notin Unsteady /\ "cmp" \notin Unsteady
    BY DEF Unsteady, Structure, LocalAccess
  <1>2. Compiled \ {"div"} \subseteq Opcodes \ Unsteady
    BY <1>1, OpcodesAre DEF Compiled
  <1> QED BY <1>2, OpcodesAre DEF Unsteady, Structure, LocalAccess

LEMMA FlatIs ==
    ASSUME NEW op \in Opcodes \ Unsteady, NEW r \in Register, NEW s \in Register, NEW x \in Int,
           NEW f
    PROVE  I(op, r, s, x) \in Flat(f)
  <1>1. I(op, r, s, x) \in InstrType /\ I(op, r, s, x).op = op
    BY InstrIs DEF I
  <1> QED BY <1>1 DEF Flat, Tame, Unsteady

LEMMA FlatOp ==
    ASSUME NEW op \in Opcodes \ Unsteady, NEW f
    PROVE  Op(op) \in Flat(f)
  BY Zero, FlatIs DEF Op

(* An access to a variable.                                                *)
LEMMA FlatAccess ==
    ASSUME NEW vis \in {"local", "global"}, NEW r \in Register, NEW s \in Register, NEW x \in Int,
           NEW f, vis = "local" => -f <= x
    PROVE  /\ I(Load[vis], r, s, x) \in Flat(f) /\ I(Loadx[vis], r, s, x) \in Flat(f)
           /\ I(Store[vis], r, s, x) \in Flat(f) /\ I(Storex[vis], r, s, x) \in Flat(f)
  <1>1. ASSUME NEW op \in Opcodes, op \notin Structure \union {"ret"},
               op \in LocalAccess => vis = "local"
        PROVE  I(op, r, s, x) \in Flat(f)
    <2>1. I(op, r, s, x) \in InstrType /\ I(op, r, s, x).op = op /\ I(op, r, s, x).x = x
      BY InstrIs DEF I
    <2> QED BY <1>1, <2>1 DEF Flat, Tame
  <1>2. ASSUME NEW op \in {Load[vis], Loadx[vis], Store[vis], Storex[vis]}
        PROVE  op \in Opcodes /\ op \notin Structure \union {"ret"} /\ (op \in LocalAccess => vis = "local")
    <2>1. CASE vis = "local"
      <3>1. /\ Load[vis] = "load local" /\ Loadx[vis] = "loadx local"
            /\ Store[vis] = "store local" /\ Storex[vis] = "storex local"
        BY <2>1 DEF Load, Loadx, Store, Storex
      <3> QED BY <1>2, <2>1, <3>1, OpcodesAre DEF Structure
    <2>2. CASE vis = "global"
      <3>1. /\ Load[vis] = "load global" /\ Loadx[vis] = "loadx global"
            /\ Store[vis] = "store global" /\ Storex[vis] = "storex global"
        BY <2>2 DEF Load, Loadx, Store, Storex
      <3> QED BY <1>2, <2>2, <3>1, OpcodesAre DEF Structure, LocalAccess
    <2> QED BY <2>1, <2>2
  <1>3. ASSUME NEW op \in {Load[vis], Loadx[vis], Store[vis], Storex[vis]}
        PROVE  I(op, r, s, x) \in Flat(f)
    BY <1>1, <1>2, Zenon
  <1> QED BY <1>3

LEMMA FlatTame ==
    ASSUME NEW f, NEW a \in Seq(Flat(f))
    PROVE  a \in Seq(Tame(f)) /\ a \in Seq(InstrType)
  BY DEF Flat, Tame

(* The code around calls and after operators.                              *)
LEMMA AroundFlat ==
    ASSUME NEW n \in Nat, NEW m \in Register, NEW live \in Int, NEW pushed \in Nat, NEW f
    PROVE  /\ PadCode(n) \in Seq(Flat(f))
           /\ SaveCode(m) \in Seq(Flat(f)) /\ RestoreCode(m) \in Seq(Flat(f))
           /\ compile_call_end(live, pushed) \in Seq(Flat(f))
  <1>1. m \in Nat /\ \A i \in 1..m : i \in Register /\ m + 1 - i \in Register
    BY RegistersAssumption DEF Register
  <1>2. \A i \in 1..m : I("push", i, 0, 0) \in Flat(f) /\ I("pop", m + 1 - i, 0, 0) \in Flat(f)
    <2>1. "push" \in Opcodes \ Unsteady /\ "pop" \in Opcodes \ Unsteady
      BY FlatOps
    <2> QED BY <1>1, <2>1, Zero, FlatIs, Zenon
  <1>3. SaveCode(m) \in Seq(Flat(f)) /\ RestoreCode(m) \in Seq(Flat(f))
    BY <1>1, <1>2 DEF SaveCode, RestoreCode
  <1>4. I("sub rsp", 0, 0, WORD) \in Flat(f)
    <2>1. "sub rsp" \in Opcodes \ Unsteady
      BY FlatOps
    <2> QED BY <2>1, Zero, FlatIs, Zenon
  <1>5. << I("sub rsp", 0, 0, WORD) >> \in Seq(Flat(f)) /\ <<>> \in Seq(Flat(f))
    BY <1>4, ShortSeqs, EmptySeq
  <1>6. PadCode(n) \in Seq(Flat(f))
    BY <1>5, Zenon DEF PadCode
  <1>7. Mask(live + 1) \in Register /\ WORD * pushed \in Int
    BY MaskType DEF WORD
  <1>8. /\ I("mov r, rax", Mask(live + 1), 0, 0) \in Flat(f)
        /\ I("add rsp", 0, 0, WORD * pushed) \in Flat(f)
    <2>1. "mov r, rax" \in Opcodes \ Unsteady /\ "add rsp" \in Opcodes \ Unsteady
      BY FlatOps
    <2> QED BY <1>7, <2>1, Zero, FlatIs, Zenon
  <1>9. compile_call_end(live, pushed) \in Seq(Flat(f))
    BY <1>8, ShortSeqs DEF compile_call_end
  <1> QED BY <1>3, <1>6, <1>9

(* Sequences of one and of four elements are not empty.                    *)
LEMMA ShortLens ==
    ASSUME NEW a, NEW b, NEW c, NEW d
    PROVE  Len(<<a>>) > 0 /\ Len(<<a, b, c, d>>) > 0
  OBVIOUS

(* The code of an operator.                                                *)
LEMMA BinFlat ==
    ASSUME NEW op \in Compiled, reg \in Int, reg - 1 \in Int, NEW f
    PROVE  BinCode(op) \in Seq(Flat(f)) /\ Len(BinCode(op)) > 0
  <1>1. Mask(reg) \in Register /\ Mask(reg - 1) \in Register
    BY MaskType
  <1>2. CASE op = "div"
    <2>1. /\ "mov rax, r" \in Opcodes \ Unsteady /\ "cqo" \in Opcodes \ Unsteady
          /\ "idiv" \in Opcodes \ Unsteady /\ "mov r, rax" \in Opcodes \ Unsteady
      BY FlatOps
    <2>2. /\ I("mov rax, r", 0, Mask(reg - 1), 0) \in Flat(f) /\ Op("cqo") \in Flat(f)
          /\ I("idiv", 0, Mask(reg), 0) \in Flat(f)
          /\ I("mov r, rax", Mask(reg - 1), 0, 0) \in Flat(f)
      BY <1>1, <2>1, Zero, FlatIs, FlatOp, Zenon
    <2>3. BinCode(op) = << I("mov rax, r", 0, Mask(reg - 1), 0), Op("cqo"),
                           I("idiv", 0, Mask(reg), 0), I("mov r, rax", Mask(reg - 1), 0, 0) >>
      BY <1>2 DEF BinCode
    <2> QED BY <2>2, <2>3, ShortSeqs, ShortLens
  <1>3. CASE op = "cmp"
    <2>1. /\ "cmp" \in Opcodes \ Unsteady /\ "mov rax, 1" \in Opcodes \ Unsteady
          /\ "mov imm" \in Opcodes \ Unsteady /\ "cmov" \in Opcodes \ Unsteady
      BY FlatOps
    <2>2. /\ I("cmp", Mask(reg - 1), Mask(reg), 0) \in Flat(f) /\ Op("mov rax, 1") \in Flat(f)
          /\ I("mov imm", Mask(reg - 1), 0, 0) \in Flat(f)
          /\ I("cmov", Mask(reg - 1), 0, 0) \in Flat(f)
      BY <1>1, <2>1, Zero, FlatIs, FlatOp, Zenon
    <2>3. BinCode(op) = << I("cmp", Mask(reg - 1), Mask(reg), 0), Op("mov rax, 1"),
                           I("mov imm", Mask(reg - 1), 0, 0), I("cmov", Mask(reg - 1), 0, 0) >>
      BY <1>3 DEF BinCode
    <2> QED BY <2>2, <2>3, ShortSeqs, ShortLens
  <1>4. CASE op \notin {"div", "cmp"}
    <2>1. op \in Opcodes \ Unsteady
      BY <1>4, FlatOps
    <2>2. I(op, Mask(reg - 1), Mask(reg), 0) \in Flat(f)
      BY <1>1, <2>1, Zero, FlatIs
    <2>3. BinCode(op) = << I(op, Mask(reg - 1), Mask(reg), 0) >>
      BY <1>4 DEF BinCode
    <2> QED BY <2>2, <2>3, ShortSeqs, ShortLens
  <1> QED BY <1>2, <1>3, <1>4

LEMMA RetOp ==
    ASSUME NEW f
    PROVE  Op("ret") \in Tame(f)
  <1>1. Op("ret") \in InstrType /\ Op("ret").op = "ret"
    BY OpcodesAre, OpIs DEF Op, I
  <1> QED BY <1>1 DEF Tame, Structure, LocalAccess
LEMMA RetTame ==
    ASSUME NEW vis, NEW f
    PROVE  RetCode(vis) \in Seq(Tame(f))
  <1>1. Op("ret") \in Tame(f)
    BY RetOp
  <1>2. << Op("ret") >> \in Seq(Tame(f)) /\ <<>> \in Seq(Tame(f))
    BY <1>1, ShortSeqs, EmptySeq
  <1> QED BY <1>2, Zenon DEF RetCode

(* The handlers that neither open nor close a construct.                   *)

(* The control stack does not shrink to the end of a construct without an  *)
(* instruction having been emitted.                                        *)
Busy == \/ Len(text') > Len(text)
        \/ Len(todo') > 0 /\ todo'[1].k \in Sure
        \/ todo[1].k \notin Sure
Calm(C, K) == Running /\ todo # <<>> /\ Emits(C) /\ Moves(K) /\ Busy

(* The relocations that were there stay.                                   *)
RelasKept == \A i \in 1..Len(relas) : i \in 1..Len(relas') /\ relas'[i] = relas[i]

LEMMA HeadFirst ==
    ASSUME CompilerInv, NEW k, At(k)
    PROVE  /\ todo # <<>> /\ Len(todo) \in Nat \ {0} /\ Head(todo) = todo[1]
           /\ todo[1].k = k /\ todo[1] \in ItemType
  <1>1. todo \in Seq(ItemType) /\ todo # <<>> /\ Head(todo).k = k
    BY DEF At, CompilerInv, TypeOK
  <1>2. Head(todo) = todo[1] /\ Len(todo) \in Nat \ {0}
    BY <1>1, EmptySeq
  <1> QED BY <1>1, <1>2

LEMMA EmitsNone ==
    ASSUME CompilerInv, text' = text, NEW C
    PROVE  Emits(C)
  <1>1. <<>> \in Seq(C) /\ text \o <<>> = text
    BY EmptySeq DEF CompilerInv, TypeOK
  <1> QED BY <1>1 DEF Emits

(* An item is done by emitting code,                                       *)
LEMMA CalmEmit ==
    ASSUME CompilerInv, NEW k, At(k), Do(<<>>), NEW C, NEW K,
           NEW a \in Seq(C), Len(a) > 0, text' = text \o a
    PROVE  Calm(C, K)
  <1>1. Moves(K) /\ todo # <<>> /\ Running
    BY PutsNone, HeadFirst DEF At
  <1>2. Len(text') > Len(text)
    BY DEF CompilerInv, TypeOK
  <1> QED BY <1>1, <1>2 DEF Calm, Emits, Busy

(* or it is one of those that can be done without.                         *)
LEMMA CalmIdle ==
    ASSUME CompilerInv, NEW k, At(k), k \notin Sure, Do(<<>>), NEW C, NEW K, text' = text
    PROVE  Calm(C, K)
  <1>1. Moves(K) /\ todo # <<>> /\ Running /\ todo[1].k \notin Sure
    BY PutsNone, HeadFirst DEF At
  <1> QED BY <1>1, EmitsNone DEF Calm, Busy

(* An item is replaced by others.                                          *)
LEMMA CalmPut ==
    ASSUME CompilerInv, NEW k, At(k), NEW x, NEW y, NEW z, NEW C, NEW K,
           x.k \in K \intersect Sure, y.k \in K, z.k \in K, Fine(x), Fine(y), Fine(z),
           Do(<<x>>) \/ Do(<<x, y>>) \/ Do(<<x, y, z>>), Emits(C)
    PROVE  Calm(C, K)
  <1>1. Moves(K) /\ Len(todo') > 0 /\ todo'[1] = x
    BY PutsFew
  <1>2. todo # <<>> /\ Running
    BY HeadFirst DEF At
  <1> QED BY <1>1, <1>2 DEF Calm, Busy

(* So is one by the operands that are there and their operator.            *)
LEMMA CalmOperands ==
    ASSUME CompilerInv, NEW k, At(k), NEW x, NEW y, NEW z, NEW C, NEW K,
           x.k \in K \intersect Sure, y.k \in K \intersect Sure, z.k \in K \intersect Sure,
           Fine(x), Fine(y), Fine(z), Emits(C),
           Do(<<x, y, z>>) \/ Do(<<y, z>>) \/ Do(<<z>>)
    PROVE  Calm(C, K)
  <1>1. CASE Do(<<x, y, z>>)
    BY <1>1, CalmPut
  <1>2. CASE Do(<<y, z>>)
    BY <1>2, CalmPut
  <1>3. CASE Do(<<z>>)
    BY <1>3, CalmPut
  <1> QED BY <1>1, <1>2, <1>3

(* Relocations are added.                                                  *)
LEMMA MoreRelas ==
    ASSUME CompilerInv,
           \/ relas' = relas
           \/ \E more \in Seq(RelaType) : relas' = relas \o more
           \/ \E r : relas' = Append(relas, r)
    PROVE  RelasKept
  <1>1. relas \in Seq(RelaType)
    BY DEF CompilerInv, TypeOK
  <1> QED BY <1>1 DEF RelasKept

(* Items of expressions and bodies access no memory and assign nothing.    *)
LEMMA FineItems ==
    /\ \A h, d : Fine(Expr(h, d)) /\ Expr(h, d).k = "expr"
    /\ \A h, d, op : Fine(Bin(h, d, op)) /\ Bin(h, d, op).k = "bin"
    /\ \A h, d, id, left, given, pushed, saved :
          /\ Fine(Args(h, d, id, left, given, pushed, saved))
          /\ Args(h, d, id, left, given, pushed, saved).k = "args"
    /\ \A k, h, d : /\ It(k, h, d).k = k
                    /\ k \notin {"load", "store", "assign"} => Fine(It(k, h, d))
  BY DEF Fine, Expr, Bin, Args, It

(* A pending access stays inside the frame.                                *)
AddendsOK == \A l \in 1..Len(todo) :
                todo[l].k \in {"load", "store"} /\ todo[l].vis = "local" => -frame <= todo[l].addend

(* A variable of a function lies inside its frame, or above it.            *)
LEMMA LocalSymbol ==
    ASSUME CompilerInv, ScopesInv, NEW id, Found(id), find_symbol(id).vis = "local"
    PROVE  -frame <= find_symbol(id).addend
  <1> DEFINE x == find_symbol(id)
             i == Place(id)[1]
  <1>1. frame \in Nat /\ x \in Symbol /\ i \in Nat /\ Laid(x, i, bss, frame)
    <2>1. scopes \in Seq(Seq(Symbol)) /\ frame \in Nat
      BY DEF CompilerInv, TypeOK
    <2>2. /\ Place(id)[1] \in 1..Len(scopes) /\ Place(id)[2] \in 1..Len(scopes[Place(id)[1]])
      BY <2>1, PlaceFound
    <2> QED BY <2>1, <2>2, SymbolFound DEF ScopesInv, ScopesOK, find_symbol
  <1> HIDE DEF x, i
  <1>2. x.type \in {"func", "var"} /\ x.addend \in Int /\ x.info \in Nat /\ x.vis = "local"
    BY <1>1 DEF Symbol, x
  <1>3. x.type = "var"
    BY <1>1, <1>2 DEF Laid
  <1>4. -frame <= x.addend
    BY <1>1, <1>2, <1>3 DEF Laid
  <1> QED BY <1>1, <1>2, <1>4 DEF x

(* What the handlers of expressions do: compile_load_num, ...              *)
ExprHandled ==
    /\ Calm(Flat(frame), ExprKinds) /\ Head(todo).k \in ExprKinds /\ RelasKept
    /\ UNCHANGED <<tree, phase, outcome, scopes, frame, frames>>

LEMMA KeptByExprs ==
    ASSUME Keep \/ UNCHANGED <<control, storage, start, frames>>
    PROVE  UNCHANGED <<tree, phase, outcome, scopes, bss, frame, frames>>
  BY DEF Keep, control, storage, aux

LEMMA OperandsHandled ==
    ASSUME CompilerInv, ScopesInv, AddendsOK,
           compile_load_num \/ LoadVariable \/ LoadElement
    PROVE  ExprHandled
  <1> USE DEF ExprHandled
  <1>1. CASE compile_load_num
    <2>1. PICK n \in Exprs : /\ ReadExpr(n) /\ Emit(<< I("mov imm", Mask(reg + 1), 0, n.n) >>)
                             /\ Do(<<>>) /\ Keep /\ UNCHANGED relas
      BY <1>1 DEF compile_load_num
    <2>2. At("expr") /\ "expr" \in ExprKinds /\ reg \in Int
      BY <2>1, HeadIs DEF ReadExpr, ExprKinds
    <2> DEFINE a == << I("mov imm", Mask(reg + 1), 0, n.n) >>
    <2>3. a \in Seq(Flat(frame)) /\ Len(a) > 0
      <3>1. Mask(reg + 1) \in Register /\ n.n \in Int
        BY <2>2, MaskType, NodesAssumption DEF Node
      <3>2. "mov imm" \in Opcodes \ Unsteady
        BY FlatOps
      <3>3. I("mov imm", Mask(reg + 1), 0, n.n) \in Flat(frame)
        BY <3>1, <3>2, Zero, FlatIs, Zenon
      <3> QED BY <3>3, ShortSeqs, ShortLens
    <2>4. text' = text \o a
      BY <2>1 DEF Emit
    <2> HIDE DEF a
    <2>5. Calm(Flat(frame), ExprKinds)
      BY <2>1, <2>2, <2>3, <2>4, CalmEmit
    <2>6. RelasKept
      BY <2>1, MoreRelas
    <2> QED BY <2>1, <2>2, <2>5, <2>6, HeadFacts, KeptByExprs
  <1>2. CASE LoadVariable
    <2>1. PICK n \in Exprs :
          /\ ReadExpr(n) /\ Found(n.id)
          /\ LET s == find_symbol(n.id) IN
             \/ /\ relas' = relas \o RelaOf(s.vis, rip, s.addend)
                /\ Emit(<< I(Load[s.vis], Mask(reg + 1), 0, s.addend) >>)
                /\ Do(<<>>)
             \/ /\ Do(<< Expr(level, depth), Access("load", level + 1, depth, s) >>)
                /\ UNCHANGED <<reg, code, sp>>
          /\ Keep
      BY <1>2 DEF LoadVariable
    <2> DEFINE s == find_symbol(n.id)
    <2>2. At("expr") /\ "expr" \in ExprKinds /\ "load" \in ExprKinds /\ reg \in Int
      BY <2>1, HeadIs DEF ReadExpr, ExprKinds
    <2>3. s.vis \in {"local", "global"} /\ s.addend \in Int
      <3>1. s \in Symbol
        BY <2>1, SymbolFound DEF CompilerInv, TypeOK
      <3> HIDE DEF s
      <3> QED BY <3>1 DEF Symbol
    <2>4. s.vis = "local" => -frame <= s.addend
      BY <2>1, LocalSymbol
    <2> HIDE DEF s
    <2>5. UNCHANGED <<tree, phase, outcome, scopes, bss, frame, frames>>
      BY <2>1, KeptByExprs
    <2>6. CASE /\ relas' = relas \o RelaOf(s.vis, rip, s.addend)
               /\ Emit(<< I(Load[s.vis], Mask(reg + 1), 0, s.addend) >>)
               /\ Do(<<>>)
      <3> DEFINE a == << I(Load[s.vis], Mask(reg + 1), 0, s.addend) >>
      <3>1. a \in Seq(Flat(frame)) /\ Len(a) > 0
        <4>1. Mask(reg + 1) \in Register
          BY <2>2, MaskType
        <4>2. I(Load[s.vis], Mask(reg + 1), 0, s.addend) \in Flat(frame)
          BY <2>3, <2>4, <4>1, Zero, FlatAccess
        <4> QED BY <4>2, ShortSeqs, ShortLens
      <3>2. text' = text \o a
        BY <2>6 DEF Emit
      <3> HIDE DEF a
      <3>3. Calm(Flat(frame), ExprKinds)
        BY <2>2, <2>6, <3>1, <3>2, CalmEmit
      <3>4. RelasKept
        BY <2>3, <2>6, AddressIs, RelaIs, MoreRelas
      <3> QED BY <2>2, <2>5, <3>3, <3>4, HeadFacts
    <2>7. CASE /\ Do(<< Expr(level, depth), Access("load", level + 1, depth, s) >>)
               /\ UNCHANGED <<reg, code, sp>>
      <3> DEFINE x == Expr(level, depth)
                 y == Access("load", level + 1, depth, s)
      <3>1. x.k = "expr" /\ Fine(x)
        BY FineItems
      <3>2. y.k = "load" /\ Fine(y)
        BY <2>4, <2>5 DEF Access, Fine
      <3>3. text' = text /\ relas' = relas
        BY <2>7 DEF code
      <3>4. Do(<<x, y>>)
        BY <2>7
      <3> HIDE DEF x, y
      <3>5. x.k \in ExprKinds \intersect Sure /\ y.k \in ExprKinds
        BY <3>1, <3>2 DEF ExprKinds, StmtKinds, Sure
      <3>6. Calm(Flat(frame), ExprKinds)
        BY <2>2, <3>1, <3>2, <3>3, <3>4, <3>5, EmitsNone, CalmPut
      <3>7. RelasKept
        BY <3>3, MoreRelas
      <3> QED BY <2>2, <2>5, <3>6, <3>7, HeadFacts
    <2> QED BY <2>1, <2>6, <2>7 DEF s
  <1>3. CASE LoadElement
    <2> DEFINE it == Head(todo)
               a  == << I(Loadx[it.vis], Mask(reg), Mask(reg), it.addend) >>
    <2>1. /\ At("load") /\ Do(<<>>) /\ Keep
          /\ relas' = relas \o RelaOf(it.vis, rip, it.addend)
          /\ text' = text \o a
      BY <1>3 DEF LoadElement, Emit
    <2>2. it \in ItemType /\ it.k = "load" /\ reg \in Int /\ "load" \in ExprKinds
      BY <2>1, HeadFacts DEF ExprKinds
    <2>3. it.vis = "local" => -frame <= it.addend
      <3>1. it = todo[1] /\ 1 \in 1..Len(todo)
        BY <2>1, HeadFirst
      <3> QED BY <2>2, <3>1 DEF AddendsOK
    <2> HIDE DEF it
    <2>4. it.vis \in {"local", "global"} /\ it.addend \in Int
      BY <2>2 DEF ItemType
    <2>5. a \in Seq(Flat(frame)) /\ Len(a) > 0
      <3>1. Mask(reg) \in Register
        BY <2>2, MaskType
      <3>2. I(Loadx[it.vis], Mask(reg), Mask(reg), it.addend) \in Flat(frame)
        BY <2>3, <2>4, <3>1, FlatAccess
      <3> QED BY <3>2, ShortSeqs, ShortLens
    <2> HIDE DEF a
    <2>6. Calm(Flat(frame), ExprKinds)
      BY <2>1, <2>5, CalmEmit
    <2>7. RelasKept
      BY <2>1, <2>4, AddressIs, RelaIs, MoreRelas
    <2> QED BY <2>1, <2>2, <2>6, <2>7, KeptByExprs DEF it
  <1> QED BY <1>1, <1>2, <1>3

LEMMA OperatorsHandled ==
    ASSUME CompilerInv, BinaryExpr \/ compile_expr_bin \/ NotExpr \/ compile_expr_not
    PROVE  ExprHandled
  <1> USE DEF ExprHandled
  <1>0. /\ "expr" \in ExprKinds /\ "bin" \in ExprKinds /\ "not" \in ExprKinds
        /\ "expr" \in Sure /\ "bin" \in Sure /\ "not" \in Sure
    BY DEF ExprKinds, StmtKinds, Sure
  <1>1. CASE BinaryExpr
    <2>1. PICK n \in Exprs :
            LET x == Expr(level, depth)
                y == Expr(level + 1, depth)
                z == Bin(level + 2, depth, n.id)
            IN  /\ At("expr") /\ Keep /\ text' = text /\ relas' = relas
                /\ Do(<<x, y, z>>) \/ Do(<<y, z>>) \/ Do(<<z>>)
      BY <1>1, BinaryDo DEF ReadExpr, code
    <2> DEFINE x == Expr(level, depth)
               y == Expr(level + 1, depth)
               z == Bin(level + 2, depth, n.id)
    <2>2. /\ x.k = "expr" /\ y.k = "expr" /\ z.k = "bin" /\ Fine(x) /\ Fine(y) /\ Fine(z)
          /\ Do(<<x, y, z>>) \/ Do(<<y, z>>) \/ Do(<<z>>)
      BY <2>1, FineItems
    <2> HIDE DEF x, y, z
    <2>3. Emits(Flat(frame))
      BY <2>1, EmitsNone
    <2>4. /\ x.k \in ExprKinds \intersect Sure /\ y.k \in ExprKinds \intersect Sure
          /\ z.k \in ExprKinds \intersect Sure
      BY <1>0, <2>2
    <2>5. Calm(Flat(frame), ExprKinds)
      BY <2>1, <2>2, <2>3, <2>4, CalmOperands
    <2> QED BY <1>0, <2>1, <2>5, HeadFacts, MoreRelas, KeptByExprs
  <1>2. CASE compile_expr_bin
    <2> DEFINE a == BinCode(Head(todo).op)
    <2>1. /\ At("bin") /\ Head(todo).op \in Compiled /\ Do(<<>>) /\ Keep
          /\ text' = text \o a /\ relas' = relas
      BY <1>2 DEF compile_expr_bin, Emit
    <2>2. reg \in Int /\ reg - 1 \in Int
      <3>1. NetRegs("bin") = -1
        BY NetTable
      <3>2. reg \in Int
        BY <2>1, HeadFacts
      <3> QED BY <3>1, <3>2
    <2>3. a \in Seq(Flat(frame)) /\ Len(a) > 0
      BY <2>1, <2>2, BinFlat
    <2> HIDE DEF a
    <2>4. Calm(Flat(frame), ExprKinds)
      BY <2>1, <2>3, CalmEmit
    <2> QED BY <1>0, <2>1, <2>4, HeadFacts, MoreRelas, KeptByExprs
  <1>3. CASE NotExpr
    <2> DEFINE x == Expr(level, depth)
               y == It("not", level + 1, depth)
    <2>1. /\ At("expr") /\ Keep /\ text' = text /\ relas' = relas
          /\ Do(<<x, y>>) \/ Do(<<y>>)
      BY <1>3, NotDo DEF ReadExpr, code
    <2>2. x.k = "expr" /\ y.k = "not" /\ Fine(x) /\ Fine(y)
      BY FineItems
    <2> HIDE DEF x, y
    <2>3. Emits(Flat(frame))
      BY <2>1, EmitsNone
    <2>4. x.k \in ExprKinds \intersect Sure /\ y.k \in ExprKinds \intersect Sure
      BY <1>0, <2>2
    <2>5. Calm(Flat(frame), ExprKinds)
      <3>1. CASE Do(<<x, y>>)
        BY <2>1, <2>2, <2>3, <2>4, <3>1, CalmPut
      <3>2. CASE Do(<<y>>)
        BY <2>1, <2>2, <2>3, <2>4, <3>2, CalmPut
      <3> QED BY <2>1, <3>1, <3>2
    <2> QED BY <1>0, <2>1, <2>5, HeadFacts, MoreRelas, KeptByExprs
  <1>4. CASE compile_expr_not
    <2> DEFINE a == << I("xor 1", Mask(reg), 0, 1) >>
    <2>1. At("not") /\ Do(<<>>) /\ Keep /\ text' = text \o a /\ relas' = relas
      BY <1>4 DEF compile_expr_not, Emit
    <2>2. a \in Seq(Flat(frame)) /\ Len(a) > 0
      <3>1. Mask(reg) \in Register
        BY <2>1, HeadIs, MaskType
      <3>2. "xor 1" \in Opcodes \ Unsteady
        BY FlatOps
      <3>3. I("xor 1", Mask(reg), 0, 1) \in Flat(frame)
        BY <3>1, <3>2, Zero, FlatIs, Zenon
      <3> QED BY <3>3, ShortSeqs, ShortLens
    <2> HIDE DEF a
    <2>3. Calm(Flat(frame), ExprKinds)
      BY <2>1, <2>2, CalmEmit
    <2> QED BY <1>0, <2>1, <2>3, HeadFacts, MoreRelas, KeptByExprs
  <1> QED BY <1>1, <1>2, <1>3, <1>4

(* The code before a call.                                                 *)
LEMMA CallBegun ==
    ASSUME CompilerInv, NEW n, IsFunction(n.id), NEW k \in {"expr", "stmt"}, At(k),
           NEW after, CallBegin(n, after), NEW f,
           NEW K, "args" \in K, after = <<>> \/ \E y : after = <<y>> /\ y.k \in K /\ Fine(y)
    PROVE  Calm(Flat(f), K) /\ RelasKept
  <1> DEFINE info  == find_symbol(n.id).info
             saved == Mask(reg)
             call  == Args(level, depth, n.id, info, n.n, compile_call_begin(info), saved)
             a     == SaveCode(saved) \o PadCode(info)
  <1>1. text' = text \o a /\ Do(<<call>> \o after) /\ relas' = relas
    BY DEF CallBegin, Emit
  <1>2. info \in Nat /\ saved \in Register
    <2>1. find_symbol(n.id) \in Symbol
      BY SymbolFound DEF IsFunction, CompilerInv, TypeOK
    <2>2. reg \in Int
      BY HeadIs
    <2> QED BY <2>1, <2>2, MaskType DEF Symbol
  <1>3. call.k = "args" /\ Fine(call) /\ "args" \in Sure
    BY FineItems DEF Sure, StmtKinds, ExprKinds
  <1> HIDE DEF info, call
  <1>4. a \in Seq(Flat(f))
    <2>1. SaveCode(saved) \in Seq(Flat(f)) /\ PadCode(info) \in Seq(Flat(f))
      BY <1>2, AroundFlat
    <2> QED BY <2>1, ConcatProperties
  <1> HIDE DEF a, saved
  <1>5. Emits(Flat(f))
    BY <1>1, <1>4 DEF Emits
  <1>6. PICK y : y.k \in K /\ Fine(y) /\ (Do(<<call>>) \/ Do(<<call, y>>))
    <2>1. CASE after = <<>>
      <3>1. <<call>> \o <<>> = <<call>>
        OBVIOUS
      <3> QED BY <1>1, <1>3, <2>1, <3>1
    <2>2. ASSUME NEW y, after = <<y>>, y.k \in K, Fine(y)
          PROVE  Do(<<call, y>>)
      <3>1. <<call>> \o <<y>> = <<call, y>>
        BY ShortConcat
      <3> QED BY <1>1, <2>2, <3>1
    <2> QED BY <2>1, <2>2
  <1>7. Calm(Flat(f), K)
    BY <1>3, <1>5, <1>6, CalmPut
  <1> QED BY <1>1, <1>7, MoreRelas

(* The code of a call of the library.                                      *)
LEMMA StdcallDone ==
    ASSUME CompilerInv, NEW sym \in {"scan", "print"}, NEW args \in {0, 1}, reg - args \in Int, reg \in Int,
           compile_stdcall(sym, args), NEW k, At(k), Do(<<>>), NEW f, NEW K
    PROVE  Calm(Flat(f), K) /\ RelasKept
  <1> DEFINE pushes == [i \in 1..args |-> I("push", Mask(reg - i + 1), 0, 0)]
             before == PadCode(args) \o pushes
             call   == I(Library[sym], 0, 0, 0)
             end    == compile_call_end(reg - args, compile_call_begin(args))
             at     == rip + Len(before)
             a      == before \o <<call>> \o end
  <1>1. text' = text \o a /\ relas' = Append(relas, Rela(at, sym, 0))
    BY DEF compile_stdcall, Emit
  <1>2. pushes \in Seq(Flat(f))
    <2>1. \A i \in 1..args : Mask(reg - i + 1) \in Register
      BY MaskType
    <2>2. "push" \in Opcodes \ Unsteady
      BY FlatOps
    <2>3. \A i \in 1..args : I("push", Mask(reg - i + 1), 0, 0) \in Flat(f)
      BY <2>1, <2>2, Zero, FlatIs, Zenon
    <2>4. args \in Nat
      OBVIOUS
    <2> QED BY <2>3, <2>4
  <1> HIDE DEF pushes
  <1>3. before \in Seq(Flat(f)) /\ compile_call_begin(args) \in Nat
    <2>1. PadCode(args) \in Seq(Flat(f)) /\ args \in Nat
      BY AroundFlat, Zero
    <2> QED BY <1>2, <2>1, PadIs, ConcatProperties
  <1>4. call \in Flat(f)
    <2>1. CASE sym = "scan"
      <3>1. Library[sym] = "call scan" /\ "call scan" \in Opcodes \ Unsteady
        BY <2>1, FlatOps DEF Library
      <3> QED BY <3>1, Zero, FlatIs, Zenon
    <2>2. CASE sym = "print"
      <3>1. Library[sym] = "call print" /\ "call print" \in Opcodes \ Unsteady
        BY <2>2, FlatOps DEF Library
      <3> QED BY <3>1, Zero, FlatIs, Zenon
    <2> QED BY <2>1, <2>2
  <1>5. end \in Seq(Flat(f))
    BY <1>3, Zero, AroundFlat
  <1> HIDE DEF before, call, end
  <1>6. a \in Seq(Flat(f)) /\ Len(a) > 0
    <2>1. <<call>> \in Seq(Flat(f)) /\ Len(<<call>>) = 1
      BY <1>4
    <2>2. /\ before \o <<call>> \in Seq(Flat(f))
          /\ Len(before \o <<call>>) = Len(before) + 1
      BY <1>3, <2>1, ConcatProperties
    <2>3. a \in Seq(Flat(f)) /\ Len(a) = Len(before) + 1 + Len(end)
      BY <1>5, <2>2, ConcatProperties
    <2>4. Len(before) \in Nat /\ Len(end) \in Nat
      BY <1>3, <1>5, LenProperties
    <2> HIDE DEF a
    <2> QED BY <2>3, <2>4
  <1> HIDE DEF a, at
  <1>7. Calm(Flat(f), K)
    BY <1>1, <1>6, CalmEmit
  <1> QED BY <1>1, <1>7, MoreRelas

LEMMA CallsHandled ==
    ASSUME CompilerInv, CallExpr \/ CallArgument \/ PushArgument \/ CallEnd \/ InExpr
    PROVE  ExprHandled
  <1> USE DEF ExprHandled
  <1>0. /\ "expr" \in ExprKinds /\ "args" \in ExprKinds /\ "push" \in ExprKinds
        /\ "expr" \in Sure
    BY DEF ExprKinds, StmtKinds, Sure
  <1>1. CASE CallExpr
    <2>1. PICK n \in Exprs : At("expr") /\ IsFunction(n.id) /\ CallBegin(n, <<>>)
      BY <1>1 DEF CallExpr, ReadExpr
    <2>2. Keep
      BY <2>1 DEF CallBegin
    <2>3. Calm(Flat(frame), ExprKinds) /\ RelasKept
      BY <1>0, <2>1, CallBegun
    <2> QED BY <1>0, <2>1, <2>2, <2>3, HeadFacts, KeptByExprs
  <1>2. CASE CallArgument
    <2> DEFINE b == Head(todo)
               x == Expr(level, depth)
               y == It("push", level + 1, depth)
               z == Args(level, depth, b.id, b.left - 1, b.given - 1, b.pushed, b.saved)
    <2>1. At("args") /\ Do(<<x, y, z>>) /\ Keep /\ text' = text /\ relas' = relas
      BY <1>2 DEF CallArgument, code
    <2>2. x.k = "expr" /\ y.k = "push" /\ z.k = "args" /\ Fine(x) /\ Fine(y) /\ Fine(z)
      BY FineItems
    <2> HIDE DEF x, y, z
    <2>3. Calm(Flat(frame), ExprKinds)
      BY <1>0, <2>1, <2>2, EmitsNone, CalmPut
    <2> QED BY <1>0, <2>1, <2>3, HeadFacts, MoreRelas, KeptByExprs
  <1>3. CASE PushArgument
    <2> DEFINE a == << I("push", Mask(reg), 0, 0) >>
    <2>1. At("push") /\ Do(<<>>) /\ Keep /\ text' = text \o a /\ relas' = relas
      BY <1>3 DEF PushArgument, Emit
    <2>2. a \in Seq(Flat(frame)) /\ Len(a) > 0
      <3>1. Mask(reg) \in Register
        BY <2>1, HeadIs, MaskType
      <3>2. "push" \in Opcodes \ Unsteady
        BY FlatOps
      <3>3. I("push", Mask(reg), 0, 0) \in Flat(frame)
        BY <3>1, <3>2, Zero, FlatIs, Zenon
      <3> QED BY <3>3, ShortSeqs, ShortLens
    <2> HIDE DEF a
    <2>3. Calm(Flat(frame), ExprKinds)
      BY <2>1, <2>2, CalmEmit
    <2> QED BY <1>0, <2>1, <2>3, HeadFacts, MoreRelas, KeptByExprs
  <1>4. CASE CallEnd
    <2> DEFINE b    == Head(todo)
               call == I("call", 0, 0, Displace(find_symbol(b.id).offset, rip))
               a    == <<call>> \o compile_call_end(reg, b.pushed) \o RestoreCode(b.saved)
    <2>1. /\ At("args") /\ Do(<<>>) /\ text' = text \o a /\ relas' = relas
          /\ UNCHANGED <<control, storage, start, frames>>
      BY <1>4 DEF CallEnd, Emit
    <2>2. /\ reg \in Int /\ depth \in Nat /\ depth >= 2 /\ b \in ItemType /\ b.k = "args"
          /\ b = todo[1] /\ 1 \in 1..Len(todo)
      BY <2>1, HeadFacts, HeadFirst DEF Scopes
    <2>3. b.pushed \in Nat /\ b.saved \in Register /\ b.id \in FunctionNames
      <3>1. b.id \in FunctionNames
        BY <2>2 DEF CompilerInv, CallsPending
      <3>2. b \in [k : {"args"}, h : Nat, d : Scopes, id : STRING, left : Nat, given : Int,
                   pushed : Nat, saved : Register]
        <4> HIDE DEF b
        <4> QED BY <2>2 DEF ItemType
      <3> HIDE DEF b
      <3> QED BY <3>1, <3>2
    <2> HIDE DEF b
    <2>4. Displace(find_symbol(b.id).offset, rip) \in Int
      <3>1. scopes \in Seq(Seq(Symbol)) /\ scopes # <<>>
        BY <2>2, EmptySeq DEF depth, CompilerInv, TypeOK
      <3>2. find_symbol(b.id) \in Symbol
        BY <2>3, <3>1, FunctionFound, SymbolFound
      <3>3. find_symbol(b.id).offset \in Nat
        BY <3>2 DEF Symbol
      <3> QED BY <3>3, AddressIs DEF Displace
    <2>5. call \in Flat(frame)
      <3>1. "call" \in Opcodes \ Unsteady
        BY FlatOps
      <3> QED BY <2>4, <3>1, Zero, FlatIs, Zenon
    <2> HIDE DEF call
    <2>6. a \in Seq(Flat(frame)) /\ Len(a) > 0
      <3> DEFINE end == compile_call_end(reg, b.pushed)
                 res == RestoreCode(b.saved)
      <3>1. /\ <<call>> \in Seq(Flat(frame)) /\ Len(<<call>>) = 1
            /\ end \in Seq(Flat(frame)) /\ res \in Seq(Flat(frame))
        <4>1. end \in Seq(Flat(frame)) /\ res \in Seq(Flat(frame))
          BY <2>2, <2>3, AroundFlat, Zenon
        <4> HIDE DEF end, res
        <4> QED BY <2>5, <4>1
      <3> HIDE DEF end, res
      <3>2. <<call>> \o end \in Seq(Flat(frame)) /\ Len(<<call>> \o end) = 1 + Len(end)
        BY <3>1, ConcatProperties
      <3>3. /\ (<<call>> \o end) \o res \in Seq(Flat(frame))
            /\ Len((<<call>> \o end) \o res) = 1 + Len(end) + Len(res)
        BY <3>1, <3>2, ConcatProperties
      <3>4. Len(end) \in Nat /\ Len(res) \in Nat
        BY <3>1, LenProperties
      <3> QED BY <3>3, <3>4 DEF end, res
    <2> HIDE DEF a
    <2>7. Calm(Flat(frame), ExprKinds)
      BY <2>1, <2>6, CalmEmit
    <2> QED BY <1>0, <2>1, <2>7, HeadFacts, MoreRelas, KeptByExprs
  <1>5. CASE InExpr
    <2>1. /\ At("expr") /\ compile_stdcall("scan", 0) /\ Do(<<>>)
          /\ UNCHANGED <<control, storage, start, frames>>
      BY <1>5 DEF InExpr, ReadExpr
    <2>2. reg \in Int /\ reg - 0 \in Int /\ "scan" \in {"scan", "print"} /\ 0 \in {0, 1}
      BY <2>1, HeadIs
    <2>3. Calm(Flat(frame), ExprKinds) /\ RelasKept
      BY <2>1, <2>2, StdcallDone
    <2> QED BY <1>0, <2>1, <2>3, HeadFacts, KeptByExprs
  <1> QED BY <1>1, <1>2, <1>3, <1>4, <1>5

(* All of them.                                                            *)
ExprHandlers ==
    \/ compile_load_num \/ LoadVariable \/ LoadElement \/ BinaryExpr \/ compile_expr_bin
    \/ NotExpr \/ compile_expr_not \/ CallExpr \/ CallArgument \/ PushArgument \/ CallEnd \/ InExpr
LEMMA ExprsHandled ==
    ASSUME CompilerInv, ScopesInv, AddendsOK, ExprHandlers
    PROVE  ExprHandled
  BY OperandsHandled, OperatorsHandled, CallsHandled DEF ExprHandlers

(* Statements.                                                             *)

(* What the handlers of statements do, AssignStmt aside.                   *)
BodyKinds == StmtKinds \ {"assign"}
StmtHandled ==
    /\ Calm(Tame(frame'), BodyKinds) /\ Head(todo).k \in StmtKinds \ ExprKinds /\ RelasKept
    /\ UNCHANGED <<tree, phase, outcome, frames>> /\ frame' >= frame
    /\ scopes' = scopes \/ DeclareVariable

LEMMA CalmTame ==
    ASSUME NEW f, NEW K, Calm(Flat(f), K)
    PROVE  Calm(Tame(f), K)
  BY FlatTame DEF Calm, Emits

(* compile_store.                                                          *)
LEMMA StoreDone ==
    ASSUME CompilerInv, NEW s \in Symbol, NEW n \in Int, reg \in Int, compile_store(s, n),
           NEW f, s.vis = "local" => -f <= s.addend
    PROVE  RelasKept /\ \E a \in Seq(Tame(f)) : Len(a) > 0 /\ text' = text \o a
  <1>1. /\ s.vis \in {"local", "global"} /\ s.addend \in Int
        /\ Mask(reg) \in Register /\ Mask(reg + 1) \in Register
    BY MaskType DEF Symbol
  <1> DEFINE mov    == I("mov imm", Mask(reg + 1), 0, n)
             store  == I(Store[s.vis], 0, Mask(reg), s.addend)
             storex == I(Storex[s.vis], Mask(reg + 1), Mask(reg), s.addend)
             ret    == RetCode(s.vis)
  <1>2. mov \in Flat(f)
    <2>1. "mov imm" \in Opcodes \ Unsteady
      BY FlatOps
    <2> QED BY <1>1, <2>1, Zero, FlatIs, Zenon
  <1>3. store \in Flat(f)
    BY <1>1, Zero, FlatAccess
  <1>4. storex \in Flat(f)
    BY <1>1, FlatAccess
  <1>5. \/ /\ text' = text \o (<<store>> \o ret)
           /\ relas' = relas \o RelaOf(s.vis, rip, s.addend)
        \/ /\ text' = text \o (<<mov, storex>> \o ret)
           /\ relas' = relas \o RelaOf(s.vis, rip + 1, s.addend)
    BY DEF compile_store, Emit
  <1>6. ret \in Seq(Tame(f))
    BY RetTame
  <1> HIDE DEF mov, store, storex, ret
  <1>7. /\ <<store>> \in Seq(Tame(f)) /\ Len(<<store>>) = 1
        /\ <<mov, storex>> \in Seq(Tame(f)) /\ Len(<<mov, storex>>) = 2
    <2>1. mov \in Tame(f) /\ store \in Tame(f) /\ storex \in Tame(f)
      BY <1>2, <1>3, <1>4 DEF Flat
    <2> QED BY <2>1
  <1>8. /\ <<store>> \o ret \in Seq(Tame(f)) /\ Len(<<store>> \o ret) > 0
        /\ <<mov, storex>> \o ret \in Seq(Tame(f)) /\ Len(<<mov, storex>> \o ret) > 0
    <2>1. /\ Len(<<store>> \o ret) = 1 + Len(ret) /\ Len(<<mov, storex>> \o ret) = 2 + Len(ret)
          /\ <<store>> \o ret \in Seq(Tame(f)) /\ <<mov, storex>> \o ret \in Seq(Tame(f))
      BY <1>6, <1>7, ConcatProperties
    <2>2. Len(ret) \in Nat
      BY <1>6, LenProperties
    <2> QED BY <2>1, <2>2
  <1>9. RelasKept
    <2>1. /\ RelaOf(s.vis, rip, s.addend) \in Seq(RelaType)
          /\ RelaOf(s.vis, rip + 1, s.addend) \in Seq(RelaType)
      BY <1>1, AddressIs, RelaIs
    <2> QED BY <1>5, <2>1, MoreRelas
  <1> QED BY <1>5, <1>8, <1>9

(* What DeclareVariable declares and stores to.                            *)
LEMMA Declaration ==
    ASSUME CompilerInv, DeclareVariable
    PROVE  \E x \in Symbol :
             /\ x.offset = Head(todo).at
             /\ scopes' = [scopes EXCEPT ![Len(scopes)] = Append(@, x)]
             /\ Head(todo).n \in Int /\ compile_store(x, Head(todo).n)
             /\ frame' \in Nat /\ frame' >= frame
             /\ \/ Len(scopes) = 2 /\ x.vis = "global"
                \/ Len(scopes) >= 3 /\ x.vis = "local" /\ -frame' <= x.addend
  <1> DEFINE it   == Head(todo)
             info == Extent(it.n)
             x    == IF is_global_scope
                     THEN Sym("var", "global", it.id, Imm(bss), it.at, info)
                     ELSE Sym("var", "local", it.id, LocalAddend(info), it.at, info)
             n    == Len(scopes)
  <1>1. /\ At("assign") /\ it.n # Computed /\ compile_store(x, it.n)
        /\ scopes' = [scopes EXCEPT ![n] = Append(@, x)]
        /\ IF is_global_scope THEN bss' = bss + info /\ frame' = frame
                              ELSE frame' = frame + info /\ bss' = bss
    BY DEF DeclareVariable
  <1>2. Running /\ bss \in Nat /\ frame \in Nat
    BY <1>1, HeadIs DEF CompilerInv, TypeOK
  <1>3. n \in Nat /\ n >= 2 /\ (is_global_scope <=> n = 2)
    BY <1>2, RunningTables, LenProperties DEF Tables, is_global_scope
  <1>4. it.id \in STRING /\ it.n \in Index /\ it.n \in Int /\ it.at \in Nat
    BY <1>1, AssignHead
  <1> HIDE DEF it
  <1>5. info \in Nat
    BY <1>1, <1>4 DEF Extent, Index, NoIndex, Computed, WORD
  <1> HIDE DEF info
  <1>6. /\ x \in Symbol /\ x.offset = it.at /\ frame' \in Nat /\ frame' >= frame
        /\ \/ n = 2 /\ x.vis = "global"
           \/ n >= 3 /\ x.vis = "local" /\ -frame' <= x.addend
    <2>1. /\ LocalAddend(info) \in Int /\ Imm(bss) \in Int
          /\ -(frame + info) <= LocalAddend(info)
      <3>1. -(frame + info) \in Int /\ -(frame + info) <= 0 /\ bss \in Int
        BY <1>2, <1>5
      <3> QED BY <3>1, ImmIs DEF LocalAddend
    <2>2. CASE is_global_scope
      <3>1. x = Sym("var", "global", it.id, Imm(bss), it.at, info) /\ frame' = frame
        BY <1>1, <2>2
      <3>2. n = 2
        BY <1>3, <2>2
      <3> HIDE DEF x, n
      <3> QED BY <1>2, <1>4, <1>5, <2>1, <3>1, <3>2 DEF Sym, Symbol
    <2>3. CASE ~is_global_scope
      <3>1. x = Sym("var", "local", it.id, LocalAddend(info), it.at, info) /\ frame' = frame + info
        BY <1>1, <2>3
      <3>2. n >= 3
        BY <1>3, <2>3 DEF is_global_scope
      <3> HIDE DEF x, n
      <3> QED BY <1>2, <1>4, <1>5, <2>1, <3>1, <3>2 DEF Sym, Symbol
    <2> QED BY <2>2, <2>3
  <1> HIDE DEF x
  <1> QED BY <1>1, <1>4, <1>6 DEF it

LEMMA StoresHandled ==
    ASSUME CompilerInv, ScopesInv, AddendsOK, Reassign \/ StoreElement \/ DeclareVariable
    PROVE  StmtHandled
  <1> USE DEF StmtHandled
  <1>0. /\ "assign" \in StmtKinds \ ExprKinds /\ "store" \in StmtKinds \ ExprKinds
        /\ "expr" \in BodyKinds \intersect Sure /\ "store" \in BodyKinds
    BY DEF ExprKinds, StmtKinds, BodyKinds, Sure
  <1>f. frame \in Nat
    BY DEF CompilerInv, TypeOK
  <1>1. CASE Reassign
    <2> DEFINE it == Head(todo)
               s  == find_symbol(it.id)
    <2>1. /\ At("assign") /\ Found(it.id) /\ Keep
          /\ \/ /\ Do(<< Expr(level, depth), Access("store", level + 1, depth, s) >>)
                /\ UNCHANGED <<reg, code, sp>>
             \/ compile_store(s, it.n) /\ Do(<<>>)
      BY <1>1 DEF Reassign
    <2>2. reg \in Int /\ it.n \in Int /\ it.k = "assign"
      BY <2>1, HeadFacts, AssignHead
    <2>3. s \in Symbol /\ (s.vis = "local" => -frame <= s.addend)
      BY <2>1, LocalSymbol, SymbolFound DEF CompilerInv, TypeOK
    <2>4. UNCHANGED <<tree, phase, outcome, scopes, bss, frame, frames>>
      BY <2>1, KeptByExprs
    <2>5. frame' >= frame
      BY <1>f, <2>4
    <2> HIDE DEF it, s
    <2>6. CASE /\ Do(<< Expr(level, depth), Access("store", level + 1, depth, s) >>)
               /\ UNCHANGED <<reg, code, sp>>
      <3> DEFINE x == Expr(level, depth)
                 y == Access("store", level + 1, depth, s)
      <3>1. x.k = "expr" /\ Fine(x)
        BY FineItems
      <3>2. y.k = "store" /\ Fine(y)
        BY <2>3, <2>4 DEF Access, Fine
      <3>3. text' = text /\ relas' = relas
        BY <2>6 DEF code
      <3>4. Do(<<x, y>>)
        BY <2>6
      <3> HIDE DEF x, y
      <3>5. Calm(Tame(frame'), BodyKinds)
        BY <1>0, <2>1, <3>1, <3>2, <3>3, <3>4, EmitsNone, CalmPut
      <3>6. RelasKept
        BY <3>3, MoreRelas
      <3> QED BY <1>0, <2>2, <2>4, <2>5, <3>5, <3>6 DEF it
    <2>7. CASE compile_store(s, it.n) /\ Do(<<>>)
      <3>1. RelasKept /\ \E a \in Seq(Tame(frame)) : Len(a) > 0 /\ text' = text \o a
        BY <2>2, <2>3, <2>7, StoreDone
      <3>2. Calm(Tame(frame), BodyKinds)
        BY <2>1, <2>7, <3>1, CalmEmit
      <3> QED BY <1>0, <2>2, <2>4, <2>5, <3>1, <3>2 DEF it
    <2> QED BY <2>1, <2>6, <2>7
  <1>2. CASE StoreElement
    <2> DEFINE it == Head(todo)
               x  == I(Storex[it.vis], Mask(reg), Mask(reg - 1), it.addend)
               a  == <<x>> \o RetCode(it.vis)
    <2>1. /\ At("store") /\ Do(<<>>) /\ Keep
          /\ relas' = relas \o RelaOf(it.vis, rip, it.addend)
          /\ text' = text \o a
      BY <1>2 DEF StoreElement, Emit
    <2>2. it \in ItemType /\ it.k = "store" /\ reg \in Int /\ reg - 1 \in Int
      <3>1. NetRegs("store") = -2
        BY NetTable
      <3>2. it \in ItemType /\ it.k = "store" /\ reg \in Int
        BY <2>1, HeadFacts
      <3> HIDE DEF it
      <3> QED BY <3>1, <3>2
    <2>3. it.vis = "local" => -frame <= it.addend
      <3>1. it = todo[1] /\ 1 \in 1..Len(todo)
        BY <2>1, HeadFirst
      <3> QED BY <2>2, <3>1 DEF AddendsOK
    <2> HIDE DEF it
    <2>4. it.vis \in {"local", "global"} /\ it.addend \in Int
      BY <2>2 DEF ItemType
    <2>5. UNCHANGED <<tree, phase, outcome, scopes, bss, frame, frames>>
      BY <2>1, KeptByExprs
    <2>6. a \in Seq(Tame(frame)) /\ Len(a) > 0
      <3>1. Mask(reg) \in Register /\ Mask(reg - 1) \in Register
        BY <2>2, MaskType
      <3>2. x \in Tame(frame)
        BY <2>3, <2>4, <3>1, FlatAccess DEF Flat
      <3> HIDE DEF x
      <3>3. <<x>> \in Seq(Tame(frame)) /\ Len(<<x>>) = 1 /\ RetCode(it.vis) \in Seq(Tame(frame))
        BY <3>2, RetTame
      <3>4. a \in Seq(Tame(frame)) /\ Len(a) = 1 + Len(RetCode(it.vis))
        BY <3>3, ConcatProperties
      <3>5. Len(RetCode(it.vis)) \in Nat
        BY <3>3, LenProperties
      <3> QED BY <3>4, <3>5
    <2> HIDE DEF a
    <2>7. Calm(Tame(frame), BodyKinds)
      BY <2>1, <2>6, CalmEmit
    <2>8. RelasKept
      BY <2>1, <2>4, AddressIs, RelaIs, MoreRelas
    <2>9. frame' >= frame
      BY <1>f, <2>5
    <2> QED BY <1>0, <2>2, <2>5, <2>7, <2>8, <2>9 DEF it
  <1>3. CASE DeclareVariable
    <2>1. /\ At("assign") /\ Do(<<>>) /\ UNCHANGED <<tree, phase, outcome, frames>>
      BY <1>3 DEF DeclareVariable, control, aux
    <2>2. PICK x \in Symbol :
             /\ Head(todo).n \in Int /\ compile_store(x, Head(todo).n)
             /\ frame' \in Nat /\ frame' >= frame
             /\ x.vis = "local" => -frame' <= x.addend
      BY <1>3, Declaration
    <2>3. x.vis = "local" => -frame' <= x.addend
      BY <2>2 DEF Symbol
    <2>4. reg \in Int /\ Head(todo).k = "assign"
      BY <2>1, HeadFacts
    <2>5. RelasKept /\ \E a \in Seq(Tame(frame')) : Len(a) > 0 /\ text' = text \o a
      BY <2>2, <2>3, <2>4, StoreDone
    <2>6. Calm(Tame(frame'), BodyKinds)
      BY <2>1, <2>5, CalmEmit
    <2> QED BY <1>0, <1>3, <2>1, <2>2, <2>4, <2>5, <2>6
  <1> QED BY <1>1, <1>2, <1>3

LEMMA BodiesHandled ==
    ASSUME CompilerInv,
           compile_stmt \/ CallStmt \/ DropResult \/ OutOrReturn \/ OutStmt \/ compile_return
    PROVE  StmtHandled
  <1> USE DEF StmtHandled
  <1>0. /\ "stmt" \in BodyKinds \intersect Sure /\ "expr" \in BodyKinds \intersect Sure
        /\ "more" \in BodyKinds \ Sure /\ "drop" \in BodyKinds \ Sure
        /\ "args" \in BodyKinds /\ "out" \in BodyKinds /\ "return" \in BodyKinds
        /\ "more" \in StmtKinds \ ExprKinds /\ "stmt" \in StmtKinds \ ExprKinds
        /\ "drop" \in StmtKinds \ ExprKinds /\ "out" \in StmtKinds \ ExprKinds
        /\ "return" \in StmtKinds \ ExprKinds
    BY DEF ExprKinds, StmtKinds, BodyKinds, Sure, Tests
  <1>1. UNCHANGED <<tree, phase, outcome, scopes, bss, frame, frames>>
    BY KeptByExprs DEF compile_stmt, CallStmt, CallBegin, DropResult, OutOrReturn, OutStmt, compile_return
  <1>2. frame' >= frame
    BY <1>1 DEF CompilerInv, TypeOK
  <1>3. CASE compile_stmt
    <2> DEFINE x == It("stmt", level, depth)
               y == It("more", level, depth)
    <2>1. At("more") /\ (Do(<<x, y>>) \/ Do(<<>>)) /\ text' = text /\ relas' = relas
      BY <1>3 DEF compile_stmt, Body, code
    <2>2. x.k = "stmt" /\ y.k = "more" /\ Fine(x) /\ Fine(y)
      BY FineItems
    <2> HIDE DEF x, y
    <2>3. Calm(Tame(frame'), BodyKinds)
      BY <1>0, <2>1, <2>2, EmitsNone, CalmPut, CalmIdle
    <2> QED BY <1>0, <1>1, <1>2, <2>1, <2>3, HeadFacts, MoreRelas
  <1>4. CASE CallStmt
    <2>1. PICK n \in Stmts : At("stmt") /\ IsFunction(n.id) /\ CallBegin(n, << It("drop", level + 1, depth) >>)
      BY <1>4 DEF CallStmt, ReadStmt
    <2> DEFINE y == It("drop", level + 1, depth)
    <2>2. y.k = "drop" /\ Fine(y)
      BY FineItems
    <2>3. CallBegin(n, <<y>>)
      BY <2>1
    <2> HIDE DEF y
    <2>4. Calm(Flat(frame), BodyKinds) /\ RelasKept
      BY <1>0, <2>1, <2>2, <2>3, CallBegun
    <2> QED BY <1>0, <1>1, <1>2, <2>1, <2>4, HeadFacts, CalmTame
  <1>5. CASE DropResult
    <2>1. At("drop") /\ Do(<<>>) /\ text' = text /\ relas' = relas
      BY <1>5 DEF DropResult, code
    <2>2. Calm(Tame(frame'), BodyKinds)
      BY <1>0, <2>1, CalmIdle
    <2> QED BY <1>0, <1>1, <1>2, <2>1, <2>2, HeadFacts, MoreRelas
  <1>6. CASE OutOrReturn
    <2>1. PICK k \in {"out", "return"} :
            /\ At("stmt") /\ Do(<< Expr(level, depth), It(k, level + 1, depth) >>)
            /\ text' = text /\ relas' = relas
      BY <1>6 DEF OutOrReturn, ReadStmt, code
    <2> DEFINE x == Expr(level, depth)
               y == It(k, level + 1, depth)
    <2>2. x.k = "expr" /\ y.k = k /\ Fine(x) /\ Fine(y)
      BY FineItems
    <2> HIDE DEF x, y
    <2>3. Calm(Tame(frame'), BodyKinds)
      BY <1>0, <2>1, <2>2, EmitsNone, CalmPut DEF x, y
    <2> QED BY <1>0, <1>1, <1>2, <2>1, <2>3, HeadFacts, MoreRelas
  <1>7. CASE OutStmt
    <2>1. At("out") /\ compile_stdcall("print", 1) /\ Do(<<>>)
      BY <1>7 DEF OutStmt
    <2>2. reg \in Int /\ reg - 1 \in Int /\ "print" \in {"scan", "print"} /\ 1 \in {0, 1}
      <3>1. NetRegs("out") = -1
        BY NetTable
      <3>2. reg \in Int
        BY <2>1, HeadFacts
      <3> QED BY <3>1, <3>2
    <2>3. Calm(Flat(frame), BodyKinds) /\ RelasKept
      BY <2>1, <2>2, StdcallDone
    <2> QED BY <1>0, <1>1, <1>2, <2>1, <2>3, HeadFacts, CalmTame
  <1>8. CASE compile_return
    <2> DEFINE a == << I("mov rax, r", 0, Mask(reg), 0), Op("mov rsp, rbp"), Op("pop rbp"), Op("ret") >>
    <2>1. At("return") /\ Do(<<>>) /\ text' = text \o a /\ relas' = relas
      BY <1>8 DEF compile_return, Emit
    <2>2. a \in Seq(Tame(frame)) /\ Len(a) > 0
      <3>1. Mask(reg) \in Register
        BY <2>1, HeadIs, MaskType
      <3>2. /\ "mov rax, r" \in Opcodes \ Unsteady /\ "mov rsp, rbp" \in Opcodes \ Unsteady
            /\ "pop rbp" \in Opcodes \ Unsteady
        BY FlatOps
      <3>3. /\ I("mov rax, r", 0, Mask(reg), 0) \in Flat(frame) /\ Op("mov rsp, rbp") \in Flat(frame)
            /\ Op("pop rbp") \in Flat(frame)
        BY <3>1, <3>2, Zero, FlatIs, FlatOp, Zenon
      <3>4. Op("ret") \in Tame(frame)
        BY RetOp
      <3>5. /\ I("mov rax, r", 0, Mask(reg), 0) \in Tame(frame) /\ Op("mov rsp, rbp") \in Tame(frame)
            /\ Op("pop rbp") \in Tame(frame)
        BY <3>3 DEF Flat
      <3> QED BY <3>4, <3>5, ShortSeqs, ShortLens
    <2> HIDE DEF a
    <2>3. Calm(Tame(frame), BodyKinds)
      BY <2>1, <2>2, CalmEmit
    <2> QED BY <1>0, <1>1, <1>2, <2>1, <2>3, HeadFacts, MoreRelas
  <1> QED BY <1>3, <1>4, <1>5, <1>6, <1>7, <1>8

(* All of them.                                                            *)
StmtHandlers ==
    \/ Reassign \/ StoreElement \/ DeclareVariable
    \/ compile_stmt \/ CallStmt \/ DropResult \/ OutOrReturn \/ OutStmt \/ compile_return
LEMMA StmtsHandled ==
    ASSUME CompilerInv, ScopesInv, AddendsOK, StmtHandlers
    PROVE  StmtHandled
  BY StoresHandled, BodiesHandled DEF StmtHandlers

(* A right-hand side, and the assignment that waits for it.                *)
AssignBegun ==
    /\ todo'[1].k = "expr" /\ todo'[2].k = "assign" /\ todo'[2].at = Len(text)
    /\ text' = text /\ relas' = relas
    /\ UNCHANGED <<tree, phase, outcome, scopes, frame, frames>>
LEMMA AssignHandled ==
    ASSUME CompilerInv, AssignStmt
    PROVE  AssignBegun /\ Shift(2) /\ todo[1].k = "stmt" /\ Calm(Tame(frame'), StmtKinds)
  <1>1. PICK n \in Stmts :
          /\ At("stmt") /\ Keep /\ text' = text /\ relas' = relas
          /\ Do(<< Expr(level, depth), Assign(level + 1, depth, n.id, n.n, rip) >>)
    BY DEF AssignStmt, ReadStmt, code
  <1> DEFINE x == Expr(level, depth)
             y == Assign(level + 1, depth, n.id, n.n, rip)
             S == {x, y}
  <1>2. x.k = "expr" /\ y.k = "assign" /\ y.at = Len(text) /\ Fine(x) /\ Fine(y)
    BY FineItems DEF Assign, Fine, rip
  <1>3. Do(<<x, y>>)
    BY <1>1
  <1> HIDE DEF x, y
  <1>4. <<x, y>> \in Seq(S) /\ Len(<<x, y>>) = 2 /\ <<x, y>>[1] = x /\ <<x, y>>[2] = y
    OBVIOUS
  <1> HIDE DEF S
  <1>5. Shift(2) /\ todo'[1] = x /\ todo'[2] = y
    <2>1. Shift(2) /\ \A i \in 1..2 : todo'[i] = <<x, y>>[i]
      BY <1>1, <1>3, <1>4, DoShift
    <2>2. 1 \in 1..2 /\ 2 \in 1..2
      OBVIOUS
    <2> QED BY <1>4, <2>1, <2>2
  <1>6. /\ "expr" \in StmtKinds \intersect Sure /\ "assign" \in StmtKinds
    BY DEF ExprKinds, StmtKinds, Sure
  <1>7. Calm(Tame(frame'), StmtKinds)
    BY <1>1, <1>2, <1>3, <1>6, EmitsNone, CalmPut
  <1> QED BY <1>1, <1>2, <1>5, <1>7, HeadFirst, KeptByExprs DEF AssignBegun

(* The handlers that open and close constructs.                            *)

(* What is left of the control stack.                                      *)
LEMMA Shifted ==
    ASSUME NEW n, Shift(n)
    PROVE  /\ n \in Nat /\ Len(todo) \in Nat \ {0} /\ Len(todo') \in Nat
           /\ \A m \in 2..Len(todo) :
                 /\ m + n - 1 \in 1..Len(todo') /\ m + n - 1 > n
                 /\ todo'[m + n - 1] = todo[m]
           /\ \A l \in 1..Len(todo') :
                 l \in 1..n \/ (l - n + 1 \in 2..Len(todo) /\ todo'[l] = todo[l - n + 1])
  <1>1. /\ n \in Nat /\ Len(todo) \in Nat \ {0} /\ Len(todo') = n + Len(todo) - 1
        /\ \A i \in (n + 1)..Len(todo') : todo'[i] = todo[i - n + 1]
    BY DEF Shift
  <1>2. ASSUME NEW m \in 2..Len(todo)
        PROVE  /\ m + n - 1 \in 1..Len(todo') /\ m + n - 1 > n
               /\ todo'[m + n - 1] = todo[m]
    <2>1. m + n - 1 \in (n + 1)..Len(todo') /\ (m + n - 1) - n + 1 = m
      BY <1>1
    <2> QED BY <1>1, <2>1
  <1>3. ASSUME NEW l \in 1..Len(todo'), l \notin 1..n
        PROVE  l - n + 1 \in 2..Len(todo) /\ todo'[l] = todo[l - n + 1]
    <2>1. l \in (n + 1)..Len(todo')
      BY <1>1, <1>3
    <2> QED BY <1>1, <2>1
  <1> QED BY <1>1, <1>2, <1>3

(* The code that was there stays, but for the operand at p.                *)
Rewritten(s, t, p) ==
    /\ Len(s) \in Nat /\ Len(t) \in Nat /\ Len(t) >= Len(s)
    /\ \A a \in 0..(Len(s) - 1) :
          /\ a # p => t[a + 1] = s[a + 1]
          /\ t[a + 1].op = s[a + 1].op
Nowhere == -1

LEMMA EmitsAre ==
    ASSUME CompilerInv, NEW C, Emits(C)
    PROVE  /\ Rewritten(text, text', Nowhere)
           /\ \A a \in Len(text)..(Len(text') - 1) : text'[a + 1] \in C
  <1>1. PICK e \in Seq(C) : text' = text \o e
    BY DEF Emits
  <1>2. text \in Seq(InstrType)
    BY DEF CompilerInv, TypeOK
  <1>3. /\ Len(text) \in Nat /\ Len(e) \in Nat /\ Len(text') = Len(text) + Len(e)
        /\ \A i \in 1..Len(text) : text'[i] = text[i]
        /\ \A i \in 1..Len(e) : text'[Len(text) + i] = e[i] /\ e[i] \in C
    BY <1>1, <1>2
  <1>4. \A a \in 0..(Len(text) - 1) : text'[a + 1] = text[a + 1]
    BY <1>3
  <1>5. ASSUME NEW a \in Len(text)..(Len(text') - 1)
        PROVE  text'[a + 1] \in C
    <2>1. (a + 1) - Len(text) \in 1..Len(e) /\ Len(text) + ((a + 1) - Len(text)) = a + 1
      BY <1>3
    <2> QED BY <1>3, <2>1
  <1> QED BY <1>3, <1>4, <1>5 DEF Rewritten, Nowhere

(* An operand is patched, and some code may be emitted after that.         *)
LEMMA PatchedAre ==
    ASSUME text \in Seq(InstrType), NEW at \in Nat, at < Len(text), NEW x \in Int,
           \/ text' = Patch(at, x)
           \/ \E i \in InstrType : text' = Append(Patch(at, x), i)
    PROVE  /\ Rewritten(text, text', at) /\ text'[at + 1].x = x
           /\ text' = Patch(at, x) => Len(text') = Len(text)
           /\ \A i \in InstrType : text' = Append(Patch(at, x), i) =>
                 Len(text') = Len(text) + 1 /\ text'[Len(text) + 1] = i
  <1> DEFINE u == Patch(at, x)
  <1>1. Len(text) \in Nat /\ at + 1 \in 1..Len(text) /\ text[at + 1] \in InstrType
    BY LenProperties
  <1>2. /\ u \in Seq(InstrType) /\ Len(u) = Len(text)
        /\ u[at + 1] = [text[at + 1] EXCEPT !.x = x]
        /\ \A i \in 1..Len(text) : i # at + 1 => u[i] = text[i]
    <2>1. u \in Seq(InstrType) /\ Len(u) = Len(text)
      BY PatchIs
    <2>2. u = [text EXCEPT ![at + 1] = [text[at + 1] EXCEPT !.x = x]]
      BY <1>1 DEF Patch
    <2>3. DOMAIN text = 1..Len(text)
      BY LenProperties
    <2> QED BY <1>1, <2>1, <2>2, <2>3
  <1>3. u[at + 1].x = x /\ u[at + 1].op = text[at + 1].op
    BY <1>1, <1>2 DEF InstrType
  <1> HIDE DEF u
  <1>4. /\ Len(text') >= Len(text) /\ Len(text') \in Nat
        /\ \A i \in 1..Len(text) : text'[i] = u[i]
    BY <1>1, <1>2 DEF u
  <1>5. Rewritten(text, text', at)
    <2>1. \A a \in 0..(Len(text) - 1) : a + 1 \in 1..Len(text) /\ (a # at => a + 1 # at + 1)
      BY <1>1
    <2> QED BY <1>1, <1>2, <1>3, <1>4, <2>1 DEF Rewritten
  <1>6. text'[at + 1].x = x
    BY <1>1, <1>3, <1>4
  <1>7. \A i \in InstrType : text' = Append(u, i) =>
           Len(text') = Len(text) + 1 /\ text'[Len(text) + 1] = i
    BY <1>2
  <1> QED BY <1>2, <1>5, <1>6, <1>7 DEF u

(* The addresses of a construct.                                           *)
LEMMA OpenTypes ==
    ASSUME NEW it \in ItemType, it.k \in Opens
    PROVE  it.cond \in Nat /\ it.at \in Nat
  <1>1. it \in [k : {"enddefine", "test while", "test if", "test if else",
                     "endwhile", "else", "endif"}, h : Nat, d : Scopes, cond : Nat, at : Nat]
    BY DEF ItemType, Opens, Branches, Tests, Owed
  <1> QED BY <1>1

LEMMA ItemTypes ==
    ASSUME CompilerInv
    PROVE  Len(todo) \in Nat /\ \A l \in 1..Len(todo) : todo[l] \in ItemType
  BY DEF CompilerInv, TypeOK

(* A condition is to be compiled.                                          *)
LEMMA ConditionalIs ==
    ASSUME CompilerInv, Conditional
    PROVE  /\ Running /\ Shift(2) /\ todo[1].k = "stmt" /\ todo'[1].k = "expr"
           /\ todo'[2].k \in Tests /\ todo'[2].cond = Len(text)
           /\ text' = text /\ relas' = relas /\ scopes' = Append(scopes, <<>>)
           /\ UNCHANGED <<tree, phase, outcome, frame, frames>>
  <1>1. PICK k \in Tests :
          /\ At("stmt") /\ Do(<< Expr(level, depth + 1), Jump(k, level + 1, depth + 1, rip, 0) >>)
          /\ scopes' = Append(scopes, <<>>)
          /\ text' = text /\ relas' = relas
          /\ UNCHANGED <<tree, phase, outcome, frame, frames>>
    <2>1. /\ "test while" \in Tests /\ "test if else" \in Tests /\ "test if" \in Tests
      BY DEF Tests
    <2>2. PICK n \in Stmts :
            /\ At("stmt") /\ scopes' = Append(scopes, <<>>)
            /\ Do(<< Expr(level, depth + 1),
                     Jump(IF n.k = "while" THEN "test while"
                          ELSE IF n.n = 1 THEN "test if else" ELSE "test if",
                          level + 1, depth + 1, rip, 0) >>)
            /\ UNCHANGED <<control, bss, frame, reg, code, start, sp, aux>>
      BY DEF Conditional, ReadStmt
    <2> QED BY <2>1, <2>2 DEF control, code, aux
  <1> DEFINE x == Expr(level, depth + 1)
             y == Jump(k, level + 1, depth + 1, rip, 0)
             S == {x, y}
  <1>2. x.k = "expr" /\ y.k = k /\ y.cond = Len(text)
    BY FineItems DEF Jump, rip
  <1>3. Do(<<x, y>>)
    BY <1>1
  <1> HIDE DEF x, y
  <1>4. <<x, y>> \in Seq(S) /\ Len(<<x, y>>) = 2 /\ <<x, y>>[1] = x /\ <<x, y>>[2] = y
    OBVIOUS
  <1> HIDE DEF S
  <1>5. Shift(2) /\ \A i \in 1..2 : todo'[i] = <<x, y>>[i]
    BY <1>1, <1>3, <1>4, DoShift
  <1>6. 1 \in 1..2 /\ 2 \in 1..2
    OBVIOUS
  <1>7. todo'[1] = x /\ todo'[2] = y
    BY <1>4, <1>5, <1>6
  <1> QED BY <1>1, <1>2, <1>5, <1>7, HeadFirst DEF At

LEMMA TwoMore ==
    ASSUME NEW C, NEW s \in Seq(C), NEW x, NEW y
    PROVE  LET t == s \o <<x, y>> IN
           /\ Len(s) \in Nat /\ Len(t) = Len(s) + 2
           /\ t[Len(s) + 1] = x /\ t[Len(s) + 2] = y
  <1> DEFINE e == <<x, y>>
             D == {x, y}
             t == s \o e
  <1>1. e \in Seq(D) /\ Len(e) = 2 /\ e[1] = x /\ e[2] = y
    OBVIOUS
  <1>0. e \in Seq(D)
    BY <1>1
  <1> HIDE DEF e, D
  <1>2. /\ Len(s) \in Nat /\ Len(t) = Len(s) + Len(e)
        /\ \A i \in 1..Len(e) : t[Len(s) + i] = e[i]
    BY <1>0
  <1>3. 1 \in 1..2 /\ 2 \in 1..2
    OBVIOUS
  <1> HIDE DEF t
  <1>4. t[Len(s) + 1] = x /\ t[Len(s) + 2] = y
    BY <1>1, <1>2, <1>3
  <1> QED BY <1>1, <1>2, <1>4 DEF e, t

(* Its value is tested, and jumped on.                                     *)
LEMMA TestIs ==
    ASSUME CompilerInv, TestCondition
    PROVE  /\ Running /\ Shift(3) /\ todo[1].k \in Tests /\ todo'[1].k = "stmt" /\ todo'[2].k = "more"
           /\ todo'[3].k \in Owed /\ todo'[3].cond = todo[1].cond /\ todo'[3].at = Len(text) + 1
           /\ Rewritten(text, text', Nowhere) /\ Len(text') = Len(text) + 2
           /\ text'[Len(text) + 1].op = "test"
           /\ text'[Len(text) + 2].op = "je" /\ text'[Len(text) + 2].x = Unset
           /\ relas' = relas /\ UNCHANGED <<tree, phase, outcome, scopes, frame, frames>>
  <1> DEFINE it   == Head(todo)
             then == CASE it.k = "test while"   -> "endwhile"
                       [] it.k = "test if else" -> "else"
                       [] OTHER                 -> "endif"
             c    == Jump(then, level - 1, depth, it.cond, rip + 1)
             x    == I("test", Mask(reg), Mask(reg), 0)
             y    == I("je", 0, 0, Unset)
             S    == {x, y}
  <1>1. /\ At("test while") \/ At("test if") \/ At("test if else")
        /\ text' = text \o <<x, y>> /\ Do(Body(level - 1, depth) \o <<c>>)
        /\ Keep /\ relas' = relas
    BY DEF TestCondition, Emit
  <1>2. PICK k \in Tests : At(k)
    BY <1>1 DEF Tests
  <1>3. /\ Shift(3) /\ todo'[1].k = "stmt" /\ todo'[2].k = "more" /\ todo'[3] = c
    <2> HIDE DEF c
    <2> QED BY <1>1, <1>2, PutsBody
  <1>4. c.k \in Owed /\ c.cond = todo[1].cond /\ c.at = Len(text) + 1
    <2>1. it = todo[1]
      BY <1>2, HeadFirst
    <2> QED BY <2>1 DEF Jump, Owed, rip
  <1>5. x.op = "test" /\ y.op = "je" /\ y.x = Unset
    BY DEF I
  <1>6. <<x, y>> \in Seq(S) /\ Len(<<x, y>>) = 2 /\ <<x, y>>[1] = x /\ <<x, y>>[2] = y
    OBVIOUS
  <1> HIDE DEF x, y, S, c
  <1>7. /\ Len(text) \in Nat /\ Len(text') = Len(text) + 2
        /\ text'[Len(text) + 1] = x /\ text'[Len(text) + 2] = y
    <2>1. text \in Seq(InstrType)
      BY DEF CompilerInv, TypeOK
    <2>2. text' = text \o <<x, y>>
      BY <1>1
    <2> QED BY <2>1, <2>2, TwoMore
  <1>8. Rewritten(text, text', Nowhere)
    <2>1. Emits(S)
      BY <1>1, <1>6 DEF Emits
    <2> QED BY <2>1, EmitsAre
  <1> QED BY <1>1, <1>2, <1>3, <1>4, <1>5, <1>7, <1>8, HeadFirst, KeptByExprs DEF At

(* The operand of a jump out of the construct is found.                    *)
LEMMA ClosedIs ==
    ASSUME CompilerInv, NEW k \in Owed, At(k), todo[1].at < Len(text)
    PROVE  /\ Running /\ todo[1].k = k
           /\ todo[1].at \in Nat /\ todo[1].cond \in Nat /\ Head(todo) = todo[1]
           /\ text \in Seq(InstrType) /\ Len(text) \in Nat
           /\ \A t \in Nat : Displace(t, todo[1].at) \in Int
  <1>1. todo[1].k = k /\ todo[1] \in ItemType /\ Head(todo) = todo[1]
    BY HeadFirst
  <1>2. todo[1].at \in Nat /\ todo[1].cond \in Nat
    BY <1>1, OpenTypes DEF Opens, Branches
  <1>3. text \in Seq(InstrType) /\ Len(text) \in Nat
    BY DEF CompilerInv, TypeOK
  <1> QED BY <1>1, <1>2, <1>3 DEF Displace, At

LEMMA ElseIs ==
    ASSUME CompilerInv, Else, todo[1].at < Len(text)
    PROVE  LET p == todo[1].at IN
           /\ Running /\ Shift(3) /\ todo[1].k = "else" /\ todo'[1].k = "stmt" /\ todo'[2].k = "more"
           /\ todo'[3].k = "endif" /\ todo'[3].cond = todo[1].cond /\ todo'[3].at = Len(text)
           /\ Rewritten(text, text', p) /\ Len(text') = Len(text) + 1
           /\ text'[p + 1].x = Len(text) - p
           /\ text'[Len(text) + 1].op = "jmp" /\ text'[Len(text) + 1].x = Unset
           /\ relas' = relas /\ UNCHANGED <<tree, phase, outcome, scopes, frame, frames>>
  <1> DEFINE it == Head(todo)
             x  == Displace(after_jmp, it.at)
             i  == I("jmp", 0, 0, Unset)
             c  == Jump("endif", level, depth, it.cond, rip)
  <1>1. /\ At("else") /\ text' = Append(Patch(it.at, x), i) /\ relas' = relas /\ Keep
        /\ Do(Body(level, depth) \o <<c>>)
    BY DEF Else
  <1>2. /\ Running /\ todo[1].k = "else" /\ it = todo[1] /\ it.at \in Nat
        /\ text \in Seq(InstrType) /\ Len(text) \in Nat
    BY <1>1, ClosedIs DEF Owed
  <1>3. i \in InstrType /\ i.op = "jmp" /\ i.x = Unset
    BY OpcodesAre, OpIs DEF I, Unset, Op
  <1>4. x \in Int /\ x = Len(text) - it.at
    BY <1>2 DEF Displace, after_jmp, rip
  <1>5. c.k = "endif" /\ c.cond = todo[1].cond /\ c.at = Len(text)
    BY <1>2 DEF Jump, rip
  <1> HIDE DEF c, i, x, it
  <1>6. /\ Shift(3) /\ todo'[1].k = "stmt" /\ todo'[2].k = "more" /\ todo'[3] = c
    BY <1>1, PutsBody
  <1>7. /\ Rewritten(text, text', it.at) /\ text'[it.at + 1].x = x
        /\ Len(text') = Len(text) + 1 /\ text'[Len(text) + 1] = i
    BY <1>1, <1>2, <1>3, <1>4, PatchedAre
  <1> QED BY <1>1, <1>2, <1>3, <1>4, <1>5, <1>6, <1>7, KeptByExprs

LEMMA EndWhileIs ==
    ASSUME CompilerInv, EndWhile, todo[1].at < Len(text)
    PROVE  LET p == todo[1].at IN
           /\ Running /\ Shift(0) /\ todo[1].k = "endwhile"
           /\ Rewritten(text, text', p) /\ Len(text') = Len(text) + 1
           /\ text'[p + 1].x = Len(text) - p
           /\ text'[Len(text) + 1].op = "jmp"
           /\ text'[Len(text) + 1].x = todo[1].cond - Len(text) - 1
           /\ scopes' = PopScope
           /\ relas' = relas /\ UNCHANGED <<tree, phase, outcome, frame, frames>>
  <1> DEFINE it == Head(todo)
             x  == Displace(after_jmp, it.at)
             y  == Displace(it.cond, rip)
             i  == I("jmp", 0, 0, y)
  <1>1. /\ At("endwhile") /\ text' = Append(Patch(it.at, x), i)
        /\ scopes' = PopScope /\ Do(<<>>)
        /\ relas' = relas /\ UNCHANGED <<tree, phase, outcome, frame, frames>>
    BY DEF EndWhile, control, aux
  <1>2. /\ Running /\ todo[1].k = "endwhile" /\ it = todo[1] /\ it.at \in Nat /\ it.cond \in Nat
        /\ text \in Seq(InstrType) /\ Len(text) \in Nat
    BY <1>1, ClosedIs DEF Owed
  <1>3. x \in Int /\ x = Len(text) - it.at /\ y \in Int /\ y = it.cond - Len(text) - 1
    BY <1>2 DEF Displace, after_jmp, rip
  <1> HIDE DEF y
  <1>4. i \in InstrType /\ i.op = "jmp" /\ i.x = y
    BY <1>3, Zero, OpcodesAre, InstrIs DEF I
  <1> HIDE DEF i, x, it
  <1>5. Shift(0)
    BY <1>1, PutsNone
  <1>6. /\ Rewritten(text, text', it.at) /\ text'[it.at + 1].x = x
        /\ Len(text') = Len(text) + 1 /\ text'[Len(text) + 1] = i
    <2>1. /\ text \in Seq(InstrType) /\ it.at \in Nat /\ it.at < Len(text) /\ x \in Int
          /\ i \in InstrType /\ text' = Append(Patch(it.at, x), i)
      BY <1>1, <1>2, <1>3, <1>4
    <2> QED BY <2>1, PatchedAre
  <1> QED BY <1>1, <1>2, <1>3, <1>4, <1>5, <1>6

LEMMA EndIfIs ==
    ASSUME CompilerInv, EndIf, todo[1].at < Len(text)
    PROVE  LET p == todo[1].at IN
           /\ Running /\ Shift(0) /\ todo[1].k = "endif"
           /\ Rewritten(text, text', p) /\ Len(text') = Len(text)
           /\ text'[p + 1].x = Len(text) - p - 1
           /\ scopes' = PopScope
           /\ relas' = relas /\ UNCHANGED <<tree, phase, outcome, frame, frames>>
  <1> DEFINE it == Head(todo)
             x  == Displace(rip, it.at)
  <1>1. /\ At("endif") /\ text' = Patch(it.at, x)
        /\ scopes' = PopScope /\ Do(<<>>)
        /\ relas' = relas /\ UNCHANGED <<tree, phase, outcome, frame, frames>>
    BY DEF EndIf, control, aux
  <1>2. /\ Running /\ todo[1].k = "endif" /\ it = todo[1] /\ it.at \in Nat
        /\ text \in Seq(InstrType) /\ Len(text) \in Nat
    BY <1>1, ClosedIs DEF Owed
  <1>3. x \in Int /\ x = Len(text) - it.at - 1
    BY <1>2 DEF Displace, rip
  <1> HIDE DEF x, it
  <1>4. Shift(0)
    BY <1>1, PutsNone
  <1>5. /\ Rewritten(text, text', it.at) /\ text'[it.at + 1].x = x /\ Len(text') = Len(text)
    BY <1>1, <1>2, <1>3, PatchedAre
  <1> QED BY <1>1, <1>2, <1>3, <1>4, <1>5

(* The instruction to be patched is there.                                 *)
LEMMA MarkInside ==
    ASSUME CompilerInv, RelasInv, NEW k \in Marks, At(k)
    PROVE  todo[1].k = k /\ todo[1].at \in Nat /\ todo[1].at < Len(text)
  <1>1. todo[1].k = k /\ 1 \in 1..Len(todo)
    BY HeadFirst
  <1>2. todo[1].at \in Nat /\ todo[1].at + 1 \in 1..Len(text)
    BY <1>1 DEF RelasInv, ToPatch, Patched
  <1> QED BY <1>1, <1>2

LEMMA EndDefineIs ==
    ASSUME CompilerInv, RelasInv, EndDefine
    PROVE  LET p == todo[1].at IN
           /\ Running /\ Shift(0) /\ todo[1].k = "enddefine" /\ p \in Nat /\ p < Len(text)
           /\ Rewritten(text, text', p) /\ Len(text') = Len(text)
           /\ text'[p + 1].x = Imm(Align(frame, 16))
           /\ frames' = frames \union {[sub |-> p, last |-> Len(text) - 1, size |-> frame]}
           /\ scopes' = PopScope /\ frame' = 0
           /\ relas' = relas /\ UNCHANGED <<tree, phase, outcome>>
  <1> DEFINE it == Head(todo)
             x  == Imm(Align(frame, 16))
  <1>1. /\ At("enddefine") /\ text' = Patch(it.at, x)
        /\ frames' = frames \union {[sub |-> it.at, last |-> rip - 1, size |-> frame]}
        /\ scopes' = PopScope /\ frame' = 0 /\ Do(<<>>)
        /\ relas' = relas /\ UNCHANGED <<tree, phase, outcome>>
    BY DEF EndDefine, control
  <1>2. /\ Running /\ todo[1].k = "enddefine" /\ it = todo[1] /\ it.at \in Nat
        /\ it.at < Len(text)
    <2>1. "enddefine" \in Marks
      BY DEF Marks
    <2> QED BY <1>1, <2>1, HeadFirst, MarkInside DEF At
  <1>3. text \in Seq(InstrType) /\ Len(text) \in Nat /\ frame \in Nat
    BY DEF CompilerInv, TypeOK
  <1>4. x \in Int
    <2>1. Align(frame, 16) \in Int
      BY <1>3 DEF Align
    <2> QED BY <2>1, ImmIs
  <1> HIDE DEF x, it
  <1>5. Shift(0)
    BY <1>1, PutsNone
  <1>6. /\ Rewritten(text, text', it.at) /\ text'[it.at + 1].x = x /\ Len(text') = Len(text)
    BY <1>1, <1>2, <1>3, <1>4, PatchedAre
  <1> QED BY <1>1, <1>2, <1>3, <1>5, <1>6 DEF rip, x

(* A prologue, and a body to compile.                                      *)
LEMMA DefineIs ==
    ASSUME CompilerInv, compile_define
    PROVE  /\ Running /\ todo = <<>> /\ Len(todo') = 3
           /\ todo'[1].k = "stmt" /\ todo'[2].k = "more"
           /\ todo'[3].k = "enddefine" /\ todo'[3].at = Len(text) + 2
           /\ Rewritten(text, text', Nowhere) /\ Len(text') = Len(text) + 3
           /\ text'[Len(text) + 1].op = "push rbp" /\ text'[Len(text) + 2].op = "mov rbp, rsp"
           /\ text'[Len(text) + 3].op = "sub rsp, frame"
           /\ relas' = relas /\ UNCHANGED <<tree, phase, outcome, frame, frames>>
  <1> DEFINE u == Op("push rbp")
             v == Op("mov rbp, rsp")
             w == I("sub rsp, frame", 0, 0, Unset)
             c == Jump("enddefine", level, depth + 1, 0, rip + 2)
             a == It("stmt", level, depth + 1)
             b == It("more", level, depth + 1)
             e == <<u, v, w>>
             S == {u, v, w}
  <1>1. /\ AtTop("define") /\ text' = text \o e /\ todo' = Body(level, depth + 1) \o <<c>>
        /\ relas' = relas /\ UNCHANGED <<tree, phase, outcome, frame, frames>>
    BY DEF compile_define, Emit, aux
  <1>2. /\ a.k = "stmt" /\ b.k = "more" /\ c.k = "enddefine" /\ c.at = rip + 2
        /\ Body(level, depth + 1) = <<a, b>>
    BY DEF It, Jump, Body
  <1>3. u.op = "push rbp" /\ v.op = "mov rbp, rsp" /\ w.op = "sub rsp, frame"
    BY DEF Op, I
  <1>4. e \in Seq(S) /\ Len(e) = 3 /\ e[1] = u /\ e[2] = v /\ e[3] = w
    OBVIOUS
  <1> HIDE DEF u, v, w, c, a, b, e, S
  <1>5. todo' = <<a, b, c>>
    BY <1>1, <1>2, ShortConcat
  <1>6. Emits(S)
    BY <1>1, <1>4 DEF Emits
  <1>7. text \in Seq(InstrType) /\ e \in Seq(S)
    BY <1>4 DEF CompilerInv, TypeOK
  <1>8. /\ Len(text) \in Nat /\ Len(text') = Len(text) + Len(e)
        /\ \A i \in 1..Len(e) : text'[Len(text) + i] = e[i]
    <2>1. text' = text \o e
      BY <1>1
    <2> QED BY <1>7, <2>1
  <1>9. 1 \in 1..3 /\ 2 \in 1..3 /\ 3 \in 1..3
    OBVIOUS
  <1>10. text'[Len(text) + 1] = u /\ text'[Len(text) + 2] = v /\ text'[Len(text) + 3] = w
    BY <1>4, <1>8, <1>9
  <1>11. Rewritten(text, text', Nowhere)
    BY <1>6, EmitsAre
  <1>12. Len(text') = Len(text) + 3
    BY <1>4, <1>8
  <1>13. Len(todo') = 3 /\ todo'[1] = a /\ todo'[2] = b /\ todo'[3] = c
    BY <1>5
  <1> QED BY <1>1, <1>2, <1>3, <1>10, <1>11, <1>12, <1>13 DEF AtTop, rip

(* The initialiser of a global.                                            *)
LEMMA GlobalAssignIs ==
    ASSUME GlobalAssign
    PROVE  /\ Running /\ todo = <<>> /\ Len(todo') = 2 /\ AssignBegun
  <1> DEFINE x == Expr(level, depth)
             y == Assign(level + 1, depth, tree[top].id, tree[top].n, rip)
  <1>1. /\ AtTop("assign") /\ todo' = <<x, y>>
        /\ UNCHANGED <<tree, phase, outcome, storage, code, aux>>
    BY DEF GlobalAssign
  <1>2. x.k = "expr" /\ y.k = "assign" /\ y.at = Len(text)
    BY DEF Expr, Assign, rip
  <1> HIDE DEF x, y
  <1>3. Len(todo') = 2 /\ todo'[1] = x /\ todo'[2] = y
    BY <1>1
  <1> QED BY <1>1, <1>2, <1>3 DEF AssignBegun, AtTop, storage, code, aux

(* Nothing is emitted, and nothing is left to be compiled.                 *)
LEMMA SecondPassIs ==
    ASSUME SecondPass
    PROVE  /\ phase = "pass1" /\ todo = <<>> /\ todo' = <<>> /\ text' = <<>> /\ relas' = <<>>
           /\ Len(text') = 0 /\ frames' = {} /\ frame' = frame /\ tree' = tree
           /\ (outcome' = outcome /\ phase' = "pass2") \/ (outcome' = "unbalanced" /\ phase' = "end")
  <1>1. Len(<<>>) = 0
    BY EmptySeq
  <1> QED BY <1>1 DEF SecondPass, section_free

Rejections == \/ DefineRejected \/ VariableRejected \/ OperatorRejected
              \/ CallRejected \/ AssignRejected \/ CallStmtRejected
LEMMA RejectedIs ==
    ASSUME Rejections
    PROVE  /\ Running /\ todo' = <<>>
           /\ \/ phase' = "end" /\ outcome' = "syntax"
              \/ phase' = "start" /\ outcome' = "second"
           /\ UNCHANGED <<tree, scopes, frame, text, relas, frames>>
  <1>1. Fail
    BY DEF Rejections, DefineRejected, VariableRejected, OperatorRejected, CallRejected,
           AssignRejected, CallStmtRejected
  <1>2. Running
    BY DEF Rejections, DefineRejected, VariableRejected, OperatorRejected, CallRejected,
           AssignRejected, CallStmtRejected, ReadExpr, ReadStmt, At, AtTop
  <1> QED BY <1>1, <1>2 DEF Fail, storage, code, aux

Quiet == UNCHANGED <<tree, todo, text, relas, frame, frames>> /\ outcome' \in {outcome, "nomain"}
LEMMA QuietIs ==
    ASSUME Declare \/ Declared \/ CompilePassEnd \/ Terminating \/ UNCHANGED vars
    PROVE  /\ Quiet
           /\ \/ phase' = phase /\ outcome' = outcome
              \/ phase' \in {"start", "end"}
              \/ phase = "declare" /\ outcome' = outcome
  BY DEF Quiet, Declare, Declared, CompilePassEnd, Terminating, vars, control, storage, code, aux

LEMMA ThreeConcat ==
    ASSUME NEW B, NEW C, NEW s \in Seq(B), NEW a \in Seq(C), NEW b \in Seq(C)
    PROVE  (s \o a) \o b = s \o (a \o b)
  <1> DEFINE D == B \union C
  <1>1. s \in Seq(D) /\ a \in Seq(D) /\ b \in Seq(D)
    OBVIOUS
  <1> HIDE DEF D
  <1> QED BY <1>1, ConcatAssociative

(* The code of _start.                                                     *)
LEMMA StartIs ==
    ASSUME CompilerInv, compile_start
    PROVE  /\ phase = "start" /\ phase' = "end" /\ start' = Len(text) /\ Emits(Flat(0))
           /\ outcome' = IF outcome = "none" THEN "ok" ELSE outcome
           /\ UNCHANGED <<tree, todo, relas, scopes, frame, frames>>
           /\ \A i \in 1..Len(StartTargets) :
                 /\ Len(text) + i \in 1..Len(text') /\ text'[Len(text) + i].op = "call"
                 /\ text'[Len(text) + i].x = StartTargets[i] - (Len(text) + i - 1) - 1
  <1> DEFINE n     == Len(StartTargets)
             f(i)  == I("call", 0, 0, Displace(StartTargets[i], rip + i - 1))
             calls == [i \in 1..n |-> f(i)]
             exit  == << Op("mov rdi, rax"), Op("mov rax, 0x3c"), Op("syscall") >>
  <1>1. /\ phase = "start" /\ phase' = "end" /\ text' = text \o calls \o exit /\ start' = Len(text)
        /\ outcome' = IF outcome = "none" THEN "ok" ELSE outcome
        /\ UNCHANGED <<tree, todo, relas, scopes, frame, frames>>
    BY DEF compile_start, storage, aux, rip
  <1>2. n \in Nat /\ rip \in Nat /\ \A i \in 1..n : StartTargets[i] \in Nat
    <2>1. StartTargets \in Seq(Nat)
      BY <1>1, StartTargetsAre
    <2> QED BY <2>1, AddressIs, LenProperties
  <1>3. \A i \in 1..n : /\ f(i).op = "call"
                        /\ f(i).x = StartTargets[i] - (Len(text) + i - 1) - 1
    BY DEF I, Displace, rip
  <1>4. \A i \in 1..n : f(i) \in Flat(0)
    <2> HIDE DEF n
    <2>1. \A i \in 1..n : Displace(StartTargets[i], rip + i - 1) \in Int
      BY <1>2 DEF Displace
    <2>2. "call" \in Opcodes \ Unsteady
      BY FlatOps
    <2> QED BY <2>1, <2>2, Zero, FlatIs, Zenon
  <1>5. exit \in Seq(Flat(0))
    <2>1. /\ "mov rdi, rax" \in Opcodes \ Unsteady /\ "mov rax, 0x3c" \in Opcodes \ Unsteady
          /\ "syscall" \in Opcodes \ Unsteady
      BY FlatOps
    <2>2. Op("mov rdi, rax") \in Flat(0) /\ Op("mov rax, 0x3c") \in Flat(0) /\ Op("syscall") \in Flat(0)
      BY <2>1, FlatOp, Zenon
    <2> QED BY <2>2, ShortSeqs
  <1> HIDE DEF n, f, exit
  <1>6. calls \in Seq(Flat(0)) /\ Len(calls) = n /\ \A i \in 1..n : calls[i] = f(i)
    BY <1>2, <1>4
  <1> HIDE DEF calls
  <1>7. text \in Seq(InstrType)
    BY DEF CompilerInv, TypeOK
  <1> DEFINE b == calls \o exit
  <1>8. b \in Seq(Flat(0)) /\ Len(b) >= n /\ \A i \in 1..n : b[i] = f(i)
    BY <1>2, <1>5, <1>6
  <1>9. text' = text \o b
    <2>1. text' = (text \o calls) \o exit
      BY <1>1
    <2>2. calls \in Seq(Flat(0)) /\ exit \in Seq(Flat(0))
      BY <1>5, <1>6
    <2> QED BY <1>7, <2>1, <2>2, ThreeConcat
  <1> HIDE DEF b
  <1>10. Emits(Flat(0))
    BY <1>8, <1>9 DEF Emits
  <1>11. /\ Len(text) \in Nat /\ Len(b) \in Nat /\ Len(text') = Len(text) + Len(b)
         /\ \A i \in 1..Len(b) : text'[Len(text) + i] = b[i]
    <2>1. b \in Seq(Flat(0))
      BY <1>8
    <2> QED BY <1>7, <1>9, <2>1
  <1>12. ASSUME NEW i \in 1..n
         PROVE  /\ Len(text) + i \in 1..Len(text') /\ text'[Len(text) + i].op = "call"
                /\ text'[Len(text) + i].x = StartTargets[i] - (Len(text) + i - 1) - 1
    <2>1. i \in 1..Len(b) /\ Len(text) + i \in 1..Len(text')
      BY <1>2, <1>8, <1>11
    <2> QED BY <1>3, <1>8, <1>11, <2>1
  <1> QED BY <1>1, <1>10, <1>12 DEF n

(* Every step is one of these.                                             *)
LEMMA StepCases ==
    ASSUME [Next]_vars
    PROVE  \/ ExprHandlers \/ StmtHandlers \/ AssignStmt
           \/ Conditional \/ TestCondition \/ Else \/ EndWhile \/ EndIf \/ EndDefine
           \/ compile_define \/ GlobalAssign \/ SecondPass \/ compile_start \/ Rejections
           \/ Declare \/ Declared \/ CompilePassEnd \/ Terminating \/ UNCHANGED vars
  BY Zenon DEF Next, ExprHandlers, StmtHandlers, Rejections

(* The walk.                                                               *)

(* A function ends where the control stack does, a pass that fails ends    *)
(* there, and nothing is left to be compiled when the passes are over.     *)
EndLast  == \A l \in 1..Len(todo) : todo[l].k = "enddefine" => l = Len(todo)
RunsLive == phase \in {"declare", "pass1", "pass2"} => outcome = "none"
Idle     == ~Running => todo = <<>>
WalkInv  == AddendsOK /\ EndLast /\ RunsLive /\ Idle
CodeInv  == CompilerInv /\ ScopesInv /\ RelasInv /\ WalkInv

LEMMA WalkShift ==
    ASSUME AddendsOK, EndLast, NEW n, Shift(n), frame \in Nat, frame' \in Nat, frame' >= frame,
           CompilerInv,
           \A i \in 1..n : todo'[i].k # "enddefine" /\ Fine(todo'[i])
    PROVE  AddendsOK' /\ EndLast'
  <1>1. ASSUME NEW l \in 1..Len(todo')
        PROVE  /\ todo'[l].k \in {"load", "store"} /\ todo'[l].vis = "local" => -frame' <= todo'[l].addend
               /\ todo'[l].k = "enddefine" => l = Len(todo')
    <2>1. CASE l \in 1..n
      BY <2>1 DEF Fine
    <2>2. CASE l \notin 1..n
      <3>1. l - n + 1 \in 2..Len(todo) /\ todo'[l] = todo[l - n + 1] /\ n \in Nat
            /\ Len(todo') = n + Len(todo) - 1 /\ Len(todo) \in Nat
        BY <2>2, Shifted DEF Shift
      <3>2. l - n + 1 \in 1..Len(todo)
        BY <3>1
      <3>3. todo'[l].k = "enddefine" => l = Len(todo')
        BY <3>1, <3>2 DEF EndLast
      <3>4. todo'[l].k \in {"load", "store"} /\ todo'[l].vis = "local" => -frame' <= todo'[l].addend
        <4>1. SUFFICES ASSUME todo'[l].k \in {"load", "store"}, todo'[l].vis = "local"
                       PROVE  -frame' <= todo'[l].addend
          OBVIOUS
        <4>2. -frame <= todo[l - n + 1].addend
          BY <3>1, <3>2, <4>1 DEF AddendsOK
        <4>3. todo[l - n + 1] \in ItemType
          BY <3>2, ItemTypes
        <4>4. todo'[l].addend \in Int
          <5>1. todo'[l] \in ItemType /\ todo'[l].k \in {"load", "store"}
            BY <3>1, <4>1, <4>3
          <5> QED BY <5>1 DEF ItemType
        <4> QED BY <3>1, <4>2, <4>4
      <3> QED BY <3>3, <3>4
    <2> QED BY <2>1, <2>2
  <1> QED BY <1>1 DEF AddendsOK, EndLast

LEMMA WalkStep ==
    ASSUME CompilerInv, ScopesInv, RelasInv, WalkInv, [Next]_vars
    PROVE  WalkInv'
  <1> USE DEF WalkInv
  <1>1. CompilerInv'
    BY StepInv
  <1>2. frame \in Nat /\ frame' \in Nat
    BY <1>1 DEF CompilerInv, TypeOK
  <1>3. ASSUME todo' = <<>>
        PROVE  AddendsOK' /\ EndLast'
    <2>1. Len(todo') = 0 /\ 1..0 = {}
      BY <1>3, EmptySeq
    <2> QED BY <2>1 DEF AddendsOK, EndLast
  <1>4. ASSUME Running, phase' = phase, outcome' = outcome
        PROVE  RunsLive' /\ Idle'
    BY <1>4 DEF RunsLive, Idle, Running
  <1>5. ASSUME NEW C, NEW K, Calm(C, K), "enddefine" \notin K, frame' >= frame
        PROVE  AddendsOK' /\ EndLast'
    <2>1. PICK n \in Nat : Shift(n) /\ \A i \in 1..n : todo'[i].k \in K /\ Fine(todo'[i])
      BY <1>5 DEF Calm, Moves
    <2> QED BY <1>2, <1>5, <2>1, WalkShift
  <1>6. "enddefine" \notin ExprKinds /\ "enddefine" \notin BodyKinds /\ "enddefine" \notin StmtKinds
    BY DEF ExprKinds, BodyKinds, StmtKinds
  <1>7. CASE ExprHandlers
    <2>1. ExprHandled
      BY <1>7, ExprsHandled
    <2>2. phase' = phase /\ outcome' = outcome /\ frame' >= frame /\ Calm(Flat(frame), ExprKinds)
      BY <1>2, <2>1 DEF ExprHandled
    <2>3. Running
      BY <2>2 DEF Calm
    <2> QED BY <1>4, <1>5, <1>6, <2>2, <2>3
  <1>8. CASE StmtHandlers
    <2>1. StmtHandled
      BY <1>8, StmtsHandled
    <2>2. phase' = phase /\ outcome' = outcome /\ frame' >= frame /\ Calm(Tame(frame'), BodyKinds)
      BY <1>2, <2>1 DEF StmtHandled
    <2>3. Running
      BY <2>2 DEF Calm
    <2> QED BY <1>4, <1>5, <1>6, <2>2, <2>3
  <1>9. CASE AssignStmt
    <2>1. phase' = phase /\ outcome' = outcome /\ frame' >= frame /\ Calm(Tame(frame'), StmtKinds)
      BY <1>2, <1>9, AssignHandled DEF AssignBegun
    <2>2. Running
      BY <2>1 DEF Calm
    <2> QED BY <1>4, <1>5, <1>6, <2>1, <2>2
  <1>10. CASE Conditional \/ TestCondition \/ Else \/ EndWhile \/ EndIf
    <2>1. /\ Running /\ phase' = phase /\ outcome' = outcome /\ frame' = frame
          /\ \E n \in {0, 2, 3} : Shift(n) /\ \A i \in 1..n :
                 todo'[i].k \notin {"enddefine", "load", "store", "assign"}
      <3>1. CASE Conditional
        <4>1. \A i \in 1..2 : i = 1 \/ i = 2
          OBVIOUS
        <4> QED BY <3>1, <4>1, ConditionalIs DEF Tests
      <3>2. CASE TestCondition
        <4>1. \A i \in 1..3 : i = 1 \/ i = 2 \/ i = 3
          OBVIOUS
        <4> QED BY <3>2, <4>1, TestIs DEF Owed
      <3>3. ASSUME NEW k \in Owed, At(k)
            PROVE  todo[1].at < Len(text)
        BY <3>3, MarkInside DEF Owed, Marks
      <3>4. CASE Else
        <4>1. todo[1].at < Len(text)
          BY <3>3, <3>4 DEF Else, Owed
        <4>2. \A i \in 1..3 : i = 1 \/ i = 2 \/ i = 3
          OBVIOUS
        <4> QED BY <3>4, <4>1, <4>2, ElseIs
      <3>5. CASE EndWhile
        <4>1. todo[1].at < Len(text)
          BY <3>3, <3>5 DEF EndWhile, Owed
        <4> QED BY <3>5, <4>1, EndWhileIs
      <3>6. CASE EndIf
        <4>1. todo[1].at < Len(text)
          BY <3>3, <3>6 DEF EndIf, Owed
        <4> QED BY <3>6, <4>1, EndIfIs
      <3> QED BY <1>10, <3>1, <3>2, <3>4, <3>5, <3>6
    <2>2. PICK n \in {0, 2, 3} : Shift(n) /\ \A i \in 1..n :
                 todo'[i].k \notin {"enddefine", "load", "store", "assign"}
      BY <2>1
    <2>3. \A i \in 1..n : todo'[i].k # "enddefine" /\ Fine(todo'[i])
      BY <2>2 DEF Fine
    <2> QED BY <1>2, <1>4, <2>1, <2>2, <2>3, WalkShift
  <1>11. CASE EndDefine
    <2>1. /\ Running /\ phase' = phase /\ outcome' = outcome
          /\ Shift(0) /\ todo[1].k = "enddefine"
      BY <1>11, EndDefineIs
    <2>2. Len(todo') = 0
      BY <2>1 DEF Shift, EndLast
    <2>3. todo' = <<>>
      BY <1>1, <2>2, EmptySeq DEF CompilerInv, TypeOK
    <2> QED BY <1>3, <1>4, <2>1, <2>3
  <1>12. CASE compile_define
    <2>1. /\ Running /\ phase' = phase /\ outcome' = outcome /\ Len(todo') = 3
          /\ todo'[1].k = "stmt" /\ todo'[2].k = "more" /\ todo'[3].k = "enddefine"
      BY <1>12, DefineIs
    <2>2. \A l \in 1..3 : l = 1 \/ l = 2 \/ l = 3
      OBVIOUS
    <2> QED BY <1>4, <2>1, <2>2 DEF AddendsOK, EndLast
  <1>13. CASE GlobalAssign
    <2>1. /\ Running /\ phase' = phase /\ outcome' = outcome /\ Len(todo') = 2
          /\ todo'[1].k = "expr" /\ todo'[2].k = "assign"
      BY <1>13, GlobalAssignIs DEF AssignBegun
    <2>2. \A l \in 1..2 : l = 1 \/ l = 2
      OBVIOUS
    <2> QED BY <1>4, <2>1, <2>2 DEF AddendsOK, EndLast
  <1>14. CASE SecondPass
    BY <1>3, <1>14, SecondPassIs DEF RunsLive, Idle
  <1>15. CASE compile_start
    <2>1. phase = "start" /\ phase' = "end" /\ todo' = todo /\ frame' = frame
      BY <1>15, StartIs
    <2> QED BY <2>1 DEF RunsLive, AddendsOK, EndLast, Idle, Running
  <1>16. CASE Rejections
    BY <1>3, <1>16, RejectedIs DEF RunsLive, Idle
  <1>17. CASE Declare \/ Declared \/ CompilePassEnd \/ Terminating \/ UNCHANGED vars
    <2>1. todo' = todo /\ frame' = frame
      BY <1>17, QuietIs DEF Quiet
    <2>2. RunsLive'
      BY <1>17, QuietIs DEF RunsLive
    <2>3. Idle'
      <3>1. phase' = phase \/ ~Running \/ todo = <<>>
        BY <1>17 DEF Running, Declare, Declared, CompilePassEnd, Terminating, vars, control
      <3> QED BY <2>1, <3>1 DEF Idle, Running
    <2> QED BY <2>1, <2>2, <2>3 DEF AddendsOK, EndLast
  <1> QED BY <1>7, <1>8, <1>9, <1>10, <1>11, <1>12, <1>13, <1>14, <1>15, <1>16, <1>17, StepCases

LEMMA AlwaysCode == Spec => []CodeInv
  <1>1. Init => RelasInv /\ WalkInv
    <2> SUFFICES ASSUME Init
                 PROVE  RelasInv /\ WalkInv
      OBVIOUS
    <2>1. Len(<<>>) = 0 /\ 1..0 = {} /\ todo = <<>>
      BY EmptySeq DEF Init
    <2> QED BY <2>1, EmptyRelas DEF Init, WalkInv, AddendsOK, EndLast, RunsLive, Idle
  <1>2. CompilerInv /\ ScopesInv /\ RelasInv /\ WalkInv /\ [Next]_vars => RelasInv' /\ WalkInv'
    BY StepRelas, WalkStep
  <1> QED BY <1>1, <1>2, Invariant, AlwaysScopes, PTL DEF Spec, CodeInv

(* Jumps and loops.                                                        *)

(* The jumps of the code s, where they lead, and those that are finished.  *)
JumpsIn(s)  == {a \in 0..(Len(s) - 1) : s[a + 1].op \in {"je", "jmp"}}
Leads(s, a) == a + 1 + s[a + 1].x
DoneIn(s)   == {a \in JumpsIn(s) : s[a + 1].x # Unset}

(* The jump at b goes back: one je leaves the loop, to the address after   *)
(* it, no other jump does, none leads inside and none that is owed is      *)
(* there.                                                                  *)
Closed(s, O, b) ==
    /\ \E e \in DoneIn(s) : /\ s[e + 1].op = "je" /\ Leads(s, e) = b + 1
                            /\ Leads(s, b) <= e /\ e <= b
    /\ \A a \in DoneIn(s) :
          /\ Leads(s, b) <= a /\ a <= b /\ (Leads(s, a) < Leads(s, b) \/ Leads(s, a) > b) =>
                s[a + 1].op = "je" /\ Leads(s, a) = b + 1
          /\ a < Leads(s, b) \/ a > b => Leads(s, a) <= Leads(s, b) \/ Leads(s, a) > b
    /\ \A o \in O : o < Leads(s, b) \/ o > b

(* The unfinished jumps are those owed, O; the others lead into the code,  *)
(* on the side of each of the addresses C that they are on, and close      *)
(* their loops.                                                            *)
JumpsOK(s, O, C) ==
    /\ \A a \in JumpsIn(s) : a \in DoneIn(s) \/ a \in O
    /\ \A a \in DoneIn(s) : Leads(s, a) \in 0..Len(s)
    /\ \A a \in DoneIn(s) : \A c \in C :
          /\ a >= c => Leads(s, a) >= c
          /\ a < c => Leads(s, a) <= c
    /\ \A b \in DoneIn(s) : Leads(s, b) <= b => Closed(s, O, b)

LEMMA SameJumps ==
    ASSUME NEW s, NEW t, NEW p \in Int, Rewritten(s, t, p), p \notin DoneIn(s)
    PROVE  /\ \A a \in DoneIn(s) :
                 /\ a \in DoneIn(t) /\ Leads(t, a) = Leads(s, a) /\ t[a + 1].op = s[a + 1].op
                 /\ a \in Nat /\ a < Len(s)
           /\ \A a \in JumpsIn(t) : (a \in JumpsIn(s) /\ a < Len(s)) \/ (a \in Nat /\ a >= Len(s))
           /\ \A a \in DoneIn(t) : a \in DoneIn(s) \/ a = p \/ (a \in Nat /\ a >= Len(s))
  BY DEF Rewritten, JumpsIn, DoneIn, Leads

(* Code is added; its jumps are owed.                                      *)
LEMMA JumpsGrown ==
    ASSUME NEW s, NEW t, NEW O, NEW C, NEW P, NEW D, JumpsOK(s, O, C), Rewritten(s, t, Nowhere),
           \A a \in JumpsIn(t) : a >= Len(s) => a \notin DoneIn(t) /\ a \in P,
           \A o \in O : o \in P, \A o \in P : o \in Nat /\ (o \in O \/ o >= Len(s)),
           \A c \in D : c \in Nat /\ (c \in C \/ c = Len(s))
    PROVE  JumpsOK(t, P, D)
  <1>1. Len(s) \in Nat /\ Len(t) \in Nat /\ Len(t) >= Len(s)
    BY DEF Rewritten
  <1>2. \A a \in DoneIn(s) : /\ a \in DoneIn(t) /\ Leads(t, a) = Leads(s, a)
                             /\ t[a + 1].op = s[a + 1].op
                             /\ a \in Nat /\ a < Len(s) /\ Leads(s, a) \in 0..Len(s)
    BY SameJumps DEF JumpsOK, Nowhere, DoneIn, JumpsIn
  <1>3. \A a \in DoneIn(t) : a \in DoneIn(s)
    <2>1. Nowhere \in Int /\ Nowhere \notin DoneIn(s) /\ Nowhere \notin DoneIn(t)
      BY DEF Nowhere, DoneIn, JumpsIn
    <2>2. \A a \in DoneIn(t) : a \in DoneIn(s) \/ a >= Len(s)
      BY <2>1, SameJumps
    <2>3. \A a \in DoneIn(t) : a \in JumpsIn(t)
      BY DEF DoneIn
    <2> QED BY <2>2, <2>3
  <1>4. \A a \in JumpsIn(t) : a \in DoneIn(t) \/ a \in P
    <2>1. \A a \in JumpsIn(t) : a \in JumpsIn(s) \/ a >= Len(s)
      BY SameJumps DEF Nowhere, DoneIn, JumpsIn
    <2> QED BY <1>2, <2>1 DEF JumpsOK
  <1>5. \A a \in DoneIn(t) : Leads(t, a) \in 0..Len(t)
    BY <1>1, <1>2, <1>3
  <1>6. ASSUME NEW a \in DoneIn(t), NEW c \in D
        PROVE  (a >= c => Leads(t, a) >= c) /\ (a < c => Leads(t, a) <= c)
    BY <1>1, <1>2, <1>3 DEF JumpsOK
  <1>7. ASSUME NEW b \in DoneIn(t), Leads(t, b) <= b
        PROVE  Closed(t, P, b)
    <2>1. b \in DoneIn(s) /\ Leads(t, b) = Leads(s, b) /\ Closed(s, O, b) /\ b < Len(s) /\ b \in Nat
      BY <1>2, <1>3, <1>7 DEF JumpsOK
    <2>2. \E e \in DoneIn(t) : /\ t[e + 1].op = "je" /\ Leads(t, e) = b + 1
                               /\ Leads(t, b) <= e /\ e <= b
      BY <1>2, <2>1 DEF Closed
    <2>3. \A o \in P : o < Leads(t, b) \/ o > b
      BY <1>1, <2>1 DEF Closed
    <2>4. \A a \in DoneIn(t) :
             /\ Leads(t, b) <= a /\ a <= b /\ (Leads(t, a) < Leads(t, b) \/ Leads(t, a) > b) =>
                   t[a + 1].op = "je" /\ Leads(t, a) = b + 1
             /\ a < Leads(t, b) \/ a > b => Leads(t, a) <= Leads(t, b) \/ Leads(t, a) > b
      BY <1>2, <1>3, <2>1 DEF Closed
    <2> QED BY <2>2, <2>3, <2>4 DEF Closed
  <1> QED BY <1>4, <1>5, <1>6, <1>7 DEF JumpsOK

(* The jump at p, which is not in a loop, gets its target, past the code.  *)
LEMMA JumpsLanded ==
    ASSUME NEW s, NEW t, NEW O, NEW C, NEW P, NEW D, JumpsOK(s, O, C),
           NEW p \in Nat, p \in O, p \in JumpsIn(s), p \notin DoneIn(s), Rewritten(s, t, p),
           p \in DoneIn(t), Leads(t, p) \in Len(s)..Len(t), Leads(t, p) > p,
           \A a \in JumpsIn(t) : a >= Len(s) => a \notin DoneIn(t) /\ a \in P,
           \A o \in O : o = p \/ o \in P, \A o \in P : o \in Nat /\ (o \in O \/ o >= Len(s)),
           \A c \in D : c \in Nat /\ c \in C /\ c <= p
    PROVE  JumpsOK(t, P, D)
  <1>1. Len(s) \in Nat /\ Len(t) \in Nat /\ Len(t) >= Len(s)
    BY DEF Rewritten
  <1>2. \A a \in DoneIn(s) : /\ a \in DoneIn(t) /\ Leads(t, a) = Leads(s, a)
                             /\ t[a + 1].op = s[a + 1].op
                             /\ a \in Nat /\ a < Len(s) /\ Leads(s, a) \in 0..Len(s)
    BY SameJumps DEF JumpsOK
  <1>3. \A a \in DoneIn(t) : a \in DoneIn(s) \/ a = p
    BY SameJumps DEF DoneIn
  <1>4. \A a \in JumpsIn(t) : a \in DoneIn(t) \/ a \in P
    <2>1. \A a \in JumpsIn(t) : a \in JumpsIn(s) \/ a >= Len(s)
      BY SameJumps
    <2> QED BY <1>2, <2>1 DEF JumpsOK
  <1>5. \A a \in DoneIn(t) : Leads(t, a) \in 0..Len(t)
    BY <1>1, <1>2, <1>3
  <1>6. ASSUME NEW a \in DoneIn(t), NEW c \in D
        PROVE  (a >= c => Leads(t, a) >= c) /\ (a < c => Leads(t, a) <= c)
    <2>1. CASE a = p
      BY <1>1, <2>1
    <2>2. CASE a \in DoneIn(s)
      BY <1>2, <2>2 DEF JumpsOK
    <2> QED BY <1>3, <2>1, <2>2
  <1>7. ASSUME NEW b \in DoneIn(t), Leads(t, b) <= b
        PROVE  Closed(t, P, b)
    <2>0. b # p
      BY <1>1, <1>7
    <2>1. b \in DoneIn(s) /\ Leads(t, b) = Leads(s, b) /\ Closed(s, O, b) /\ b < Len(s) /\ b \in Nat
      BY <1>2, <1>3, <1>7, <2>0 DEF JumpsOK
    <2>2. \E e \in DoneIn(t) : /\ t[e + 1].op = "je" /\ Leads(t, e) = b + 1
                               /\ Leads(t, b) <= e /\ e <= b
      BY <1>2, <2>1 DEF Closed
    <2>3. \A o \in P : o < Leads(t, b) \/ o > b
      BY <1>1, <2>1 DEF Closed
    <2>4. ASSUME NEW a \in DoneIn(t)
          PROVE  /\ Leads(t, b) <= a /\ a <= b /\ (Leads(t, a) < Leads(t, b) \/ Leads(t, a) > b) =>
                       t[a + 1].op = "je" /\ Leads(t, a) = b + 1
                 /\ a < Leads(t, b) \/ a > b => Leads(t, a) <= Leads(t, b) \/ Leads(t, a) > b
      <3>1. CASE a = p
        <4>1. p < Leads(t, b) \/ p > b
          BY <2>1 DEF Closed
        <4>2. Leads(t, p) > b /\ Leads(t, b) \in Int
          BY <1>1, <1>2, <2>1
        <4> QED BY <2>1, <3>1, <4>1, <4>2
      <3>2. CASE a \in DoneIn(s)
        BY <1>2, <2>1, <3>2 DEF Closed
      <3> QED BY <1>3, <3>1, <3>2
    <2> QED BY <2>2, <2>3, <2>4 DEF Closed
  <1> QED BY <1>4, <1>5, <1>6, <1>7 DEF JumpsOK

(* A loop is closed: a jump back to c follows, and the je at p leads past  *)
(* it.                                                                     *)
LEMMA JumpsLooped ==
    ASSUME NEW s, NEW t, NEW O, NEW C, NEW P, NEW D, JumpsOK(s, O, C),
           NEW p \in Nat, p \in O, p \in JumpsIn(s), p \notin DoneIn(s), Rewritten(s, t, p),
           NEW c \in C, c \in Nat, c <= p, p < Len(s), Len(t) = Len(s) + 1,
           p \in DoneIn(t), t[p + 1].op = "je", Leads(t, p) = Len(s) + 1,
           Len(s) \in DoneIn(t), Leads(t, Len(s)) = c,
           \A o \in O : o = p \/ o \in P, \A o \in P : o \in Nat /\ o \in O /\ o < c,
           \A d \in D : d \in Nat /\ d \in C /\ d <= c
    PROVE  JumpsOK(t, P, D)
  <1> DEFINE r == Len(s)
  <1>1. r \in Nat /\ Len(t) \in Nat /\ Len(t) = r + 1
    BY DEF Rewritten
  <1>2. \A a \in DoneIn(s) : /\ a \in DoneIn(t) /\ Leads(t, a) = Leads(s, a)
                             /\ t[a + 1].op = s[a + 1].op
                             /\ a \in Nat /\ a < r /\ Leads(s, a) \in 0..r
    BY SameJumps DEF JumpsOK
  <1>0. /\ \A a \in JumpsIn(t) : a \in JumpsIn(s) \/ (a \in Nat /\ a >= Len(s))
        /\ \A a \in DoneIn(t) : a \in DoneIn(s) \/ a = p \/ (a \in Nat /\ a >= Len(s))
    <2>1. p \in Int
      OBVIOUS
    <2> QED BY <2>1, SameJumps, Zenon
  <1>3. \A a \in JumpsIn(t) : a \in JumpsIn(s) \/ a = r
    <2>1. \A a \in JumpsIn(t) : a \in 0..(Len(t) - 1)
      BY DEF JumpsIn
    <2> QED BY <1>0, <1>1, <2>1
  <1>4. \A a \in DoneIn(t) : a \in DoneIn(s) \/ a = p \/ a = r
    <2>1. \A a \in DoneIn(t) : a \in 0..(Len(t) - 1)
      BY DEF DoneIn, JumpsIn
    <2> QED BY <1>0, <1>1, <2>1
  <1>5. \A a \in JumpsIn(t) : a \in DoneIn(t) \/ a \in P
    BY <1>2, <1>3 DEF JumpsOK
  <1>6. \A a \in DoneIn(t) : Leads(t, a) \in 0..Len(t)
    BY <1>1, <1>2, <1>4
  <1>7. ASSUME NEW a \in DoneIn(t), NEW d \in D
        PROVE  (a >= d => Leads(t, a) >= d) /\ (a < d => Leads(t, a) <= d)
    <2>1. CASE a = p \/ a = r
      BY <1>1, <2>1
    <2>2. CASE a \in DoneIn(s)
      BY <1>2, <2>2 DEF JumpsOK
    <2> QED BY <1>4, <2>1, <2>2
  <1>8. ASSUME NEW b \in DoneIn(s), Leads(t, b) <= b
        PROVE  Closed(t, P, b)
    <2>1. /\ Leads(t, b) = Leads(s, b) /\ Closed(s, O, b) /\ b < r /\ b \in Nat
          /\ Leads(s, b) \in Nat
      BY <1>1, <1>2, <1>8 DEF JumpsOK
    <2>2. \E e \in DoneIn(t) : /\ t[e + 1].op = "je" /\ Leads(t, e) = b + 1
                               /\ Leads(t, b) <= e /\ e <= b
      BY <1>2, <2>1 DEF Closed
    <2>3. \A o \in P : o < Leads(t, b) \/ o > b
      BY <2>1 DEF Closed
    <2>4. ASSUME NEW a \in DoneIn(t)
          PROVE  /\ Leads(t, b) <= a /\ a <= b /\ (Leads(t, a) < Leads(t, b) \/ Leads(t, a) > b) =>
                       t[a + 1].op = "je" /\ Leads(t, a) = b + 1
                 /\ a < Leads(t, b) \/ a > b => Leads(t, a) <= Leads(t, b) \/ Leads(t, a) > b
      <3>1. CASE a = p
        <4>1. p < Leads(t, b) \/ p > b
          BY <2>1 DEF Closed
        <4>2. Leads(t, p) > b
          BY <1>1, <2>1
        <4> QED BY <2>1, <3>1, <4>1, <4>2
      <3>2. CASE a = r
        <4>1. c <= Leads(s, b) \/ c > b
          BY <2>1 DEF JumpsOK
        <4> QED BY <1>1, <2>1, <3>2, <4>1
      <3>3. CASE a \in DoneIn(s)
        BY <1>2, <2>1, <3>3 DEF Closed
      <3> QED BY <1>4, <3>1, <3>2, <3>3
    <2> QED BY <2>2, <2>3, <2>4 DEF Closed
  <1>9. Closed(t, P, r)
    <2>1. \E e \in DoneIn(t) : /\ t[e + 1].op = "je" /\ Leads(t, e) = r + 1
                               /\ Leads(t, r) <= e /\ e <= r
      BY <1>1
    <2>2. \A o \in P : o < Leads(t, r) \/ o > r
      OBVIOUS
    <2>3. ASSUME NEW a \in DoneIn(t)
          PROVE  /\ Leads(t, r) <= a /\ a <= r /\ (Leads(t, a) < Leads(t, r) \/ Leads(t, a) > r) =>
                       t[a + 1].op = "je" /\ Leads(t, a) = r + 1
                 /\ a < Leads(t, r) \/ a > r => Leads(t, a) <= Leads(t, r) \/ Leads(t, a) > r
      <3>1. CASE a = p \/ a = r
        BY <1>1, <3>1
      <3>2. CASE a \in DoneIn(s)
        BY <1>1, <1>2, <3>2 DEF JumpsOK
      <3> QED BY <1>4, <3>1, <3>2
    <2> QED BY <2>1, <2>2, <2>3 DEF Closed
  <1>10. ASSUME NEW b \in DoneIn(t), Leads(t, b) <= b
         PROVE  Closed(t, P, b)
    <2>1. b # p
      BY <1>1, <1>10
    <2> QED BY <1>4, <1>8, <1>9, <1>10, <2>1
  <1> QED BY <1>5, <1>6, <1>7, <1>10 DEF JumpsOK

(* What a pending construct, or the end of a function, finds in the code s *)
(* at the addresses it noted.                                              *)
Marked(it, s) ==
    /\ it.k \in Branches => it.cond \in Nat /\ it.cond <= Len(s)
    /\ it.k \in Owed => /\ it.at \in Nat /\ it.cond <= it.at /\ it.at < Len(s)
                        /\ s[it.at + 1].x = Unset /\ s[it.at + 1].op \in {"je", "jmp"}
                        /\ it.k # "endif" => s[it.at + 1].op = "je"
    /\ it.k = "enddefine" => /\ it.at \in Nat /\ it.at < Len(s)
                             /\ s[it.at + 1].op = "sub rsp, frame"
MarksOK == \A l \in 1..Len(todo) : Marked(todo[l], text)

(* An inner construct lies after the jump that an outer one owes.          *)
Nested == \A m \in 1..Len(todo) : \A l \in 1..(m - 1) :
             todo[l].k \in Branches /\ todo[m].k \in Branches =>
                /\ todo[l].cond >= todo[m].cond
                /\ todo[m].k \in Owed => todo[l].cond > todo[m].at

(* At the end of a construct there is code after the jump it owes.         *)
Started == todo # <<>> /\ todo[1].k \notin Sure =>
              \A l \in Items(Owed) : Len(text) > todo[l].at + 1

Ats   == {todo[l].at : l \in Items(Owed)}
Conds == {todo[l].cond : l \in Items(Branches)}

(* The inductive form of JumpsOwed and LoopsClosed.                        *)
Live     == outcome \in {"none", "ok"}
JumpsInv == Live => MarksOK /\ Nested /\ Started /\ JumpsOK(text, Ats, Conds)

LEMMA MarkedKept ==
    ASSUME NEW it, NEW s, NEW t, NEW p \in Int, Marked(it, s), Rewritten(s, t, p),
           it.k \in Owed => it.at # p
    PROVE  Marked(it, t)
  <1>1. /\ Len(s) \in Nat /\ Len(t) \in Nat /\ Len(s) <= Len(t)
        /\ \A a \in 0..(Len(s) - 1) : (a # p => t[a + 1] = s[a + 1]) /\ t[a + 1].op = s[a + 1].op
    BY DEF Rewritten
  <1>2. it.k \in Branches => it.cond \in Nat /\ it.cond <= Len(t)
    <2>1. it.k \in Branches => it.cond \in Nat /\ it.cond <= Len(s)
      BY Zenon DEF Marked
    <2> QED BY <1>1, <2>1
  <1>3. ASSUME it.k \in Owed
        PROVE  /\ it.at \in Nat /\ it.cond <= it.at /\ it.at < Len(t)
               /\ t[it.at + 1].x = Unset /\ t[it.at + 1].op \in {"je", "jmp"}
               /\ it.k # "endif" => t[it.at + 1].op = "je"
    <2>1. /\ it.at \in Nat /\ it.cond <= it.at /\ it.at < Len(s)
          /\ s[it.at + 1].x = Unset /\ s[it.at + 1].op \in {"je", "jmp"}
          /\ it.k # "endif" => s[it.at + 1].op = "je"
      BY <1>3, Zenon DEF Marked
    <2>2. it.at \in 0..(Len(s) - 1) /\ it.at < Len(t) /\ it.at # p
      BY <1>1, <1>3, <2>1
    <2>3. t[it.at + 1] = s[it.at + 1]
      BY <1>1, <2>2
    <2> QED BY <2>1, <2>2, <2>3, Zenon
  <1>4. ASSUME it.k = "enddefine"
        PROVE  /\ it.at \in Nat /\ it.at < Len(t)
               /\ t[it.at + 1].op = "sub rsp, frame"
    <2>1. it.at \in Nat /\ it.at < Len(s)
      BY <1>4, Zenon DEF Marked
    <2>2. it.at \in 0..(Len(s) - 1) /\ it.at < Len(t)
      BY <1>1, <2>1
    <2>3. s[it.at + 1].op = "sub rsp, frame"
      BY <1>4, Zenon DEF Marked
    <2> QED BY <1>1, <2>1, <2>2, <2>3
  <1> QED BY <1>2, <1>3, <1>4 DEF Marked

LEMMA MarksShift ==
    ASSUME NEW n, Shift(n), NEW p \in Int, Rewritten(text, text', p), MarksOK, Nested,
           p = Nowhere \/ (todo[1].k \in Owed /\ p = todo[1].at),
           \A i \in 1..n : todo'[i].k \in Opens =>
              /\ i = n /\ Marked(todo'[n], text') /\ todo'[n].k \in Branches
              /\ \/ todo[1].k \in Branches /\ todo'[n].cond = todo[1].cond
                 \/ todo'[n].cond = Len(text)
    PROVE  MarksOK' /\ Nested'
  <1>1. /\ n \in Nat /\ Len(todo) \in Nat \ {0} /\ Len(todo') = n + Len(todo) - 1
        /\ \A l \in 1..Len(todo') : l \in 1..n \/ (l - n + 1 \in 2..Len(todo) /\ todo'[l] = todo[l - n + 1])
    BY Shifted DEF Shift
  <1>2. Owed \subseteq Branches /\ Branches \subseteq Opens /\ "enddefine" \in Opens
    BY DEF Opens, Branches
  <1>3. ASSUME NEW l \in 1..Len(todo')
        PROVE  Marked(todo'[l], text')
    <2>1. CASE l \in 1..n
      <3>1. CASE todo'[l].k \in Opens
        BY <2>1, <3>1
      <3>2. CASE todo'[l].k \notin Opens
        BY <1>2, <3>2 DEF Marked
      <3> QED BY <3>1, <3>2
    <2>2. CASE l \notin 1..n
      <3> DEFINE m == l - n + 1
      <3>1. m \in 2..Len(todo) /\ todo'[l] = todo[m]
        BY <1>1, <2>2
      <3> HIDE DEF m
      <3>2. Marked(todo[m], text) /\ Marked(todo[1], text)
        BY <1>1, <3>1 DEF MarksOK
      <3>3. todo[m].k \in Owed => todo[m].at # p
        <4>1. SUFFICES ASSUME todo[m].k \in Owed, p # Nowhere
                       PROVE  todo[m].at # p
          <5>1. todo[m].k \in Owed => todo[m].at \in Nat
            BY <3>2 DEF Marked
          <5>2. Nowhere \notin Nat
            BY DEF Nowhere
          <5> QED BY <5>1, <5>2
        <4>2. todo[1].k \in Owed /\ p = todo[1].at
          BY <4>1
        <4>3. 1 \in 1..(m - 1) /\ m \in 1..Len(todo)
          BY <3>1
        <4>4. todo[1].cond > todo[m].at
          BY <1>2, <4>1, <4>2, <4>3 DEF Nested
        <4>5. todo[1].cond <= todo[1].at /\ todo[1].cond \in Nat /\ todo[m].at \in Nat
          BY <1>2, <3>2, <4>1, <4>2 DEF Marked
        <4> QED BY <4>2, <4>4, <4>5
      <3> QED BY <3>1, <3>2, <3>3, MarkedKept
    <2> QED BY <2>1, <2>2
  <1>4. ASSUME NEW m \in 1..Len(todo'), NEW l \in 1..(m - 1),
               todo'[l].k \in Branches, todo'[m].k \in Branches
        PROVE  /\ todo'[l].cond >= todo'[m].cond
               /\ todo'[m].k \in Owed => todo'[l].cond > todo'[m].at
    <2>1. l \in 1..Len(todo') /\ l < m
      BY <1>1
    <2>2. m \notin 1..n
      BY <1>1, <1>2, <1>4, <2>1
    <2> DEFINE j == m - n + 1
    <2>3. j \in 2..Len(todo) /\ todo'[m] = todo[j]
      BY <1>1, <2>2
    <2>4. CASE l \in 1..n
      <3>1. l = n /\ \/ todo[1].k \in Branches /\ todo'[n].cond = todo[1].cond
                     \/ todo'[n].cond = Len(text)
        BY <1>2, <1>4, <2>4
      <3>2. CASE todo[1].k \in Branches /\ todo'[n].cond = todo[1].cond
        <4>1. 1 \in 1..(j - 1) /\ j \in 1..Len(todo)
          BY <2>3
        <4> QED BY <1>4, <2>3, <3>1, <3>2, <4>1 DEF Nested
      <3>3. CASE todo'[n].cond = Len(text)
        <4>1. Marked(todo[j], text)
          BY <2>3 DEF MarksOK
        <4>2. Len(text) \in Nat
          BY DEF Rewritten
        <4> QED BY <1>4, <2>3, <3>1, <3>3, <4>1, <4>2 DEF Marked
      <3> QED BY <3>1, <3>2, <3>3
    <2>5. CASE l \notin 1..n
      <3> DEFINE i == l - n + 1
      <3>1. i \in 2..Len(todo) /\ todo'[l] = todo[i]
        BY <1>1, <2>1, <2>5
      <3>2. i \in 1..(j - 1) /\ j \in 1..Len(todo)
        BY <1>1, <2>1, <2>3, <3>1
      <3> HIDE DEF i, j
      <3> QED BY <1>4, <2>3, <3>1, <3>2 DEF Nested
    <2> QED BY <2>4, <2>5
  <1> QED BY <1>3, <1>4 DEF MarksOK, Nested

(* The jumps that are owed after a step.                                   *)
LEMMA AtsShift ==
    ASSUME NEW n, Shift(n)
    PROVE  /\ \A o \in Ats : (todo[1].k \in Owed /\ o = todo[1].at) \/ o \in Ats'
           /\ \A o \in Ats' : \/ \E i \in 1..n : todo'[i].k \in Owed /\ o = todo'[i].at
                              \/ \E m \in 2..Len(todo) : todo[m].k \in Owed /\ o = todo[m].at
           /\ \A c \in Conds' : \/ \E i \in 1..n : todo'[i].k \in Branches /\ c = todo'[i].cond
                                \/ \E m \in 2..Len(todo) : todo[m].k \in Branches /\ c = todo[m].cond
           /\ \A i \in 1..n : todo'[i].k \in Owed => todo'[i].at \in Ats'
  <1>1. /\ n \in Nat /\ Len(todo) \in Nat \ {0} /\ Len(todo') \in Nat /\ Len(todo') = n + Len(todo) - 1
        /\ \A m \in 2..Len(todo) : m + n - 1 \in 1..Len(todo') /\ todo'[m + n - 1] = todo[m]
        /\ \A l \in 1..Len(todo') : l \in 1..n \/ (l - n + 1 \in 2..Len(todo) /\ todo'[l] = todo[l - n + 1])
    BY Shifted DEF Shift
  <1>2. ASSUME NEW l \in 1..Len(todo), todo[l].k \in Owed
        PROVE  (todo[1].k \in Owed /\ todo[l].at = todo[1].at) \/ todo[l].at \in Ats'
    <2>1. CASE l = 1
      BY <1>2, <2>1
    <2>2. CASE l # 1
      <3>1. l \in 2..Len(todo)
        BY <1>1, <2>2
      <3>2. l + n - 1 \in 1..Len(todo') /\ todo'[l + n - 1] = todo[l]
        BY <1>1, <3>1
      <3> QED BY <1>2, <3>2 DEF Ats, Items
    <2> QED BY <2>1, <2>2
  <1>3. \A i \in 1..n : i \in 1..Len(todo')
    BY <1>1
  <1>4. \A o \in Ats' : \/ \E i \in 1..n : todo'[i].k \in Owed /\ o = todo'[i].at
                        \/ \E m \in 2..Len(todo) : todo[m].k \in Owed /\ o = todo[m].at
    <2> SUFFICES ASSUME NEW l \in 1..Len(todo'), todo'[l].k \in Owed
                 PROVE  \/ \E i \in 1..n : todo'[i].k \in Owed /\ todo'[l].at = todo'[i].at
                        \/ \E m \in 2..Len(todo) : todo[m].k \in Owed /\ todo'[l].at = todo[m].at
      BY DEF Ats, Items
    <2> QED BY <1>1
  <1>5. \A c \in Conds' : \/ \E i \in 1..n : todo'[i].k \in Branches /\ c = todo'[i].cond
                          \/ \E m \in 2..Len(todo) : todo[m].k \in Branches /\ c = todo[m].cond
    <2> SUFFICES ASSUME NEW l \in 1..Len(todo'), todo'[l].k \in Branches
                 PROVE  \/ \E i \in 1..n : todo'[i].k \in Branches /\ todo'[l].cond = todo'[i].cond
                        \/ \E m \in 2..Len(todo) : todo[m].k \in Branches /\ todo'[l].cond = todo[m].cond
      BY DEF Conds, Items
    <2> QED BY <1>1
  <1>6. \A i \in 1..n : todo'[i].k \in Owed => todo'[i].at \in Ats'
    BY <1>3 DEF Ats, Items
  <1>7. \A o \in Ats : (todo[1].k \in Owed /\ o = todo[1].at) \/ o \in Ats'
    BY <1>2 DEF Ats, Items
  <1> QED BY <1>4, <1>5, <1>6, <1>7

LEMMA KindSets ==
    /\ Owed \subseteq Branches /\ Tests \subseteq Branches /\ Branches \subseteq Opens
    /\ \A k \in StmtKinds : k \notin Opens /\ k \notin Branches /\ k \notin Owed /\ k # "enddefine"
    /\ \A k \in Owed : k \notin Sure /\ k # "enddefine"
    /\ \A k \in Tests : k \notin Owed /\ k # "enddefine"
    /\ \A k \in Branches : k # "enddefine"
    /\ "stmt" \in Sure /\ "expr" \in Sure
    /\ "stmt" \in StmtKinds /\ "more" \in StmtKinds /\ "expr" \in StmtKinds /\ "assign" \in StmtKinds
    /\ "endwhile" \in Owed /\ "else" \in Owed /\ "endif" \in Owed
    /\ "enddefine" \notin Branches /\ "enddefine" \notin Owed /\ "enddefine" \in Opens
  BY DEF Owed, Tests, Branches, Opens, StmtKinds, ExprKinds, Sure

(* Tame code does not jump.                                                *)
LEMMA TameJumps ==
    ASSUME CompilerInv, NEW f, Emits(Tame(f))
    PROVE  /\ Rewritten(text, text', Nowhere) /\ \A a \in JumpsIn(text') : ~(a >= Len(text))
           /\ \A a \in Len(text)..(Len(text') - 1) : text'[a + 1] \in Tame(f)
  <1>1. /\ Rewritten(text, text', Nowhere)
        /\ \A a \in Len(text)..(Len(text') - 1) : text'[a + 1] \in Tame(f)
    BY EmitsAre
  <1>2. Len(text) \in Nat /\ Len(text') \in Nat
    BY <1>1 DEF Rewritten
  <1>3. ASSUME NEW a \in JumpsIn(text'), a >= Len(text)
        PROVE  FALSE
    <2>1. a \in Len(text)..(Len(text') - 1) /\ text'[a + 1].op \in {"je", "jmp"}
      BY <1>2, <1>3 DEF JumpsIn
    <2>2. text'[a + 1].op \notin Structure
      BY <1>1, <2>1 DEF Tame
    <2> QED BY <2>1, <2>2 DEF Structure
  <1> QED BY <1>1, <1>3

(* Code is added between the marks.                                        *)
LEMMA JumpsCalm ==
    ASSUME CompilerInv, JumpsInv, outcome' = outcome, NEW f, NEW K \in SUBSET StmtKinds,
           Calm(Tame(f), K), todo[1].k \in StmtKinds
    PROVE  JumpsInv'
  <1> SUFFICES ASSUME Live
               PROVE  MarksOK' /\ Nested' /\ Started' /\ JumpsOK(text, Ats, Conds)'
    BY DEF JumpsInv, Live
  <1>1. MarksOK /\ Nested /\ Started /\ JumpsOK(text, Ats, Conds)
    BY DEF JumpsInv
  <1>2. PICK n \in Nat : Shift(n) /\ \A i \in 1..n : todo'[i].k \in K
    BY DEF Calm, Moves
  <1>3. /\ Rewritten(text, text', Nowhere) /\ Nowhere \in Int
        /\ \A a \in JumpsIn(text') : ~(a >= Len(text))
    BY TameJumps DEF Calm, Nowhere
  <1>4. MarksOK' /\ Nested'
    <2>1. \A i \in 1..n : todo'[i].k \notin Opens
      BY <1>2, KindSets
    <2> QED BY <1>1, <1>2, <1>3, <2>1, MarksShift
  <1>5. /\ \A o \in Ats : o \in Ats'
        /\ \A o \in Ats' : \E m \in 2..Len(todo) : todo[m].k \in Owed /\ o = todo[m].at
        /\ \A c \in Conds' : \E m \in 2..Len(todo) : todo[m].k \in Branches /\ c = todo[m].cond
    <2>1. /\ todo[1].k \notin Owed
          /\ \A i \in 1..n : todo'[i].k \notin Owed /\ todo'[i].k \notin Branches
      BY <1>2, KindSets
    <2> QED BY <1>2, <2>1, AtsShift
  <1>6. \A m \in 2..Len(todo) : m \in Items(Owed) \/ todo[m].k \notin Owed
    BY <1>2 DEF Items, Shift
  <1>7. \A m \in 2..Len(todo) : /\ todo[m].k \in Owed => todo[m].at \in Ats /\ todo[m].at \in Nat
                                                         /\ todo[m].at < Len(text)
                                /\ todo[m].k \in Branches => todo[m].cond \in Conds /\ todo[m].cond \in Nat
    <2> SUFFICES ASSUME NEW m \in 2..Len(todo)
                 PROVE  /\ todo[m].k \in Owed => todo[m].at \in Ats /\ todo[m].at \in Nat
                                                 /\ todo[m].at < Len(text)
                        /\ todo[m].k \in Branches => todo[m].cond \in Conds /\ todo[m].cond \in Nat
      OBVIOUS
    <2>1. m \in 1..Len(todo)
      BY <1>2 DEF Shift
    <2>2. Marked(todo[m], text)
      BY <1>1, <2>1 DEF MarksOK
    <2> QED BY <2>1, <2>2 DEF Marked, Ats, Conds, Items
  <1>8. JumpsOK(text, Ats, Conds)'
    <2>1. \A a \in JumpsIn(text') : a >= Len(text) => a \notin DoneIn(text') /\ a \in Ats'
      BY <1>3
    <2>2. \A o \in Ats' : o \in Nat /\ o \in Ats
      BY <1>5, <1>7
    <2>3. \A c \in Conds' : c \in Nat /\ c \in Conds
      BY <1>5, <1>7
    <2> QED BY <1>1, <1>3, <1>5, <2>1, <2>2, <2>3, JumpsGrown
  <1>9. Started'
    <2> SUFFICES ASSUME todo' # <<>>, todo'[1].k \notin Sure, NEW l \in Items(Owed)'
                 PROVE  Len(text') > todo'[l].at + 1
      BY DEF Started
    <2>1. todo'[l].at \in Ats'
      BY DEF Ats
    <2>2. PICK m \in 2..Len(todo) : todo[m].k \in Owed /\ todo'[l].at = todo[m].at
      BY <1>5, <2>1
    <2>3. todo[m].at \in Nat /\ todo[m].at < Len(text) /\ m \in Items(Owed)
      BY <1>6, <1>7, <2>2
    <2>4. Len(text) \in Nat /\ Len(text') \in Nat /\ Len(text') >= Len(text)
      BY <1>3 DEF Rewritten
    <2>5. Len(text') > Len(text) \/ todo[1].k \notin Sure
      BY DEF Calm, Busy
    <2>6. CASE Len(text') > Len(text)
      BY <2>2, <2>3, <2>4, <2>6
    <2>7. CASE todo[1].k \notin Sure
      <3>1. Len(text) > todo[m].at + 1
        BY <1>1, <2>3, <2>7 DEF Started, Calm
      <3> QED BY <2>2, <2>3, <2>4, <3>1
    <2> QED BY <2>5, <2>6, <2>7
  <1> QED BY <1>4, <1>8, <1>9

(* What is pending.                                                        *)
LEMMA PendingFacts ==
    ASSUME CompilerInv, MarksOK, NEW m \in 1..Len(todo)
    PROVE  /\ todo[m].k \in Owed =>
                 /\ todo[m].at \in Ats /\ todo[m].at \in Nat /\ todo[m].at < Len(text)
                 /\ todo[m].cond \in Nat /\ todo[m].cond <= todo[m].at
                 /\ todo[m].at \in JumpsIn(text) /\ todo[m].at \notin DoneIn(text)
           /\ todo[m].k \in Branches =>
                 todo[m].cond \in Conds /\ todo[m].cond \in Nat /\ todo[m].cond <= Len(text)
  <1>1. Marked(todo[m], text)
    BY DEF MarksOK
  <1>2. ASSUME todo[m].k \in Owed
        PROVE  /\ todo[m].at \in Nat /\ todo[m].at < Len(text)
               /\ todo[m].cond \in Nat /\ todo[m].cond <= todo[m].at
    BY <1>1, <1>2, KindSets, Zenon DEF Marked
  <1>3. ASSUME todo[m].k \in Owed
        PROVE  /\ todo[m].at \in JumpsIn(text) /\ todo[m].at \notin DoneIn(text)
               /\ todo[m].at \in Ats
    <2>1. todo[m].at \in 0..(Len(text) - 1)
      <3>1. Len(text) \in Nat
        BY DEF CompilerInv, TypeOK
      <3>2. todo[m].at \in Nat /\ todo[m].at < Len(text)
        BY <1>2, <1>3
      <3> QED BY <3>1, <3>2
    <2>2. text[todo[m].at + 1].x = Unset /\ text[todo[m].at + 1].op \in {"je", "jmp"}
      BY <1>1, <1>3, Zenon DEF Marked
    <2>3. todo[m].at \in JumpsIn(text) /\ todo[m].at \notin DoneIn(text)
      BY <2>1, <2>2, Zenon DEF JumpsIn, DoneIn
    <2> QED BY <1>3, <2>3 DEF Ats, Items
  <1>4. ASSUME todo[m].k \in Branches
        PROVE  todo[m].cond \in Conds /\ todo[m].cond \in Nat /\ todo[m].cond <= Len(text)
    <2>1. todo[m].cond \in Nat /\ todo[m].cond <= Len(text)
      BY <1>1, <1>4, Zenon DEF Marked
    <2> QED BY <1>4, <2>1 DEF Conds, Items
  <1> QED BY <1>2, <1>3, <1>4

(* A construct begins, and its condition has been compiled.                *)
LEMMA JumpsConditional ==
    ASSUME CompilerInv, JumpsInv, Conditional
    PROVE  JumpsInv'
  <1>0. /\ Shift(2) /\ todo[1].k = "stmt" /\ todo'[1].k = "expr"
        /\ todo'[2].k \in Tests /\ todo'[2].cond = Len(text)
        /\ text' = text /\ outcome' = outcome
    BY ConditionalIs
  <1> SUFFICES ASSUME Live
               PROVE  MarksOK' /\ Nested' /\ Started' /\ JumpsOK(text, Ats, Conds)'
    BY <1>0 DEF JumpsInv, Live
  <1>1. MarksOK /\ Nested /\ Started /\ JumpsOK(text, Ats, Conds)
    BY DEF JumpsInv
  <1>2. Len(text) \in Nat /\ Len(text') \in Nat
    BY <1>0 DEF CompilerInv, TypeOK
  <1>3. Rewritten(text, text', Nowhere) /\ Nowhere \in Int
    BY <1>0, <1>2 DEF Rewritten, Nowhere
  <1>4. \A i \in 1..2 : i = 1 \/ i = 2
    OBVIOUS
  <1>5. todo'[2].k \in Branches /\ todo'[1].k \notin Branches /\ todo'[1].k \notin Opens
        /\ todo'[1].k \notin Owed /\ todo'[2].k \notin Owed /\ todo'[2].k # "enddefine"
        /\ todo[1].k \notin Owed
    BY <1>0, KindSets
  <1>6. MarksOK' /\ Nested'
    <2>1. Marked(todo'[2], text')
      <3>1. Len(text) <= Len(text')
        BY <1>0, <1>2
      <3> QED BY <1>0, <1>2, <1>5, <3>1, Zenon DEF Marked
    <2>2. \A i \in 1..2 : todo'[i].k \in Opens => i = 2
      BY <1>4, <1>5
    <2> QED BY <1>0, <1>1, <1>3, <1>5, <2>1, <2>2, MarksShift
  <1>7. /\ \A o \in Ats : o \in Ats'
        /\ \A o \in Ats' : \E m \in 2..Len(todo) : todo[m].k \in Owed /\ o = todo[m].at
        /\ \A c \in Conds' : \/ c = Len(text)
                             \/ \E m \in 2..Len(todo) : todo[m].k \in Branches /\ c = todo[m].cond
    <2>1. \A i \in 1..2 : /\ todo'[i].k \notin Owed
                          /\ todo'[i].k \in Branches => todo'[i].cond = Len(text)
      BY <1>0, <1>4, <1>5
    <2> QED BY <1>0, <1>5, <2>1, AtsShift
  <1>8. \A m \in 2..Len(todo) : m \in 1..Len(todo)
    BY <1>0 DEF Shift
  <1>9. JumpsOK(text, Ats, Conds)'
    <2>1. \A a \in JumpsIn(text') : ~(a >= Len(text))
      BY <1>0, <1>2 DEF JumpsIn
    <2>2. \A o \in Ats' : o \in Nat /\ o \in Ats
      BY <1>1, <1>7, <1>8, PendingFacts
    <2>3. \A c \in Conds' : c \in Nat /\ (c \in Conds \/ c = Len(text))
      BY <1>1, <1>2, <1>7, <1>8, PendingFacts
    <2> QED BY <1>1, <1>3, <1>7, <2>1, <2>2, <2>3, JumpsGrown
  <1>10. Started'
    BY <1>0, KindSets DEF Started
  <1> QED BY <1>6, <1>9, <1>10

LEMMA JumpsTest ==
    ASSUME CompilerInv, JumpsInv, TestCondition
    PROVE  JumpsInv'
  <1>0. /\ Shift(3) /\ todo[1].k \in Tests /\ todo'[1].k = "stmt" /\ todo'[2].k = "more"
        /\ todo'[3].k \in Owed /\ todo'[3].cond = todo[1].cond /\ todo'[3].at = Len(text) + 1
        /\ Rewritten(text, text', Nowhere) /\ Len(text') = Len(text) + 2
        /\ text'[Len(text) + 1].op = "test"
        /\ text'[Len(text) + 2].op = "je" /\ text'[Len(text) + 2].x = Unset
        /\ outcome' = outcome
    BY TestIs
  <1> SUFFICES ASSUME Live
               PROVE  MarksOK' /\ Nested' /\ Started' /\ JumpsOK(text, Ats, Conds)'
    BY <1>0 DEF JumpsInv, Live
  <1>1. MarksOK /\ Nested /\ Started /\ JumpsOK(text, Ats, Conds)
    BY DEF JumpsInv
  <1>2. Len(text) \in Nat /\ Len(text') = Len(text) + 2
    BY <1>0 DEF CompilerInv, TypeOK
  <1>3. Nowhere \in Int
    BY DEF Nowhere
  <1>4. \A i \in 1..3 : i = 1 \/ i = 2 \/ i = 3
    OBVIOUS
  <1>5. /\ todo'[3].k \in Branches /\ todo'[3].k # "enddefine" /\ todo[1].k \in Branches
        /\ todo'[1].k \notin Opens /\ todo'[1].k \notin Owed /\ todo'[1].k \notin Branches
        /\ todo'[2].k \notin Opens /\ todo'[2].k \notin Owed /\ todo'[2].k \notin Branches
        /\ todo[1].k \notin Owed
    BY <1>0, KindSets
  <1>6. 1 \in 1..Len(todo) /\ \A m \in 2..Len(todo) : m \in 1..Len(todo)
    BY <1>0 DEF Shift
  <1>7. todo[1].cond \in Conds /\ todo[1].cond \in Nat /\ todo[1].cond <= Len(text)
    BY <1>1, <1>5, <1>6, PendingFacts
  <1>8. MarksOK' /\ Nested'
    <2>1. Marked(todo'[3], text')
      <3>1. /\ todo'[3].cond \in Nat /\ todo'[3].cond <= Len(text')
            /\ todo'[3].at \in Nat /\ todo'[3].cond <= todo'[3].at /\ todo'[3].at < Len(text')
            /\ todo'[3].at + 1 = Len(text) + 2
        <4>1. todo'[3].cond = todo[1].cond /\ todo'[3].at = Len(text) + 1
          BY <1>0
        <4> QED BY <1>2, <1>7, <4>1
      <3>2. text'[todo'[3].at + 1].op = "je" /\ text'[todo'[3].at + 1].x = Unset
        BY <1>0, <3>1
      <3> QED BY <1>5, <3>1, <3>2, Zenon DEF Marked
    <2>2. \A i \in 1..3 : todo'[i].k \in Opens => i = 3
      BY <1>4, <1>5
    <2> QED BY <1>0, <1>1, <1>3, <1>5, <2>1, <2>2, MarksShift
  <1>9. /\ \A o \in Ats : o \in Ats'
        /\ \A o \in Ats' : \/ o = Len(text) + 1
                           \/ \E m \in 2..Len(todo) : todo[m].k \in Owed /\ o = todo[m].at
        /\ \A c \in Conds' : \/ c = todo[1].cond
                             \/ \E m \in 2..Len(todo) : todo[m].k \in Branches /\ c = todo[m].cond
        /\ Len(text) + 1 \in Ats'
    <2>1. \A i \in 1..3 : /\ todo'[i].k \in Owed => todo'[i].at = Len(text) + 1
                          /\ todo'[i].k \in Branches => todo'[i].cond = todo[1].cond
      BY <1>0, <1>4, <1>5
    <2>2. 3 \in 1..3
      OBVIOUS
    <2> QED BY <1>0, <1>5, <2>1, <2>2, AtsShift
  <1>10. JumpsOK(text, Ats, Conds)'
    <2>1. \A a \in JumpsIn(text') : a >= Len(text) => a \notin DoneIn(text') /\ a \in Ats'
      <3> SUFFICES ASSUME NEW a \in JumpsIn(text'), a >= Len(text)
                   PROVE  a \notin DoneIn(text') /\ a \in Ats'
        OBVIOUS
      <3>1. a \in 0..(Len(text') - 1) /\ text'[a + 1].op \in {"je", "jmp"}
        BY DEF JumpsIn
      <3>2. a = Len(text) \/ a = Len(text) + 1
        BY <1>2, <3>1
      <3>3. a # Len(text)
        BY <1>0, <3>1
      <3>4. a = Len(text) + 1 /\ a + 1 = Len(text) + 2
        BY <1>2, <3>2, <3>3
      <3> QED BY <1>0, <1>9, <3>4 DEF DoneIn
    <2>2. \A o \in Ats' : o \in Nat /\ (o \in Ats \/ o >= Len(text))
      BY <1>1, <1>2, <1>6, <1>9, PendingFacts
    <2>3. \A c \in Conds' : c \in Nat /\ (c \in Conds \/ c = Len(text))
      BY <1>1, <1>6, <1>7, <1>9, PendingFacts
    <2> QED BY <1>0, <1>1, <1>9, <2>1, <2>2, <2>3, JumpsGrown
  <1>11. Started'
    BY <1>0, KindSets DEF Started
  <1> QED BY <1>8, <1>10, <1>11

(* A construct ends: the jump it owes is the last of those owed.           *)
LEMMA HeadOwed ==
    ASSUME CompilerInv, MarksOK, Nested, Started, todo # <<>>, todo[1].k \in Owed
    PROVE  /\ todo[1].at \in Ats /\ todo[1].at \in Nat /\ todo[1].at + 1 < Len(text)
           /\ todo[1].at \in JumpsIn(text) /\ todo[1].at \notin DoneIn(text)
           /\ todo[1].cond \in Conds /\ todo[1].cond \in Nat /\ todo[1].cond <= todo[1].at
           /\ \A m \in 2..Len(todo) :
                 /\ todo[m].k \in Owed => /\ todo[m].at \in Ats /\ todo[m].at \in Nat
                                          /\ todo[m].at < todo[1].cond
                 /\ todo[m].k \in Branches => /\ todo[m].cond \in Conds /\ todo[m].cond \in Nat
                                              /\ todo[m].cond <= todo[1].cond
  <1>1. Len(todo) \in Nat \ {0} /\ Len(text) \in Nat
    BY EmptySeq DEF CompilerInv, TypeOK
  <1>2. 1 \in 1..Len(todo) /\ todo[1].k \notin Sure /\ todo[1].k \in Branches
    BY <1>1, KindSets
  <1>3. /\ todo[1].at \in Ats /\ todo[1].at \in Nat
        /\ todo[1].at \in JumpsIn(text) /\ todo[1].at \notin DoneIn(text)
        /\ todo[1].cond \in Conds /\ todo[1].cond \in Nat /\ todo[1].cond <= todo[1].at
    BY <1>2, PendingFacts
  <1>4. todo[1].at + 1 < Len(text)
    <2>1. 1 \in Items(Owed)
      BY <1>2 DEF Items
    <2> QED BY <1>1, <1>2, <1>3, <2>1 DEF Started
  <1>5. ASSUME NEW m \in 2..Len(todo)
        PROVE  /\ todo[m].k \in Owed => /\ todo[m].at \in Ats /\ todo[m].at \in Nat
                                        /\ todo[m].at < todo[1].cond
               /\ todo[m].k \in Branches => /\ todo[m].cond \in Conds /\ todo[m].cond \in Nat
                                            /\ todo[m].cond <= todo[1].cond
    <2>1. m \in 1..Len(todo) /\ 1 \in 1..(m - 1)
      BY <1>1
    <2>2. todo[m].k \in Owed => todo[m].k \in Branches
      BY KindSets
    <2>3. todo[m].k \in Branches => /\ todo[1].cond >= todo[m].cond
                                    /\ todo[m].k \in Owed => todo[1].cond > todo[m].at
      BY <1>2, <2>1 DEF Nested
    <2>4. /\ todo[m].k \in Owed => todo[m].at \in Ats /\ todo[m].at \in Nat
          /\ todo[m].k \in Branches => todo[m].cond \in Conds /\ todo[m].cond \in Nat
      BY <2>1, PendingFacts
    <2> QED BY <1>3, <2>2, <2>3, <2>4
  <1> QED BY <1>3, <1>4, <1>5

(* The first branch ends where the jump over the second one is.            *)
LEMMA JumpsElse ==
    ASSUME CompilerInv, RelasInv, JumpsInv, Else
    PROVE  JumpsInv'
  <1> DEFINE p == todo[1].at
  <1>0. /\ Shift(3) /\ todo[1].k = "else" /\ todo'[1].k = "stmt" /\ todo'[2].k = "more"
        /\ todo'[3].k = "endif" /\ todo'[3].cond = todo[1].cond /\ todo'[3].at = Len(text)
        /\ Rewritten(text, text', p) /\ Len(text') = Len(text) + 1
        /\ text'[p + 1].x = Len(text) - p
        /\ text'[Len(text) + 1].op = "jmp" /\ text'[Len(text) + 1].x = Unset
        /\ outcome' = outcome
    <2>1. p < Len(text)
      BY MarkInside DEF Else, Marks
    <2> QED BY <2>1, ElseIs
  <1> SUFFICES ASSUME Live
               PROVE  MarksOK' /\ Nested' /\ Started' /\ JumpsOK(text, Ats, Conds)'
    BY <1>0 DEF JumpsInv, Live
  <1>1. MarksOK /\ Nested /\ Started /\ JumpsOK(text, Ats, Conds)
    BY DEF JumpsInv
  <1>2. Len(text) \in Nat /\ Len(text') = Len(text) + 1
    BY <1>0 DEF CompilerInv, TypeOK
  <1>4. \A i \in 1..3 : i = 1 \/ i = 2 \/ i = 3
    OBVIOUS
  <1>5. /\ todo'[3].k \in Branches /\ todo'[3].k \in Owed /\ todo[1].k \in Branches /\ todo[1].k \in Owed
        /\ todo'[1].k \notin Opens /\ todo'[1].k \notin Owed /\ todo'[1].k \notin Branches
        /\ todo'[2].k \notin Opens /\ todo'[2].k \notin Owed /\ todo'[2].k \notin Branches
    BY <1>0, KindSets
  <1>6. /\ p \in Ats /\ p \in Nat /\ p + 1 < Len(text) /\ p \in JumpsIn(text) /\ p \notin DoneIn(text)
        /\ todo[1].cond \in Conds /\ todo[1].cond \in Nat /\ todo[1].cond <= p
        /\ \A m \in 2..Len(todo) :
              /\ todo[m].k \in Owed => /\ todo[m].at \in Ats /\ todo[m].at \in Nat
                                       /\ todo[m].at < todo[1].cond
              /\ todo[m].k \in Branches => /\ todo[m].cond \in Conds /\ todo[m].cond \in Nat
                                           /\ todo[m].cond <= todo[1].cond
    <2>1. todo # <<>>
      BY <1>0 DEF Shift
    <2> QED BY <1>1, <1>5, <2>1, HeadOwed
  <1> HIDE DEF p
  <1>8. MarksOK' /\ Nested'
    <2>1. Marked(todo'[3], text')
      <3>1. /\ todo'[3].cond \in Nat /\ todo'[3].cond <= Len(text')
            /\ todo'[3].at \in Nat /\ todo'[3].cond <= todo'[3].at /\ todo'[3].at < Len(text')
            /\ todo'[3].at = Len(text)
        <4>1. todo'[3].cond = todo[1].cond /\ todo'[3].at = Len(text)
          BY <1>0
        <4> QED BY <1>2, <1>6, <4>1
      <3>2. /\ text'[todo'[3].at + 1].op = "jmp" /\ text'[todo'[3].at + 1].x = Unset
            /\ todo'[3].k = "endif"
        BY <1>0, <3>1
      <3> QED BY <1>5, <3>1, <3>2, Zenon DEF Marked
    <2>2. \A i \in 1..3 : todo'[i].k \in Opens => i = 3
      BY <1>4, <1>5
    <2>3. p \in Int
      BY <1>6
    <2> QED BY <1>0, <1>1, <1>5, <2>1, <2>2, <2>3, MarksShift DEF p
  <1>9. /\ \A o \in Ats : o = p \/ o \in Ats'
        /\ \A o \in Ats' : \/ o = Len(text)
                           \/ \E m \in 2..Len(todo) : todo[m].k \in Owed /\ o = todo[m].at
        /\ \A c \in Conds' : \/ c = todo[1].cond
                             \/ \E m \in 2..Len(todo) : todo[m].k \in Branches /\ c = todo[m].cond
        /\ Len(text) \in Ats'
    <2>1. \A i \in 1..3 : /\ todo'[i].k \in Owed => todo'[i].at = Len(text)
                          /\ todo'[i].k \in Branches => todo'[i].cond = todo[1].cond
      BY <1>0, <1>4, <1>5
    <2>2. 3 \in 1..3
      OBVIOUS
    <2> QED BY <1>0, <1>5, <2>1, <2>2, AtsShift DEF p
  <1>10. JumpsOK(text, Ats, Conds)'
    <2>1. \A a \in JumpsIn(text') : a >= Len(text) => a \notin DoneIn(text') /\ a \in Ats'
      <3> SUFFICES ASSUME NEW a \in JumpsIn(text'), a >= Len(text)
                   PROVE  a \notin DoneIn(text') /\ a \in Ats'
        OBVIOUS
      <3>1. a \in 0..(Len(text') - 1)
        BY DEF JumpsIn
      <3>2. a = Len(text)
        BY <1>2, <3>1
      <3> QED BY <1>0, <1>9, <3>2 DEF DoneIn
    <2>2. \A o \in Ats' : o \in Nat /\ (o \in Ats \/ o >= Len(text))
      BY <1>2, <1>6, <1>9
    <2>3. \A c \in Conds' : c \in Nat /\ c \in Conds /\ c <= p
      BY <1>6, <1>9
    <2>4. /\ p \in DoneIn(text') /\ Leads(text', p) \in Len(text)..Len(text')
          /\ Leads(text', p) > p
      <3>1. Leads(text', p) = Len(text) + 1
        BY <1>0, <1>2, <1>6 DEF Leads
      <3>2. p \in 0..(Len(text) - 1) /\ text[p + 1].op \in {"je", "jmp"}
        BY <1>6 DEF JumpsIn
      <3>3. text'[p + 1].op = text[p + 1].op /\ p \in 0..(Len(text') - 1)
        BY <1>0, <1>2, <3>2 DEF Rewritten
      <3>4. text'[p + 1].x # Unset
        BY <1>0, <1>2, <1>6 DEF Unset
      <3>5. p \in DoneIn(text')
        BY <3>2, <3>3, <3>4, Zenon DEF DoneIn, JumpsIn
      <3> QED BY <1>2, <1>6, <3>1, <3>5
    <2> QED BY <1>0, <1>1, <1>6, <1>9, <2>1, <2>2, <2>3, <2>4, JumpsLanded
  <1>11. Started'
    BY <1>0, KindSets DEF Started
  <1> QED BY <1>8, <1>10, <1>11

(* What follows a construct comes after the jumps that are still owed.     *)
LEMMA JumpsEndIf ==
    ASSUME CompilerInv, RelasInv, JumpsInv, EndIf
    PROVE  JumpsInv'
  <1> DEFINE p == todo[1].at
  <1>0. /\ Shift(0) /\ todo[1].k = "endif" /\ Rewritten(text, text', p) /\ Len(text') = Len(text)
        /\ text'[p + 1].x = Len(text) - p - 1
        /\ outcome' = outcome
    <2>1. p < Len(text)
      BY MarkInside DEF EndIf, Marks
    <2> QED BY <2>1, EndIfIs
  <1> SUFFICES ASSUME Live
               PROVE  MarksOK' /\ Nested' /\ Started' /\ JumpsOK(text, Ats, Conds)'
    BY <1>0 DEF JumpsInv, Live
  <1>1. MarksOK /\ Nested /\ Started /\ JumpsOK(text, Ats, Conds)
    BY DEF JumpsInv
  <1>2. Len(text) \in Nat /\ Len(text') = Len(text)
    BY <1>0 DEF CompilerInv, TypeOK
  <1>5. todo[1].k \in Branches /\ todo[1].k \in Owed
    BY <1>0, KindSets
  <1>6. /\ p \in Ats /\ p \in Nat /\ p + 1 < Len(text) /\ p \in JumpsIn(text) /\ p \notin DoneIn(text)
        /\ todo[1].cond \in Conds /\ todo[1].cond \in Nat /\ todo[1].cond <= p
        /\ \A m \in 2..Len(todo) :
              /\ todo[m].k \in Owed => /\ todo[m].at \in Ats /\ todo[m].at \in Nat
                                       /\ todo[m].at < todo[1].cond
              /\ todo[m].k \in Branches => /\ todo[m].cond \in Conds /\ todo[m].cond \in Nat
                                           /\ todo[m].cond <= todo[1].cond
    <2>1. todo # <<>>
      BY <1>0 DEF Shift
    <2> QED BY <1>1, <1>5, <2>1, HeadOwed
  <1> HIDE DEF p
  <1>7. \A i \in 1..0 : FALSE
    OBVIOUS
  <1>8. MarksOK' /\ Nested'
    <2>3. p \in Int
      BY <1>6
    <2> QED BY <1>0, <1>1, <1>5, <1>7, <2>3, MarksShift DEF p
  <1>9. /\ \A o \in Ats : o = p \/ o \in Ats'
        /\ \A o \in Ats' : \E m \in 2..Len(todo) : todo[m].k \in Owed /\ o = todo[m].at
        /\ \A c \in Conds' : \E m \in 2..Len(todo) : todo[m].k \in Branches /\ c = todo[m].cond
    BY <1>0, <1>5, <1>7, AtsShift DEF p
  <1>10. JumpsOK(text, Ats, Conds)'
    <2>1. \A a \in JumpsIn(text') : ~(a >= Len(text))
      BY <1>2 DEF JumpsIn
    <2>2. \A o \in Ats' : o \in Nat /\ o \in Ats
      BY <1>6, <1>9
    <2>3. \A c \in Conds' : c \in Nat /\ c \in Conds /\ c <= p
      BY <1>6, <1>9
    <2>4. /\ p \in DoneIn(text') /\ Leads(text', p) \in Len(text)..Len(text')
          /\ Leads(text', p) > p
      <3>1. Leads(text', p) = Len(text)
        BY <1>0, <1>2, <1>6 DEF Leads
      <3>2. p \in 0..(Len(text) - 1) /\ text[p + 1].op \in {"je", "jmp"}
        BY <1>6 DEF JumpsIn
      <3>3. text'[p + 1].op = text[p + 1].op /\ p \in 0..(Len(text') - 1)
        BY <1>0, <1>2, <3>2 DEF Rewritten
      <3>4. text'[p + 1].x # Unset
        BY <1>0, <1>2, <1>6 DEF Unset
      <3>5. p \in DoneIn(text')
        BY <3>2, <3>3, <3>4, Zenon DEF DoneIn, JumpsIn
      <3> QED BY <1>2, <1>6, <3>1, <3>5
    <2> QED BY <1>0, <1>1, <1>6, <1>9, <2>1, <2>2, <2>3, <2>4, JumpsLanded
  <1>11. Started'
    <2> SUFFICES ASSUME NEW l \in Items(Owed)'
                 PROVE  Len(text') > todo'[l].at + 1
      BY DEF Started
    <2>1. todo'[l].at \in Ats'
      BY DEF Ats
    <2>2. PICK m \in 2..Len(todo) : todo[m].k \in Owed /\ todo'[l].at = todo[m].at
      BY <1>9, <2>1
    <2> QED BY <1>2, <1>6, <2>2
  <1> QED BY <1>8, <1>10, <1>11

(* A loop ends.                                                            *)
LEMMA JumpsEndWhile ==
    ASSUME CompilerInv, RelasInv, JumpsInv, EndWhile
    PROVE  JumpsInv'
  <1> DEFINE p == todo[1].at
             c == todo[1].cond
  <1>0. /\ Shift(0) /\ todo[1].k = "endwhile" /\ Rewritten(text, text', p) /\ Len(text') = Len(text) + 1
        /\ text'[p + 1].x = Len(text) - p
        /\ text'[Len(text) + 1].op = "jmp" /\ text'[Len(text) + 1].x = c - Len(text) - 1
        /\ outcome' = outcome
    <2>1. p < Len(text)
      BY MarkInside DEF EndWhile, Marks
    <2> QED BY <2>1, EndWhileIs
  <1> SUFFICES ASSUME Live
               PROVE  MarksOK' /\ Nested' /\ Started' /\ JumpsOK(text, Ats, Conds)'
    BY <1>0 DEF JumpsInv, Live
  <1>1. MarksOK /\ Nested /\ Started /\ JumpsOK(text, Ats, Conds)
    BY DEF JumpsInv
  <1>2. Len(text) \in Nat /\ Len(text') = Len(text) + 1
    BY <1>0 DEF CompilerInv, TypeOK
  <1>5. todo[1].k \in Branches /\ todo[1].k \in Owed
    BY <1>0, KindSets
  <1>6. /\ p \in Ats /\ p \in Nat /\ p + 1 < Len(text) /\ p \in JumpsIn(text) /\ p \notin DoneIn(text)
        /\ c \in Conds /\ c \in Nat /\ c <= p
        /\ \A m \in 2..Len(todo) :
              /\ todo[m].k \in Owed => todo[m].at \in Ats /\ todo[m].at \in Nat /\ todo[m].at < c
              /\ todo[m].k \in Branches => todo[m].cond \in Conds /\ todo[m].cond \in Nat /\ todo[m].cond <= c
    <2>1. todo # <<>>
      BY <1>0 DEF Shift
    <2> QED BY <1>1, <1>5, <2>1, HeadOwed
  <1>w. text[p + 1].op = "je"
    <2>1. 1 \in 1..Len(todo) /\ todo[1].k # "endif"
      BY <1>0 DEF Shift
    <2>2. Marked(todo[1], text)
      BY <1>1, <2>1 DEF MarksOK
    <2> QED BY <1>5, <2>1, <2>2, Zenon DEF Marked
  <1> HIDE DEF p, c
  <1>7. \A i \in 1..0 : FALSE
    OBVIOUS
  <1>8. MarksOK' /\ Nested'
    <2>3. p \in Int
      BY <1>6
    <2> QED BY <1>0, <1>1, <1>5, <1>7, <2>3, MarksShift DEF p
  <1>9. /\ \A o \in Ats : o = p \/ o \in Ats'
        /\ \A o \in Ats' : \E m \in 2..Len(todo) : todo[m].k \in Owed /\ o = todo[m].at
        /\ \A d \in Conds' : \E m \in 2..Len(todo) : todo[m].k \in Branches /\ d = todo[m].cond
    BY <1>0, <1>5, <1>7, AtsShift DEF p
  <1>10. JumpsOK(text, Ats, Conds)'
    <2>2. \A o \in Ats' : o \in Nat /\ o \in Ats /\ o < c
      BY <1>6, <1>9
    <2>3. \A d \in Conds' : d \in Nat /\ d \in Conds /\ d <= c
      BY <1>6, <1>9
    <2>4. p \in DoneIn(text') /\ Leads(text', p) = Len(text) + 1 /\ text'[p + 1].op = "je"
      <3>1. Leads(text', p) = Len(text) + 1
        BY <1>0, <1>2, <1>6 DEF Leads
      <3>2. p \in 0..(Len(text) - 1) /\ text[p + 1].op \in {"je", "jmp"}
        BY <1>6 DEF JumpsIn
      <3>3. text'[p + 1].op = text[p + 1].op /\ p \in 0..(Len(text') - 1)
        BY <1>0, <1>2, <3>2 DEF Rewritten
      <3>4. text'[p + 1].x # Unset
        BY <1>0, <1>2, <1>6 DEF Unset
      <3>5. p \in DoneIn(text')
        BY <3>2, <3>3, <3>4, Zenon DEF DoneIn, JumpsIn
      <3> QED BY <1>w, <3>1, <3>3, <3>5
    <2>5. Len(text) \in DoneIn(text') /\ Leads(text', Len(text)) = c
      <3>1. Leads(text', Len(text)) = c
        BY <1>0, <1>2, <1>6 DEF Leads
      <3>2. Len(text) \in 0..(Len(text') - 1)
        BY <1>2
      <3>3. text'[Len(text) + 1].x # Unset
        BY <1>0, <1>2, <1>6 DEF Unset
      <3>4. text'[Len(text) + 1].op \in {"je", "jmp"}
        BY <1>0
      <3>5. Len(text) \in DoneIn(text')
        BY <3>2, <3>3, <3>4, Zenon DEF DoneIn, JumpsIn
      <3> QED BY <3>1, <3>5
    <2>6. p < Len(text)
      BY <1>2, <1>6
    <2>7. /\ p \in Nat /\ p \in Ats /\ p \in JumpsIn(text) /\ p \notin DoneIn(text)
          /\ Rewritten(text, text', p) /\ Len(text') = Len(text) + 1
          /\ c \in Conds /\ c \in Nat /\ c <= p /\ JumpsOK(text, Ats, Conds)
      BY <1>0, <1>1, <1>6 DEF p
    <2>8. \A o \in Ats : o = p \/ o \in Ats'
      BY <1>9
    <2>9. JumpsOK(text', Ats', Conds')
      BY <2>2, <2>3, <2>4, <2>5, <2>6, <2>7, <2>8, JumpsLooped, Zenon
    <2> QED BY <2>9
  <1>11. Started'
    <2> SUFFICES ASSUME NEW l \in Items(Owed)'
                 PROVE  Len(text') > todo'[l].at + 1
      BY DEF Started
    <2>1. todo'[l].at \in Ats'
      BY DEF Ats
    <2>2. PICK m \in 2..Len(todo) : todo[m].k \in Owed /\ todo'[l].at = todo[m].at
      BY <1>9, <2>1
    <2> QED BY <1>2, <1>6, <2>2
  <1> QED BY <1>8, <1>10, <1>11

(* Between top-level statements no construct is pending.                   *)
LEMMA NonePending ==
    ASSUME \A l \in 1..Len(todo) : todo[l].k \notin Branches
    PROVE  /\ Nested /\ Started /\ Ats = {} /\ Conds = {}
           /\ (\A l \in 1..Len(todo) : todo[l].k # "enddefine") => MarksOK
  BY KindSets DEF Nested, Started, Ats, Conds, Items, MarksOK, Marked

LEMMA NothingLeft ==
    ASSUME todo = <<>>
    PROVE  MarksOK /\ Nested /\ Started /\ Ats = {} /\ Conds = {}
  <1>1. Len(todo) = 0 /\ 1..0 = {}
    BY EmptySeq
  <1> QED BY <1>1, NonePending

LEMMA NoneLeft ==
    ASSUME \A l \in 1..Len(todo') : todo'[l].k \notin Branches
    PROVE  /\ Nested' /\ Started' /\ Ats' = {} /\ Conds' = {}
           /\ (\A l \in 1..Len(todo') : todo'[l].k # "enddefine") => MarksOK'
  BY KindSets DEF Nested, Started, Ats, Conds, Items, MarksOK, Marked

LEMMA AllDone ==
    ASSUME todo' = <<>>
    PROVE  MarksOK' /\ Nested' /\ Started' /\ Ats' = {} /\ Conds' = {}
  <1>1. Len(todo') = 0 /\ 1..0 = {}
    BY EmptySeq
  <1> QED BY <1>1, NoneLeft

LEMMA JumpsTop ==
    ASSUME CompilerInv, RelasInv, WalkInv, JumpsInv, CompilerInv',
           \/ EndDefine \/ compile_define \/ GlobalAssign \/ SecondPass \/ compile_start \/ Rejections
           \/ Declare \/ Declared \/ CompilePassEnd \/ Terminating \/ UNCHANGED vars
    PROVE  JumpsInv'
  <1>0. Len(text) \in Nat /\ Len(text') \in Nat /\ Nowhere \in Int
    BY DEF CompilerInv, TypeOK, Nowhere
  <1>1. ASSUME Live, Live \/ outcome' = outcome
        PROVE  MarksOK /\ Nested /\ Started /\ JumpsOK(text, Ats, Conds)
    BY <1>1 DEF JumpsInv
  <1>2. CASE EndDefine
    <2> DEFINE p == todo[1].at
    <2>1. /\ Shift(0) /\ todo[1].k = "enddefine" /\ p \in Nat /\ p < Len(text)
          /\ Rewritten(text, text', p) /\ Len(text') = Len(text) /\ outcome' = outcome
      BY <1>2, EndDefineIs
    <2> SUFFICES ASSUME Live
                 PROVE  MarksOK' /\ Nested' /\ Started' /\ JumpsOK(text, Ats, Conds)'
      BY <2>1 DEF JumpsInv, Live
    <2>2. MarksOK /\ JumpsOK(text, Ats, Conds)
      BY DEF JumpsInv
    <2>3. Len(todo) = 1
      BY <2>1 DEF WalkInv, EndLast, Shift
    <2>4. todo' = <<>>
      <3>1. Len(todo') = 0
        BY <2>1, <2>3 DEF Shift
      <3> QED BY <3>1, EmptySeq DEF CompilerInv, TypeOK
    <2>5. MarksOK' /\ Nested' /\ Started' /\ Ats' = {} /\ Conds' = {}
      BY <2>4, AllDone
    <2>6. text[p + 1].op = "sub rsp, frame"
      <3>1. Marked(todo[1], text)
        BY <2>2, <2>3 DEF MarksOK
      <3> QED BY <2>1, <3>1, Zenon DEF Marked
    <2>7. JumpsIn(text) = JumpsIn(text') /\ p \notin JumpsIn(text)
      <3>1. \A a \in 0..(Len(text) - 1) : text'[a + 1].op = text[a + 1].op
        BY <2>1 DEF Rewritten
      <3>2. p \notin JumpsIn(text)
        BY <2>6 DEF JumpsIn
      <3> QED BY <2>1, <3>1, <3>2 DEF JumpsIn
    <2>8. Ats = {} /\ Conds = {}
      <3>1. \A l \in 1..Len(todo) : todo[l].k \notin Branches
        BY <2>1, <2>3, KindSets
      <3> QED BY <3>1, NonePending
    <2>9. JumpsOK(text', {}, {})
      <3>1. \A a \in JumpsIn(text) : a \in 0..(Len(text) - 1) /\ a # p /\ text'[a + 1] = text[a + 1]
        BY <2>1, <2>7 DEF JumpsIn, Rewritten
      <3>2. DoneIn(text') = DoneIn(text) /\ \A a \in JumpsIn(text) : Leads(text', a) = Leads(text, a)
        BY <2>7, <3>1 DEF DoneIn, Leads
      <3>3. DoneIn(text) \subseteq JumpsIn(text)
        BY DEF DoneIn
      <3>4. ASSUME NEW b \in DoneIn(text), Closed(text, {}, b)
            PROVE  Closed(text', {}, b)
        BY <3>1, <3>2, <3>3, <3>4 DEF Closed
      <3> QED BY <2>1, <2>2, <2>7, <2>8, <3>2, <3>3, <3>4 DEF JumpsOK
    <2> QED BY <2>5, <2>9
  <1>3. CASE compile_define
    <2>1. /\ todo = <<>> /\ Len(todo') = 3 /\ todo'[1].k = "stmt" /\ todo'[2].k = "more"
          /\ todo'[3].k = "enddefine" /\ todo'[3].at = Len(text) + 2
          /\ Rewritten(text, text', Nowhere) /\ Len(text') = Len(text) + 3
          /\ text'[Len(text) + 1].op = "push rbp" /\ text'[Len(text) + 2].op = "mov rbp, rsp"
          /\ text'[Len(text) + 3].op = "sub rsp, frame"
          /\ outcome' = outcome
      BY <1>3, DefineIs
    <2> SUFFICES ASSUME Live
                 PROVE  MarksOK' /\ Nested' /\ Started' /\ JumpsOK(text, Ats, Conds)'
      BY <2>1 DEF JumpsInv, Live
    <2>2. JumpsOK(text, {}, {})
      BY <2>1, NothingLeft DEF JumpsInv
    <2>3. \A l \in 1..Len(todo') : l = 1 \/ l = 2 \/ l = 3
      <3>1. Len(todo') = 3
        BY <2>1
      <3> QED BY <3>1
    <2>4. Nested' /\ Started' /\ Ats' = {} /\ Conds' = {}
      <3>1. \A l \in 1..Len(todo') : todo'[l].k \notin Branches
        BY <2>1, <2>3, KindSets
      <3> QED BY <3>1, NoneLeft
    <2>5. MarksOK'
      <3>1. Marked(todo'[1], text') /\ Marked(todo'[2], text')
        BY <2>1, KindSets DEF Marked
      <3>2. Marked(todo'[3], text')
        <4>1. /\ todo'[3].at \in Nat /\ todo'[3].at < Len(text') /\ todo'[3].at + 1 = Len(text) + 3
          <5>1. todo'[3].at = Len(text) + 2 /\ Len(text') = Len(text) + 3
            BY <2>1
          <5> QED BY <1>0, <5>1
        <4>2. text'[todo'[3].at + 1].op = "sub rsp, frame" /\ todo'[3].k \notin Branches /\ todo'[3].k \notin Owed
          BY <2>1, <4>1, KindSets
        <4> QED BY <4>1, <4>2, Zenon DEF Marked
      <3> QED BY <2>3, <3>1, <3>2 DEF MarksOK
    <2>6. \A a \in JumpsIn(text') : ~(a >= Len(text))
      <3> SUFFICES ASSUME NEW a \in JumpsIn(text'), a >= Len(text)
                   PROVE  FALSE
        OBVIOUS
      <3>1. a \in 0..(Len(text') - 1) /\ text'[a + 1].op \in {"je", "jmp"}
        BY DEF JumpsIn
      <3>2. Len(text') = Len(text) + 3
        BY <2>1
      <3>3. a = Len(text) \/ a = Len(text) + 1 \/ a = Len(text) + 2
        BY <1>0, <3>1, <3>2
      <3>4. a + 1 = Len(text) + 1 \/ a + 1 = Len(text) + 2 \/ a + 1 = Len(text) + 3
        BY <1>0, <3>3
      <3> QED BY <2>1, <3>1, <3>4
    <2>7. JumpsOK(text', {}, {})
      <3>1. Rewritten(text, text', Nowhere)
        BY <2>1
      <3> QED BY <2>2, <2>6, <3>1, JumpsGrown
    <2> QED BY <2>4, <2>5, <2>7
  <1>4. CASE GlobalAssign
    <2>1. /\ todo = <<>> /\ Len(todo') = 2 /\ todo'[1].k = "expr" /\ todo'[2].k = "assign"
          /\ text' = text /\ outcome' = outcome
      BY <1>4, GlobalAssignIs DEF AssignBegun
    <2> SUFFICES ASSUME Live
                 PROVE  MarksOK' /\ Nested' /\ Started' /\ JumpsOK(text, Ats, Conds)'
      BY <2>1 DEF JumpsInv, Live
    <2>2. JumpsOK(text, {}, {})
      BY <2>1, NothingLeft DEF JumpsInv
    <2>3. \A l \in 1..Len(todo') : l = 1 \/ l = 2
      BY <2>1
    <2>4. MarksOK' /\ Nested' /\ Started' /\ Ats' = {} /\ Conds' = {}
      <3>1. \A l \in 1..Len(todo') : todo'[l].k \notin Branches /\ todo'[l].k # "enddefine"
        BY <2>1, <2>3, KindSets
      <3> QED BY <3>1, NoneLeft
    <2> QED BY <2>1, <2>2, <2>4
  <1>5. CASE SecondPass
    <2>1. todo' = <<>> /\ Len(text') = 0
      BY <1>5, SecondPassIs
    <2>2. MarksOK' /\ Nested' /\ Started' /\ Ats' = {} /\ Conds' = {}
      BY <2>1, AllDone
    <2>3. JumpsIn(text') = {} /\ DoneIn(text') = {}
      BY <2>1 DEF JumpsIn, DoneIn
    <2>4. JumpsOK(text', {}, {})
      BY <2>3 DEF JumpsOK
    <2> QED BY <2>2, <2>4 DEF JumpsInv
  <1>6. CASE compile_start
    <2>1. /\ Emits(Flat(0)) /\ todo' = todo /\ outcome' = IF outcome = "none" THEN "ok" ELSE outcome
      BY <1>6, StartIs
    <2> SUFFICES ASSUME Live
                 PROVE  MarksOK' /\ Nested' /\ Started' /\ JumpsOK(text, Ats, Conds)'
      BY <2>1 DEF JumpsInv, Live
    <2>2. MarksOK /\ Nested /\ Started /\ JumpsOK(text, Ats, Conds)
      BY DEF JumpsInv
    <2>3. Emits(Tame(0))
      BY <2>1, FlatTame DEF Emits
    <2>4. /\ Rewritten(text, text', Nowhere) /\ \A a \in JumpsIn(text') : ~(a >= Len(text))
          /\ Len(text') >= Len(text)
      BY <2>3, TameJumps DEF Rewritten
    <2>5. MarksOK'
      <3> SUFFICES ASSUME NEW l \in 1..Len(todo)
                   PROVE  Marked(todo[l], text')
        BY <2>1 DEF MarksOK
      <3>1. Marked(todo[l], text)
        BY <2>2 DEF MarksOK
      <3>2. todo[l].k \in Owed => todo[l].at # Nowhere
        <4>1. todo[l].k \in Owed => todo[l].at \in Nat
          BY <2>2, PendingFacts
        <4>2. Nowhere \notin Nat
          BY DEF Nowhere
        <4> QED BY <4>1, <4>2
      <3> QED BY <1>0, <2>4, <3>1, <3>2, MarkedKept
    <2>6. Nested' /\ Ats' = Ats /\ Conds' = Conds
      BY <2>1, <2>2 DEF Nested, Ats, Conds, Items
    <2>7. Started'
      <3>1. ASSUME NEW l \in Items(Owed), Len(text) > todo[l].at + 1
            PROVE  Len(text') > todo[l].at + 1
        <4>1. l \in 1..Len(todo) /\ todo[l].k \in Owed
          BY DEF Items
        <4>2. todo[l].at \in Nat
          BY <2>2, <4>1, PendingFacts
        <4> QED BY <1>0, <2>4, <3>1, <4>2
      <3> QED BY <2>1, <2>2, <3>1 DEF Started, Items
    <2>8. JumpsOK(text', Ats, Conds)
      <3>1. (\A o \in Ats : o \in Nat) /\ \A c \in Conds : c \in Nat
        BY <2>2, PendingFacts DEF Ats, Conds, Items
      <3> QED BY <2>2, <2>4, <3>1, JumpsGrown
    <2> QED BY <2>5, <2>6, <2>7, <2>8
  <1>7. CASE Rejections
    BY <1>7, RejectedIs DEF JumpsInv, Live
  <1>8. CASE Declare \/ Declared \/ CompilePassEnd \/ Terminating \/ UNCHANGED vars
    <2>1. todo' = todo /\ text' = text /\ (Live' => Live)
      BY <1>8, QuietIs DEF Quiet, Live
    <2> QED BY <2>1 DEF JumpsInv, MarksOK, Nested, Started, Ats, Conds, Items
  <1> QED BY <1>2, <1>3, <1>4, <1>5, <1>6, <1>7, <1>8

LEMMA HeadOne ==
    ASSUME CompilerInv, todo # <<>>
    PROVE  Head(todo) = todo[1]
  BY EmptySeq DEF CompilerInv, TypeOK

LEMMA JumpsStep ==
    ASSUME CompilerInv, ScopesInv, RelasInv, WalkInv, JumpsInv, [Next]_vars
    PROVE  JumpsInv'
  <1>1. CompilerInv'
    BY StepInv
  <1>2. CASE ExprHandlers
    <2>1. ExprHandled
      BY <1>2, ExprsHandled DEF WalkInv
    <2>2. Calm(Tame(frame), ExprKinds) /\ Head(todo).k \in ExprKinds /\ outcome' = outcome
      BY <2>1, CalmTame DEF ExprHandled
    <2>3. ExprKinds \in SUBSET StmtKinds /\ todo[1].k \in StmtKinds
      BY <2>2, HeadOne DEF StmtKinds, Calm
    <2> QED BY <2>2, <2>3, JumpsCalm
  <1>3. CASE StmtHandlers
    <2>1. StmtHandled
      BY <1>3, StmtsHandled DEF WalkInv
    <2>2. Calm(Tame(frame'), BodyKinds) /\ Head(todo).k \in StmtKinds /\ outcome' = outcome
      BY <2>1 DEF StmtHandled
    <2>3. BodyKinds \in SUBSET StmtKinds /\ todo[1].k \in StmtKinds
      BY <2>2, HeadOne DEF BodyKinds, Calm
    <2> QED BY <2>2, <2>3, JumpsCalm
  <1>4. CASE AssignStmt
    <2>1. Calm(Tame(frame'), StmtKinds) /\ todo[1].k \in StmtKinds /\ outcome' = outcome
      BY <1>4, AssignHandled, KindSets DEF AssignBegun
    <2> QED BY <2>1, JumpsCalm
  <1> QED BY <1>1, <1>2, <1>3, <1>4, JumpsConditional, JumpsTest, JumpsElse, JumpsEndWhile,
             JumpsEndIf, JumpsTop, StepCases

LEMMA AlwaysJumps == Spec => []JumpsInv
  <1>1. Init => JumpsInv
    <2> SUFFICES ASSUME Init
                 PROVE  JumpsInv
      OBVIOUS
    <2>1. todo = <<>> /\ Len(text) = 0
      BY EmptySeq DEF Init
    <2>2. MarksOK /\ Nested /\ Started /\ Ats = {} /\ Conds = {}
      BY <2>1, NothingLeft
    <2>3. JumpsIn(text) = {} /\ DoneIn(text) = {}
      BY <2>1 DEF JumpsIn, DoneIn
    <2> QED BY <2>2, <2>3 DEF JumpsInv, JumpsOK
  <1>2. CodeInv /\ JumpsInv /\ [Next]_vars => JumpsInv'
    BY JumpsStep DEF CodeInv
  <1> QED BY <1>1, <1>2, AlwaysCode, PTL DEF Spec

(* Everywhere in the walk the jumps without a target are exactly those of  *)
(* the constructs compile_while and compile_if are inside of: each je and  *)
(* jmp they emit is patched once, and nothing else emits one.              *)
THEOREM JumpsArePatched == Spec => []JumpsOwed
  <1>1. CodeInv /\ JumpsInv => JumpsOwed
    <2> SUFFICES ASSUME CodeInv, JumpsInv, Running
                 PROVE  {a \in Jumps : Instr(a).x = Unset} = Ats
      BY DEF JumpsOwed, Ats, Items, Owed
    <2>1. CompilerInv /\ MarksOK /\ JumpsOK(text, Ats, Conds)
      BY DEF CodeInv, WalkInv, RunsLive, Running, JumpsInv, Live
    <2>2. Jumps = JumpsIn(text) /\ \A a \in Jumps : Instr(a).x = text[a + 1].x
      BY DEF Jumps, With, Addresses, Instr, JumpsIn
    <2>3. \A a \in JumpsIn(text) : text[a + 1].x = Unset <=> a \notin DoneIn(text)
      BY DEF DoneIn
    <2>4. \A o \in Ats : o \in JumpsIn(text) /\ o \notin DoneIn(text)
      BY <2>1, PendingFacts DEF Ats, Items
    <2>5. \A a \in JumpsIn(text) : a \notin DoneIn(text) => a \in Ats
      BY <2>1 DEF JumpsOK
    <2> QED BY <2>2, <2>3, <2>4, <2>5
  <1> QED BY <1>1, AlwaysCode, AlwaysJumps, PTL

(* A loop that compile_while has closed keeps its shape: the jumps of what *)
(* it contains stay inside it and those of what it is contained in pass it *)
(* by, so that the only way out is the je of its own condition.            *)
THEOREM LoopsAreClosed == Spec => []LoopsClosed
  <1>1. CodeInv /\ JumpsInv => LoopsClosed
    <2> SUFFICES ASSUME CodeInv, JumpsInv, Ok
                 PROVE  LoopsClosed
      BY DEF LoopsClosed
    <2>1. todo = <<>> /\ Len(text) \in Nat
      <3>1. ~Running
        BY DEF CodeInv, WalkInv, RunsLive, Running, Ok
      <3> QED BY <3>1 DEF CodeInv, WalkInv, Idle, CompilerInv, TypeOK
    <2>2. JumpsOK(text, {}, {})
      BY <2>1, NothingLeft DEF JumpsInv, Live, Ok
    <2>3. Jumps = JumpsIn(text) /\ DoneIn(text) = JumpsIn(text)
      BY <2>2 DEF Jumps, With, Addresses, Instr, JumpsIn, DoneIn, JumpsOK
    <2>4. \A a \in Jumps : /\ a \in 0..(Len(text) - 1) /\ Target(a) = Leads(text, a)
                           /\ Leads(text, a) \in 0..Len(text) /\ Instr(a) = text[a + 1]
      BY <2>2, <2>3 DEF Target, Leads, Instr, JumpsOK, JumpsIn
    <2> SUFFICES ASSUME NEW back \in Jumps, Target(back) <= back
                 PROVE  LET inside == Target(back)..back
                        IN  /\ \E exit \in With({"je"}) : exit \in inside /\ Target(exit) = back + 1
                            /\ \A a \in Jumps :
                                  /\ a \in inside /\ Target(a) \notin inside =>
                                        Instr(a).op = "je" /\ Target(a) = back + 1
                                  /\ a \notin inside => Target(a) \notin inside \ {Target(back)}
      BY DEF LoopsClosed
    <2> DEFINE first == Target(back)
    <2>5. first = Leads(text, back) /\ first \in Nat /\ back \in Nat /\ Closed(text, {}, back)
      BY <2>1, <2>2, <2>3, <2>4 DEF JumpsOK
    <2> HIDE DEF first
    <2>6. PICK e \in Jumps : text[e + 1].op = "je" /\ Leads(text, e) = back + 1 /\ first <= e /\ e <= back
      BY <2>3, <2>5 DEF Closed
    <2>7. e \in With({"je"}) /\ e \in first..back /\ Target(e) = back + 1
      <3>1. e \in With({"je"})
        BY <2>4, <2>6 DEF With, Addresses
      <3>2. e \in first..back
        BY <2>4, <2>5, <2>6
      <3> QED BY <2>4, <2>6, <3>1, <3>2
    <2>8. ASSUME NEW a \in Jumps
          PROVE  /\ a \in first..back /\ Target(a) \notin first..back =>
                       Instr(a).op = "je" /\ Target(a) = back + 1
                 /\ a \notin first..back => Target(a) \notin (first..back) \ {first}
      <3>1. a \in Int /\ Target(a) \in Int /\ Target(a) = Leads(text, a)
        BY <2>1, <2>4
      <3>2. /\ first <= a /\ a <= back /\ (Target(a) < first \/ Target(a) > back) =>
                  Instr(a).op = "je" /\ Target(a) = back + 1
            /\ a < first \/ a > back => Target(a) <= first \/ Target(a) > back
        BY <2>3, <2>4, <2>5, <3>1 DEF Closed
      <3> QED BY <2>5, <3>1, <3>2
    <2> QED BY <2>7, <2>8 DEF first
  <1> QED BY <1>1, AlwaysCode, AlwaysJumps, PTL

(* Frames.                                                                 *)

(* The code s touches locals of at most size bytes between two addresses.  *)
Touched(s, first, last, size) ==
    \A a \in first..last : s[a + 1].op \in LocalAccess => -size <= s[a + 1].x

(* The frame of a function is no longer than its prologue can say.         *)
Short(f) == Align(f.size, 16) < HALF

(* A function f of the code s.                                             *)
FrameOK(f, s) ==
    /\ f.sub \in Nat /\ f.last \in Nat /\ f.sub <= f.last /\ f.last < Len(s)
    /\ s[f.sub + 1].op = "sub rsp, frame"
    /\ Short(f) => /\ s[f.sub + 1].x \in Nat /\ s[f.sub + 1].x % 16 = 0
                   /\ Touched(s, f.sub, f.last, s[f.sub + 1].x)

(* The inductive form of FrameHoldsLocals: the function that is being      *)
(* compiled lies after the others, and its code so far fits its frame.     *)
FrameInv ==
    /\ \A f \in frames : FrameOK(f, text)
    /\ \A l \in 1..Len(todo) : todo[l].k = "enddefine" =>
          /\ todo[l].at \in Nat
          /\ \A f \in frames : f.last < todo[l].at
          /\ Touched(text, todo[l].at, Len(text) - 1, frame)

(* Functions stay as they are, whatever is patched outside of them, or at  *)
(* a jump.                                                                 *)
LEMMA FrameKept ==
    ASSUME NEW f, NEW s, NEW t, NEW p \in Int, FrameOK(f, s), Rewritten(s, t, p),
           p \notin f.sub..f.last \/ s[p + 1].op \in {"je", "jmp"}
    PROVE  FrameOK(f, t)
  <1>1. /\ f.sub \in Nat /\ f.last \in Nat /\ f.sub <= f.last /\ f.last < Len(s)
        /\ Len(s) \in Nat /\ Len(t) \in Nat /\ Len(t) >= Len(s)
    BY DEF FrameOK, Rewritten
  <1>2. f.sub \in 0..(Len(s) - 1) /\ \A a \in f.sub..f.last : a \in 0..(Len(s) - 1)
    BY <1>1
  <1>3. /\ \A a \in 0..(Len(s) - 1) : a # p => t[a + 1] = s[a + 1]
        /\ \A a \in 0..(Len(s) - 1) : t[a + 1].op = s[a + 1].op
    BY DEF Rewritten
  <1>4. f.sub # p
    <2>1. s[f.sub + 1].op = "sub rsp, frame"
      BY DEF FrameOK
    <2>2. f.sub \in f.sub..f.last
      BY <1>1
    <2> QED BY <2>1, <2>2
  <1>5. t[f.sub + 1] = s[f.sub + 1]
    BY <1>2, <1>3, <1>4
  <1>6. ASSUME Short(f), NEW a \in f.sub..f.last, t[a + 1].op \in LocalAccess
        PROVE  -(s[f.sub + 1].x) <= t[a + 1].x
    <2>1. s[a + 1].op \in LocalAccess
      BY <1>2, <1>3, <1>6
    <2>2. a # p
      BY <2>1 DEF LocalAccess
    <2>3. t[a + 1] = s[a + 1]
      BY <1>2, <1>3, <2>2
    <2>4. Touched(s, f.sub, f.last, s[f.sub + 1].x)
      BY <1>6 DEF FrameOK
    <2> QED BY <1>6, <2>1, <2>3, <2>4 DEF Touched
  <1>7. /\ t[f.sub + 1].op = "sub rsp, frame"
        /\ Short(f) => t[f.sub + 1].x \in Nat /\ t[f.sub + 1].x % 16 = 0
    BY <1>5 DEF FrameOK
  <1>8. Short(f) => Touched(t, f.sub, f.last, t[f.sub + 1].x)
    BY <1>5, <1>6 DEF Touched
  <1>9. f.last < Len(t)
    BY <1>1
  <1> QED BY <1>1, <1>7, <1>8, <1>9 DEF FrameOK

(* The body of a function goes on.                                         *)
LEMMA FrameShift ==
    ASSUME CompilerInv, CompilerInv', FrameInv, NEW n, Shift(n),
           \A i \in 1..n : todo'[i].k # "enddefine",
           NEW p \in Int, Rewritten(text, text', p), p = Nowhere \/ text[p + 1].op \in {"je", "jmp"},
           frames' = frames, frame' >= frame,
           \A a \in Len(text)..(Len(text') - 1) :
              text'[a + 1].op \in LocalAccess => -frame' <= text'[a + 1].x
    PROVE  FrameInv'
  <1>1. /\ Len(text) \in Nat /\ Len(text') \in Nat /\ frame \in Nat /\ frame' \in Nat
        /\ \A a \in 0..(Len(text) - 1) : text[a + 1].x \in Int
    <2>1. text \in Seq(InstrType)
      BY DEF CompilerInv, TypeOK
    <2>2. \A a \in 0..(Len(text) - 1) : text[a + 1] \in InstrType
      BY <2>1
    <2>3. Len(text) \in Nat /\ Len(text') \in Nat /\ frame \in Nat /\ frame' \in Nat
      BY DEF CompilerInv, TypeOK
    <2>4. \A a \in 0..(Len(text) - 1) : text[a + 1].x \in Int
      BY <2>2 DEF InstrType
    <2> QED BY <2>3, <2>4
  <1>2. ASSUME NEW f \in frames
        PROVE  FrameOK(f, text')
    <2>1. FrameOK(f, text)
      BY DEF FrameInv
    <2>2. p \notin f.sub..f.last \/ text[p + 1].op \in {"je", "jmp"}
      <3>1. f.sub \in Nat /\ f.last \in Nat
        BY <2>1 DEF FrameOK
      <3>2. Nowhere \notin f.sub..f.last
        BY <3>1 DEF Nowhere
      <3> QED BY <3>2
    <2> QED BY <2>1, <2>2, FrameKept
  <1>3. ASSUME NEW l \in 1..Len(todo'), todo'[l].k = "enddefine"
        PROVE  /\ todo'[l].at \in Nat
               /\ \A f \in frames : f.last < todo'[l].at
               /\ Touched(text', todo'[l].at, Len(text') - 1, frame')
    <2> DEFINE m == l - n + 1
    <2>1. m \in 2..Len(todo) /\ todo'[l] = todo[m] /\ Len(todo) \in Nat
      BY <1>3, Shifted
    <2>2. m \in 1..Len(todo)
      BY <2>1
    <2>3. /\ todo[m].at \in Nat
          /\ \A f \in frames : f.last < todo[m].at
          /\ Touched(text, todo[m].at, Len(text) - 1, frame)
      BY <1>3, <2>1, <2>2 DEF FrameInv
    <2>4. ASSUME NEW a \in (todo[m].at)..(Len(text') - 1), text'[a + 1].op \in LocalAccess
          PROVE  -frame' <= text'[a + 1].x
      <3>1. CASE a >= Len(text)
        BY <1>1, <2>3, <2>4, <3>1
      <3>2. CASE ~(a >= Len(text))
        <4>1. a \in (todo[m].at)..(Len(text) - 1) /\ a \in 0..(Len(text) - 1)
          BY <1>1, <2>3, <3>2
        <4>2. text[a + 1].op \in LocalAccess
          BY <2>4, <4>1 DEF Rewritten
        <4>3. a # p
          <5>1. CASE p = Nowhere
            BY <4>1, <5>1 DEF Nowhere
          <5>2. CASE text[p + 1].op \in {"je", "jmp"}
            BY <4>2, <5>2 DEF LocalAccess
          <5> QED BY <5>1, <5>2
        <4>4. text'[a + 1] = text[a + 1]
          BY <4>1, <4>3 DEF Rewritten
        <4>5. -frame <= text[a + 1].x
          BY <2>3, <4>1, <4>2 DEF Touched
        <4> QED BY <1>1, <4>1, <4>4, <4>5
      <3> QED BY <3>1, <3>2
    <2> HIDE DEF m
    <2> QED BY <2>1, <2>3, <2>4 DEF Touched
  <1> QED BY <1>2, <1>3 DEF FrameInv

LEMMA FrameCalm ==
    ASSUME CompilerInv, CompilerInv', FrameInv, NEW K \in SUBSET StmtKinds, Calm(Tame(frame'), K),
           frames' = frames, frame' >= frame
    PROVE  FrameInv'
  <1>1. PICK n \in Nat : Shift(n) /\ \A i \in 1..n : todo'[i].k \in K
    BY DEF Calm, Moves
  <1>2. \A i \in 1..n : todo'[i].k # "enddefine"
    BY <1>1, KindSets
  <1>3. /\ Rewritten(text, text', Nowhere)
        /\ \A a \in Len(text)..(Len(text') - 1) : text'[a + 1] \in Tame(frame')
    BY TameJumps DEF Calm
  <1>4. Nowhere \in Int
    BY DEF Nowhere
  <1>5. \A a \in Len(text)..(Len(text') - 1) :
           text'[a + 1].op \in LocalAccess => -frame' <= text'[a + 1].x
    BY <1>3 DEF Tame
  <1> QED BY <1>1, <1>2, <1>3, <1>4, <1>5, FrameShift

(* A construct is opened or closed; the jump it owes is patched.           *)
LEMMA FrameBranches ==
    ASSUME CompilerInv, CompilerInv', RelasInv, WalkInv, JumpsInv, FrameInv,
           Conditional \/ TestCondition \/ Else \/ EndWhile \/ EndIf
    PROVE  FrameInv'
  <1>0. Len(text) \in Nat /\ Len(text') \in Nat /\ Nowhere \in Int /\ frame \in Nat
    BY DEF CompilerInv, TypeOK, Nowhere
  <1>1. ASSUME NEW k \in Owed, At(k)
        PROVE  todo[1].at < Len(text) /\ todo[1].at \in Int /\ text[todo[1].at + 1].op \in {"je", "jmp"}
    <2>1. todo[1].k = k /\ todo[1].at \in Nat /\ todo[1].at < Len(text) /\ 1 \in 1..Len(todo)
      BY <1>1, MarkInside, HeadFirst DEF Owed, Marks
    <2>2. MarksOK
      BY <1>1 DEF WalkInv, RunsLive, At, Running, JumpsInv, Live
    <2>3. Marked(todo[1], text)
      BY <2>1, <2>2 DEF MarksOK
    <2>4. text[todo[1].at + 1].op \in {"je", "jmp"}
      BY <2>1, <2>3, Zenon DEF Marked
    <2> QED BY <2>1, <2>4
  <1>2. "je" \notin LocalAccess /\ "jmp" \notin LocalAccess /\ "test" \notin LocalAccess
    BY DEF LocalAccess
  <1>3. CASE Conditional
    <2>1. /\ Shift(2) /\ todo'[1].k = "expr" /\ todo'[2].k \in Tests /\ text' = text
          /\ frames' = frames /\ frame' = frame
      BY <1>3, ConditionalIs
    <2>2. \A i \in 1..2 : i = 1 \/ i = 2
      OBVIOUS
    <2>3. \A i \in 1..2 : todo'[i].k # "enddefine"
      BY <2>1, <2>2, KindSets
    <2>4. Rewritten(text, text', Nowhere)
      BY <1>0, <2>1 DEF Rewritten
    <2>5. frame' >= frame /\ \A a \in Len(text)..(Len(text') - 1) : FALSE
      BY <1>0, <2>1
    <2> QED BY <1>0, <2>1, <2>3, <2>4, <2>5, FrameShift
  <1>4. CASE TestCondition
    <2>1. /\ Shift(3) /\ todo'[1].k = "stmt" /\ todo'[2].k = "more" /\ todo'[3].k \in Owed
          /\ Rewritten(text, text', Nowhere) /\ Len(text') = Len(text) + 2
          /\ text'[Len(text) + 1].op = "test" /\ text'[Len(text) + 2].op = "je"
          /\ frames' = frames /\ frame' = frame
      BY <1>4, TestIs
    <2>2. \A i \in 1..3 : i = 1 \/ i = 2 \/ i = 3
      OBVIOUS
    <2>3. \A i \in 1..3 : todo'[i].k # "enddefine"
      BY <2>1, <2>2, KindSets
    <2>4. \A a \in Len(text)..(Len(text') - 1) : a + 1 = Len(text) + 1 \/ a + 1 = Len(text) + 2
      <3>1. Len(text') = Len(text) + 2
        BY <2>1
      <3> QED BY <1>0, <3>1
    <2>5. \A a \in Len(text)..(Len(text') - 1) : text'[a + 1].op \notin LocalAccess
      BY <1>2, <2>1, <2>4
    <2>6. frame' >= frame
      BY <1>0, <2>1
    <2> QED BY <1>0, <2>1, <2>3, <2>5, <2>6, FrameShift
  <1>5. ASSUME NEW p \in Int, Rewritten(text, text', p), text[p + 1].op \in {"je", "jmp"},
               Len(text') = Len(text) \/ (Len(text') = Len(text) + 1 /\ text'[Len(text) + 1].op = "jmp"),
               frames' = frames, frame' = frame,
               Shift(0) \/ (/\ Shift(3) /\ todo'[1].k = "stmt" /\ todo'[2].k = "more"
                            /\ todo'[3].k = "endif")
        PROVE  FrameInv'
    <2>1. PICK n \in {0, 3} : Shift(n) /\ \A i \in 1..n : todo'[i].k # "enddefine"
      <3>1. \A i \in 1..3 : i = 1 \/ i = 2 \/ i = 3
        OBVIOUS
      <3> QED BY <1>5, <3>1
    <2>2. \A a \in Len(text)..(Len(text') - 1) : text'[a + 1].op \notin LocalAccess
      <3>1. \A a \in Len(text)..(Len(text') - 1) : a + 1 = Len(text) + 1 /\ Len(text') # Len(text)
        BY <1>0, <1>5
      <3> QED BY <1>2, <1>5, <3>1
    <2>3. frame' >= frame
      BY <1>0, <1>5
    <2> QED BY <1>5, <2>1, <2>2, <2>3, FrameShift
  <1>6. CASE Else
    <2>1. todo[1].at < Len(text) /\ todo[1].at \in Int /\ text[todo[1].at + 1].op \in {"je", "jmp"}
      BY <1>1, <1>6 DEF Else, Owed
    <2>2. /\ Rewritten(text, text', todo[1].at) /\ Len(text') = Len(text) + 1
          /\ text'[Len(text) + 1].op = "jmp" /\ frames' = frames /\ frame' = frame
          /\ Shift(3) /\ todo'[1].k = "stmt" /\ todo'[2].k = "more" /\ todo'[3].k = "endif"
      BY <1>6, <2>1, ElseIs
    <2> QED BY <1>5, <2>1, <2>2
  <1>7. CASE EndWhile
    <2>1. todo[1].at < Len(text) /\ todo[1].at \in Int /\ text[todo[1].at + 1].op \in {"je", "jmp"}
      BY <1>1, <1>7 DEF EndWhile, Owed
    <2>2. /\ Rewritten(text, text', todo[1].at) /\ Len(text') = Len(text) + 1
          /\ text'[Len(text) + 1].op = "jmp" /\ frames' = frames /\ frame' = frame /\ Shift(0)
      BY <1>7, <2>1, EndWhileIs
    <2> QED BY <1>5, <2>1, <2>2
  <1>8. CASE EndIf
    <2>1. todo[1].at < Len(text) /\ todo[1].at \in Int /\ text[todo[1].at + 1].op \in {"je", "jmp"}
      BY <1>1, <1>8 DEF EndIf, Owed
    <2>2. /\ Rewritten(text, text', todo[1].at) /\ Len(text') = Len(text)
          /\ frames' = frames /\ frame' = frame /\ Shift(0)
      BY <1>8, <2>1, EndIfIs
    <2> QED BY <1>5, <2>1, <2>2
  <1> QED BY <1>3, <1>4, <1>6, <1>7, <1>8

(* A frame is rounded up to a multiple of 16.                              *)
LEMMA AlignIs ==
    ASSUME NEW size \in Nat
    PROVE  Align(size, 16) \in Nat /\ Align(size, 16) >= size /\ Align(size, 16) % 16 = 0
  <1> DEFINE q == (16 - size) \div 16
             r == (16 - size) % 16
  <1>1. q \in Int /\ r \in 0..15 /\ 16 - size = 16 * q + r
    OBVIOUS
  <1>2. Align(size, 16) = size + r
    BY DEF Align
  <1> HIDE DEF q, r
  <1>3. size + r = 16 * (1 - q)
    BY <1>1
  <1>4. (size + r) % 16 = 0
    BY <1>1, <1>3
  <1> QED BY <1>1, <1>2, <1>4

(* A function ends: its frame is as large as it got.                       *)
LEMMA FrameEnds ==
    ASSUME CompilerInv, CompilerInv', RelasInv, WalkInv, JumpsInv, FrameInv, EndDefine
    PROVE  FrameInv'
  <1> DEFINE p == todo[1].at
             g == [sub |-> p, last |-> Len(text) - 1, size |-> frame]
  <1>1. /\ Running /\ Shift(0) /\ todo[1].k = "enddefine" /\ p \in Nat /\ p < Len(text)
        /\ Rewritten(text, text', p) /\ Len(text') = Len(text)
        /\ text'[p + 1].x = Imm(Align(frame, 16))
        /\ frames' = frames \union {g}
    BY EndDefineIs
  <1>2. Len(text) \in Nat /\ frame \in Nat /\ Len(todo) \in Nat \ {0} /\ 1 \in 1..Len(todo)
    BY <1>1 DEF CompilerInv, TypeOK, Shift
  <1>3. Len(todo') = 0
    BY <1>1, <1>2 DEF WalkInv, EndLast, Shift
  <1>4. (\A f \in frames : FrameOK(f, text) /\ f.last < p) /\ Touched(text, p, Len(text) - 1, frame)
    BY <1>1, <1>2 DEF FrameInv
  <1>5. text[p + 1].op = "sub rsp, frame"
    <2>1. MarksOK
      BY <1>1 DEF WalkInv, RunsLive, Running, JumpsInv, Live
    <2>2. Marked(todo[1], text)
      BY <1>2, <2>1 DEF MarksOK
    <2> QED BY <1>1, <2>2, Zenon DEF Marked
  <1>6. ASSUME NEW f \in frames
        PROVE  FrameOK(f, text')
    <2>1. FrameOK(f, text) /\ f.last < p
      BY <1>4
    <2>2. p \in Int /\ p \notin f.sub..f.last
      <3>1. f.sub \in Nat /\ f.last \in Nat
        BY <2>1 DEF FrameOK
      <3>2. p \in Nat
        BY <1>1
      <3> QED BY <2>1, <3>1, <3>2
    <2> QED BY <1>1, <2>1, <2>2, FrameKept
  <1>7. FrameOK(g, text')
    <2>1. g.sub = p /\ g.last = Len(text) - 1 /\ g.size = frame /\ g.last \in Nat /\ p <= g.last /\ g.last < Len(text')
      BY <1>1, <1>2
    <2>2. text'[p + 1].op = "sub rsp, frame"
      <3>1. p \in 0..(Len(text) - 1)
        <4>1. p \in Nat /\ p < Len(text)
          BY <1>1
        <4> QED BY <1>2, <4>1
      <3>2. text'[p + 1].op = text[p + 1].op
        BY <1>1, <3>1 DEF Rewritten
      <3> QED BY <1>5, <3>2
    <2>3. ASSUME Short(g)
          PROVE  /\ text'[p + 1].x \in Nat /\ text'[p + 1].x >= frame
                 /\ text'[p + 1].x % 16 = 0
      <3> DEFINE x == Align(frame, 16)
      <3>1. x < HALF
        BY <2>1, <2>3 DEF Short
      <3>2. x \in Nat /\ x >= frame /\ x % 16 = 0
        BY <1>2, AlignIs
      <3> HIDE DEF x
      <3>3. HALF \in Nat /\ -HALF <= x
        BY <3>2, ImmIs
      <3>4. Imm(x) = x
        BY <3>1, <3>2, <3>3, ImmIs
      <3>5. text'[p + 1].x = x
        BY <1>1, <3>4 DEF x
      <3> QED BY <3>2, <3>5
    <2>4. ASSUME Short(g), NEW a \in p..(Len(text) - 1), text'[a + 1].op \in LocalAccess
          PROVE  -(text'[p + 1].x) <= text'[a + 1].x
      <3>1. a \in 0..(Len(text) - 1)
        BY <1>1, <1>2
      <3>2. text[a + 1].op \in LocalAccess
        BY <1>1, <2>4, <3>1 DEF Rewritten
      <3>3. a # p
        BY <1>5, <3>2 DEF LocalAccess
      <3>4. text'[a + 1] = text[a + 1]
        BY <1>1, <3>1, <3>3 DEF Rewritten
      <3>5. -frame <= text[a + 1].x
        BY <1>4, <3>2 DEF Touched
      <3>6. text[a + 1].x \in Int
        <4>1. text \in Seq(InstrType) /\ a + 1 \in 1..Len(text)
          BY <1>2, <3>1 DEF CompilerInv, TypeOK
        <4>2. text[a + 1] \in InstrType
          BY <4>1
        <4> QED BY <4>2 DEF InstrType
      <3> QED BY <1>2, <2>3, <2>4, <3>4, <3>5, <3>6
    <2> HIDE DEF g
    <2> QED BY <1>1, <2>1, <2>2, <2>3, <2>4 DEF FrameOK, Touched
  <1>8. \A l \in 1..Len(todo') : FALSE
    BY <1>3
  <1> QED BY <1>1, <1>6, <1>7, <1>8 DEF FrameInv

LEMMA FrameTop ==
    ASSUME CompilerInv, CompilerInv', WalkInv, FrameInv,
           \/ compile_define \/ GlobalAssign \/ SecondPass \/ compile_start \/ Rejections
           \/ Declare \/ Declared \/ CompilePassEnd \/ Terminating \/ UNCHANGED vars
    PROVE  FrameInv'
  <1>0. Len(text) \in Nat /\ Len(text') \in Nat /\ Nowhere \in Int
    BY DEF CompilerInv, TypeOK, Nowhere
  <1>1. ASSUME frames' = frames, Rewritten(text, text', Nowhere)
        PROVE  \A f \in frames' : FrameOK(f, text')
    <2> SUFFICES ASSUME NEW f \in frames
                 PROVE  FrameOK(f, text')
      BY <1>1
    <2>1. FrameOK(f, text)
      BY DEF FrameInv
    <2>2. f.sub \in Nat /\ f.last \in Nat
      BY <2>1 DEF FrameOK
    <2>3. Nowhere \notin f.sub..f.last
      BY <2>2 DEF Nowhere
    <2> QED BY <1>0, <1>1, <2>1, <2>3, FrameKept
  <1>2. ASSUME text' = text
        PROVE  Rewritten(text, text', Nowhere)
    BY <1>0, <1>2 DEF Rewritten
  <1>3. CASE compile_define
    <2>1. /\ Len(todo') = 3 /\ todo'[1].k = "stmt" /\ todo'[2].k = "more"
          /\ todo'[3].k = "enddefine" /\ todo'[3].at = Len(text) + 2
          /\ Rewritten(text, text', Nowhere) /\ Len(text') = Len(text) + 3
          /\ text'[Len(text) + 3].op = "sub rsp, frame"
          /\ frames' = frames
      BY <1>3, DefineIs
    <2> DEFINE at == todo'[3].at
    <2>2. at \in Nat /\ at = Len(text) + 2 /\ Len(text') - 1 = at
      <3>1. at = Len(text) + 2 /\ Len(text') = Len(text) + 3
        BY <2>1
      <3> QED BY <1>0, <3>1
    <2>3. \A f \in frames : f.last < at
      <3>1. \A f \in frames : f.last \in Nat /\ f.last < Len(text)
        BY DEF FrameInv, FrameOK
      <3> QED BY <1>0, <2>2, <3>1
    <2>4. Touched(text', at, Len(text') - 1, frame')
      <3>1. \A a \in at..(Len(text') - 1) : a + 1 = Len(text) + 3
        BY <1>0, <2>2
      <3> QED BY <2>1, <3>1 DEF Touched, LocalAccess
    <2>5. \A l \in 1..3 : l = 1 \/ l = 2 \/ l = 3
      OBVIOUS
    <2>6. \A l \in 1..Len(todo') : todo'[l].k = "enddefine" => todo'[l] = todo'[3]
      BY <2>1, <2>5
    <2> QED BY <1>1, <2>1, <2>2, <2>3, <2>4, <2>6 DEF FrameInv
  <1>4. CASE GlobalAssign
    <2>1. /\ Len(todo') = 2 /\ todo'[1].k = "expr" /\ todo'[2].k = "assign"
          /\ text' = text /\ frames' = frames
      BY <1>4, GlobalAssignIs DEF AssignBegun
    <2>2. \A l \in 1..2 : l = 1 \/ l = 2
      OBVIOUS
    <2> QED BY <1>1, <1>2, <2>1, <2>2 DEF FrameInv
  <1>5. ASSUME todo' = <<>>
        PROVE  \A l \in 1..Len(todo') : FALSE
    <2>1. Len(todo') = 0
      BY <1>5, EmptySeq
    <2> QED BY <2>1
  <1>6. CASE SecondPass
    BY <1>5, <1>6, SecondPassIs DEF FrameInv
  <1>7. CASE compile_start
    <2>1. Emits(Flat(0)) /\ todo' = todo /\ frames' = frames /\ phase = "start"
      BY <1>7, StartIs
    <2>2. Rewritten(text, text', Nowhere)
      BY <2>1, EmitsAre
    <2>3. todo' = <<>>
      BY <2>1 DEF WalkInv, Idle, Running
    <2> QED BY <1>1, <1>5, <2>1, <2>2, <2>3 DEF FrameInv
  <1>8. CASE Rejections
    <2>1. todo' = <<>> /\ text' = text /\ frames' = frames
      BY <1>8, RejectedIs
    <2> QED BY <1>1, <1>2, <1>5, <2>1 DEF FrameInv
  <1>9. CASE Declare \/ Declared \/ CompilePassEnd \/ Terminating \/ UNCHANGED vars
    BY <1>9, QuietIs DEF Quiet, FrameInv
  <1> QED BY <1>3, <1>4, <1>6, <1>7, <1>8, <1>9

LEMMA FrameStep ==
    ASSUME CompilerInv, ScopesInv, RelasInv, WalkInv, JumpsInv, FrameInv, [Next]_vars
    PROVE  FrameInv'
  <1>1. CompilerInv' /\ frame \in Nat
    BY StepInv DEF CompilerInv, TypeOK
  <1>2. ExprKinds \in SUBSET StmtKinds /\ BodyKinds \in SUBSET StmtKinds
    BY DEF StmtKinds, BodyKinds
  <1>3. CASE ExprHandlers
    <2>1. ExprHandled
      BY <1>3, ExprsHandled DEF WalkInv
    <2>2. Calm(Tame(frame'), ExprKinds) /\ frames' = frames /\ frame' >= frame
      BY <1>1, <2>1, CalmTame DEF ExprHandled
    <2> QED BY <1>1, <1>2, <2>2, FrameCalm
  <1>4. CASE StmtHandlers
    <2>1. StmtHandled
      BY <1>4, StmtsHandled DEF WalkInv
    <2> QED BY <1>1, <1>2, <2>1, FrameCalm DEF StmtHandled
  <1>5. CASE AssignStmt
    <2>1. Calm(Tame(frame'), StmtKinds) /\ frames' = frames /\ frame' >= frame
      BY <1>1, <1>5, AssignHandled DEF AssignBegun
    <2> QED BY <1>1, <2>1, FrameCalm
  <1> QED BY <1>1, <1>3, <1>4, <1>5, FrameBranches, FrameEnds, FrameTop, StepCases

(* Every access to a local of a compiled function stays inside the frame   *)
(* that compile_define has patched into its prologue after the body was    *)
(* compiled, and the frame is a multiple of 16: of every function whose    *)
(* aligned frame is not cut by the cast of compiler.cpp l. 1408.           *)
THEOREM FramesAreLargeEnough == Spec => []FrameHoldsLocals
  <1>1. Init => FrameInv
    <2> SUFFICES ASSUME Init
                 PROVE  FrameInv
      OBVIOUS
    <2>1. Len(<<>>) = 0 /\ todo = <<>> /\ frames = {}
      BY EmptySeq DEF Init
    <2> QED BY <2>1 DEF FrameInv
  <1>2. CodeInv /\ JumpsInv /\ FrameInv /\ [Next]_vars => FrameInv'
    BY FrameStep DEF CodeInv
  <1>3. CodeInv /\ FrameInv => FrameHoldsLocals
    <2> SUFFICES ASSUME CodeInv, FrameInv, NEW f \in frames, Short(f)
                 PROVE  /\ Instr(f.sub).op = "sub rsp, frame" /\ Instr(f.sub).x % 16 = 0
                        /\ \A a \in f.sub..f.last :
                              Instr(a).op \in LocalAccess /\ Instr(a).x < 0 =>
                                 -Instr(a).x <= Instr(f.sub).x
      BY DEF FrameHoldsLocals, Short
    <2>1. FrameOK(f, text)
      BY DEF FrameInv
    <2>2. Instr(f.sub).op = "sub rsp, frame" /\ Instr(f.sub).x % 16 = 0 /\ Instr(f.sub).x \in Nat
      BY <2>1 DEF FrameOK, Instr
    <2>3. ASSUME NEW a \in f.sub..f.last, Instr(a).op \in LocalAccess
          PROVE  -Instr(a).x <= Instr(f.sub).x
      <3>1. -(Instr(f.sub).x) <= Instr(a).x
        BY <2>1, <2>3 DEF FrameOK, Touched, Instr
      <3>2. Instr(a).x \in Int
        <4>1. text \in Seq(InstrType)
          BY DEF CodeInv, CompilerInv, TypeOK
        <4>2. a + 1 \in 1..Len(text)
          <5>1. f.sub \in Nat /\ f.last \in Nat /\ f.last < Len(text)
            BY <2>1 DEF FrameOK
          <5>2. Len(text) \in Nat
            BY <4>1
          <5> QED BY <5>1, <5>2
        <4>3. text[a + 1] \in InstrType
          BY <4>1, <4>2
        <4> QED BY <4>3 DEF InstrType, Instr
      <3>3. Instr(f.sub).x \in Int
        <4>1. text[f.sub + 1].x \in Nat
          BY <2>1 DEF FrameOK
        <4> QED BY <4>1 DEF Instr
      <3> HIDE DEF Instr
      <3> QED BY <3>1, <3>2, <3>3
    <2> QED BY <2>2, <2>3
  <1> QED BY <1>1, <1>2, <1>3, AlwaysCode, AlwaysJumps, PTL DEF Spec

(* The initialisers of the globals.                                        *)

(* The code s neither returns nor begins a function from first to last.    *)
Straight(s, first, last) ==
    \A a \in first..last : s[a + 1].op # "ret" /\ s[a + 1].op # "push rbp"

Stores == {"store global", "storex global"}

(* The code s, with the relocations r, of the initialiser of the global x. *)
Initialiser(x, s, r) ==
    /\ x.offset \in Nat
    /\ \E ret \in (x.offset + 1)..(Len(s) - 1) :
          /\ s[ret + 1].op = "ret" /\ Straight(s, x.offset, ret - 1)
          /\ s[ret].op \in Stores
          /\ \E k \in 1..Len(r) : r[k].at = ret - 1 /\ r[k].addend = x.addend
InitsOK == \A i \in 1..Len(scopes[2]) : Initialiser(scopes[2][i], text, relas)

(* The code of a right-hand side runs straight to the store that follows;  *)
(* nothing but expressions is compiled before it.                          *)
AssignsOK ==
    \A l \in 1..Len(todo) : todo[l].k = "assign" =>
       /\ todo[l].at \in Nat /\ todo[l].at <= Len(text)
       /\ Straight(text, todo[l].at, Len(text) - 1)
       /\ \A i \in 1..(l - 1) : todo[i].k \in ExprKinds

(* With distinct functions, declare_functions declares all of them.        *)
DefinedIn(n)  == {tree[i].id : i \in {j \in 1..n : tree[j].k = "define"}}
DeclaresOK ==
    /\ phase = "declare" => top <= Len(tree) + 1 /\ FunctionNames = DefinedIn(top - 1)
    /\ Running => DefinedIn(Len(tree)) \subseteq FunctionNames

(* _start calls the globals' initialisers, and main.                       *)
CallsAt(a, target) ==
    a + 1 \in 1..Len(text) /\ text[a + 1].op = "call" /\ text[a + 1].x = target - a - 1
StartOK ==
    /\ Len(scopes) = 2 /\ start \in Nat
    /\ \A i \in 1..Len(scopes[2]) : CallsAt(start + i - 1, scopes[2][i].offset)
    /\ main.offset \in Nat /\ CallsAt(start + Len(scopes[2]), main.offset)

(* The code that was there runs as it did.                                 *)
LEMMA StraightKept ==
    ASSUME NEW s, NEW t, NEW p, Rewritten(s, t, p), NEW first \in Nat, NEW last \in Int,
           last < Len(s), Straight(s, first, last)
    PROVE  Straight(t, first, last)
  <1>1. Len(s) \in Nat /\ \A a \in 0..(Len(s) - 1) : t[a + 1].op = s[a + 1].op
    BY DEF Rewritten
  <1>2. \A a \in first..last : a \in 0..(Len(s) - 1)
    BY <1>1
  <1> QED BY <1>1, <1>2 DEF Straight

(* An initialiser stays one.                                               *)
LEMMA InitialiserKept ==
    ASSUME NEW x, NEW s, NEW t, NEW p, Rewritten(s, t, p), NEW r, NEW u,
           \A k \in 1..Len(r) : k \in 1..Len(u) /\ u[k] = r[k], Initialiser(x, s, r)
    PROVE  Initialiser(x, t, u)
  <1>1. /\ Len(s) \in Nat /\ Len(t) \in Nat /\ Len(t) >= Len(s)
        /\ \A a \in 0..(Len(s) - 1) : t[a + 1].op = s[a + 1].op
    BY DEF Rewritten
  <1>2. x.offset \in Nat
    BY DEF Initialiser
  <1>3. PICK ret \in (x.offset + 1)..(Len(s) - 1) :
          /\ s[ret + 1].op = "ret" /\ Straight(s, x.offset, ret - 1)
          /\ s[ret].op \in Stores
          /\ \E k \in 1..Len(r) : r[k].at = ret - 1 /\ r[k].addend = x.addend
    BY DEF Initialiser
  <1>4. /\ ret \in (x.offset + 1)..(Len(t) - 1) /\ ret \in 0..(Len(s) - 1)
        /\ ret - 1 \in 0..(Len(s) - 1) /\ (ret - 1) + 1 = ret /\ ret - 1 < Len(s) /\ ret - 1 \in Int
    BY <1>1, <1>2
  <1>5. t[ret + 1].op = s[ret + 1].op
    BY <1>1, <1>4
  <1>6. t[ret].op = s[ret].op
    BY <1>1, <1>4
  <1>7. Straight(t, x.offset, ret - 1)
    BY <1>2, <1>3, <1>4, StraightKept
  <1>8. \E k \in 1..Len(u) : u[k].at = ret - 1 /\ u[k].addend = x.addend
    BY <1>3
  <1> QED BY <1>2, <1>3, <1>4, <1>5, <1>6, <1>7, <1>8 DEF Initialiser

LEMMA InitsKept ==
    ASSUME InitsOK, NEW p, Rewritten(text, text', p), RelasKept, scopes'[2] = scopes[2]
    PROVE  InitsOK'
  <1> SUFFICES ASSUME NEW i \in 1..Len(scopes[2])
               PROVE  Initialiser(scopes[2][i], text', relas')
    BY DEF InitsOK
  <1>1. Initialiser(scopes[2][i], text, relas)
    BY DEF InitsOK
  <1> QED BY <1>1, InitialiserKept DEF RelasKept

(* Three instructions more.                                                *)
LEMMA ThreeMore ==
    ASSUME NEW C, NEW s \in Seq(C), NEW x, NEW y, NEW z
    PROVE  LET t == s \o <<x, y, z>> IN
           /\ Len(s) \in Nat /\ Len(t) = Len(s) + 3
           /\ t[Len(s) + 1] = x /\ t[Len(s) + 2] = y /\ t[Len(s) + 3] = z
  <1> DEFINE e == <<x, y, z>>
             D == {x, y, z}
             t == s \o e
  <1>1. e \in Seq(D) /\ Len(e) = 3 /\ e[1] = x /\ e[2] = y /\ e[3] = z
    OBVIOUS
  <1>0. e \in Seq(D)
    BY <1>1
  <1> HIDE DEF e, D
  <1>2. /\ Len(s) \in Nat /\ Len(t) = Len(s) + Len(e)
        /\ \A i \in 1..Len(e) : t[Len(s) + i] = e[i]
    BY <1>0
  <1>3. 1 \in 1..3 /\ 2 \in 1..3 /\ 3 \in 1..3
    OBVIOUS
  <1> HIDE DEF t
  <1>4. t[Len(s) + 1] = x /\ t[Len(s) + 2] = y /\ t[Len(s) + 3] = z
    BY <1>1, <1>2, <1>3
  <1> QED BY <1>1, <1>2, <1>4 DEF e, t

(* The last relocation.                                                    *)
LEMMA LastRela ==
    ASSUME CompilerInv, NEW e, relas' = relas \o <<e>>
    PROVE  Len(relas) + 1 \in 1..Len(relas') /\ relas'[Len(relas) + 1] = e
  <1>1. relas \in Seq(RelaType) /\ Len(relas) \in Nat
    BY DEF CompilerInv, TypeOK
  <1> DEFINE b == <<e>>
             D == {e}
  <1>2. b \in Seq(D) /\ Len(b) = 1 /\ b[1] = e
    OBVIOUS
  <1>0. b \in Seq(D)
    BY <1>2
  <1> HIDE DEF b, D
  <1>3. relas' = relas \o b
    BY DEF b
  <1>4. /\ Len(relas') = Len(relas) + Len(b)
        /\ \A i \in 1..Len(b) : relas'[Len(relas) + i] = b[i]
    BY <1>0, <1>1, <1>3
  <1>5. 1 \in 1..1
    OBVIOUS
  <1>6. Len(relas) + 1 \in 1..Len(relas')
    BY <1>1, <1>2, <1>4
  <1> QED BY <1>2, <1>4, <1>5, <1>6

(* A store at global scope ends with a ret.                                *)
LEMMA GlobalStore ==
    ASSUME CompilerInv, is_global_scope, NEW x \in Symbol, x.vis = "global", NEW n \in Int,
           compile_store(x, n)
    PROVE  \E ret \in Nat :
             /\ ret > Len(text) /\ Len(text') = ret + 1
             /\ text'[ret + 1].op = "ret" /\ text'[ret].op \in Stores
             /\ \A a \in Len(text)..(ret - 1) : text'[a + 1].op \in Stores \union {"mov imm"}
             /\ \E k \in 1..Len(relas') : relas'[k].at = ret - 1 /\ relas'[k].addend = x.addend
  <1> DEFINE r  == Op("ret")
             m  == I("mov imm", Mask(reg + 1), 0, n)
             s  == I(Store[x.vis], 0, Mask(reg), x.addend)
             sx == I(Storex[x.vis], Mask(reg + 1), Mask(reg), x.addend)
             L  == Len(text)
  <1>1. /\ r.op = "ret" /\ m.op = "mov imm" /\ s.op \in Stores /\ sx.op \in Stores
    BY DEF Op, I, Store, Storex, Stores
  <1>2. RetCode(x.vis) = <<r>>
    BY DEF RetCode
  <1>3. \A at : RelaOf(x.vis, at, x.addend) = << Rela(at, "bss", x.addend) >>
    BY DEF RelaOf
  <1>4. \A at : Rela(at, "bss", x.addend).at = at /\ Rela(at, "bss", x.addend).addend = x.addend
    BY DEF Rela
  <1>5. text \in Seq(InstrType) /\ L \in Nat /\ rip = L
    BY DEF CompilerInv, TypeOK, rip
  <1>6. \/ /\ text' = text \o (<<s>> \o <<r>>)
           /\ relas' = relas \o << Rela(L, "bss", x.addend) >>
        \/ /\ text' = text \o (<<m, sx>> \o <<r>>)
           /\ relas' = relas \o << Rela(L + 1, "bss", x.addend) >>
    BY <1>2, <1>3, <1>5 DEF compile_store, Emit
  <1> HIDE DEF r, m, s, sx, L
  <1>7. CASE /\ text' = text \o (<<s>> \o <<r>>)
             /\ relas' = relas \o << Rela(L, "bss", x.addend) >>
    <2>1. text' = text \o <<s, r>>
      BY <1>7, ShortConcat
    <2>2. Len(text') = L + 2 /\ text'[L + 1] = s /\ text'[L + 2] = r
      BY <1>5, <2>1, TwoMore DEF L
    <2>3. \E k \in 1..Len(relas') : relas'[k].at = L /\ relas'[k].addend = x.addend
      BY <1>4, <1>7, LastRela
    <2> DEFINE ret == L + 1
    <2>4. ret \in Nat /\ ret > L /\ ret + 1 = L + 2 /\ ret - 1 = L /\ Len(text') = ret + 1
      <3>1. Len(text') = L + 2
        BY <2>2
      <3> QED BY <1>5, <3>1
    <2>5. \A a \in L..(ret - 1) : a + 1 = L + 1
      BY <1>5
    <2> HIDE DEF ret
    <2>6. text'[ret + 1].op = "ret" /\ text'[ret].op \in Stores
      BY <1>1, <2>2, <2>4 DEF ret
    <2>7. \A a \in L..(ret - 1) : text'[a + 1].op \in Stores \union {"mov imm"}
      BY <1>1, <2>2, <2>5
    <2>8. \E k \in 1..Len(relas') : relas'[k].at = ret - 1 /\ relas'[k].addend = x.addend
      BY <2>3, <2>4
    <2> QED BY <2>4, <2>6, <2>7, <2>8 DEF L
  <1>8. CASE /\ text' = text \o (<<m, sx>> \o <<r>>)
             /\ relas' = relas \o << Rela(L + 1, "bss", x.addend) >>
    <2>1. text' = text \o <<m, sx, r>>
      BY <1>8, ShortConcat
    <2>2. Len(text') = L + 3 /\ text'[L + 1] = m /\ text'[L + 2] = sx /\ text'[L + 3] = r
      BY <1>5, <2>1, ThreeMore DEF L
    <2>3. \E k \in 1..Len(relas') : relas'[k].at = L + 1 /\ relas'[k].addend = x.addend
      BY <1>4, <1>8, LastRela
    <2> DEFINE ret == L + 2
    <2>4. ret \in Nat /\ ret > L /\ ret + 1 = L + 3 /\ ret - 1 = L + 1 /\ Len(text') = ret + 1
      <3>1. Len(text') = L + 3
        BY <2>2
      <3> QED BY <1>5, <3>1
    <2>5. \A a \in L..(ret - 1) : a + 1 = L + 1 \/ a + 1 = L + 2
      BY <1>5
    <2> HIDE DEF ret
    <2>6. text'[ret + 1].op = "ret" /\ text'[ret].op \in Stores
      BY <1>1, <2>2, <2>4 DEF ret
    <2>7. \A a \in L..(ret - 1) : text'[a + 1].op \in Stores \union {"mov imm"}
      BY <1>1, <2>2, <2>5
    <2>8. \E k \in 1..Len(relas') : relas'[k].at = ret - 1 /\ relas'[k].addend = x.addend
      BY <2>3, <2>4
    <2> QED BY <2>4, <2>6, <2>7, <2>8 DEF L
  <1> QED BY <1>6, <1>7, <1>8

(* The table of globals, and the names of the functions.                   *)
GlobalsKept == scopes'[2] = scopes[2] /\ FunctionNames' = FunctionNames

LEMMA SameGlobals ==
    ASSUME scopes' = scopes
    PROVE  GlobalsKept
  BY DEF GlobalsKept, FunctionNames

LEMMA OpenedGlobals ==
    ASSUME CompilerInv, Running, Conditional
    PROVE  GlobalsKept
  <1>1. /\ scopes \in Seq(Seq(Symbol)) /\ Len(scopes) \in Nat /\ Len(scopes) >= 2
        /\ scopes' = Append(scopes, <<>>)
    BY RunningTables, LenProperties DEF Tables, Conditional
  <1> DEFINE S    == Seq(Symbol)
             none == <<>>
  <1>2. none \in S /\ scopes \in Seq(S) /\ scopes' = Append(scopes, none)
    BY <1>1, EmptySeq
  <1> HIDE DEF S, none
  <1>3. \A i \in 1..Len(scopes) : scopes'[i] = scopes[i]
    BY <1>2, AddEntry
  <1>4. scopes'[1] = scopes[1] /\ scopes'[2] = scopes[2]
    <2>1. 1 \in 1..Len(scopes) /\ 2 \in 1..Len(scopes)
      BY <1>1
    <2> QED BY <1>3, <2>1
  <1> QED BY <1>4 DEF GlobalsKept, FunctionNames

LEMMA ClosedGlobals ==
    ASSUME CompilerInv, EndWhile \/ EndIf \/ EndDefine
    PROVE  GlobalsKept
  <1>1. /\ scopes' = PopScope /\ Running
        /\ At("enddefine") \/ At("endwhile") \/ At("endif")
    BY DEF EndWhile, EndIf, EndDefine, At
  <1>2. Tables(scopes) /\ Len(scopes) \in Nat /\ Len(scopes) >= 3
    <2>1. ASSUME NEW k \in {"enddefine", "endwhile", "endif"}, At(k)
          PROVE  depth - 1 \in Scopes /\ depth \in Nat
      <3>1. depth + NetScopes(k) \in Scopes /\ depth \in Nat
        BY <2>1, HeadFacts
      <3>2. NetScopes(k) = -1
        BY NetTable
      <3> QED BY <3>1, <3>2
    <2>2. depth - 1 \in Scopes /\ depth \in Nat
      BY <1>1, <2>1
    <2>3. Tables(scopes) /\ depth = Len(scopes)
      BY <1>1, RunningTables
    <2> QED BY <2>2, <2>3 DEF Scopes
  <1>3. \A i \in 1..(Len(scopes) - 1) : scopes'[i] = scopes[i]
    BY <1>1, <1>2, SubSeqProperties DEF Tables, PopScope
  <1>4. scopes'[1] = scopes[1] /\ scopes'[2] = scopes[2]
    <2>1. 1 \in 1..(Len(scopes) - 1) /\ 2 \in 1..(Len(scopes) - 1)
      BY <1>2
    <2> QED BY <1>3, <2>1
  <1> QED BY <1>4 DEF GlobalsKept, FunctionNames

LEMMA LocalDeclared ==
    ASSUME CompilerInv, Running, NEW x \in Symbol,
           scopes' = [scopes EXCEPT ![Len(scopes)] = Append(@, x)]
    PROVE  /\ Len(scopes) >= 3 => scopes'[2] = scopes[2]
           /\ Len(scopes) = 2 => scopes'[2] = Append(scopes[2], x)
           /\ FunctionNames' = FunctionNames
  <1> DEFINE n == Len(scopes)
             t == Append(scopes[n], x)
  <1>1. scopes \in Seq(Seq(Symbol)) /\ n \in Nat /\ n >= 2 /\ n \in 1..Len(scopes)
    BY RunningTables, LenProperties DEF Tables
  <1>2. t \in Seq(Symbol)
    <2>1. scopes[n] \in Seq(Symbol)
      BY <1>1
    <2> QED BY <2>1, AddEntry
  <1>3. scopes' = [scopes EXCEPT ![n] = t]
    OBVIOUS
  <1>4. n = 2 => t = Append(scopes[2], x)
    OBVIOUS
  <1> HIDE DEF t
  <1>5. /\ scopes'[n] = t
        /\ \A j \in 1..Len(scopes) : j # n => scopes'[j] = scopes[j]
    BY <1>1, <1>2, <1>3, SetTable
  <1>6. 1 \in 1..Len(scopes) /\ 2 \in 1..Len(scopes) /\ n # 1
    BY <1>1
  <1>7. scopes'[1] = scopes[1]
    BY <1>5, <1>6
  <1>8. FunctionNames' = FunctionNames
    BY <1>7 DEF FunctionNames
  <1> QED BY <1>4, <1>5, <1>6, <1>8

(* compile_define notes the offset in the table of functions, if the       *)
(* function is there.                                                      *)
LEMMA DefinedGlobals ==
    ASSUME CompilerInv, compile_define, tree[top].id \in FunctionNames
    PROVE  GlobalsKept
  <1> DEFINE f      == tree[top]
             p      == Place(f.id)
             i      == p[1]
             j      == p[2]
             x      == [scopes[i][j] EXCEPT !.offset = rip]
             t      == [scopes[i] EXCEPT ![j] = x]
             opened == [scopes EXCEPT ![i] = t]
             params == Params(f, find_symbol(f.id).info)
  <1>1. /\ AtTop("define") /\ Found(f.id) /\ scopes' = Append(opened, params)
        /\ find_symbol(f.id).info = Len(f.params)
    BY DEF compile_define, DefineFails
  <1>2. /\ Running /\ todo = <<>> /\ f \in TopNode
        /\ scopes \in Seq(Seq(Symbol)) /\ Len(scopes) = 2 /\ rip \in Nat
    <2>1. Running /\ todo = <<>> /\ f \in TopNode
      BY <1>1, TopNodeIs
    <2>2. depth = 2
      BY <2>1, TopFacts
    <2> QED BY <2>1, <2>2, AddressIs DEF depth, CompilerInv, TypeOK
  <1>3. /\ p \in Hits(f.id) /\ i \in 1..Len(scopes) /\ j \in 1..Len(scopes[i])
        /\ \A q \in Hits(f.id) : i < q[1] \/ (i = q[1] /\ j <= q[2])
    BY <1>1, <1>2, FirstPlace
  <1>4. i = 1
    <2>1. PICK k \in 1..Len(scopes[1]) : scopes[1][k].id = f.id
      BY DEF FunctionNames
    <2>2. 1 \in 1..Len(scopes)
      BY <1>2
    <2>3. <<1, k>> \in Hits(f.id)
      BY <2>1, <2>2 DEF Hits, Places
    <2>4. <<1, k>>[1] = 1
      OBVIOUS
    <2> HIDE DEF i, j, f
    <2>5. i < 1 \/ i = 1
      BY <1>3, <2>3, <2>4
    <2>6. i \in 1..2
      BY <1>2, <1>3
    <2> QED BY <2>5, <2>6
  <1>5. scopes[1] \in Seq(Symbol) /\ j \in 1..Len(scopes[1]) /\ scopes[1][j] \in Symbol
    <2>1. 1 \in 1..Len(scopes)
      BY <1>2
    <2>2. scopes[1] \in Seq(Symbol) /\ j \in 1..Len(scopes[1])
      BY <1>2, <1>3, <1>4, <2>1
    <2> QED BY <2>2
  <1>6. x \in Symbol /\ x.id = scopes[1][j].id
    <2>1. x = [scopes[1][j] EXCEPT !.offset = rip]
      BY <1>4
    <2> HIDE DEF x
    <2> QED BY <1>2, <1>5, <2>1 DEF Symbol
  <1>7. params \in Seq(Symbol)
    <2>1. find_symbol(f.id).info \in Nat
      <3>1. find_symbol(f.id) \in Symbol
        BY <1>1, <1>2, SymbolFound
      <3> QED BY <3>1 DEF Symbol
    <2> QED BY <1>2, <2>1, ParamsAre
  <1> HIDE DEF x, params
  <1>8. /\ t \in Seq(Symbol) /\ Len(t) = Len(scopes[1]) /\ t[j] = x
        /\ \A l \in 1..Len(scopes[1]) : l # j => t[l] = scopes[1][l]
    BY <1>4, <1>5, <1>6, SetEntry
  <1> HIDE DEF t, j, p, f
  <1>9. \A l \in 1..Len(scopes[1]) : t[l].id = scopes[1][l].id
    BY <1>6, <1>8
  <1>10. /\ opened \in Seq(Seq(Symbol)) /\ Len(opened) = 2 /\ opened[1] = t
         /\ opened[2] = scopes[2]
    <2>1. 1 \in 1..Len(scopes) /\ 2 \in 1..Len(scopes) /\ opened = [scopes EXCEPT ![1] = t]
      BY <1>2, <1>4
    <2> HIDE DEF opened, i
    <2>2. /\ opened \in Seq(Seq(Symbol)) /\ Len(opened) = Len(scopes) /\ opened[1] = t
          /\ \A l \in 1..Len(scopes) : l # 1 => opened[l] = scopes[l]
      <3>1. scopes \in Seq(Seq(Symbol)) /\ t \in Seq(Symbol)
        BY <1>2, <1>8
      <3>2. ASSUME NEW s \in Seq(Seq(Symbol)), NEW k \in 1..Len(s), NEW u, u = [s EXCEPT ![k] = t]
            PROVE  /\ u \in Seq(Seq(Symbol)) /\ Len(u) = Len(s) /\ u[k] = t
                   /\ \A l \in 1..Len(s) : l # k => u[l] = s[l]
        BY <3>1, <3>2, SetTable
      <3> QED BY <2>1, <3>1, <3>2
    <2> QED BY <1>2, <2>1, <2>2
  <1> HIDE DEF opened
  <1>11. scopes'[1] = t /\ scopes'[2] = scopes[2]
    <2> DEFINE S == Seq(Symbol)
    <2>1. opened \in Seq(S) /\ params \in S
      BY <1>7, <1>10
    <2> HIDE DEF S
    <2>2. \A l \in 1..Len(opened) : Append(opened, params)[l] = opened[l]
      BY <2>1, AddEntry
    <2>3. 1 \in 1..Len(opened) /\ 2 \in 1..Len(opened)
      BY <1>10
    <2> QED BY <1>1, <1>10, <2>2, <2>3
  <1>12. FunctionNames' = FunctionNames
    BY <1>8, <1>9, <1>11 DEF FunctionNames
  <1> QED BY <1>11, <1>12 DEF GlobalsKept

(* The pending assignments.                                                *)

(* Above an assignment there are only items of its right-hand side.        *)
LEMMA NoneBelow ==
    ASSUME AssignsOK, Len(todo) \in Nat, todo[1].k \notin ExprKinds
    PROVE  \A m \in 2..Len(todo) : todo[m].k # "assign"
  <1> SUFFICES ASSUME NEW m \in 2..Len(todo), todo[m].k = "assign"
               PROVE  FALSE
    OBVIOUS
  <1>1. m \in 1..Len(todo) /\ 1 \in 1..(m - 1)
    OBVIOUS
  <1> QED BY <1>1 DEF AssignsOK

(* Code that is emitted, or patched, goes on.                              *)
LEMMA StraightOn ==
    ASSUME NEW s, NEW t, NEW p, Rewritten(s, t, p), NEW first \in Nat,
           Straight(s, first, Len(s) - 1), Straight(t, Len(s), Len(t) - 1)
    PROVE  Straight(t, first, Len(t) - 1)
  <1>1. Len(s) \in Nat /\ Len(t) \in Nat
    BY DEF Rewritten
  <1>2. Straight(t, first, Len(s) - 1)
    BY <1>1, StraightKept
  <1>3. \A a \in first..(Len(t) - 1) : a \in first..(Len(s) - 1) \/ a \in Len(s)..(Len(t) - 1)
    BY <1>1
  <1> QED BY <1>2, <1>3 DEF Straight

(* A step of an expression.                                                *)
LEMMA AssignsExpr ==
    ASSUME AssignsOK, NEW n, Shift(n), NEW p, Rewritten(text, text', p),
           Straight(text', Len(text), Len(text') - 1),
           todo[1].k \in ExprKinds, \A i \in 1..n : todo'[i].k \in ExprKinds
    PROVE  AssignsOK'
  <1>1. /\ Len(text) \in Nat /\ Len(text') \in Nat /\ Len(text') >= Len(text)
        /\ n \in Nat /\ Len(todo) \in Nat
    BY DEF Rewritten, Shift
  <1>2. "assign" \notin ExprKinds
    BY DEF ExprKinds
  <1> SUFFICES ASSUME NEW l \in 1..Len(todo'), todo'[l].k = "assign"
               PROVE  /\ todo'[l].at \in Nat /\ todo'[l].at <= Len(text')
                      /\ Straight(text', todo'[l].at, Len(text') - 1)
                      /\ \A i \in 1..(l - 1) : todo'[i].k \in ExprKinds
    BY DEF AssignsOK
  <1> DEFINE m == l - n + 1
  <1>3. m \in 2..Len(todo) /\ todo'[l] = todo[m]
    BY <1>2, Shifted
  <1>4. m \in 1..Len(todo) /\ Len(todo') = n + Len(todo) - 1
    BY <1>1, <1>3 DEF Shift
  <1>5. /\ todo[m].at \in Nat /\ todo[m].at <= Len(text)
        /\ Straight(text, todo[m].at, Len(text) - 1)
        /\ \A i \in 1..(m - 1) : todo[i].k \in ExprKinds
    BY <1>3, <1>4 DEF AssignsOK
  <1>6. ASSUME NEW i \in 1..(l - 1)
        PROVE  todo'[i].k \in ExprKinds
    <2>1. i \in 1..Len(todo')
      BY <1>1, <1>4
    <2>2. i \in 1..n \/ (i - n + 1 \in 2..Len(todo) /\ todo'[i] = todo[i - n + 1])
      BY <2>1, Shifted
    <2>3. ASSUME i - n + 1 \in 2..Len(todo)
          PROVE  i - n + 1 \in 1..(m - 1)
      BY <1>1, <2>3
    <2> HIDE DEF m
    <2> QED BY <1>5, <2>2, <2>3
  <1>7. todo[m].at <= Len(text')
    <2> HIDE DEF m
    <2>1. todo[m].at \in Nat /\ todo[m].at <= Len(text)
      BY <1>5
    <2> QED BY <1>1, <2>1
  <1>8. Straight(text', todo[m].at, Len(text') - 1)
    BY <1>5, StraightOn
  <1> QED BY <1>3, <1>5, <1>6, <1>7, <1>8

(* A step of a statement: no assignment is pending below it.               *)
LEMMA AssignsStmt ==
    ASSUME AssignsOK, NEW n, Shift(n), todo[1].k \notin ExprKinds,
           \A i \in 1..n : todo'[i].k # "assign"
    PROVE  AssignsOK'
  <1>1. \A m \in 2..Len(todo) : todo[m].k # "assign"
    BY NoneBelow DEF Shift
  <1>2. \A l \in 1..Len(todo') : todo'[l].k # "assign"
    BY <1>1, Shifted
  <1> QED BY <1>2 DEF AssignsOK

(* compile_assign notes where the code of the right-hand side begins.      *)
LEMMA AssignsBegun ==
    ASSUME CompilerInv, AssignBegun,
           Len(todo') = 2 \/ (AssignsOK /\ Shift(2) /\ todo[1].k \notin ExprKinds)
    PROVE  AssignsOK'
  <1>1. /\ todo'[1].k = "expr" /\ todo'[2].k = "assign" /\ todo'[2].at = Len(text) /\ text' = text
        /\ Len(text) \in Nat
    BY DEF AssignBegun, CompilerInv, TypeOK
  <1>2. Len(todo') \in Nat /\ \A l \in 1..Len(todo') : todo'[l].k = "assign" => l = 2
    <2>1. \A l \in 1..2 : l = 1 \/ l = 2
      OBVIOUS
    <2>2. CASE Len(todo') = 2
      BY <1>1, <2>1, <2>2
    <2>3. CASE AssignsOK /\ Shift(2) /\ todo[1].k \notin ExprKinds
      <3>1. \A m \in 2..Len(todo) : todo[m].k # "assign"
        BY <2>3, NoneBelow DEF Shift
      <3>2. Len(todo') \in Nat /\ \A l \in 1..Len(todo') : l \in 1..2 \/ todo'[l].k # "assign"
        <4>1. /\ Len(todo') \in Nat
              /\ \A l \in 1..Len(todo') :
                    l \in 1..2 \/ (l - 2 + 1 \in 2..Len(todo) /\ todo'[l] = todo[l - 2 + 1])
          BY <2>3, Shifted, Zenon
        <4> QED BY <3>1, <4>1
      <3> QED BY <1>1, <2>1, <3>2
    <2> QED BY <2>2, <2>3
  <1>3. Straight(text', Len(text), Len(text') - 1)
    <2>1. \A a \in Len(text)..(Len(text') - 1) : FALSE
      BY <1>1
    <2> QED BY <2>1 DEF Straight
  <1>4. \A i \in 1..(2 - 1) : todo'[i].k \in ExprKinds
    BY <1>1 DEF ExprKinds
  <1> SUFFICES ASSUME NEW l \in 1..Len(todo'), todo'[l].k = "assign"
               PROVE  /\ todo'[l].at \in Nat /\ todo'[l].at <= Len(text')
                      /\ Straight(text', todo'[l].at, Len(text') - 1)
                      /\ \A i \in 1..(l - 1) : todo'[i].k \in ExprKinds
    BY DEF AssignsOK
  <1>5. l = 2
    BY <1>2
  <1>6. Len(text) <= Len(text')
    BY <1>1
  <1> QED BY <1>1, <1>3, <1>4, <1>5, <1>6

(* The code of an expression runs straight on.                             *)
LEMMA FlatStraight ==
    ASSUME CompilerInv, NEW f, Emits(Flat(f))
    PROVE  Rewritten(text, text', Nowhere) /\ Straight(text', Len(text), Len(text') - 1)
  <1>1. /\ Rewritten(text, text', Nowhere)
        /\ \A a \in Len(text)..(Len(text') - 1) : text'[a + 1] \in Flat(f)
    BY EmitsAre
  <1>2. \A c \in Flat(f) : c.op # "ret" /\ c.op # "push rbp"
    BY DEF Flat, Tame, Structure
  <1> QED BY <1>1, <1>2 DEF Straight

LEMMA AssignsHandled ==
    ASSUME CompilerInv, RelasInv, AssignsOK, ExprHandled \/ StmtHandled
    PROVE  AssignsOK'
  <1>0. Head(todo) = todo[1]
    BY DEF ExprHandled, StmtHandled, Calm, CompilerInv, TypeOK
  <1>1. CASE ExprHandled
    <2>1. Emits(Flat(frame)) /\ Moves(ExprKinds) /\ todo[1].k \in ExprKinds
      BY <1>0, <1>1 DEF ExprHandled, Calm
    <2>2. PICK n \in Nat : Shift(n) /\ \A i \in 1..n : todo'[i].k \in ExprKinds
      BY <2>1 DEF Moves
    <2> QED BY <2>1, <2>2, FlatStraight, AssignsExpr
  <1>2. CASE StmtHandled
    <2>1. Moves(BodyKinds) /\ todo[1].k \notin ExprKinds
      BY <1>0, <1>2 DEF StmtHandled, Calm
    <2>2. PICK n \in Nat : Shift(n) /\ \A i \in 1..n : todo'[i].k \in BodyKinds
      BY <2>1 DEF Moves
    <2>3. \A i \in 1..n : todo'[i].k # "assign"
      BY <2>2 DEF BodyKinds
    <2> QED BY <2>1, <2>2, <2>3, AssignsStmt
  <1> QED BY <1>1, <1>2

(* Constructs.                                                             *)
LEMMA AssignsBranches ==
    ASSUME CompilerInv, RelasInv, AssignsOK,
           Conditional \/ TestCondition \/ Else \/ EndWhile \/ EndIf \/ EndDefine
    PROVE  AssignsOK'
  <1>1. \A k \in Opens \union {"stmt"} : k \notin ExprKinds /\ k # "assign"
    BY DEF Opens, Branches, Tests, Owed, ExprKinds
  <1>2. /\ "stmt" \in Opens \union {"stmt"} /\ Tests \subseteq Opens /\ Owed \subseteq Opens
        /\ "else" \in Marks /\ "endwhile" \in Marks /\ "endif" \in Marks
        /\ "else" \in Owed /\ "endwhile" \in Owed /\ "endif" \in Owed
        /\ "enddefine" \in Opens /\ "expr" # "assign" /\ "more" # "assign"
    BY DEF Opens, Branches, Tests, Owed, Marks
  <1>3. (\A l \in 1..2 : l = 1 \/ l = 2) /\ (\A l \in 1..3 : l = 1 \/ l = 2 \/ l = 3) /\ 1..0 = {}
    OBVIOUS
  <1>4. CASE Conditional
    <2>1. Shift(2) /\ todo[1].k = "stmt" /\ todo'[1].k = "expr" /\ todo'[2].k \in Tests
      BY <1>4, ConditionalIs
    <2>2. \A i \in 1..2 : todo'[i].k # "assign"
      BY <1>1, <1>2, <1>3, <2>1
    <2> QED BY <1>1, <1>2, <2>1, <2>2, AssignsStmt
  <1>5. CASE TestCondition
    <2>1. /\ Shift(3) /\ todo[1].k \in Tests /\ todo'[1].k = "stmt" /\ todo'[2].k = "more"
          /\ todo'[3].k \in Owed
      BY <1>5, TestIs
    <2>2. \A i \in 1..3 : todo'[i].k # "assign"
      BY <1>1, <1>2, <1>3, <2>1
    <2>3. todo[1].k \notin ExprKinds
      BY <1>1, <1>2, <2>1
    <2> QED BY <2>1, <2>2, <2>3, AssignsStmt
  <1>6. CASE Else
    <2>1. todo[1].at < Len(text)
      BY <1>2, <1>6, MarkInside DEF Else
    <2>2. /\ Shift(3) /\ todo[1].k = "else" /\ todo'[1].k = "stmt" /\ todo'[2].k = "more"
          /\ todo'[3].k = "endif"
      BY <1>6, <2>1, ElseIs
    <2>3. \A i \in 1..3 : todo'[i].k # "assign"
      BY <1>1, <1>2, <1>3, <2>2
    <2>4. todo[1].k \notin ExprKinds
      BY <1>1, <1>2, <2>2
    <2> QED BY <2>2, <2>3, <2>4, AssignsStmt
  <1>7. CASE EndWhile \/ EndIf \/ EndDefine
    <2>1. Shift(0) /\ todo[1].k \in Opens
      <3>1. CASE EndWhile
        <4>1. todo[1].at < Len(text)
          BY <1>2, <3>1, MarkInside DEF EndWhile
        <4> QED BY <1>2, <3>1, <4>1, EndWhileIs
      <3>2. CASE EndIf
        <4>1. todo[1].at < Len(text)
          BY <1>2, <3>2, MarkInside DEF EndIf
        <4> QED BY <1>2, <3>2, <4>1, EndIfIs
      <3>3. CASE EndDefine
        BY <1>2, <3>3, EndDefineIs
      <3> QED BY <1>7, <3>1, <3>2, <3>3
    <2>2. \A i \in 1..0 : todo'[i].k # "assign"
      BY <1>3
    <2>3. todo[1].k \notin ExprKinds
      BY <1>1, <2>1
    <2> QED BY <2>1, <2>2, <2>3, AssignsStmt
  <1> QED BY <1>4, <1>5, <1>6, <1>7

LEMMA AssignsStep ==
    ASSUME CompilerInv, ScopesInv, RelasInv, WalkInv, AssignsOK, [Next]_vars
    PROVE  AssignsOK'
  <1>1. ASSUME todo' = <<>>
        PROVE  AssignsOK'
    <2>1. Len(todo') = 0 /\ 1..0 = {}
      BY <1>1, EmptySeq
    <2> QED BY <2>1 DEF AssignsOK
  <1>2. CASE ExprHandlers \/ StmtHandlers
    BY <1>2, ExprsHandled, StmtsHandled, AssignsHandled DEF WalkInv
  <1>3. CASE AssignStmt
    <2>1. AssignBegun /\ Shift(2) /\ todo[1].k = "stmt"
      BY <1>3, AssignHandled
    <2>2. todo[1].k \notin ExprKinds
      BY <2>1 DEF ExprKinds
    <2> QED BY <2>1, <2>2, AssignsBegun
  <1>4. CASE compile_define
    <2>1. /\ Len(todo') = 3 /\ todo'[1].k = "stmt" /\ todo'[2].k = "more"
          /\ todo'[3].k = "enddefine"
      BY <1>4, DefineIs
    <2>2. \A l \in 1..3 : l = 1 \/ l = 2 \/ l = 3
      OBVIOUS
    <2>3. \A l \in 1..Len(todo') : todo'[l].k # "assign"
      BY <2>1, <2>2
    <2> QED BY <2>3 DEF AssignsOK
  <1>5. CASE GlobalAssign
    BY <1>5, GlobalAssignIs, AssignsBegun
  <1>6. CASE SecondPass \/ Rejections
    BY <1>1, <1>6, SecondPassIs, RejectedIs
  <1>7. CASE compile_start
    <2>1. todo' = <<>>
      BY <1>7, StartIs DEF WalkInv, Idle, Running
    <2> QED BY <1>1, <2>1
  <1>8. CASE Declare \/ Declared \/ CompilePassEnd \/ Terminating \/ UNCHANGED vars
    BY <1>8, QuietIs DEF Quiet, AssignsOK
  <1> QED BY <1>2, <1>3, <1>4, <1>5, <1>6, <1>7, <1>8, AssignsBranches, StepCases

(* The walk does not touch the table of globals, except to add to it.      *)

(* The handlers, DeclareVariable and compile_define aside.                 *)
WalkHandlers ==
    \/ ExprHandlers \/ StmtHandlers \/ AssignStmt
    \/ Conditional \/ TestCondition \/ Else \/ EndWhile \/ EndIf \/ EndDefine \/ GlobalAssign

(* What they all do.                                                       *)
Walked == /\ Running /\ RelasKept /\ (\E p \in Int : Rewritten(text, text', p))
          /\ UNCHANGED <<tree, phase, outcome>>

LEMMA AlwaysWalked ==
    ASSUME CompilerInv, ScopesInv, RelasInv, WalkInv, WalkHandlers \/ compile_define
    PROVE  Walked
  <1>0. /\ Len(text) \in Nat /\ Nowhere \in Int
        /\ "else" \in Marks /\ "endwhile" \in Marks /\ "endif" \in Marks
    BY DEF CompilerInv, TypeOK, Nowhere, Marks
  <1>1. relas' = relas => RelasKept
    BY MoreRelas
  <1>2. text' = text => Rewritten(text, text', Nowhere)
    BY <1>0 DEF Rewritten
  <1>3. CASE ExprHandlers
    <2>1. ExprHandled
      BY <1>3, ExprsHandled DEF WalkInv
    <2> QED BY <1>0, <2>1, EmitsAre DEF ExprHandled, Calm, Walked
  <1>4. CASE StmtHandlers
    <2>1. StmtHandled
      BY <1>4, StmtsHandled DEF WalkInv
    <2> QED BY <1>0, <2>1, EmitsAre DEF StmtHandled, Calm, Walked
  <1>5. CASE AssignStmt
    BY <1>0, <1>1, <1>2, <1>5, AssignHandled DEF AssignBegun, Calm, Walked
  <1>6. CASE Conditional
    BY <1>0, <1>1, <1>2, <1>6, ConditionalIs DEF Walked
  <1>7. CASE TestCondition
    BY <1>0, <1>1, <1>7, TestIs DEF Walked
  <1>8. CASE Else
    <2>1. todo[1].at < Len(text) /\ todo[1].at \in Int
      BY <1>0, <1>8, MarkInside DEF Else
    <2> QED BY <1>1, <1>8, <2>1, ElseIs DEF Walked
  <1>9. CASE EndWhile
    <2>1. todo[1].at < Len(text) /\ todo[1].at \in Int
      BY <1>0, <1>9, MarkInside DEF EndWhile
    <2> QED BY <1>1, <1>9, <2>1, EndWhileIs DEF Walked
  <1>10. CASE EndIf
    <2>1. todo[1].at < Len(text) /\ todo[1].at \in Int
      BY <1>0, <1>10, MarkInside DEF EndIf
    <2> QED BY <1>1, <1>10, <2>1, EndIfIs DEF Walked
  <1>11. CASE EndDefine
    BY <1>1, <1>11, EndDefineIs DEF Walked
  <1>12. CASE GlobalAssign
    BY <1>0, <1>1, <1>2, <1>12, GlobalAssignIs DEF AssignBegun, Walked
  <1>13. CASE compile_define
    BY <1>0, <1>1, <1>13, DefineIs DEF Walked
  <1> QED BY <1>3, <1>4, <1>5, <1>6, <1>7, <1>8, <1>9, <1>10, <1>11, <1>12, <1>13 DEF WalkHandlers

LEMMA WalkKeeps ==
    ASSUME CompilerInv, ScopesInv, RelasInv, WalkInv, WalkHandlers
    PROVE  GlobalsKept \/ DeclareVariable
  <1>1. CASE ExprHandlers
    BY <1>1, ExprsHandled, SameGlobals DEF WalkInv, ExprHandled
  <1>2. CASE StmtHandlers
    BY <1>2, StmtsHandled, SameGlobals DEF WalkInv, StmtHandled
  <1>3. CASE AssignStmt \/ GlobalAssign
    BY <1>3, AssignHandled, GlobalAssignIs, SameGlobals DEF AssignBegun
  <1>4. CASE Conditional
    BY <1>4, ConditionalIs, OpenedGlobals
  <1>5. CASE TestCondition
    BY <1>5, TestIs, SameGlobals
  <1>6. CASE Else
    <2>1. scopes' = scopes
      BY <1>6 DEF Else, Keep, storage
    <2> QED BY <2>1, SameGlobals
  <1> QED BY <1>1, <1>2, <1>3, <1>4, <1>5, <1>6, ClosedGlobals DEF WalkHandlers

(* Of DeclareVariable, whatever scope it is in.                            *)
LEMMA DeclaredNames ==
    ASSUME CompilerInv, DeclareVariable
    PROVE  FunctionNames' = FunctionNames
  <1>1. PICK x \in Symbol : scopes' = [scopes EXCEPT ![Len(scopes)] = Append(@, x)]
    BY Declaration
  <1>2. Running
    BY DEF DeclareVariable, At
  <1> QED BY <1>1, <1>2, LocalDeclared

(* A global that is declared has an initialiser.                           *)
LEMMA DeclaredGlobal ==
    ASSUME CompilerInv, ScopesInv, WalkInv, AssignsOK, InitsOK, DeclareVariable
    PROVE  InitsOK'
  <1>1. PICK x \in Symbol :
          /\ x.offset = Head(todo).at
          /\ scopes' = [scopes EXCEPT ![Len(scopes)] = Append(@, x)]
          /\ Head(todo).n \in Int /\ compile_store(x, Head(todo).n)
          /\ \/ Len(scopes) = 2 /\ x.vis = "global"
             \/ Len(scopes) >= 3
    BY Declaration
  <1>2. Running /\ At("assign")
    BY DEF DeclareVariable, At
  <1>3. StmtHandled
    BY StmtsHandled DEF WalkInv, StmtHandlers
  <1>4. Rewritten(text, text', Nowhere) /\ RelasKept
    BY <1>3, EmitsAre DEF StmtHandled, Calm
  <1>5. CASE Len(scopes) >= 3
    <2>1. scopes'[2] = scopes[2]
      BY <1>1, <1>2, <1>5, LocalDeclared
    <2> QED BY <1>4, <2>1, InitsKept
  <1>6. CASE Len(scopes) = 2 /\ x.vis = "global"
    <2> DEFINE at == todo[1].at
    <2>1. scopes'[2] = Append(scopes[2], x) /\ scopes[2] \in Seq(Symbol)
      <3>1. scopes'[2] = Append(scopes[2], x)
        BY <1>1, <1>2, <1>6, LocalDeclared
      <3>2. scopes \in Seq(Seq(Symbol)) /\ 2 \in 1..Len(scopes)
        BY <1>6 DEF CompilerInv, TypeOK
      <3> QED BY <3>1, <3>2
    <2>2. /\ Len(scopes'[2]) = Len(scopes[2]) + 1 /\ Len(scopes[2]) \in Nat
          /\ \A i \in 1..Len(scopes[2]) : scopes'[2][i] = scopes[2][i]
          /\ scopes'[2][Len(scopes[2]) + 1] = x
      BY <2>1, AddEntry, LenProperties
    <2>3. /\ at \in Nat /\ at <= Len(text) /\ Straight(text, at, Len(text) - 1)
          /\ x.offset = at
      <3>1. Head(todo) = todo[1] /\ todo[1].k = "assign" /\ 1 \in 1..Len(todo)
        BY <1>2, HeadFirst
      <3> QED BY <1>1, <3>1 DEF AssignsOK
    <2>4. PICK ret \in Nat :
            /\ ret > Len(text) /\ Len(text') = ret + 1
            /\ text'[ret + 1].op = "ret" /\ text'[ret].op \in Stores
            /\ \A a \in Len(text)..(ret - 1) : text'[a + 1].op \in Stores \union {"mov imm"}
            /\ \E k \in 1..Len(relas') : relas'[k].at = ret - 1 /\ relas'[k].addend = x.addend
      <3>1. is_global_scope /\ x.vis = "global"
        BY <1>6 DEF is_global_scope
      <3>2. compile_store(x, Head(todo).n) /\ Head(todo).n \in Int
        BY <1>1
      <3> QED BY <3>1, <3>2, GlobalStore, Zenon
    <2>5. Len(text) \in Nat
      BY DEF CompilerInv, TypeOK
    <2>6. Straight(text', at, ret - 1)
      <3>1. Straight(text', at, Len(text) - 1)
        BY <1>4, <2>3, <2>5, StraightKept
      <3>2. \A c \in Stores \union {"mov imm"} : c # "ret" /\ c # "push rbp"
        BY DEF Stores
      <3>3. \A a \in at..(ret - 1) : a \in at..(Len(text) - 1) \/ a \in Len(text)..(ret - 1)
        BY <2>3, <2>5
      <3> QED BY <2>4, <3>1, <3>2, <3>3 DEF Straight
    <2>7. Initialiser(x, text', relas')
      <3>1. ret \in (at + 1)..(Len(text') - 1)
        <4>1. ret \in Nat /\ ret > Len(text) /\ Len(text') = ret + 1 /\ at \in Nat /\ at <= Len(text)
          BY <2>3, <2>4
        <4> HIDE DEF at
        <4> QED BY <2>5, <4>1
      <3> HIDE DEF at
      <3> QED BY <2>3, <2>4, <2>6, <3>1 DEF Initialiser
    <2>8. ASSUME NEW i \in 1..Len(scopes[2])
          PROVE  Initialiser(scopes[2][i], text', relas')
      <3>1. Initialiser(scopes[2][i], text, relas)
        BY DEF InitsOK
      <3> QED BY <1>4, <3>1, InitialiserKept DEF RelasKept
    <2>9. \A i \in 1..Len(scopes'[2]) : i \in 1..Len(scopes[2]) \/ i = Len(scopes[2]) + 1
      BY <2>2
    <2> QED BY <2>2, <2>7, <2>8, <2>9 DEF InitsOK
  <1> QED BY <1>1, <1>5, <1>6

(* The table of globals is empty when a pass begins.                       *)
LEMMA NoGlobals ==
    ASSUME CompilerInv, Declared \/ SecondPass
    PROVE  InitsOK' /\ FunctionNames' = FunctionNames
  <1> DEFINE S    == Seq(Symbol)
             none == <<>>
  <1>1. scopes'[2] = <<>> /\ scopes'[1] = scopes[1]
    <2>1. scopes \in Seq(S) /\ none \in S
      BY EmptySeq DEF CompilerInv, TypeOK
    <2>2. CASE Declared
      <3>1. scopes' = Append(scopes, none) /\ Len(scopes) = 1
        BY <2>2 DEF Declared, CompilerInv, TablesOpen, depth
      <3> HIDE DEF S, none
      <3>2. (\A i \in 1..Len(scopes) : scopes'[i] = scopes[i]) /\ scopes'[Len(scopes) + 1] = none
        BY <2>1, <3>1, AddEntry
      <3>3. 1 \in 1..1 /\ 1 + 1 = 2
        OBVIOUS
      <3> QED BY <3>1, <3>2, <3>3 DEF none
    <2>3. CASE SecondPass
      <3>1. scopes' = [scopes EXCEPT ![2] = none]
        BY <2>3 DEF SecondPass, free_array
      <3>2. 1 \in 1..Len(scopes) /\ 2 \in 1..Len(scopes) /\ Len(scopes) \in Nat
        BY <2>1, <2>3 DEF SecondPass, CompilerInv, TablesOpen, depth
      <3> HIDE DEF S, none
      <3>3. scopes'[2] = none /\ \A i \in 1..Len(scopes) : i # 2 => scopes'[i] = scopes[i]
        BY <2>1, <3>1, <3>2, SetEntry
      <3> QED BY <3>2, <3>3 DEF none
    <2> QED BY <2>2, <2>3
  <1>2. Len(scopes'[2]) = 0 /\ 1..0 = {}
    BY <1>1, EmptySeq
  <1> QED BY <1>1, <1>2 DEF InitsOK, FunctionNames

(* Every function is declared.                                             *)
LEMMA OneMoreDefined ==
    ASSUME tree \in Seq(TopNode), NEW n \in Nat \ {0}, n <= Len(tree)
    PROVE  DefinedIn(n) = DefinedIn(n - 1) \union (IF tree[n].k = "define" THEN {tree[n].id} ELSE {})
  <1>1. \A j : j \in 1..n <=> j \in 1..(n - 1) \/ j = n
    OBVIOUS
  <1> QED BY <1>1 DEF DefinedIn

(* A table of the scopes.                                                  *)
LEMMA TableIs ==
    ASSUME scopes \in Seq(Seq(Symbol)), NEW i \in 1..Len(scopes)
    PROVE  scopes[i] \in Seq(Symbol)
  <1> DEFINE S == Seq(Symbol)
  <1>1. scopes \in Seq(S)
    OBVIOUS
  <1> HIDE DEF S
  <1>2. scopes[i] \in S
    BY <1>1
  <1> QED BY <1>2 DEF S

(* In the one table there is, find_symbol looks for functions.             *)
LEMMA DeclaredAlready ==
    ASSUME Len(scopes) = 1, NEW id, Found(id)
    PROVE  id \in FunctionNames
  <1>1. PICK p \in Places : scopes[p[1]][p[2]].id = id
    BY DEF Found, Hits
  <1>2. PICK i \in 1..Len(scopes) : \E j \in 1..Len(scopes[i]) : p = <<i, j>>
    BY DEF Places
  <1>3. PICK j \in 1..Len(scopes[i]) : p = <<i, j>>
    BY <1>2
  <1>4. i = 1
    BY <1>2
  <1> QED BY <1>1, <1>3, <1>4 DEF FunctionNames

LEMMA DeclareOne ==
    ASSUME CompilerInv, DistinctFunctions, DeclaresOK, Declare
    PROVE  DeclaresOK'
  <1> DEFINE t == tree[top]
             f == Sym("func", "global", t.id, 0, 0, Len(t.params))
  <1>1. /\ phase = "declare" /\ phase' = "declare" /\ top <= Len(tree) /\ tree' = tree
        /\ tree \in Seq(TopNode) /\ top \in Nat \ {0} /\ Len(tree) \in Nat
        /\ scopes \in Seq(Seq(Symbol)) /\ Len(scopes) = 1
    BY TreesAssumption, LenProperties DEF Declare, CompilerInv, TypeOK, TablesOpen, depth
  <1>2. FunctionNames = DefinedIn(top - 1)
    BY <1>1 DEF DeclaresOK
  <1>3. ~(t.k = "define" /\ Found(t.id))
    <2> SUFFICES ASSUME t.k = "define", Found(t.id)
                 PROVE  FALSE
      OBVIOUS
    <2>1. t.id \in DefinedIn(top - 1)
      BY <1>1, <1>2, DeclaredAlready
    <2>2. PICK j \in 1..(top - 1) : tree[j].k = "define" /\ tree[j].id = t.id
      BY <2>1 DEF DefinedIn
    <2>3. j \in 1..Len(tree) /\ top \in 1..Len(tree) /\ j # top
      BY <1>1, <2>2
    <2> QED BY <2>2, <2>3 DEF DistinctFunctions
  <1>4. /\ top' = top + 1
        /\ scopes' = IF t.k = "assign" THEN scopes ELSE [scopes EXCEPT ![1] = Append(@, f)]
    BY <1>3 DEF Declare
  <1>5. t \in TopNode
    <2>1. top \in 1..Len(tree)
      BY <1>1
    <2> QED BY <1>1, <2>1
  <1>6. t.k = "assign" \/ t.k = "define"
    BY <1>5 DEF TopNode
  <1>7. FunctionNames' = FunctionNames \union (IF t.k = "define" THEN {t.id} ELSE {})
    <2>1. CASE t.k = "assign"
      <3>1. scopes' = scopes /\ t.k # "define"
        BY <1>4, <2>1
      <3> QED BY <3>1 DEF FunctionNames
    <2>2. CASE t.k = "define"
      <3> DEFINE s == scopes[1]
                 u == Append(s, f)
      <3>1. f \in Symbol /\ f.id = t.id
        <4> HIDE DEF t
        <4>1. t.id \in STRING /\ Len(t.params) \in Nat
          BY <1>5, LenProperties DEF TopNode
        <4> QED BY <4>1 DEF Sym, Symbol
      <3>2. s \in Seq(Symbol) /\ 1 \in 1..Len(scopes)
        <4>1. scopes \in Seq(Seq(Symbol)) /\ Len(scopes) = 1
          BY <1>1
        <4>2. 1 \in 1..Len(scopes)
          BY <4>1
        <4>3. scopes[1] \in Seq(Symbol)
          BY <4>1, <4>2, TableIs
        <4> QED BY <4>2, <4>3
      <3> HIDE DEF f, s
      <3>3. /\ u \in Seq(Symbol) /\ Len(u) = Len(s) + 1 /\ Len(s) \in Nat
            /\ (\A i \in 1..Len(s) : u[i] = s[i]) /\ u[Len(s) + 1] = f
        BY <3>1, <3>2, AddEntry, LenProperties
      <3>4. scopes'[1] = u
        <4>1. scopes' = [scopes EXCEPT ![1] = u]
          BY <1>4, <2>2 DEF s
        <4> HIDE DEF u
        <4>2. ASSUME NEW z \in Seq(Seq(Symbol)), NEW k \in 1..Len(z), NEW w, w = [z EXCEPT ![k] = u]
              PROVE  w[k] = u
          BY <3>3, <4>2, SetTable
        <4> QED BY <1>1, <3>2, <4>1, <4>2
      <3> HIDE DEF u, t
      <3>5. \A i : i \in 1..Len(u) <=> i \in 1..Len(s) \/ i = Len(s) + 1
        BY <3>3
      <3>6. {u[i].id : i \in 1..Len(u)} = {s[i].id : i \in 1..Len(s)} \union {t.id}
        BY <3>1, <3>3, <3>5
      <3> QED BY <2>2, <3>4, <3>6 DEF FunctionNames, s
    <2> QED BY <1>6, <2>1, <2>2
  <1>8. DefinedIn(top) = DefinedIn(top - 1) \union (IF t.k = "define" THEN {t.id} ELSE {})
    BY <1>1, OneMoreDefined
  <1> HIDE DEF t, f
  <1>9. FunctionNames' = {tree[i].id : i \in {j \in 1..(top' - 1) : tree[j].k = "define"}}
    <2>1. top' - 1 = top
      BY <1>1, <1>4
    <2>2. FunctionNames' = DefinedIn(top)
      BY <1>2, <1>7, <1>8
    <2> QED BY <2>1, <2>2 DEF DefinedIn
  <1>10. top' <= Len(tree) + 1
    BY <1>1, <1>4
  <1> QED BY <1>1, <1>9, <1>10 DEF DeclaresOK, Running, DefinedIn
LEMMA DeclaresStep ==
    ASSUME CompilerInv, ScopesInv, RelasInv, WalkInv, DistinctFunctions, DeclaresOK, [Next]_vars
    PROVE  /\ DeclaresOK'
           /\ compile_define => GlobalsKept
  <1>0. compile_define => GlobalsKept
    <2> SUFFICES ASSUME compile_define
                 PROVE  GlobalsKept
      OBVIOUS
    <2>1. Running /\ top \in 1..Len(tree) /\ tree[top].k = "define"
      <3>1. top \in Nat \ {0} /\ Len(tree) \in Nat
        BY TreesAssumption, LenProperties DEF CompilerInv, TypeOK
      <3>2. Running /\ top <= Len(tree) /\ tree[top].k = "define"
        BY DEF compile_define, AtTop
      <3> QED BY <3>1, <3>2
    <2>2. tree[top].id \in FunctionNames
      BY <2>1 DEF DeclaresOK, DefinedIn
    <2> QED BY <2>2, DefinedGlobals
  <1> SUFFICES DeclaresOK'
    BY <1>0
  <1>1. ASSUME phase # "declare", phase' # "declare", Running' => Running,
               FunctionNames' = FunctionNames, tree' = tree
        PROVE  DeclaresOK'
    BY <1>1 DEF DeclaresOK, DefinedIn
  <1>2. Running => phase # "declare"
    BY DEF Running
  <1>3. CASE WalkHandlers \/ compile_define
    <2>1. Walked
      BY <1>3, AlwaysWalked
    <2>2. FunctionNames' = FunctionNames
      BY <1>0, <1>3, WalkKeeps, DeclaredNames DEF GlobalsKept
    <2> QED BY <1>1, <1>2, <2>1, <2>2 DEF Walked, Running
  <1>4. CASE SecondPass
    <2>1. FunctionNames' = FunctionNames
      BY <1>4, NoGlobals
    <2> QED BY <1>1, <1>4, <2>1 DEF SecondPass, Running
  <1>5. CASE Rejections
    <2>1. Running /\ scopes' = scopes /\ tree' = tree /\ phase' \in {"end", "start"}
      BY <1>5, RejectedIs
    <2> QED BY <1>1, <1>2, <2>1 DEF FunctionNames, Running
  <1>6. CASE compile_start
    <2>1. phase = "start" /\ phase' = "end" /\ scopes' = scopes /\ tree' = tree
      BY <1>6, StartIs
    <2> QED BY <1>1, <2>1 DEF FunctionNames, Running
  <1>7. CASE Declare
    BY <1>7, DeclareOne
  <1>8. CASE Declared
    <2>1. /\ phase = "declare" /\ phase' \in {"pass1", "end"} /\ top > Len(tree) /\ tree' = tree
          /\ FunctionNames' = FunctionNames
      BY <1>8, NoGlobals DEF Declared
    <2>2. FunctionNames = DefinedIn(top - 1) /\ top - 1 = Len(tree)
      <3>1. top \in Nat /\ Len(tree) \in Nat
        BY TreesAssumption, LenProperties DEF CompilerInv, TypeOK
      <3>2. top <= Len(tree) + 1 /\ FunctionNames = DefinedIn(top - 1)
        BY <2>1 DEF DeclaresOK
      <3> QED BY <2>1, <3>1, <3>2
    <2> QED BY <2>1, <2>2 DEF DeclaresOK, DefinedIn
  <1>9. CASE CompilePassEnd
    <2>1. phase = "pass2" /\ phase' = "start" /\ scopes' = scopes /\ tree' = tree
      BY <1>9 DEF CompilePassEnd, storage
    <2> QED BY <1>1, <2>1 DEF FunctionNames, Running
  <1>10. CASE Terminating \/ UNCHANGED vars
    <2>1. phase' = phase /\ top' = top /\ tree' = tree /\ scopes' = scopes
      BY <1>10 DEF Terminating, vars, control, storage
    <2>2. FunctionNames' = FunctionNames
      BY <2>1 DEF FunctionNames
    <2>3. DefinedIn(top - 1)' = DefinedIn(top - 1) /\ DefinedIn(Len(tree))' = DefinedIn(Len(tree))
      BY <2>1 DEF DefinedIn
    <2>4. Len(tree)' = Len(tree)
      BY <2>1
    <2> QED BY <2>1, <2>2, <2>3, <2>4, Zenon DEF DeclaresOK, Running
  <1> QED BY <1>0, <1>3, <1>4, <1>5, <1>6, <1>7, <1>8, <1>9, <1>10, StepCases DEF WalkHandlers

(* compile_start.                                                          *)
LEMMA StartCalls ==
    ASSUME CompilerInv, compile_start, Len(scopes) = 2
    PROVE  StartOK'
  <1> DEFINE globals == scopes[2]
             n       == Len(globals)
             offsets == [i \in 1..n |-> globals[i].offset]
             T       == StartTargets
  <1>1. /\ start' = Len(text) /\ scopes' = scopes
        /\ \A i \in 1..Len(T) :
              /\ Len(text) + i \in 1..Len(text') /\ text'[Len(text) + i].op = "call"
              /\ text'[Len(text) + i].x = T[i] - (Len(text) + i - 1) - 1
    BY StartIs
  <1>2. T = Append(offsets, main.offset)
    BY DEF StartTargets
  <1>3. n \in Nat /\ Len(text) \in Nat /\ globals \in Seq(Symbol)
    <2>1. globals \in Seq(Symbol)
      BY TableIs DEF CompilerInv, TypeOK
    <2> QED BY <2>1, LenProperties DEF CompilerInv, TypeOK
  <1>4. Len(T) = n + 1 /\ (\A i \in 1..n : T[i] = globals[i].offset) /\ T[n + 1] = main.offset
    <2> DEFINE D == {globals[i].offset : i \in 1..n} \union {main.offset}
    <2>1. offsets \in Seq(D) /\ main.offset \in D /\ Len(offsets) = n
          /\ \A i \in 1..n : offsets[i] = globals[i].offset
      BY <1>3
    <2> HIDE DEF D, offsets
    <2> QED BY <1>2, <1>3, <2>1, AddEntry
  <1> HIDE DEF T, offsets
  <1>5. ASSUME NEW i \in 1..(n + 1), NEW g, T[i] = g, NEW a, a = start' + i - 1
        PROVE  /\ a + 1 \in 1..Len(text') /\ text'[a + 1].op = "call"
               /\ text'[a + 1].x = g - a - 1
    <2>1. a = Len(text) + i - 1 /\ a + 1 = Len(text) + i /\ i \in 1..Len(T)
      BY <1>1, <1>3, <1>4, <1>5
    <2>2. /\ Len(text) + i \in 1..Len(text') /\ text'[Len(text) + i].op = "call"
          /\ text'[Len(text) + i].x = T[i] - (Len(text) + i - 1) - 1
      BY <1>1, <2>1
    <2> QED BY <1>5, <2>1, <2>2, Zenon
  <1>6. ASSUME NEW i \in 1..n
        PROVE  CallsAt(start + i - 1, scopes[2][i].offset)'
    <2>1. i \in 1..(n + 1) /\ T[i] = globals[i].offset
      BY <1>3, <1>4
    <2> QED BY <1>1, <1>5, <2>1 DEF CallsAt
  <1>7. CallsAt(start + n, main.offset)'
    <2>1. n + 1 \in 1..(n + 1) /\ start' + n = start' + (n + 1) - 1
      BY <1>1, <1>3
    <2>2. main' = main
      BY <1>1 DEF main, Mains
    <2> QED BY <1>1, <1>4, <1>5, <2>1, <2>2 DEF CallsAt
  <1>8. Len(scopes') = 2 /\ start' \in Nat /\ main'.offset \in Nat
    <2>1. main \in Symbol
      <3>1. phase = "start"
        BY DEF compile_start
      <3>2. scopes \in Seq(Seq(Symbol)) /\ "main" \in FunctionNames
        BY <3>1 DEF CompilerInv, TypeOK, TablesOpen
      <3>3. scopes # <<>>
        BY EmptySeq
      <3> QED BY <3>2, <3>3, MainFound
    <2>2. main' = main
      BY <1>1 DEF main, Mains
    <2>3. main.offset \in Nat
      BY <2>1 DEF Symbol
    <2> QED BY <1>1, <1>3, <2>2, <2>3
  <1> QED BY <1>1, <1>6, <1>7, <1>8 DEF StartOK
(* What a step does to the program it compiles, and to its outcome.        *)
LEMMA TreeKept ==
    ASSUME CompilerInv, ScopesInv, RelasInv, WalkInv, [Next]_vars
    PROVE  tree' = tree
  <1>1. CASE WalkHandlers \/ compile_define
    BY <1>1, AlwaysWalked DEF Walked
  <1>2. CASE SecondPass \/ Rejections \/ compile_start
    BY <1>2, SecondPassIs, RejectedIs, StartIs
  <1>3. CASE Declare \/ Declared \/ CompilePassEnd \/ Terminating \/ UNCHANGED vars
    BY <1>3, QuietIs DEF Quiet
  <1> QED BY <1>1, <1>2, <1>3, StepCases DEF WalkHandlers

(* The end: _start is there when the outcome is "ok".                      *)
EndOK == /\ Ok => phase = "end" /\ StartOK
         /\ phase = "start" /\ outcome = "none" => Len(scopes) = 2

LEMMA EndStep ==
    ASSUME CompilerInv, ScopesInv, RelasInv, WalkInv, EndOK, [Next]_vars
    PROVE  EndOK'
  <1>1. CASE WalkHandlers \/ compile_define
    <2>1. Running /\ phase' = phase /\ outcome' = outcome
      BY <1>1, AlwaysWalked DEF Walked
    <2> QED BY <2>1 DEF EndOK, Ok, Running
  <1>2. CASE SecondPass
    <2>1. /\ phase = "pass1" /\ phase' \in {"pass2", "end"}
          /\ outcome' = outcome \/ outcome' = "unbalanced"
      BY <1>2, SecondPassIs
    <2> QED BY <2>1 DEF EndOK, Ok
  <1>3. CASE Rejections
    <2>1. Running /\ outcome' \in {"syntax", "second"}
      BY <1>3, RejectedIs
    <2> QED BY <2>1 DEF EndOK, Ok
  <1>4. CASE compile_start
    <2>1. phase = "start" /\ phase' = "end" /\ outcome' = IF outcome = "none" THEN "ok" ELSE outcome
      BY <1>4, StartIs
    <2>2. outcome # "ok"
      BY <2>1 DEF EndOK, Ok
    <2>3. outcome = "none" => StartOK'
      BY <1>4, <2>1, StartCalls DEF EndOK
    <2> QED BY <2>1, <2>2, <2>3 DEF EndOK, Ok
  <1>5. CASE Declare \/ Declared
    <2>1. phase = "declare" /\ phase' \in {"declare", "pass1", "end"} /\ outcome' \in {outcome, "nomain"}
      BY <1>5 DEF Declare, Declared
    <2> QED BY <2>1 DEF EndOK, Ok
  <1>6. CASE CompilePassEnd
    <2>1. /\ phase = "pass2" /\ Running /\ todo = <<>> /\ outcome' = outcome /\ scopes' = scopes
      BY <1>6 DEF CompilePassEnd, storage, Running
    <2>2. Len(scopes) = 2
      BY <2>1, TopFacts DEF depth
    <2>3. outcome # "ok"
      BY <2>1 DEF EndOK, Ok
    <2> QED BY <2>1, <2>2, <2>3 DEF EndOK, Ok
  <1>7. CASE Terminating \/ UNCHANGED vars
    <2>1. UNCHANGED <<phase, outcome, scopes, text, start>>
      BY <1>7 DEF Terminating, vars, control, storage, code
    <2>2. StartOK => StartOK'
      BY <2>1 DEF StartOK, CallsAt, main, Mains
    <2> QED BY <2>1, <2>2 DEF EndOK, Ok
  <1> QED BY <1>1, <1>2, <1>3, <1>4, <1>5, <1>6, <1>7, StepCases DEF WalkHandlers

(* Initialisers are there from the first pass on.                          *)
Initialised == Live /\ (phase \in {"pass1", "pass2", "start"} \/ Ok) => InitsOK

LEMMA InitsStep ==
    ASSUME CompilerInv, ScopesInv, RelasInv, WalkInv, AssignsOK, EndOK,
           DistinctFunctions, DeclaresOK, Initialised, [Next]_vars
    PROVE  Initialised'
  <1>0. Len(text) \in Nat
    BY DEF CompilerInv, TypeOK
  <1>1. CASE WalkHandlers \/ compile_define
    <2>1. Walked
      BY <1>1, AlwaysWalked
    <2>2. InitsOK
      BY <2>1 DEF Walked, Running, WalkInv, RunsLive, Live, Initialised
    <2>3. CASE DeclareVariable
      BY <2>2, <2>3, DeclaredGlobal DEF Initialised
    <2>4. CASE ~DeclareVariable
      <3>1. scopes'[2] = scopes[2]
        BY <1>1, <2>4, WalkKeeps, DeclaresStep DEF GlobalsKept
      <3>2. InitsOK'
        BY <2>1, <2>2, <3>1, InitsKept DEF Walked
      <3> QED BY <3>2 DEF Initialised
    <2> QED BY <2>3, <2>4
  <1>2. CASE SecondPass \/ Declared
    BY <1>2, NoGlobals DEF Initialised
  <1>3. CASE Rejections
    <2>1. outcome' \in {"syntax", "second"}
      BY <1>3, RejectedIs
    <2> QED BY <2>1 DEF Initialised, Live
  <1>4. CASE compile_start
    <2>1. /\ phase = "start" /\ phase' = "end" /\ outcome' = IF outcome = "none" THEN "ok" ELSE outcome
          /\ Emits(Flat(0)) /\ relas' = relas /\ scopes' = scopes
      BY <1>4, StartIs
    <2>2. outcome # "ok"
      BY <2>1 DEF EndOK, Ok
    <2>3. ASSUME outcome = "none"
          PROVE  InitsOK'
      <3>1. InitsOK
        BY <2>1, <2>3 DEF Initialised, Live
      <3>2. Rewritten(text, text', Nowhere) /\ RelasKept
        BY <2>1, EmitsAre, MoreRelas
      <3> QED BY <2>1, <3>1, <3>2, InitsKept
    <2> QED BY <2>1, <2>2, <2>3 DEF Initialised, Ok
  <1>5. CASE Declare
    <2>1. phase = "declare" /\ phase' = phase /\ outcome' = outcome
      BY <1>5 DEF Declare
    <2> QED BY <2>1 DEF EndOK, Initialised, Ok
  <1>6. CASE CompilePassEnd \/ Terminating \/ UNCHANGED vars
    <2>1. UNCHANGED <<outcome, scopes, text, relas>> /\ (phase' = phase \/ phase = "pass2")
      BY <1>6 DEF CompilePassEnd, Terminating, vars, control, storage, code
    <2>2. InitsOK => InitsOK'
      BY <2>1 DEF InitsOK
    <2> QED BY <2>1, <2>2 DEF Initialised, Live, Ok
  <1> QED BY <1>1, <1>2, <1>3, <1>4, <1>5, <1>6, StepCases DEF WalkHandlers

(* _start calls the initialiser of every global, in the order in which     *)
(* they are declared, and then main; an initialiser stores to its own      *)
(* global, returns and runs into no other code.                            *)
THEOREM GlobalsAreInitialised == Spec => []StartInitialisesGlobals
  <1> DEFINE Inv == /\ AssignsOK /\ EndOK
                    /\ DistinctFunctions => DeclaresOK /\ Initialised
  <1>1. Init => Inv
    <2> SUFFICES ASSUME Init
                 PROVE  Inv
      OBVIOUS
    <2>1. Len(<<>>) = 0 /\ 1..0 = {} /\ todo = <<>> /\ scopes = << <<>> >>
      BY EmptySeq DEF Init
    <2>2. FunctionNames = {}
      <3> DEFINE none == <<>>
      <3>1. scopes[1] = none /\ Len(none) = 0
        BY <2>1
      <3> QED BY <2>1, <3>1 DEF FunctionNames
    <2>3. DeclaresOK
      <3>1. phase = "declare" /\ top = 1 /\ tree \in Seq(TopNode) /\ Len(tree) \in Nat
        BY TreesAssumption, LenProperties DEF Init
      <3>2. 1..(top - 1) = {} /\ top <= Len(tree) + 1
        BY <3>1
      <3> QED BY <2>2, <3>1, <3>2 DEF DeclaresOK, DefinedIn, Running
    <2> QED BY <2>1, <2>3 DEF Init, AssignsOK, EndOK, Initialised, Ok
  <1>2. CodeInv /\ Inv /\ [Next]_vars => Inv'
    <2> SUFFICES ASSUME CodeInv, Inv, [Next]_vars
                 PROVE  Inv'
      OBVIOUS
    <2>1. CompilerInv /\ ScopesInv /\ RelasInv /\ WalkInv
      BY DEF CodeInv
    <2>2. DistinctFunctions' => DistinctFunctions
      <3>1. tree' = tree
        BY <2>1, TreeKept
      <3> QED BY <3>1 DEF DistinctFunctions
    <2> QED BY <2>1, <2>2, AssignsStep, EndStep, DeclaresStep, InitsStep
  <1>3. CodeInv /\ Inv => StartInitialisesGlobals
    <2> SUFFICES ASSUME CodeInv, Inv, Ok, DistinctFunctions
                 PROVE  StartInitialisesGlobals
      BY DEF StartInitialisesGlobals
    <2>1. StartOK /\ InitsOK
      BY DEF EndOK, Initialised, Live, Ok
    <2>2. Len(text) \in Nat /\ start \in Nat
      BY DEF CodeInv, CompilerInv, TypeOK
    <2>3. ASSUME NEW a \in Int, NEW to \in Int, CallsAt(a, to)
          PROVE  a \in With({"call"}) /\ Target(a) = to
      <3>1. a \in Addresses
        BY <2>2, <2>3 DEF CallsAt, Addresses
      <3>2. Instr(a).op = "call" /\ Instr(a).x = to - a - 1
        BY <2>3 DEF CallsAt, Instr
      <3>3. Target(a) = to
        BY <2>3, <3>2 DEF Target
      <3> QED BY <3>1, <3>2, <3>3 DEF With
    <2>4. ASSUME NEW i \in 1..Len(scopes[2]), NEW first, first = scopes[2][i].offset
          PROVE  \E ret \in With({"ret"}) :
                   /\ first <= ret
                   /\ \A a \in first..ret : Instr(a).op # "push rbp"
                   /\ \A a \in first..(ret - 1) : Instr(a).op # "ret"
                   /\ ret - 1 \in With({"store global", "storex global"})
                   /\ \E r \in Range(relas) : r.at = ret - 1 /\ r.addend = scopes[2][i].addend
      <3>1. Initialiser(scopes[2][i], text, relas)
        BY <2>1 DEF InitsOK
      <3>2. first \in Nat
        BY <2>4, <3>1 DEF Initialiser
      <3>3. PICK ret \in (first + 1)..(Len(text) - 1) :
              /\ text[ret + 1].op = "ret" /\ Straight(text, first, ret - 1)
              /\ text[ret].op \in Stores
              /\ \E k \in 1..Len(relas) : relas[k].at = ret - 1 /\ relas[k].addend = scopes[2][i].addend
        BY <2>4, <3>1 DEF Initialiser
      <3>4. ret \in Addresses /\ ret - 1 \in Addresses /\ first <= ret /\ (ret - 1) + 1 = ret
        BY <2>2, <3>2, <3>3 DEF Addresses
      <3>5. ret \in With({"ret"})
        BY <3>3, <3>4 DEF With, Instr
      <3>6. ret - 1 \in With({"store global", "storex global"})
        <4>1. Instr(ret - 1).op \in {"store global", "storex global"}
          BY <3>3, <3>4 DEF Instr, Stores
        <4> QED BY <3>4, <4>1 DEF With
      <3>7. \A a \in first..(ret - 1) : Instr(a).op # "ret" /\ Instr(a).op # "push rbp"
        BY <3>3 DEF Straight, Instr
      <3>8. \A a \in first..ret : Instr(a).op # "push rbp"
        <4>1. \A a \in first..ret : a \in first..(ret - 1) \/ a = ret
          BY <3>2, <3>4
        <4>2. Instr(ret).op # "push rbp"
          BY <3>3 DEF Instr
        <4> QED BY <3>7, <4>1, <4>2
      <3>9. \E r \in Range(relas) : r.at = ret - 1 /\ r.addend = scopes[2][i].addend
        <4>1. relas \in Seq(RelaType)
          BY DEF CodeInv, CompilerInv, TypeOK
        <4>2. \A k \in 1..Len(relas) : relas[k] \in Range(relas)
          BY <4>1 DEF Range
        <4> QED BY <3>3, <4>2
      <3> QED BY <3>4, <3>5, <3>6, <3>7, <3>8, <3>9
    <2>5. ASSUME NEW i \in 1..Len(scopes[2])
          PROVE  /\ start + i - 1 \in With({"call"})
                 /\ Target(start + i - 1) = scopes[2][i].offset
      <3>1. scopes[2][i].offset \in Int
        BY <2>1 DEF InitsOK, Initialiser
      <3>2. start + i - 1 \in Int
        BY <2>2
      <3>3. CallsAt(start + i - 1, scopes[2][i].offset)
        BY <2>1 DEF StartOK
      <3> QED BY <2>3, <3>1, <3>2, <3>3
    <2>6. start + Len(scopes[2]) \in With({"call"}) /\ Target(start + Len(scopes[2])) = main.offset
      <3>1. CallsAt(start + Len(scopes[2]), main.offset)
        BY <2>1 DEF StartOK
      <3>2. start + Len(scopes[2]) \in Int
        BY <2>1, <2>2, TableIs, LenProperties DEF StartOK, CodeInv, CompilerInv, TypeOK
      <3>3. main.offset \in Int
        BY <2>1 DEF StartOK
      <3> QED BY <2>3, <3>1, <3>2, <3>3
    <2> HIDE DEF Inv
    <2> QED BY <2>4, <2>5, <2>6 DEF StartInitialisesGlobals
  <1> QED BY <1>1, <1>2, <1>3, AlwaysCode, PTL DEF Spec

(* The machine's stack: how many words a list of instructions pushes.      *)

(* What holds of 0 and of the successor of each number it holds of.        *)
LEMMA Induction ==
    ASSUME NEW T, 0 \in T, \A n \in Nat : n \in T => n + 1 \in T
    PROVE  \A n \in Nat : n \in T
  <1> SUFFICES ASSUME NEW k \in Nat, k \notin T
               PROVE  FALSE
    OBVIOUS
  <1> DEFINE U == Nat \ T
  <1>1. PICK n \in U : \A m \in U : n <= m
    <2>1. U \in SUBSET Nat /\ U # {}
      OBVIOUS
    <2> HIDE DEF U
    <2> QED BY <2>1, NatMinimum
  <1>2. n # 0
    OBVIOUS
  <1>3. n - 1 \in Nat /\ n - 1 \notin U
    BY <1>1, <1>2
  <1> QED BY <1>3

(* f gives the words that the first n instructions of list push.           *)
Sums(list, f) ==
    /\ f = [n \in 0..Len(list) |-> f[n]] /\ f[0] = 0
    /\ \A n \in 1..Len(list) : f[n] = f[n - 1] + Words(list[n])

(* An instruction pushes a number of words.                                *)
LEMMA WordsAre ==
    ASSUME NEW c \in InstrType
    PROVE  Words(c) \in Int
  <1>1. c.x \in Int
    BY DEF InstrType
  <1>2. c.x \div WORD \in Int
    BY <1>1 DEF WORD
  <1> HIDE DEF InstrType
  <1> DEFINE w == c.x \div WORD
  <1>3. Words(c) \in {1, -1, w, -w, 0}
    BY DEF Words
  <1> HIDE DEF w
  <1> QED BY <1>2, <1>3 DEF w

LEMMA SumsExist ==
    ASSUME NEW list, Len(list) \in Nat
    PROVE  \E f : Sums(list, f)
  <1> DEFINE Upto(g, n) == g[0] = 0 /\ \A i \in 1..n : g[i] = g[i - 1] + Words(list[i])
             T == {n \in Nat : \E g : Upto(g, n)}
  <1>1. 0 \in T
    <2>1. Upto([i \in {0} |-> 0], 0)
      OBVIOUS
    <2> HIDE DEF Upto
    <2> QED BY <2>1
  <1>2. ASSUME NEW n \in Nat, n \in T
        PROVE  n + 1 \in T
    <2>1. PICK g : Upto(g, n)
      BY <1>2
    <2> DEFINE h == [i \in 0..(n + 1) |-> IF i <= n THEN g[i] ELSE g[n] + Words(list[n + 1])]
    <2>2. /\ n + 1 \in 0..(n + 1) /\ n \in 0..(n + 1) /\ 0 \in 0..(n + 1)
          /\ h[0] = g[0] /\ h[n] = g[n] /\ h[n + 1] = g[n] + Words(list[n + 1])
          /\ \A i \in 1..n : h[i] = g[i] /\ h[i - 1] = g[i - 1]
      OBVIOUS
    <2> HIDE DEF h
    <2>3. ASSUME NEW i \in 1..(n + 1)
          PROVE  h[i] = h[i - 1] + Words(list[i])
      <3>1. CASE i \in 1..n
        BY <2>1, <2>2, <3>1
      <3>2. CASE i = n + 1
        <4>1. i - 1 = n
          BY <3>2
        <4> QED BY <2>2, <3>2, <4>1
      <3> QED BY <3>1, <3>2
    <2>4. Upto(h, n + 1)
      BY <2>1, <2>2, <2>3
    <2>5. n + 1 \in Nat
      OBVIOUS
    <2> HIDE DEF Upto
    <2> QED BY <2>4, <2>5
  <1>3. Len(list) \in T
    <2> HIDE DEF T
    <2> QED BY <1>1, <1>2, Induction
  <1>4. PICK g : Upto(g, Len(list))
    BY <1>3
  <1> DEFINE f == [i \in 0..Len(list) |-> g[i]]
  <1>5. /\ f = [i \in 0..Len(list) |-> f[i]] /\ f[0] = g[0]
        /\ \A i \in 1..Len(list) : f[i] = g[i] /\ f[i - 1] = g[i - 1]
    OBVIOUS
  <1> HIDE DEF f
  <1>6. Sums(list, f)
    BY <1>4, <1>5 DEF Sums
  <1> QED BY <1>6

(* Two running sums of the same list agree.                                *)
LEMMA SumsAgree ==
    ASSUME NEW list, Len(list) \in Nat, NEW f, Sums(list, f), NEW g, Sums(list, g),
           NEW n \in 0..Len(list)
    PROVE  f[n] = g[n]
  <1> DEFINE T == {i \in Nat : i <= Len(list) => f[i] = g[i]}
  <1>1. 0 \in T
    BY DEF Sums
  <1>2. ASSUME NEW i \in Nat, i \in T
        PROVE  i + 1 \in T
    <2> SUFFICES ASSUME i + 1 <= Len(list)
                 PROVE  f[i + 1] = g[i + 1]
      OBVIOUS
    <2>1. i + 1 \in 1..Len(list) /\ (i + 1) - 1 = i /\ i <= Len(list)
      OBVIOUS
    <2>2. f[i] = g[i]
      BY <1>2, <2>1
    <2> QED BY <2>1, <2>2 DEF Sums
  <1>3. n \in T
    <2>1. n \in Nat
      OBVIOUS
    <2> HIDE DEF T
    <2> QED BY <1>1, <1>2, <2>1, Induction
  <1> QED BY <1>3

(* Pushed is the last of them.                                             *)
LEMMA PushedIs ==
    ASSUME NEW list, Len(list) \in Nat, NEW f, Sums(list, f)
    PROVE  Pushed(list) = f[Len(list)]
  <1> DEFINE Eq(h) == h = [n \in 0..Len(list) |-> IF n = 0 THEN 0 ELSE h[n - 1] + Words(list[n])]
  <1>1. ASSUME NEW h, Eq(h)
        PROVE  Sums(list, h)
    <2>1. h = [n \in 0..Len(list) |-> h[n]] /\ 0 \in 0..Len(list)
      BY <1>1
    <2>2. ASSUME NEW n \in 0..Len(list)
          PROVE  h[n] = IF n = 0 THEN 0 ELSE h[n - 1] + Words(list[n])
      BY <1>1
    <2> HIDE DEF Eq
    <2>3. h[0] = 0
      BY <2>1, <2>2
    <2>4. \A n \in 1..Len(list) : n \in 0..Len(list) /\ n # 0
      OBVIOUS
    <2> QED BY <2>1, <2>2, <2>3, <2>4 DEF Sums
  <1>2. Eq(f)
    <2> DEFINE F == [n \in 0..Len(list) |-> IF n = 0 THEN 0 ELSE f[n - 1] + Words(list[n])]
    <2>1. f = [n \in 0..Len(list) |-> f[n]]
      BY DEF Sums
    <2>2. \A n \in 0..Len(list) : n = 0 \/ n \in 1..Len(list)
      OBVIOUS
    <2>3. \A n \in 0..Len(list) : f[n] = IF n = 0 THEN 0 ELSE f[n - 1] + Words(list[n])
      BY <2>2 DEF Sums
    <2> QED BY <2>1, <2>3
  <1>3. Eq(CHOOSE h : Eq(h))
    <2> HIDE DEF Eq
    <2> QED BY <1>2
  <1>4. Pushed(list) = (CHOOSE h : Eq(h))[Len(list)]
    BY DEF Pushed
  <1> DEFINE h == CHOOSE x : Eq(x)
  <1>5. Sums(list, h)
    BY <1>1, <1>3
  <1> HIDE DEF Eq, h
  <1>6. Len(list) \in 0..Len(list)
    OBVIOUS
  <1> QED BY <1>4, <1>5, <1>6, SumsAgree DEF h

(* A list whose instructions push w words each.                            *)
LEMMA PushedEach ==
    ASSUME NEW list, Len(list) \in Nat, NEW w \in {-1, 0, 1},
           \A n \in 1..Len(list) : Words(list[n]) = w
    PROVE  Pushed(list) = w * Len(list)
  <1> DEFINE f == [n \in 0..Len(list) |-> w * n]
  <1>1. /\ f = [n \in 0..Len(list) |-> f[n]] /\ f[0] = 0 /\ f[Len(list)] = w * Len(list)
        /\ \A n \in 1..Len(list) : f[n] = f[n - 1] + w
    <2>1. /\ 0 \in 0..Len(list) /\ Len(list) \in 0..Len(list)
          /\ \A n \in 1..Len(list) : n \in 0..Len(list) /\ n - 1 \in 0..Len(list) /\ n \in Int
      OBVIOUS
    <2>2. \A n \in Int : w * 0 = 0 /\ w * n = w * (n - 1) + w
      OBVIOUS
    <2> QED BY <2>1, <2>2
  <1> HIDE DEF f
  <1>2. Sums(list, f)
    BY <1>1 DEF Sums
  <1> QED BY <1>1, <1>2, PushedIs

LEMMA SumsType ==
    ASSUME NEW list \in Seq(InstrType), NEW f, Sums(list, f), NEW n \in 0..Len(list)
    PROVE  f[n] \in Int
  <1> DEFINE T == {i \in Nat : i <= Len(list) => f[i] \in Int}
  <1>0. Len(list) \in Nat /\ \A i \in 1..Len(list) : Words(list[i]) \in Int
    BY WordsAre
  <1>1. 0 \in T
    BY DEF Sums
  <1>2. ASSUME NEW i \in Nat, i \in T
        PROVE  i + 1 \in T
    <2> SUFFICES ASSUME i + 1 <= Len(list)
                 PROVE  f[i + 1] \in Int
      OBVIOUS
    <2>1. i + 1 \in 1..Len(list) /\ (i + 1) - 1 = i /\ i <= Len(list)
      BY <1>0
    <2>2. f[i] \in Int /\ Words(list[i + 1]) \in Int
      BY <1>0, <1>2, <2>1
    <2>3. f[i + 1] = f[i] + Words(list[i + 1])
      BY <2>1 DEF Sums
    <2> QED BY <2>2, <2>3
  <1>3. n \in T
    <2>1. n \in Nat
      BY <1>0
    <2> HIDE DEF T
    <2> QED BY <1>1, <1>2, <2>1, Induction
  <1> QED BY <1>0, <1>3

LEMMA PushedInt ==
    ASSUME NEW list \in Seq(InstrType)
    PROVE  Pushed(list) \in Int
  <1>1. Len(list) \in Nat /\ Len(list) \in 0..Len(list)
    OBVIOUS
  <1>2. PICK f : Sums(list, f)
    BY <1>1, SumsExist
  <1> QED BY <1>1, <1>2, SumsType, PushedIs

(* What two lists push, one after the other.                               *)
LEMMA PushedConcat ==
    ASSUME NEW a \in Seq(InstrType), NEW b \in Seq(InstrType)
    PROVE  /\ a \o b \in Seq(InstrType)
           /\ Pushed(a \o b) = Pushed(a) + Pushed(b)
  <1> DEFINE m == Len(a)
             n == Len(b)
             c == a \o b
  <1>1. /\ m \in Nat /\ n \in Nat /\ c \in Seq(InstrType) /\ Len(c) = m + n
        /\ \A i \in 1..m : c[i] = a[i]
        /\ \A i \in (m + 1)..(m + n) : c[i] = b[i - m]
    BY ConcatProperties
  <1>2. PICK f : Sums(a, f)
    BY <1>1, SumsExist
  <1>3. PICK g : Sums(b, g)
    BY <1>1, SumsExist
  <1>4. f[m] \in Int /\ m \in 0..m /\ n \in 0..n
    BY <1>1, <1>2, SumsType
  <1>5. \A i \in 0..n : g[i] \in Int
    BY <1>3, SumsType
  <1> HIDE DEF c
  <1>6. /\ f[0] = 0 /\ \A i \in 1..m : f[i] = f[i - 1] + Words(a[i])
        /\ g[0] = 0 /\ \A i \in 1..n : g[i] = g[i - 1] + Words(b[i])
    BY <1>2, <1>3 DEF Sums
  <1> HIDE DEF m, n
  <1> DEFINE h == [i \in 0..(m + n) |-> IF i <= m THEN f[i] ELSE f[m] + g[i - m]]
  <1>7. /\ h = [i \in 0..(m + n) |-> h[i]] /\ h[0] = 0
        /\ \A i \in 1..m : h[i] = f[i] /\ h[i - 1] = f[i - 1]
        /\ h[m] = f[m] + g[0]
        /\ \A i \in (m + 1)..(m + n) : h[i] = f[m] + g[i - m]
    <2>1. h[0] = 0 /\ h[m] = f[m] + g[0]
      BY <1>1, <1>4, <1>6
    <2>2. \A i \in 1..m : h[i] = f[i] /\ h[i - 1] = f[i - 1]
      BY <1>1
    <2>3. \A i \in (m + 1)..(m + n) : h[i] = f[m] + g[i - m]
      BY <1>1
    <2> QED BY <2>1, <2>2, <2>3
  <1> HIDE DEF h
  <1>8. ASSUME NEW i \in 1..(m + n)
        PROVE  h[i] = h[i - 1] + Words(c[i])
    <2>1. CASE i <= m
      <3>1. i \in 1..m
        BY <1>1, <2>1
      <3>2. h[i] = f[i] /\ h[i - 1] = f[i - 1] /\ f[i] = f[i - 1] + Words(a[i])
        BY <1>6, <1>7, <3>1
      <3>3. c[i] = a[i]
        BY <1>1, <3>1
      <3> QED BY <3>2, <3>3
    <2>2. CASE i > m
      <3>1. i \in (m + 1)..(m + n) /\ i - m \in 1..n /\ i - m - 1 \in 0..n /\ (i - 1) - m = i - m - 1
        BY <1>1, <2>2
      <3>2. h[i - 1] = f[m] + g[i - m - 1]
        <4>1. CASE i = m + 1
          <5>1. i - 1 = m /\ i - m - 1 = 0
            BY <1>1, <4>1
          <5> QED BY <1>7, <5>1
        <4>2. CASE i # m + 1
          <5>1. i - 1 \in (m + 1)..(m + n)
            BY <1>1, <3>1, <4>2
          <5> QED BY <1>7, <3>1, <5>1
        <4> QED BY <4>1, <4>2
      <3>3. /\ g[i - m] = g[i - m - 1] + Words(b[i - m])
            /\ c[i] = b[i - m] /\ h[i] = f[m] + g[i - m]
        BY <1>1, <1>6, <1>7, <3>1
      <3>4. b[i - m] \in InstrType
        BY <1>1, <3>1 DEF n
      <3>5. Words(b[i - m]) \in Int /\ g[i - m - 1] \in Int
        BY <1>5, <3>1, <3>4, WordsAre
      <3> QED BY <1>4, <3>2, <3>3, <3>5
    <2> QED BY <1>1, <2>1, <2>2
  <1>9. Sums(c, h)
    BY <1>1, <1>7, <1>8 DEF Sums
  <1>10. h[m + n] = f[m] + g[n]
    <2>1. CASE n = 0
      BY <1>1, <1>6, <1>7, <2>1
    <2>2. CASE n # 0
      <3>1. m + n \in (m + 1)..(m + n) /\ (m + n) - m = n
        BY <1>1, <2>2
      <3> QED BY <1>7, <3>1
    <2> QED BY <2>1, <2>2
  <1>11. Pushed(a) = f[m] /\ Pushed(b) = g[n] /\ Pushed(c) = h[m + n]
    <2>1. Len(c) \in Nat
      BY <1>1
    <2> QED BY <1>1, <1>2, <1>3, <1>9, <2>1, PushedIs DEF m, n
  <1> QED BY <1>1, <1>10, <1>11 DEF c

(* Instructions that leave the machine's stack alone.                      *)
Stacked == {"push", "pop", "sub rsp", "add rsp"}
Still   == {c \in InstrType : c.op \notin Stacked}

LEMMA PushedStill ==
    ASSUME NEW list \in Seq(Still)
    PROVE  list \in Seq(InstrType) /\ Pushed(list) = 0
  <1>1. Len(list) \in Nat /\ \A n \in 1..Len(list) : list[n] \in Still
    OBVIOUS
  <1>2. \A n \in 1..Len(list) : Words(list[n]) = 0
    BY <1>1 DEF Still, Stacked, Words
  <1>3. Pushed(list) = 0 * Len(list) /\ 0 * Len(list) = 0
    BY <1>1, <1>2, PushedEach
  <1>4. list \in Seq(InstrType)
    BY DEF Still
  <1> QED BY <1>3, <1>4

LEMMA StillIs ==
    ASSUME NEW op \in Opcodes \ Stacked, NEW r \in Register, NEW s \in Register, NEW x \in Int
    PROVE  I(op, r, s, x) \in Still
  <1>1. I(op, r, s, x) \in InstrType /\ I(op, r, s, x).op = op
    BY InstrIs DEF I
  <1> QED BY <1>1 DEF Still

LEMMA StillOp ==
    ASSUME NEW op \in Opcodes \ Stacked
    PROVE  Op(op) \in Still
  BY Zero, StillIs DEF Op

(* One instruction.                                                        *)
LEMMA PushedOne ==
    ASSUME NEW c \in InstrType, Words(c) \in {-1, 0, 1}
    PROVE  <<c>> \in Seq(InstrType) /\ Pushed(<<c>>) = Words(c)
  <1> DEFINE l == <<c>>
             w == Words(c)
  <1>1. l \in Seq(InstrType) /\ Len(l) = 1 /\ \A n \in 1..1 : l[n] = c
    OBVIOUS
  <1> HIDE DEF l
  <1>2. Len(l) \in Nat /\ \A n \in 1..Len(l) : Words(l[n]) = w
    BY <1>1
  <1>3. Pushed(l) = w * Len(l)
    BY <1>2, PushedEach
  <1>4. w * 1 = w
    OBVIOUS
  <1> HIDE DEF w
  <1> QED BY <1>1, <1>3, <1>4 DEF l, w

(* The code around a call.                                                 *)
LEMMA PushedSaved ==
    ASSUME NEW n \in Register
    PROVE  Pushed(SaveCode(n)) = n /\ Pushed(RestoreCode(n)) = -n
  <1>1. n \in Nat
    BY RegistersAssumption DEF Register
  <1> DEFINE s == SaveCode(n)
             r == RestoreCode(n)
  <1>2. /\ Len(s) = n /\ \A i \in 1..n : s[i] = I("push", i, 0, 0)
        /\ Len(r) = n /\ \A i \in 1..n : r[i] = I("pop", n + 1 - i, 0, 0)
    BY <1>1 DEF SaveCode, RestoreCode
  <1>3. \A x : Words(I("push", x, 0, 0)) = 1 /\ Words(I("pop", x, 0, 0)) = -1
    BY DEF Words, I
  <1> HIDE DEF s, r
  <1>4. /\ \A i \in 1..Len(s) : Words(s[i]) = 1
        /\ \A i \in 1..Len(r) : Words(r[i]) = -1
    BY <1>2, <1>3
  <1>5. Pushed(s) = 1 * n /\ Pushed(r) = (-1) * n
    <2>1. Len(s) \in Nat /\ Len(r) \in Nat
      BY <1>1, <1>2
    <2>2. Pushed(s) = 1 * Len(s)
      BY <1>4, <2>1, PushedEach
    <2>3. Pushed(r) = (-1) * Len(r)
      BY <1>4, <2>1, PushedEach
    <2> QED BY <1>2, <2>2, <2>3
  <1>6. 1 * n = n /\ (-1) * n = -n
    BY <1>1
  <1> QED BY <1>5, <1>6 DEF s, r

LEMMA PushedPad ==
    ASSUME NEW n \in Nat
    PROVE  Pushed(PadCode(n)) = compile_call_begin(n) - n
  <1>1. CASE compile_call_begin(n) = n
    <2>1. PadCode(n) = <<>> /\ <<>> \in Seq(Still)
      BY <1>1, EmptySeq DEF PadCode
    <2>2. Pushed(<<>>) = 0
      BY <2>1, PushedStill
    <2> QED BY <1>1, <2>1, <2>2
  <1>2. CASE compile_call_begin(n) # n
    <2> DEFINE c == I("sub rsp", 0, 0, WORD)
    <2>1. compile_call_begin(n) = n + 1 /\ PadCode(n) = <<c>>
      BY <1>2 DEF compile_call_begin, PadCode
    <2>2. c \in InstrType
      BY OpcodesAre, Zero, InstrIs, Zenon
    <2>3. Words(c) = 1
      <3>1. c.op = "sub rsp" /\ c.x = WORD
        BY DEF I
      <3>2. WORD \div WORD = 1
        BY DEF WORD
      <3> HIDE DEF c
      <3> QED BY <3>1, <3>2 DEF Words
    <2> HIDE DEF c
    <2>4. Pushed(<<c>>) = 1
      BY <2>2, <2>3, PushedOne
    <2> QED BY <2>1, <2>4
  <1> QED BY <1>1, <1>2

LEMMA PushedCallEnd ==
    ASSUME NEW live \in Int, NEW pushed \in Nat
    PROVE  Pushed(compile_call_end(live, pushed)) = -pushed
  <1> DEFINE c == I("mov r, rax", Mask(live + 1), 0, 0)
             e == I("add rsp", 0, 0, WORD * pushed)
             l == <<c, e>>
             f == [n \in 0..2 |-> IF n = 2 THEN -pushed ELSE 0]
  <1>1. l = compile_call_end(live, pushed) /\ Len(l) = 2 /\ l[1] = c /\ l[2] = e
    BY DEF compile_call_end
  <1>2. Words(c) = 0 /\ Words(e) = -pushed
    <2>1. c.op = "mov r, rax" /\ e.op = "add rsp" /\ e.x = WORD * pushed
      BY DEF I
    <2>2. (WORD * pushed) \div WORD = pushed
      BY DEF WORD
    <2> HIDE DEF c, e
    <2> QED BY <2>1, <2>2 DEF Words
  <1>3. f = [n \in 0..2 |-> f[n]] /\ f[0] = 0 /\ f[1] = 0 /\ f[2] = -pushed
    OBVIOUS
  <1> HIDE DEF c, e, l, f
  <1>4. \A n \in 1..2 : f[n] = f[n - 1] + Words(l[n])
    <2>1. \A n \in 1..2 : (n = 1 /\ n - 1 = 0) \/ (n = 2 /\ n - 1 = 1)
      OBVIOUS
    <2>2. f[1] = f[0] + Words(l[1]) /\ f[2] = f[1] + Words(l[2])
      BY <1>1, <1>2, <1>3
    <2> QED BY <2>1, <2>2
  <1>5. Sums(l, f)
    BY <1>1, <1>3, <1>4 DEF Sums
  <1>6. Pushed(l) = f[Len(l)]
    <2>1. Len(l) \in Nat
      BY <1>1
    <2> QED BY <1>5, <2>1, PushedIs
  <1> QED BY <1>1, <1>3, <1>6

(* The words on the machine's stack, along the control stack: f[i] are     *)
(* there when the item at i comes up, none when everything is done.        *)
Weight(x) == CASE x.k = "args" -> x.saved + x.pushed - x.left
               [] x.k = "push" -> -1
               [] OTHER        -> 0
Heavy     == {"args", "push"}
Along(s, n, f) ==
    /\ \A i \in 1..(n + 1) : f[i] \in Int
    /\ \A i \in 1..n : Weight(s[i]) \in Int /\ f[i] = f[i + 1] + Weight(s[i])
    /\ f[n + 1] = 0
WordsOwed == phase = "declare" \/ Running => \E f : Along(todo, Len(todo), f) /\ f[1] = sp

(* Above what is owed there are only items of the call's arguments.        *)
NestedOK ==
    \A l \in 1..Len(todo) : todo[l].k \in Heavy => \A i \in 1..(l - 1) : todo[i].k \in ExprKinds
SpInv == WordsOwed /\ NestedOK

LEMMA LightWeight ==
    ASSUME NEW x, x.k \notin Heavy
    PROVE  Weight(x) = 0
  BY DEF Weight, Heavy

LEMMA SpInt ==
    ASSUME CompilerInv, WordsOwed, phase = "declare" \/ Running
    PROVE  sp \in Int /\ (todo = <<>> => sp = 0)
  <1>1. PICK f : Along(todo, Len(todo), f) /\ f[1] = sp
    BY DEF WordsOwed
  <1>2. Len(todo) \in Nat /\ (todo = <<>> => Len(todo) = 0)
    BY EmptySeq, LenProperties DEF CompilerInv, TypeOK
  <1>3. 1 \in 1..(Len(todo) + 1) /\ (Len(todo) = 0 => Len(todo) + 1 = 1)
    BY <1>2
  <1> QED BY <1>1, <1>2, <1>3 DEF Along

(* The head gives way to n items; the code emitted makes up for what they  *)
(* owe more than it did.                                                   *)
LEMMA SpMove ==
    ASSUME CompilerInv, WordsOwed, Running, NEW n, Shift(n),
           NEW g, Along(todo', n, g), Weight(todo[1]) \in Int, sp' = sp + g[1] - Weight(todo[1])
    PROVE  WordsOwed'
  <1>1. PICK f : Along(todo, Len(todo), f) /\ f[1] = sp
    BY DEF WordsOwed
  <1> DEFINE m == Len(todo)
             h == [i \in 1..(n + m) |-> IF i <= n THEN f[2] + g[i] ELSE f[i - n + 1]]
  <1>2. /\ n \in Nat /\ m \in Nat /\ m >= 1 /\ Len(todo') = n + m - 1
        /\ \A i \in (n + 1)..(n + m - 1) : todo'[i] = todo[i - n + 1]
    BY DEF Shift
  <1>3. /\ \A i \in 1..(m + 1) : f[i] \in Int
        /\ \A i \in 1..m : Weight(todo[i]) \in Int /\ f[i] = f[i + 1] + Weight(todo[i])
        /\ f[m + 1] = 0 /\ f[1] = sp
        /\ \A i \in 1..(n + 1) : g[i] \in Int
        /\ \A i \in 1..n : Weight(todo'[i]) \in Int /\ g[i] = g[i + 1] + Weight(todo'[i])
        /\ g[n + 1] = 0
    BY <1>1 DEF Along
  <1> HIDE DEF m
  <1>4. f[2] \in Int /\ f[1] \in Int /\ f[1] = f[2] + Weight(todo[1])
    <2>1. 1 \in 1..m /\ 1 \in 1..(m + 1) /\ 2 \in 1..(m + 1) /\ 1 + 1 = 2
      BY <1>2
    <2> QED BY <1>3, <2>1
  <1>5. /\ \A i \in 1..(n + 1) : h[i] = f[2] + g[i]
        /\ \A i \in (n + 1)..(n + m) : h[i] = f[i - n + 1]
    <2>1. ASSUME NEW i \in 1..(n + 1)
          PROVE  h[i] = f[2] + g[i]
      <3>1. CASE i = n + 1
        <4>1. i \in 1..(n + m) /\ ~(i <= n) /\ i - n + 1 = 2
          BY <1>2, <3>1
        <4> QED BY <1>3, <1>4, <3>1, <4>1
      <3>2. CASE i # n + 1
        <4>1. i \in 1..(n + m) /\ i <= n
          BY <1>2, <3>2
        <4> QED BY <4>1
      <3> QED BY <3>1, <3>2
    <2>2. \A i \in (n + 1)..(n + m) : i \in 1..(n + m) /\ ~(i <= n)
      BY <1>2
    <2> QED BY <2>1, <2>2
  <1> HIDE DEF h
  <1>6. \A i \in 1..(n + m) : h[i] \in Int
    <2> SUFFICES ASSUME NEW i \in 1..(n + m)
                 PROVE  h[i] \in Int
      OBVIOUS
    <2>1. CASE i <= n
      <3>1. i \in 1..(n + 1)
        BY <1>2, <2>1
      <3>2. h[i] = f[2] + g[i] /\ g[i] \in Int
        BY <1>3, <1>5, <3>1
      <3> QED BY <1>4, <3>2
    <2>2. CASE ~(i <= n)
      <3>1. i \in (n + 1)..(n + m) /\ i - n + 1 \in 1..(m + 1)
        BY <1>2, <2>2
      <3> QED BY <1>3, <1>5, <3>1
    <2> QED BY <2>1, <2>2
  <1>7. ASSUME NEW i \in 1..(n + m - 1)
        PROVE  Weight(todo'[i]) \in Int /\ h[i] = h[i + 1] + Weight(todo'[i])
    <2>1. CASE i <= n
      <3>1. i \in 1..n /\ i \in 1..(n + 1) /\ i + 1 \in 1..(n + 1)
        BY <1>2, <2>1
      <3>2. g[i] = g[i + 1] + Weight(todo'[i]) /\ h[i] = f[2] + g[i] /\ h[i + 1] = f[2] + g[i + 1]
            /\ g[i] \in Int /\ g[i + 1] \in Int /\ Weight(todo'[i]) \in Int
        BY <1>3, <1>5, <3>1
      <3> QED BY <1>4, <3>2
    <2>2. CASE ~(i <= n)
      <3>1. /\ i \in (n + 1)..(n + m - 1) /\ i \in (n + 1)..(n + m) /\ i + 1 \in (n + 1)..(n + m)
            /\ i - n + 1 \in 1..m /\ (i + 1) - n + 1 = (i - n + 1) + 1
        BY <1>2, <2>2
      <3>2. h[i] = f[i - n + 1] /\ h[i + 1] = f[(i - n + 1) + 1] /\ todo'[i] = todo[i - n + 1]
        BY <1>2, <1>5, <3>1
      <3> QED BY <1>3, <3>1, <3>2
    <2> QED BY <2>1, <2>2
  <1>8. h[1] = sp'
    <2>1. 1 \in 1..(n + 1)
      BY <1>2
    <2>2. h[1] = f[2] + g[1] /\ g[1] \in Int
      BY <1>3, <1>5, <2>1
    <2> QED BY <1>3, <1>4, <2>2
  <1>9. h[n + m] = 0
    <2>1. n + m \in (n + 1)..(n + m) /\ (n + m) - n + 1 = m + 1
      BY <1>2
    <2> QED BY <1>3, <1>5, <2>1
  <1>10. Along(todo', Len(todo'), h)
    <2>1. (n + m - 1) + 1 = n + m
      BY <1>2
    <2> QED BY <1>2, <1>6, <1>7, <1>9, <2>1 DEF Along, m
  <1> QED BY <1>8, <1>10 DEF WordsOwed

(* What is owed below an item that belongs to no expression: nothing.      *)
LEMMA NoneHeavy ==
    ASSUME NestedOK, Len(todo) \in Nat, todo[1].k \notin ExprKinds
    PROVE  \A l \in 1..Len(todo) : todo[l].k \notin Heavy
  <1> SUFFICES ASSUME NEW l \in 1..Len(todo), todo[l].k \in Heavy
               PROVE  FALSE
    OBVIOUS
  <1>1. Heavy \subseteq ExprKinds
    BY DEF Heavy, ExprKinds
  <1>2. l # 1
    BY <1>1
  <1>3. 1 \in 1..(l - 1)
    BY <1>2
  <1> QED BY <1>3 DEF NestedOK

(* Nested calls stay nested.                                               *)
LEMMA NestedMove ==
    ASSUME NestedOK, NEW n, Shift(n),
           \/ todo[1].k \in ExprKinds /\ \A i \in 1..n : todo'[i].k \in ExprKinds
           \/ todo[1].k \notin ExprKinds /\ \A i \in 2..n : todo'[i].k \notin Heavy
    PROVE  NestedOK'
  <1>1. /\ n \in Nat /\ Len(todo) \in Nat /\ Len(todo) >= 1 /\ Len(todo') = n + Len(todo) - 1
        /\ \A i \in (n + 1)..(n + Len(todo) - 1) : todo'[i] = todo[i - n + 1]
    BY DEF Shift
  <1> SUFFICES ASSUME NEW l \in 1..Len(todo'), todo'[l].k \in Heavy, NEW i \in 1..(l - 1)
               PROVE  todo'[i].k \in ExprKinds
    BY DEF NestedOK
  <1>2. CASE todo[1].k \in ExprKinds /\ \A j \in 1..n : todo'[j].k \in ExprKinds
    <2>1. CASE i <= n
      BY <1>1, <1>2, <2>1
    <2>2. CASE ~(i <= n)
      <3>1. /\ i \in (n + 1)..(n + Len(todo) - 1) /\ l \in (n + 1)..(n + Len(todo) - 1)
            /\ l - n + 1 \in 1..Len(todo) /\ i - n + 1 \in 1..((l - n + 1) - 1)
        BY <1>1, <2>2
      <3>2. todo'[i] = todo[i - n + 1] /\ todo'[l] = todo[l - n + 1]
        BY <1>1, <3>1
      <3> QED BY <3>1, <3>2 DEF NestedOK
    <2> QED BY <2>1, <2>2
  <1>3. CASE todo[1].k \notin ExprKinds /\ \A j \in 2..n : todo'[j].k \notin Heavy
    <2>1. l \notin 2..n /\ l > 1 /\ l > n
      BY <1>1, <1>3
    <2>2. l \in (n + 1)..(n + Len(todo) - 1) /\ l - n + 1 \in 1..Len(todo)
      BY <1>1, <2>1
    <2>3. todo[l - n + 1].k \notin Heavy
      BY <1>1, <1>3, <2>2, NoneHeavy
    <2> QED BY <1>1, <2>2, <2>3
  <1> QED BY <1>2, <1>3

(* Items that owe nothing take the place of one that owes nothing.         *)
LEMMA SpLight ==
    ASSUME CompilerInv, SpInv, Running, NEW n, Shift(n), sp' = sp, todo[1].k \notin Heavy,
           \A i \in 1..n : todo'[i].k \notin Heavy,
           todo[1].k \in ExprKinds => \A i \in 1..n : todo'[i].k \in ExprKinds
    PROVE  SpInv'
  <1> DEFINE g == [i \in 1..(n + 1) |-> 0]
  <1>1. n \in Nat
    BY DEF Shift
  <1>2. g[1] = 0 /\ g[n + 1] = 0 /\ (\A i \in 1..(n + 1) : g[i] = 0) /\ \A i \in 1..n : g[i + 1] = 0
    <2>1. 1 \in 1..(n + 1) /\ n + 1 \in 1..(n + 1) /\ \A i \in 1..n : i + 1 \in 1..(n + 1)
      BY <1>1
    <2> QED BY <2>1
  <1> HIDE DEF g
  <1>3. Weight(todo[1]) = 0 /\ \A i \in 1..n : Weight(todo'[i]) = 0
    BY LightWeight
  <1>4. Along(todo', n, g)
    <2>1. \A i \in 1..n : i \in 1..(n + 1)
      BY <1>1
    <2> QED BY <1>2, <1>3, <2>1 DEF Along
  <1>5. WordsOwed /\ NestedOK
    BY DEF SpInv
  <1>6. sp \in Int
    BY <1>5, SpInt
  <1>7. sp' = sp + g[1] - Weight(todo[1])
    BY <1>2, <1>3, <1>6
  <1>8. WordsOwed'
    BY <1>3, <1>4, <1>5, <1>7, SpMove
  <1>9. NestedOK'
    <2>1. \A i \in 2..n : i \in 1..n
      BY <1>1
    <2> QED BY <1>5, <2>1, NestedMove
  <1> QED BY <1>8, <1>9 DEF SpInv

(* The handlers that push nothing, or pop what they push.                  *)
LEMMA SpPut ==
    ASSUME CompilerInv, SpInv, NEW k, At(k), k \notin Heavy, sp' = sp, NEW x, NEW y, NEW z,
           x.k \notin Heavy, y.k \notin Heavy, z.k \notin Heavy,
           k \in ExprKinds => x.k \in ExprKinds /\ y.k \in ExprKinds /\ z.k \in ExprKinds,
           Do(<<>>) \/ Do(<<x>>) \/ Do(<<x, y>>) \/ Do(<<x, y, z>>)
    PROVE  SpInv'
  <1> DEFINE S == {x, y, z}
  <1>1. todo[1].k = k /\ Running
    BY HeadFirst DEF At
  <1>2. ASSUME NEW b \in Seq(S), Do(b)
        PROVE  SpInv'
    <2>1. Shift(Len(b)) /\ \A i \in 1..Len(b) : todo'[i] = b[i]
      BY <1>2, DoShift
    <2>2. \A i \in 1..Len(b) : todo'[i].k \notin Heavy /\ (k \in ExprKinds => todo'[i].k \in ExprKinds)
      BY <1>2, <2>1
    <2> HIDE DEF S
    <2> QED BY <1>1, <2>1, <2>2, SpLight
  <1>3. <<>> \in Seq(S) /\ <<x>> \in Seq(S) /\ <<x, y>> \in Seq(S) /\ <<x, y, z>> \in Seq(S)
    OBVIOUS
  <1> HIDE DEF S
  <1> QED BY <1>2, <1>3

LEMMA SpEmits ==
    ASSUME CompilerInv, SpInv, Running, NEW a \in Seq(Still), Emit(a)
    PROVE  sp' = sp
  <1>1. sp' = sp + Pushed(a) /\ Pushed(a) = 0
    BY PushedStill DEF Emit
  <1>2. sp \in Int
    BY SpInt DEF SpInv
  <1> QED BY <1>1, <1>2

LEMMA SpDone ==
    ASSUME CompilerInv, SpInv, NEW k, At(k), k \notin Heavy, Do(<<>>), NEW a \in Seq(Still), Emit(a)
    PROVE  SpInv'
  <1>1. Running
    BY DEF At
  <1>2. sp' = sp
    BY <1>1, SpEmits
  <1> DEFINE x == It("expr", 0, 0)
  <1>3. x.k \notin Heavy /\ x.k \in ExprKinds
    BY DEF It, Heavy, ExprKinds
  <1> HIDE DEF x
  <1> QED BY <1>2, <1>3, SpPut

(* The operations that leave the machine's stack alone.                    *)
LEMMA StillOps ==
    /\ "mov imm" \in Opcodes \ Stacked /\ "cqo" \in Opcodes \ Stacked
    /\ "idiv" \in Opcodes \ Stacked /\ "cmov" \in Opcodes \ Stacked
    /\ "cmp" \in Opcodes \ Stacked /\ "xor 1" \in Opcodes \ Stacked
    /\ "mov rax, r" \in Opcodes \ Stacked /\ "mov r, rax" \in Opcodes \ Stacked
    /\ "mov rax, 1" \in Opcodes \ Stacked /\ "test" \in Opcodes \ Stacked
    /\ "je" \in Opcodes \ Stacked /\ "ret" \in Opcodes \ Stacked
    /\ "call" \in Opcodes \ Stacked /\ "call scan" \in Opcodes \ Stacked
    /\ "call print" \in Opcodes \ Stacked /\ "mov rsp, rbp" \in Opcodes \ Stacked
    /\ "pop rbp" \in Opcodes \ Stacked /\ "push rbp" \in Opcodes \ Stacked
    /\ "mov rbp, rsp" \in Opcodes \ Stacked /\ "sub rsp, frame" \in Opcodes \ Stacked
    /\ \A op \in Compiled \ {"div"} : op \in Opcodes \ Stacked
  BY DEF Opcodes, Stacked, Compiled

LEMMA StillAccess ==
    ASSUME NEW vis \in {"local", "global"}, NEW r \in Register, NEW s \in Register, NEW x \in Int
    PROVE  /\ I(Load[vis], r, s, x) \in Still /\ I(Loadx[vis], r, s, x) \in Still
           /\ I(Store[vis], r, s, x) \in Still /\ I(Storex[vis], r, s, x) \in Still
  <1> DEFINE Memory == {"load local", "load global", "loadx local", "loadx global",
                        "store local", "store global", "storex local", "storex global"}
  <1>1. Load[vis] \in Memory /\ Loadx[vis] \in Memory /\ Store[vis] \in Memory /\ Storex[vis] \in Memory
    <2>1. CASE vis = "local"
      <3>1. /\ Load[vis] = "load local" /\ Loadx[vis] = "loadx local"
            /\ Store[vis] = "store local" /\ Storex[vis] = "storex local"
        BY <2>1 DEF Load, Loadx, Store, Storex
      <3> QED BY <3>1, Zenon
    <2>2. CASE vis = "global"
      <3>1. /\ Load[vis] = "load global" /\ Loadx[vis] = "loadx global"
            /\ Store[vis] = "store global" /\ Storex[vis] = "storex global"
        BY <2>2 DEF Load, Loadx, Store, Storex
      <3> QED BY <3>1, Zenon
    <2> QED BY <2>1, <2>2
  <1>2. Memory \subseteq Opcodes \ Stacked
    BY DEF Opcodes, Stacked
  <1> HIDE DEF Memory
  <1>3. \A op \in Memory : I(op, r, s, x) \in Still
    BY <1>2, StillIs
  <1> QED BY <1>1, <1>3

LEMMA StillOne ==
    ASSUME NEW c \in Still
    PROVE  <<c>> \in Seq(Still)
  OBVIOUS

(* Values.                                                                 *)
LEMMA SpOperands ==
    ASSUME CompilerInv, SpInv, compile_load_num \/ LoadVariable \/ LoadElement
    PROVE  SpInv'
  <1>1. CASE compile_load_num
    <2>1. PICK n \in Exprs : /\ ReadExpr(n) /\ Emit(<< I("mov imm", Mask(reg + 1), 0, n.n) >>)
                             /\ Do(<<>>)
      BY <1>1 DEF compile_load_num
    <2>2. At("expr") /\ "expr" \notin Heavy /\ reg \in Int
      BY <2>1, HeadIs DEF ReadExpr, Heavy
    <2>3. Mask(reg + 1) \in Register /\ n.n \in Int
      BY <2>2, MaskType, NodesAssumption DEF Node
    <2>4. "mov imm" \in Opcodes \ Stacked
      BY StillOps
    <2>5. I("mov imm", Mask(reg + 1), 0, n.n) \in Still
      BY <2>3, <2>4, Zero, StillIs
    <2>6. << I("mov imm", Mask(reg + 1), 0, n.n) >> \in Seq(Still)
      BY <2>5, StillOne
    <2> QED BY <2>1, <2>2, <2>6, SpDone
  <1>2. CASE LoadVariable
    <2>1. PICK n \in Exprs :
          /\ ReadExpr(n) /\ Found(n.id)
          /\ LET s == find_symbol(n.id) IN
             \/ /\ Emit(<< I(Load[s.vis], Mask(reg + 1), 0, s.addend) >>)
                /\ Do(<<>>)
             \/ /\ Do(<< Expr(level, depth), Access("load", level + 1, depth, s) >>)
                /\ UNCHANGED <<reg, code, sp>>
      BY <1>2 DEF LoadVariable
    <2> DEFINE s == find_symbol(n.id)
    <2>2. At("expr") /\ "expr" \notin Heavy /\ reg \in Int
      BY <2>1, HeadIs DEF ReadExpr, Heavy
    <2>3. s.vis \in {"local", "global"} /\ s.addend \in Int
      <3>1. s \in Symbol
        BY <2>1, SymbolFound DEF CompilerInv, TypeOK
      <3> HIDE DEF s
      <3> QED BY <3>1 DEF Symbol
    <2> HIDE DEF s
    <2>4. CASE Emit(<< I(Load[s.vis], Mask(reg + 1), 0, s.addend) >>) /\ Do(<<>>)
      <3>1. Mask(reg + 1) \in Register
        BY <2>2, MaskType
      <3>2. << I(Load[s.vis], Mask(reg + 1), 0, s.addend) >> \in Seq(Still)
        BY <2>3, <3>1, Zero, StillAccess, StillOne
      <3> QED BY <2>2, <2>4, <3>2, SpDone
    <2>5. CASE Do(<< Expr(level, depth), Access("load", level + 1, depth, s) >>) /\ sp' = sp
      <3> DEFINE x == Expr(level, depth)
                 y == Access("load", level + 1, depth, s)
      <3>1. x.k = "expr" /\ y.k = "load" /\ Do(<<x, y>>)
        BY <2>5 DEF Expr, Access
      <3> HIDE DEF x, y
      <3>2. x.k \notin Heavy /\ y.k \notin Heavy /\ x.k \in ExprKinds /\ y.k \in ExprKinds
        BY <3>1 DEF Heavy, ExprKinds
      <3> QED BY <2>2, <2>5, <3>1, <3>2, SpPut
    <2> QED BY <2>1, <2>4, <2>5 DEF s
  <1>3. CASE LoadElement
    <2> DEFINE it == Head(todo)
               a  == << I(Loadx[it.vis], Mask(reg), Mask(reg), it.addend) >>
    <2>1. At("load") /\ Do(<<>>) /\ Emit(a) /\ "load" \notin Heavy
      BY <1>3 DEF LoadElement, Heavy
    <2>2. it \in ItemType /\ it.k = "load" /\ reg \in Int
      BY <2>1, HeadFacts
    <2> HIDE DEF it
    <2>3. it.vis \in {"local", "global"} /\ it.addend \in Int
      BY <2>2 DEF ItemType
    <2>4. Mask(reg) \in Register
      BY <2>2, MaskType
    <2>5. a \in Seq(Still)
      BY <2>3, <2>4, StillAccess, StillOne
    <2> HIDE DEF a
    <2> QED BY <2>1, <2>5, SpDone
  <1> QED BY <1>1, <1>2, <1>3

LEMMA BinStill ==
    ASSUME NEW op \in Compiled, reg \in Int, reg - 1 \in Int
    PROVE  BinCode(op) \in Seq(Still)
  <1>1. Mask(reg) \in Register /\ Mask(reg - 1) \in Register
    BY MaskType
  <1>2. CASE op = "div"
    <2>1. /\ "mov rax, r" \in Opcodes \ Stacked /\ "cqo" \in Opcodes \ Stacked
          /\ "idiv" \in Opcodes \ Stacked /\ "mov r, rax" \in Opcodes \ Stacked
      BY StillOps
    <2>2. /\ I("mov rax, r", 0, Mask(reg - 1), 0) \in Still /\ Op("cqo") \in Still
          /\ I("idiv", 0, Mask(reg), 0) \in Still
          /\ I("mov r, rax", Mask(reg - 1), 0, 0) \in Still
      BY <1>1, <2>1, Zero, StillIs, StillOp, Zenon
    <2>3. BinCode(op) = << I("mov rax, r", 0, Mask(reg - 1), 0), Op("cqo"),
                           I("idiv", 0, Mask(reg), 0), I("mov r, rax", Mask(reg - 1), 0, 0) >>
      BY <1>2 DEF BinCode
    <2> QED BY <2>2, <2>3, ShortSeqs
  <1>3. CASE op = "cmp"
    <2>1. /\ "cmp" \in Opcodes \ Stacked /\ "mov rax, 1" \in Opcodes \ Stacked
          /\ "mov imm" \in Opcodes \ Stacked /\ "cmov" \in Opcodes \ Stacked
      BY StillOps
    <2>2. /\ I("cmp", Mask(reg - 1), Mask(reg), 0) \in Still /\ Op("mov rax, 1") \in Still
          /\ I("mov imm", Mask(reg - 1), 0, 0) \in Still
          /\ I("cmov", Mask(reg - 1), 0, 0) \in Still
      BY <1>1, <2>1, Zero, StillIs, StillOp, Zenon
    <2>3. BinCode(op) = << I("cmp", Mask(reg - 1), Mask(reg), 0), Op("mov rax, 1"),
                           I("mov imm", Mask(reg - 1), 0, 0), I("cmov", Mask(reg - 1), 0, 0) >>
      BY <1>3 DEF BinCode
    <2> QED BY <2>2, <2>3, ShortSeqs
  <1>4. CASE op \notin {"div", "cmp"}
    <2>1. op \in Opcodes \ Stacked
      BY <1>4, StillOps
    <2>2. I(op, Mask(reg - 1), Mask(reg), 0) \in Still
      BY <1>1, <2>1, Zero, StillIs
    <2>3. BinCode(op) = << I(op, Mask(reg - 1), Mask(reg), 0) >>
      BY <1>4 DEF BinCode
    <2> QED BY <2>2, <2>3, ShortSeqs
  <1> QED BY <1>2, <1>3, <1>4

LEMMA SpOperators ==
    ASSUME CompilerInv, SpInv, BinaryExpr \/ compile_expr_bin \/ NotExpr \/ compile_expr_not
    PROVE  SpInv'
  <1>0. /\ "expr" \in ExprKinds \ Heavy /\ "bin" \in ExprKinds \ Heavy /\ "not" \in ExprKinds \ Heavy
    BY DEF ExprKinds, Heavy
  <1>1. CASE BinaryExpr
    <2>1. PICK n \in Exprs :
            LET x == Expr(level, depth)
                y == Expr(level + 1, depth)
                z == Bin(level + 2, depth, n.id)
            IN  /\ At("expr") /\ sp' = sp
                /\ Do(<<x, y, z>>) \/ Do(<<y, z>>) \/ Do(<<z>>)
      BY <1>1, BinaryDo DEF ReadExpr
    <2> DEFINE x == Expr(level, depth)
               y == Expr(level + 1, depth)
               z == Bin(level + 2, depth, n.id)
    <2>2. /\ x.k = "expr" /\ y.k = "expr" /\ z.k = "bin"
          /\ Do(<<x, y, z>>) \/ Do(<<y, z>>) \/ Do(<<z>>)
      BY <2>1 DEF Expr, Bin
    <2> HIDE DEF x, y, z
    <2>3. CASE Do(<<x, y, z>>)
      BY <1>0, <2>1, <2>2, <2>3, SpPut
    <2>4. CASE Do(<<y, z>>)
      BY <1>0, <2>1, <2>2, <2>4, SpPut
    <2>5. CASE Do(<<z>>)
      BY <1>0, <2>1, <2>2, <2>5, SpPut
    <2> QED BY <2>2, <2>3, <2>4, <2>5
  <1>2. CASE compile_expr_bin
    <2> DEFINE a == BinCode(Head(todo).op)
    <2>1. At("bin") /\ Head(todo).op \in Compiled /\ Do(<<>>) /\ Emit(a)
      BY <1>2 DEF compile_expr_bin
    <2>2. reg \in Int /\ reg - 1 \in Int
      <3>1. NetRegs("bin") = -1
        BY NetTable
      <3>2. reg \in Int
        BY <2>1, HeadFacts
      <3> QED BY <3>1, <3>2
    <2>3. a \in Seq(Still)
      BY <2>1, <2>2, BinStill
    <2> HIDE DEF a
    <2> QED BY <1>0, <2>1, <2>3, SpDone
  <1>3. CASE NotExpr
    <2> DEFINE x == Expr(level, depth)
               y == It("not", level + 1, depth)
    <2>1. At("expr") /\ sp' = sp /\ (Do(<<x, y>>) \/ Do(<<y>>))
      BY <1>3, NotDo DEF ReadExpr
    <2>2. x.k = "expr" /\ y.k = "not"
      BY DEF Expr, It
    <2> HIDE DEF x, y
    <2>3. CASE Do(<<x, y>>)
      BY <1>0, <2>1, <2>2, <2>3, SpPut
    <2>4. CASE Do(<<y>>)
      BY <1>0, <2>1, <2>2, <2>4, SpPut
    <2> QED BY <2>1, <2>3, <2>4
  <1>4. CASE compile_expr_not
    <2> DEFINE a == << I("xor 1", Mask(reg), 0, 1) >>
    <2>1. At("not") /\ Do(<<>>) /\ Emit(a)
      BY <1>4 DEF compile_expr_not
    <2>2. Mask(reg) \in Register
      BY <2>1, HeadIs, MaskType
    <2>3. "xor 1" \in Opcodes \ Stacked
      BY StillOps
    <2>4. a \in Seq(Still)
      BY <2>2, <2>3, Zero, StillIs, StillOne
    <2> HIDE DEF a
    <2> QED BY <1>0, <2>1, <2>4, SpDone
  <1> QED BY <1>1, <1>2, <1>3, <1>4

(* Calls.                                                                  *)

(* What an item for the arguments of a call is.                            *)
LEMMA ArgsAre ==
    ASSUME NEW a \in ItemType, a.k = "args"
    PROVE  /\ a.left \in Nat /\ a.pushed \in Nat /\ a.saved \in Register
           /\ Weight(a) \in Int /\ Weight(a) = a.saved + a.pushed - a.left
  <1>1. a.left \in Nat /\ a.pushed \in Nat /\ a.saved \in Register
    BY DEF ItemType
  <1>2. a.saved \in Int
    BY <1>1, RegistersAssumption DEF Register
  <1>3. Weight(a) = a.saved + a.pushed - a.left
    BY DEF Weight
  <1> QED BY <1>1, <1>2, <1>3

LEMMA NewArgs ==
    ASSUME NEW h, NEW d, NEW id, NEW left \in Nat, NEW given, NEW pushed \in Nat, NEW saved \in Register
    PROVE  LET a == Args(h, d, id, left, given, pushed, saved)
           IN  a.k = "args" /\ Weight(a) \in Int /\ Weight(a) = saved + pushed - left
  <1> DEFINE a == Args(h, d, id, left, given, pushed, saved)
  <1>1. a.k = "args" /\ a.left = left /\ a.pushed = pushed /\ a.saved = saved
    BY DEF Args
  <1> HIDE DEF a
  <1>2. saved \in Int
    BY RegistersAssumption DEF Register
  <1>3. Weight(a) = saved + pushed - left
    BY <1>1 DEF Weight
  <1> QED BY <1>1, <1>2, <1>3 DEF a

(* The registers are saved and the arguments padded.                       *)
LEMMA SpCallBegin ==
    ASSUME CompilerInv, SpInv, NEW n, IsFunction(n.id), NEW k \in {"expr", "stmt"}, At(k),
           NEW after, CallBegin(n, after),
           after = <<>> \/ (k = "stmt" /\ \E y : after = <<y>> /\ y.k \notin Heavy)
    PROVE  SpInv'
  <1> DEFINE info  == find_symbol(n.id).info
             saved == Mask(reg)
             call  == Args(level, depth, n.id, info, n.n, compile_call_begin(info), saved)
             a     == SaveCode(saved) \o PadCode(info)
  <1>1. Emit(a) /\ Do(<<call>> \o after)
    BY DEF CallBegin
  <1>2. info \in Nat /\ saved \in Register /\ compile_call_begin(info) \in Nat
    <2>1. find_symbol(n.id) \in Symbol
      BY SymbolFound DEF IsFunction, CompilerInv, TypeOK
    <2>2. reg \in Int
      BY HeadIs
    <2>3. info \in Nat
      BY <2>1 DEF Symbol
    <2> HIDE DEF info
    <2> QED BY <2>2, <2>3, MaskType, PadIs
  <1> HIDE DEF info, saved
  <1>3. call.k = "args" /\ Weight(call) \in Int /\ Weight(call) = saved + compile_call_begin(info) - info
    BY <1>2, NewArgs
  <1>4. Pushed(a) = saved + (compile_call_begin(info) - info)
    <2>1. SaveCode(saved) \in Seq(InstrType) /\ PadCode(info) \in Seq(InstrType)
      BY <1>2, SaveIs, PadIs
    <2>2. Pushed(a) = Pushed(SaveCode(saved)) + Pushed(PadCode(info))
      BY <2>1, PushedConcat
    <2>3. Pushed(SaveCode(saved)) = saved /\ Pushed(PadCode(info)) = compile_call_begin(info) - info
      BY <1>2, PushedSaved, PushedPad
    <2> QED BY <2>2, <2>3
  <1>5. sp' = sp + Weight(call) /\ sp \in Int
    <2>1. sp' = sp + Pushed(a)
      BY <1>1 DEF Emit
    <2>2. sp \in Int
      BY SpInt DEF SpInv, At
    <2>3. saved \in Int
      BY <1>2, RegistersAssumption DEF Register
    <2> HIDE DEF call, a
    <2>4. Pushed(a) = Weight(call)
      BY <1>2, <1>3, <1>4, <2>3
    <2> QED BY <2>1, <2>2, <2>4
  <1> HIDE DEF call, a
  <1>6. Running /\ todo[1].k = k /\ Weight(todo[1]) = 0
    <2>1. Running /\ todo[1].k = k
      BY HeadFirst DEF At
    <2>2. k \notin Heavy
      BY DEF Heavy
    <2> QED BY <2>1, <2>2, LightWeight
  <1>7. ASSUME NEW S, NEW b \in Seq(S), Do(b), Len(b) \in {1, 2}, b[1] = call,
               Len(b) = 2 => b[2].k \notin Heavy /\ k = "stmt"
        PROVE  SpInv'
    <2> DEFINE m == Len(b)
               g == [i \in 1..(m + 1) |-> IF i = 1 THEN Weight(call) ELSE 0]
    <2>1. Shift(m) /\ \A i \in 1..m : todo'[i] = b[i]
      BY <1>6, <1>7, DoShift
    <2>2. /\ m \in Nat /\ g[1] = Weight(call) /\ g[m + 1] = 0
          /\ \A i \in 1..(m + 1) : g[i] \in Int
          /\ \A i \in 1..m : g[i + 1] = 0 /\ (i # 1 => g[i] = 0)
      <3>1. /\ m \in Nat /\ m >= 1 /\ 1 \in 1..(m + 1) /\ m + 1 \in 1..(m + 1) /\ m + 1 # 1
            /\ \A i \in 1..m : i + 1 \in 1..(m + 1) /\ i \in 1..(m + 1) /\ i + 1 # 1
        BY <1>7
      <3> HIDE DEF m
      <3> QED BY <1>3, <3>1
    <2>9. m \in {1, 2}
      BY <1>7
    <2>3. \A i \in 1..m : i # 1 => b[i].k \notin Heavy /\ i = 2 /\ k = "stmt"
      <3> SUFFICES ASSUME NEW i \in 1..m, i # 1
                   PROVE  b[i].k \notin Heavy /\ i = 2 /\ k = "stmt"
        OBVIOUS
      <3>1. i = 2 /\ m = 2
        <4> HIDE DEF m
        <4>1. i \in {1, 2}
          BY <2>9
        <4> QED BY <2>9, <4>1
      <3> QED BY <1>7, <3>1
    <2> HIDE DEF m, g
    <2>4. ASSUME NEW i \in 1..m
          PROVE  Weight(todo'[i]) \in Int /\ g[i] = g[i + 1] + Weight(todo'[i])
      <3>1. CASE i = 1
        <4>1. Weight(todo'[i]) = Weight(call)
          BY <1>7, <2>1, <3>1
        <4>2. g[i] = Weight(call) /\ g[i + 1] = 0 /\ Weight(call) \in Int
          BY <1>3, <2>2, <3>1
        <4> DEFINE w == Weight(call)
                   v == Weight(todo'[i])
        <4> HIDE DEF w, v
        <4>3. v = w /\ g[i] = w /\ g[i + 1] = 0 /\ w \in Int
          BY <4>1, <4>2 DEF w, v
        <4>4. v \in Int /\ g[i] = g[i + 1] + v
          BY <4>3
        <4> QED BY <4>4 DEF v
      <3>2. CASE i # 1
        <4>1. todo'[i].k \notin Heavy
          BY <2>1, <2>3, <3>2
        <4>2. Weight(todo'[i]) = 0
          BY <4>1, LightWeight
        <4>3. g[i] = 0 /\ g[i + 1] = 0
          BY <2>2, <3>2
        <4> QED BY <4>2, <4>3
      <3> QED BY <3>1, <3>2
    <2>5. Along(todo', m, g)
      BY <2>2, <2>4 DEF Along
    <2>6. sp' = sp + g[1] - Weight(todo[1]) /\ Weight(todo[1]) \in Int
      BY <1>3, <1>5, <1>6, <2>2
    <2>7. WordsOwed'
      BY <1>6, <2>1, <2>5, <2>6, SpMove DEF SpInv
    <2>8. NestedOK'
      <3>1. CASE k = "expr"
        <4>1. k \in ExprKinds /\ "args" \in ExprKinds
          BY <3>1 DEF ExprKinds
        <4>2. \A i \in 1..m : i = 1 /\ todo'[i] = call
          BY <1>7, <2>1, <2>3, <3>1
        <4>3. \A i \in 1..m : todo'[i].k \in ExprKinds
          BY <1>3, <4>1, <4>2
        <4> QED BY <1>6, <2>1, <4>1, <4>3, NestedMove DEF SpInv
      <3>2. CASE k = "stmt"
        <4>1. k \notin ExprKinds
          BY <3>2 DEF ExprKinds
        <4>2. \A i \in 2..m : i \in 1..m /\ i # 1
          BY <2>2
        <4>3. \A i \in 2..m : todo'[i].k \notin Heavy
          BY <2>1, <2>3, <4>2
        <4> QED BY <1>6, <2>1, <4>1, <4>3, NestedMove DEF SpInv
      <3> QED BY <3>1, <3>2
    <2> QED BY <2>7, <2>8 DEF SpInv
  <1>8. CASE after = <<>>
    <2>1. <<call>> \o <<>> = <<call>> /\ <<call>> \in Seq({call}) /\ Len(<<call>>) = 1 /\ <<call>>[1] = call
      OBVIOUS
    <2>2. Len(<<call>>) \in {1, 2} /\ Len(<<call>>) # 2
      BY <2>1
    <2> QED BY <1>1, <1>7, <1>8, <2>1, <2>2
  <1>9. ASSUME NEW y, after = <<y>>, y.k \notin Heavy, k = "stmt"
        PROVE  SpInv'
    <2>1. <<call>> \o <<y>> = <<call, y>>
      BY ShortConcat
    <2>2. /\ <<call, y>> \in Seq({call, y}) /\ Len(<<call, y>>) = 2
          /\ <<call, y>>[1] = call /\ <<call, y>>[2] = y
      OBVIOUS
    <2>3. Len(<<call, y>>) \in {1, 2}
      BY <2>2
    <2>4. Do(<<call, y>>)
      BY <1>1, <1>9, <2>1
    <2> QED BY <1>7, <1>9, <2>2, <2>3, <2>4
  <1> QED BY <1>8, <1>9

(* An argument is compiled, pushed, and the call goes on.                  *)
LEMMA SpArgument ==
    ASSUME CompilerInv, SpInv, CallArgument
    PROVE  SpInv'
  <1> DEFINE b == Head(todo)
             x == Expr(level, depth)
             y == It("push", level + 1, depth)
             z == Args(level, depth, b.id, b.left - 1, b.given - 1, b.pushed, b.saved)
             g == [i \in 1..4 |-> IF i = 1 \/ i = 2 THEN Weight(b)
                                  ELSE IF i = 3 THEN Weight(b) + 1 ELSE 0]
  <1>1. At("args") /\ Do(<<x, y, z>>) /\ sp' = sp /\ b.left > 0
    BY DEF CallArgument
  <1>2. Running /\ b = todo[1] /\ b \in ItemType /\ b.k = "args"
    BY <1>1, HeadFirst DEF At
  <1> HIDE DEF b
  <1>3. /\ b.left \in Nat /\ b.pushed \in Nat /\ b.saved \in Register
        /\ Weight(b) \in Int /\ Weight(b) = b.saved + b.pushed - b.left
    BY <1>2, ArgsAre
  <1>4. b.left - 1 \in Nat /\ b.saved \in Int
    BY <1>1, <1>3, RegistersAssumption DEF Register
  <1>5. x.k = "expr" /\ y.k = "push"
    BY DEF Expr, It
  <1>6. z.k = "args" /\ Weight(z) \in Int /\ Weight(z) = b.saved + b.pushed - (b.left - 1)
    BY <1>3, <1>4, NewArgs
  <1> HIDE DEF x, y, z
  <1>7. Weight(x) = 0 /\ Weight(y) = -1 /\ Weight(z) = Weight(b) + 1
    <2>1. Weight(x) = 0
      BY <1>5, LightWeight DEF Heavy
    <2>2. Weight(y) = -1
      BY <1>5 DEF Weight
    <2> QED BY <1>3, <1>4, <1>6, <2>1, <2>2
  <1>8. Shift(3) /\ todo'[1] = x /\ todo'[2] = y /\ todo'[3] = z
    <2> DEFINE l == <<x, y, z>>
               S == {x, y, z}
    <2>1. l \in Seq(S) /\ Len(l) = 3 /\ l[1] = x /\ l[2] = y /\ l[3] = z /\ Do(l)
      BY <1>1
    <2> HIDE DEF l, S
    <2>2. Shift(3) /\ \A i \in 1..3 : todo'[i] = l[i]
      BY <1>1, <2>1, DoShift
    <2>3. 1 \in 1..3 /\ 2 \in 1..3 /\ 3 \in 1..3
      OBVIOUS
    <2> QED BY <2>1, <2>2, <2>3
  <1>9. /\ g[1] = Weight(b) /\ g[2] = Weight(b) /\ g[3] = Weight(b) + 1 /\ g[4] = 0
        /\ \A i \in 1..4 : g[i] \in Int
    BY <1>3
  <1> HIDE DEF g
  <1>10. \A i \in 1..3 : i = 1 \/ i = 2 \/ i = 3
    OBVIOUS
  <1>11. Along(todo', 3, g)
    <2>1. /\ Weight(todo'[1]) \in Int /\ g[1] = g[1 + 1] + Weight(todo'[1])
          /\ Weight(todo'[2]) \in Int /\ g[2] = g[2 + 1] + Weight(todo'[2])
          /\ Weight(todo'[3]) \in Int /\ g[3] = g[3 + 1] + Weight(todo'[3])
      BY <1>3, <1>7, <1>8, <1>9
    <2>2. \A i \in 1..3 : Weight(todo'[i]) \in Int /\ g[i] = g[i + 1] + Weight(todo'[i])
      BY <1>10, <2>1
    <2>3. 3 + 1 = 4
      OBVIOUS
    <2> QED BY <1>9, <2>2, <2>3 DEF Along
  <1>12. sp' = sp + g[1] - Weight(todo[1]) /\ Weight(todo[1]) \in Int
    <2>1. sp \in Int
      BY <1>2, SpInt DEF SpInv
    <2> QED BY <1>1, <1>2, <1>3, <1>9, <2>1
  <1>13. WordsOwed'
    BY <1>2, <1>8, <1>11, <1>12, SpMove DEF SpInv
  <1>14. NestedOK'
    <2>1. "args" \in ExprKinds /\ "expr" \in ExprKinds /\ "push" \in ExprKinds
      BY DEF ExprKinds
    <2>2. \A i \in 1..3 : todo'[i].k \in ExprKinds
      BY <1>5, <1>6, <1>8, <1>10, <2>1
    <2> QED BY <1>2, <1>8, <2>1, <2>2, NestedMove DEF SpInv
  <1> QED BY <1>13, <1>14 DEF SpInv

(* An item that has been paid for comes off.                               *)
LEMMA SpPaid ==
    ASSUME CompilerInv, SpInv, NEW k \in ExprKinds, At(k), Do(<<>>), Weight(todo[1]) \in Int,
           NEW a, Emit(a), Pushed(a) \in Int, Pushed(a) + Weight(todo[1]) = 0
    PROVE  SpInv'
  <1>1. Running /\ todo[1].k = k /\ Shift(0)
    BY HeadFirst, PutsNone DEF At
  <1>2. sp \in Int
    BY <1>1, SpInt DEF SpInv
  <1> DEFINE g == [i \in 1..1 |-> 0]
  <1>3. Along(todo', 0, g) /\ g[1] = 0
    BY DEF Along
  <1> HIDE DEF g
  <1>4. sp' = sp + g[1] - Weight(todo[1])
    BY <1>2, <1>3 DEF Emit
  <1>5. WordsOwed'
    BY <1>1, <1>3, <1>4, SpMove DEF SpInv
  <1>6. NestedOK'
    BY <1>1, NestedMove DEF SpInv
  <1> QED BY <1>5, <1>6 DEF SpInv

LEMMA SpPush ==
    ASSUME CompilerInv, SpInv, PushArgument
    PROVE  SpInv'
  <1> DEFINE c == I("push", Mask(reg), 0, 0)
  <1>1. At("push") /\ Emit(<<c>>) /\ Do(<<>>)
    BY DEF PushArgument
  <1>2. todo[1].k = "push" /\ "push" \in ExprKinds
    BY <1>1, HeadFirst DEF ExprKinds
  <1>3. Weight(todo[1]) = -1
    BY <1>2 DEF Weight
  <1>4. Pushed(<<c>>) = 1
    <2>1. Mask(reg) \in Register
      BY <1>1, HeadIs, MaskType
    <2>2. c \in InstrType
      BY <2>1, OpcodesAre, Zero, InstrIs, Zenon
    <2>3. Words(c) = 1
      BY DEF Words, I
    <2> HIDE DEF c
    <2> QED BY <2>2, <2>3, PushedOne
  <1> HIDE DEF c
  <1>5. Weight(todo[1]) \in Int /\ Pushed(<<c>>) + Weight(todo[1]) = 0
    BY <1>3, <1>4
  <1>6. Pushed(<<c>>) \in Int
    BY <1>4
  <1> QED BY <1>1, <1>2, <1>5, <1>6, SpPaid

(* The arguments are dropped and the registers restored.                   *)
LEMMA SpCallEnd ==
    ASSUME CompilerInv, SpInv, CallEnd
    PROVE  SpInv'
  <1> DEFINE b    == Head(todo)
             call == I("call", 0, 0, Displace(find_symbol(b.id).offset, rip))
             end  == compile_call_end(reg, b.pushed)
             res  == RestoreCode(b.saved)
             a    == <<call>> \o end \o res
  <1>1. At("args") /\ Do(<<>>) /\ Emit(a) /\ b.left = 0
    BY DEF CallEnd
  <1>2. /\ reg \in Int /\ depth \in Nat /\ depth >= 2 /\ b \in ItemType /\ b.k = "args"
        /\ b = todo[1] /\ 1 \in 1..Len(todo)
    BY <1>1, HeadFacts, HeadFirst DEF Scopes
  <1>3. b.id \in FunctionNames
    BY <1>2 DEF CompilerInv, CallsPending
  <1> HIDE DEF b
  <1>4. /\ b.pushed \in Nat /\ b.saved \in Register
        /\ Weight(b) \in Int /\ Weight(b) = b.saved + b.pushed - b.left
    BY <1>2, ArgsAre
  <1>5. call \in Still
    <2>1. scopes \in Seq(Seq(Symbol)) /\ scopes # <<>>
      BY <1>2, EmptySeq DEF depth, CompilerInv, TypeOK
    <2>2. find_symbol(b.id) \in Symbol
      BY <1>3, <2>1, FunctionFound, SymbolFound
    <2>3. find_symbol(b.id).offset \in Nat
      BY <2>2 DEF Symbol
    <2>4. Displace(find_symbol(b.id).offset, rip) \in Int
      BY <2>3, AddressIs DEF Displace
    <2>5. "call" \in Opcodes \ Stacked
      BY StillOps
    <2> QED BY <2>4, <2>5, Zero, StillIs
  <1>6. /\ end \in Seq(InstrType) /\ Pushed(end) = -b.pushed
        /\ res \in Seq(InstrType) /\ Pushed(res) = -b.saved
    BY <1>2, <1>4, CallEndIs, SaveIs, PushedCallEnd, PushedSaved
  <1> HIDE DEF call, end, res
  <1>7. <<call>> \in Seq(InstrType) /\ Pushed(<<call>>) = 0
    BY <1>5, StillOne, PushedStill
  <1>8. <<call>> \o end \in Seq(InstrType) /\ Pushed(<<call>> \o end) = Pushed(<<call>>) + Pushed(end)
    BY <1>6, <1>7, PushedConcat
  <1>9. Pushed(a) = Pushed(<<call>> \o end) + Pushed(res)
    BY <1>6, <1>8, PushedConcat
  <1> HIDE DEF a
  <1>10. Pushed(a) \in Int /\ Pushed(a) + Weight(todo[1]) = 0 /\ Weight(todo[1]) \in Int
    <2>1. b.saved \in Int
      BY <1>4, RegistersAssumption DEF Register
    <2> QED BY <1>1, <1>2, <1>4, <1>6, <1>7, <1>8, <1>9, <2>1
  <1>11. "args" \in ExprKinds
    BY DEF ExprKinds
  <1> QED BY <1>1, <1>10, <1>11, SpPaid

(* The library's functions.                                                *)
LEMMA SpStdcall ==
    ASSUME CompilerInv, SpInv, NEW sym \in {"scan", "print"}, NEW args \in {0, 1},
           reg - args \in Int, reg \in Int, compile_stdcall(sym, args), Running
    PROVE  sp' = sp
  <1> DEFINE pushes == [i \in 1..args |-> I("push", Mask(reg - i + 1), 0, 0)]
             before == PadCode(args) \o pushes
             call   == I(Library[sym], 0, 0, 0)
             end    == compile_call_end(reg - args, compile_call_begin(args))
             a      == before \o <<call>> \o end
  <1>1. Emit(a)
    BY DEF compile_stdcall
  <1>2. pushes \in Seq(InstrType) /\ Pushed(pushes) = args
    <2>1. \A i \in 1..args : Mask(reg - i + 1) \in Register
      BY MaskType
    <2>2. \A i \in 1..args : I("push", Mask(reg - i + 1), 0, 0) \in InstrType
      BY <2>1, OpcodesAre, Zero, InstrIs, Zenon
    <2>3. /\ args \in Nat /\ Len(pushes) = args
          /\ \A i \in 1..args : pushes[i] = I("push", Mask(reg - i + 1), 0, 0)
      OBVIOUS
    <2>4. \A x : Words(I("push", x, 0, 0)) = 1
      BY DEF Words, I
    <2>5. pushes \in Seq(InstrType)
      BY <2>2, <2>3
    <2> HIDE DEF pushes
    <2>6. \A i \in 1..Len(pushes) : Words(pushes[i]) = 1
      BY <2>3, <2>4
    <2>7. Pushed(pushes) = 1 * Len(pushes)
      <3>1. Len(pushes) \in Nat
        BY <2>3
      <3> QED BY <2>6, <3>1, PushedEach
    <2>8. 1 * args = args
      BY <2>3
    <2> QED BY <2>3, <2>5, <2>7, <2>8
  <1> HIDE DEF pushes
  <1>3. /\ args \in Nat /\ compile_call_begin(args) \in Nat
        /\ PadCode(args) \in Seq(InstrType)
        /\ Pushed(PadCode(args)) = compile_call_begin(args) - args
    <2>1. args \in Nat
      OBVIOUS
    <2> QED BY <2>1, PadIs, PushedPad
  <1>4. before \in Seq(InstrType) /\ Pushed(before) = Pushed(PadCode(args)) + Pushed(pushes)
    BY <1>2, <1>3, PushedConcat
  <1>5. call \in Still
    <2>1. Library[sym] = "call scan" \/ Library[sym] = "call print"
      <3>1. CASE sym = "scan"
        BY <3>1 DEF Library
      <3>2. CASE sym = "print"
        BY <3>2 DEF Library
      <3> QED BY <3>1, <3>2
    <2>2. Library[sym] \in Opcodes \ Stacked
      BY <2>1, StillOps
    <2> QED BY <2>2, Zero, StillIs
  <1>6. end \in Seq(InstrType) /\ Pushed(end) = -compile_call_begin(args)
    BY <1>3, CallEndIs, PushedCallEnd
  <1> HIDE DEF before, call, end
  <1>7. <<call>> \in Seq(InstrType) /\ Pushed(<<call>>) = 0
    BY <1>5, StillOne, PushedStill
  <1>8. before \o <<call>> \in Seq(InstrType) /\ Pushed(before \o <<call>>) = Pushed(before) + Pushed(<<call>>)
    BY <1>4, <1>7, PushedConcat
  <1>9. Pushed(a) = Pushed(before \o <<call>>) + Pushed(end)
    BY <1>6, <1>8, PushedConcat
  <1> HIDE DEF a
  <1>10. Pushed(a) = 0
    BY <1>2, <1>3, <1>4, <1>6, <1>7, <1>8, <1>9
  <1>11. sp \in Int
    BY SpInt DEF SpInv
  <1> QED BY <1>1, <1>10, <1>11 DEF Emit

LEMMA SpCalls ==
    ASSUME CompilerInv, SpInv,
           CallExpr \/ CallArgument \/ PushArgument \/ CallEnd \/ InExpr \/ CallStmt \/ OutStmt
    PROVE  SpInv'
  <1>1. CASE CallExpr
    <2>1. PICK n \in Exprs : At("expr") /\ IsFunction(n.id) /\ CallBegin(n, <<>>)
      BY <1>1 DEF CallExpr, ReadExpr
    <2> QED BY <2>1, SpCallBegin
  <1>2. CASE CallStmt
    <2> DEFINE y == It("drop", level + 1, depth)
    <2>1. PICK n \in Stmts : At("stmt") /\ IsFunction(n.id) /\ CallBegin(n, <<y>>)
      BY <1>2 DEF CallStmt, ReadStmt
    <2>2. y.k \notin Heavy
      BY DEF It, Heavy
    <2> HIDE DEF y
    <2>3. \E z : <<y>> = <<z>> /\ z.k \notin Heavy
      BY <2>2
    <2> QED BY <2>1, <2>3, SpCallBegin
  <1> DEFINE x == It("expr", 0, 0)
  <1>3. x.k \notin Heavy /\ x.k \in ExprKinds
    BY DEF It, Heavy, ExprKinds
  <1> HIDE DEF x
  <1>4. CASE InExpr
    <2>1. At("expr") /\ compile_stdcall("scan", 0) /\ Do(<<>>) /\ Running
      BY <1>4 DEF InExpr, ReadExpr, At
    <2>2. reg \in Int /\ reg - 0 \in Int /\ "scan" \in {"scan", "print"} /\ 0 \in {0, 1}
      BY <2>1, HeadIs
    <2>3. sp' = sp
      BY <2>1, <2>2, SpStdcall
    <2>4. "expr" \notin Heavy
      BY DEF Heavy
    <2> QED BY <1>3, <2>1, <2>3, <2>4, SpPut
  <1>5. CASE OutStmt
    <2>1. At("out") /\ compile_stdcall("print", 1) /\ Do(<<>>) /\ Running
      BY <1>5 DEF OutStmt, At
    <2>2. reg \in Int /\ reg - 1 \in Int /\ "print" \in {"scan", "print"} /\ 1 \in {0, 1}
      <3>1. NetRegs("out") = -1
        BY NetTable
      <3>2. reg \in Int
        BY <2>1, HeadFacts
      <3> QED BY <3>1, <3>2
    <2>3. sp' = sp
      BY <2>1, <2>2, SpStdcall
    <2>4. "out" \notin Heavy
      BY DEF Heavy
    <2> QED BY <1>3, <2>1, <2>3, <2>4, SpPut
  <1> QED BY <1>1, <1>2, <1>4, <1>5, SpArgument, SpPush, SpCallEnd

(* Statements.                                                             *)
LEMMA RetStill ==
    ASSUME NEW vis
    PROVE  RetCode(vis) \in Seq(Still)
  <1>1. "ret" \in Opcodes \ Stacked
    BY StillOps
  <1>2. << Op("ret") >> \in Seq(Still) /\ <<>> \in Seq(Still)
    BY <1>1, StillOp, StillOne, EmptySeq
  <1> QED BY <1>2, Zenon DEF RetCode

LEMMA SpStore ==
    ASSUME CompilerInv, SpInv, Running, NEW s \in Symbol, NEW n \in Int, reg \in Int, compile_store(s, n)
    PROVE  sp' = sp
  <1>1. /\ s.vis \in {"local", "global"} /\ s.addend \in Int
        /\ Mask(reg) \in Register /\ Mask(reg + 1) \in Register
    BY MaskType DEF Symbol
  <1> DEFINE mov    == I("mov imm", Mask(reg + 1), 0, n)
             store  == I(Store[s.vis], 0, Mask(reg), s.addend)
             storex == I(Storex[s.vis], Mask(reg + 1), Mask(reg), s.addend)
             ret    == RetCode(s.vis)
  <1>2. mov \in Still
    <2>1. "mov imm" \in Opcodes \ Stacked
      BY StillOps
    <2> QED BY <1>1, <2>1, Zero, StillIs
  <1>3. store \in Still /\ storex \in Still
    BY <1>1, Zero, StillAccess
  <1>4. Emit(<<store>> \o ret) \/ Emit(<<mov, storex>> \o ret)
    BY DEF compile_store
  <1>5. ret \in Seq(Still)
    BY RetStill
  <1> HIDE DEF mov, store, storex, ret
  <1>6. <<store>> \in Seq(Still) /\ <<mov, storex>> \in Seq(Still)
    BY <1>2, <1>3
  <1>7. <<store>> \o ret \in Seq(Still) /\ <<mov, storex>> \o ret \in Seq(Still)
    BY <1>5, <1>6, ConcatProperties
  <1> QED BY <1>4, <1>7, SpEmits

LEMMA SpStores ==
    ASSUME CompilerInv, SpInv, Reassign \/ StoreElement \/ DeclareVariable
    PROVE  SpInv'
  <1>0. "assign" \notin Heavy \union ExprKinds /\ "store" \notin Heavy \union ExprKinds
    BY DEF Heavy, ExprKinds
  <1> DEFINE z == It("stmt", 0, 0)
  <1>z. z.k \notin Heavy
    BY DEF It, Heavy
  <1> HIDE DEF z
  <1>1. CASE Reassign
    <2> DEFINE it == Head(todo)
               s  == find_symbol(it.id)
    <2>1. /\ At("assign") /\ Found(it.id) /\ Running
          /\ \/ /\ Do(<< Expr(level, depth), Access("store", level + 1, depth, s) >>)
                /\ sp' = sp
             \/ compile_store(s, it.n) /\ Do(<<>>)
      BY <1>1 DEF Reassign, At
    <2>2. reg \in Int /\ it.n \in Int
      BY <2>1, HeadFacts, AssignHead
    <2>3. s \in Symbol
      BY <2>1, SymbolFound DEF CompilerInv, TypeOK
    <2> HIDE DEF it, s
    <2>4. CASE Do(<< Expr(level, depth), Access("store", level + 1, depth, s) >>) /\ sp' = sp
      <3> DEFINE x == Expr(level, depth)
                 y == Access("store", level + 1, depth, s)
      <3>1. x.k = "expr" /\ y.k = "store" /\ Do(<<x, y>>)
        BY <2>4 DEF Expr, Access
      <3> HIDE DEF x, y
      <3>2. x.k \notin Heavy /\ y.k \notin Heavy
        BY <3>1 DEF Heavy
      <3> QED BY <1>0, <2>1, <2>4, <3>1, <3>2, SpPut
    <2>5. CASE compile_store(s, it.n) /\ Do(<<>>)
      <3>1. sp' = sp
        BY <2>1, <2>2, <2>3, <2>5, SpStore
      <3> QED BY <1>0, <1>z, <2>1, <2>5, <3>1, SpPut
    <2> QED BY <2>1, <2>4, <2>5
  <1>2. CASE StoreElement
    <2> DEFINE it == Head(todo)
               x  == I(Storex[it.vis], Mask(reg), Mask(reg - 1), it.addend)
               a  == <<x>> \o RetCode(it.vis)
    <2>1. At("store") /\ Do(<<>>) /\ Emit(a)
      BY <1>2 DEF StoreElement
    <2>2. it \in ItemType /\ it.k = "store" /\ reg \in Int /\ reg - 1 \in Int
      <3>1. NetRegs("store") = -2
        BY NetTable
      <3>2. it \in ItemType /\ it.k = "store" /\ reg \in Int
        BY <2>1, HeadFacts
      <3> HIDE DEF it
      <3> QED BY <3>1, <3>2
    <2> HIDE DEF it
    <2>3. it.vis \in {"local", "global"} /\ it.addend \in Int
      BY <2>2 DEF ItemType
    <2>4. Mask(reg) \in Register /\ Mask(reg - 1) \in Register
      BY <2>2, MaskType
    <2>5. x \in Still
      BY <2>3, <2>4, StillAccess
    <2> HIDE DEF x
    <2>6. a \in Seq(Still)
      <3>1. <<x>> \in Seq(Still) /\ RetCode(it.vis) \in Seq(Still)
        BY <2>5, StillOne, RetStill
      <3> QED BY <3>1, ConcatProperties
    <2> HIDE DEF a
    <2> QED BY <1>0, <2>1, <2>6, SpDone
  <1>3. CASE DeclareVariable
    <2>1. At("assign") /\ Do(<<>>) /\ Running
      BY <1>3 DEF DeclareVariable, At
    <2>2. PICK x \in Symbol : Head(todo).n \in Int /\ compile_store(x, Head(todo).n)
      BY <1>3, Declaration
    <2>3. reg \in Int
      BY <2>1, HeadFacts
    <2>4. sp' = sp
      BY <2>1, <2>2, <2>3, SpStore
    <2> QED BY <1>0, <1>z, <2>1, <2>4, SpPut
  <1> QED BY <1>1, <1>2, <1>3

LEMMA SpBodies ==
    ASSUME CompilerInv, SpInv,
           \/ compile_stmt \/ AssignStmt \/ DropResult \/ OutOrReturn \/ compile_return
           \/ Conditional \/ EndWhile \/ EndIf \/ EndDefine
    PROVE  SpInv'
  <1>1. CASE compile_stmt
    <2> DEFINE x == It("stmt", level, depth)
               y == It("more", level, depth)
    <2>1. At("more") /\ (Do(<<x, y>>) \/ Do(<<>>)) /\ sp' = sp
      BY <1>1 DEF compile_stmt, Body
    <2>2. x.k = "stmt" /\ y.k = "more"
      BY DEF It
    <2> HIDE DEF x, y
    <2>3. "more" \notin Heavy \union ExprKinds /\ x.k \notin Heavy /\ y.k \notin Heavy
      BY <2>2 DEF Heavy, ExprKinds
    <2> QED BY <2>1, <2>3, SpPut
  <1>2. CASE AssignStmt
    <2>1. PICK n \in Stmts :
            /\ At("stmt") /\ sp' = sp
            /\ Do(<< Expr(level, depth), Assign(level + 1, depth, n.id, n.n, rip) >>)
      BY <1>2 DEF AssignStmt, ReadStmt
    <2> DEFINE x == Expr(level, depth)
               y == Assign(level + 1, depth, n.id, n.n, rip)
    <2>2. x.k = "expr" /\ y.k = "assign" /\ Do(<<x, y>>)
      BY <2>1 DEF Expr, Assign
    <2> HIDE DEF x, y
    <2>3. "stmt" \notin Heavy \union ExprKinds /\ x.k \notin Heavy /\ y.k \notin Heavy
      BY <2>2 DEF Heavy, ExprKinds
    <2> QED BY <2>1, <2>2, <2>3, SpPut
  <1> DEFINE z == It("stmt", 0, 0)
  <1>z. z.k \notin Heavy
    BY DEF It, Heavy
  <1> HIDE DEF z
  <1>3. CASE DropResult
    <2>1. At("drop") /\ Do(<<>>) /\ sp' = sp /\ "drop" \notin Heavy \union ExprKinds
      BY <1>3 DEF DropResult, Heavy, ExprKinds
    <2> QED BY <1>z, <2>1, SpPut
  <1>4. CASE OutOrReturn
    <2>1. PICK k \in {"out", "return"} :
            /\ At("stmt") /\ Do(<< Expr(level, depth), It(k, level + 1, depth) >>) /\ sp' = sp
      BY <1>4 DEF OutOrReturn, ReadStmt
    <2> DEFINE x == Expr(level, depth)
               y == It(k, level + 1, depth)
    <2>2. x.k = "expr" /\ y.k = k /\ Do(<<x, y>>)
      BY <2>1 DEF Expr, It
    <2> HIDE DEF x, y
    <2>3. "stmt" \notin Heavy \union ExprKinds /\ x.k \notin Heavy /\ y.k \notin Heavy
      BY <2>2 DEF Heavy, ExprKinds
    <2> QED BY <2>1, <2>2, <2>3, SpPut
  <1>5. CASE compile_return
    <2> DEFINE a == << I("mov rax, r", 0, Mask(reg), 0), Op("mov rsp, rbp"), Op("pop rbp"), Op("ret") >>
    <2>1. At("return") /\ Do(<<>>) /\ Emit(a) /\ "return" \notin Heavy
      BY <1>5 DEF compile_return, Heavy
    <2>2. Mask(reg) \in Register
      BY <2>1, HeadIs, MaskType
    <2>3. /\ "mov rax, r" \in Opcodes \ Stacked /\ "mov rsp, rbp" \in Opcodes \ Stacked
          /\ "pop rbp" \in Opcodes \ Stacked /\ "ret" \in Opcodes \ Stacked
      BY StillOps
    <2>4. /\ I("mov rax, r", 0, Mask(reg), 0) \in Still /\ Op("mov rsp, rbp") \in Still
          /\ Op("pop rbp") \in Still /\ Op("ret") \in Still
      BY <2>2, <2>3, Zero, StillIs, StillOp, Zenon
    <2>5. a \in Seq(Still)
      BY <2>4, ShortSeqs
    <2> HIDE DEF a
    <2> QED BY <2>1, <2>5, SpDone
  <1>6. CASE Conditional
    <2>1. PICK k \in Tests :
            /\ At("stmt") /\ sp' = sp
            /\ Do(<< Expr(level, depth + 1), Jump(k, level + 1, depth + 1, rip, 0) >>)
      <3>1. PICK n \in Stmts :
              /\ At("stmt") /\ sp' = sp
              /\ Do(<< Expr(level, depth + 1),
                       Jump(IF n.k = "while" THEN "test while"
                            ELSE IF n.n = 1 THEN "test if else" ELSE "test if",
                            level + 1, depth + 1, rip, 0) >>)
        BY <1>6 DEF Conditional, ReadStmt
      <3> DEFINE k == IF n.k = "while" THEN "test while"
                      ELSE IF n.n = 1 THEN "test if else" ELSE "test if"
      <3>2. k \in Tests
        BY DEF Tests
      <3>3. Do(<< Expr(level, depth + 1), Jump(k, level + 1, depth + 1, rip, 0) >>)
        BY <3>1
      <3> HIDE DEF k
      <3> QED BY <3>1, <3>2, <3>3
    <2> DEFINE x == Expr(level, depth + 1)
               y == Jump(k, level + 1, depth + 1, rip, 0)
    <2>2. x.k = "expr" /\ y.k = k /\ Do(<<x, y>>)
      BY <2>1 DEF Expr, Jump
    <2> HIDE DEF x, y
    <2>3. "stmt" \notin Heavy \union ExprKinds /\ x.k \notin Heavy /\ y.k \notin Heavy
      BY <2>2 DEF Heavy, ExprKinds, Tests
    <2> QED BY <2>1, <2>2, <2>3, SpPut
  <1>7. CASE EndWhile \/ EndIf \/ EndDefine
    <2>1. PICK k \in {"endwhile", "endif", "enddefine"} : At(k) /\ Do(<<>>) /\ sp' = sp
      BY <1>7 DEF EndWhile, EndIf, EndDefine
    <2>2. k \notin Heavy \union ExprKinds
      BY DEF Heavy, ExprKinds
    <2> QED BY <1>z, <2>1, <2>2, SpPut
  <1> QED BY <1>1, <1>2, <1>3, <1>4, <1>5, <1>6, <1>7

(* The body of a branch.                                                   *)
LEMMA SpBranches ==
    ASSUME CompilerInv, SpInv, TestCondition \/ Else
    PROVE  SpInv'
  <1>1. ASSUME NEW k, At(k), k \notin Heavy \union ExprKinds, sp' = sp, NEW h, NEW d, NEW c,
               c.k \notin Heavy, Do(Body(h, d) \o <<c>>)
        PROVE  SpInv'
    <2>1. /\ Shift(3) /\ todo'[1].k = "stmt" /\ todo'[2].k = "more" /\ todo'[3] = c
      BY <1>1, PutsBody
    <2>2. \A i \in 1..3 : i = 1 \/ i = 2 \/ i = 3
      OBVIOUS
    <2>3. "stmt" \notin Heavy /\ "more" \notin Heavy
      BY DEF Heavy
    <2>4. \A i \in 1..3 : todo'[i].k \notin Heavy
      BY <1>1, <2>1, <2>2, <2>3
    <2>5. Running /\ todo[1].k = k
      BY <1>1, HeadFirst DEF At
    <2> QED BY <1>1, <2>1, <2>4, <2>5, SpLight
  <1>2. CASE TestCondition
    <2> DEFINE it == Head(todo)
               a  == << I("test", Mask(reg), Mask(reg), 0), I("je", 0, 0, Unset) >>
               je == rip + 1
               then == CASE it.k = "test while"   -> "endwhile"
                         [] it.k = "test if else" -> "else"
                         [] OTHER                 -> "endif"
               c == Jump(then, level - 1, depth, it.cond, je)
    <2>1. PICK k \in Tests : At(k)
      BY <1>2 DEF TestCondition, Tests
    <2>2. Emit(a) /\ Do(Body(level - 1, depth) \o <<c>>) /\ Running
      BY <1>2, <2>1 DEF TestCondition, At
    <2>3. c.k \notin Heavy
      <3>1. then \notin Heavy
        BY DEF Heavy
      <3> HIDE DEF then
      <3> QED BY <3>1 DEF Jump
    <2> HIDE DEF c, it, je, then
    <2>4. a \in Seq(Still)
      <3>1. Mask(reg) \in Register
        BY <2>1, HeadIs, MaskType
      <3>2. "test" \in Opcodes \ Stacked /\ "je" \in Opcodes \ Stacked
        BY StillOps
      <3>3. Unset \in Int
        BY DEF Unset
      <3>4. I("test", Mask(reg), Mask(reg), 0) \in Still /\ I("je", 0, 0, Unset) \in Still
        BY <3>1, <3>2, <3>3, Zero, StillIs
      <3> QED BY <3>4, ShortSeqs
    <2> HIDE DEF a
    <2>5. sp' = sp
      BY <2>2, <2>4, SpEmits
    <2>6. k \notin Heavy \union ExprKinds
      BY DEF Heavy, ExprKinds, Tests
    <2> QED BY <1>1, <2>1, <2>2, <2>3, <2>5, <2>6
  <1>3. CASE Else
    <2> DEFINE c == Jump("endif", level, depth, Head(todo).cond, rip)
    <2>1. At("else") /\ Do(Body(level, depth) \o <<c>>) /\ sp' = sp
      BY <1>3 DEF Else
    <2>2. c.k \notin Heavy /\ "else" \notin Heavy \union ExprKinds
      BY DEF Jump, Heavy, ExprKinds
    <2> HIDE DEF c
    <2> QED BY <1>1, <2>1, <2>2
  <1> QED BY <1>2, <1>3

(* Between top-level statements nothing is owed.                           *)
LEMMA SpTop ==
    ASSUME Len(todo') \in Nat, \A i \in 1..Len(todo') : todo'[i].k \notin Heavy, sp' = 0
    PROVE  SpInv'
  <1> DEFINE f == [i \in 1..(Len(todo') + 1) |-> 0]
  <1>1. \A i \in 1..(Len(todo') + 1) : f[i] = 0
    OBVIOUS
  <1> HIDE DEF f
  <1>2. \A i \in 1..Len(todo') : i \in 1..(Len(todo') + 1) /\ i + 1 \in 1..(Len(todo') + 1)
    OBVIOUS
  <1>3. 1 \in 1..(Len(todo') + 1) /\ Len(todo') + 1 \in 1..(Len(todo') + 1)
    OBVIOUS
  <1>4. \A i \in 1..Len(todo') : Weight(todo'[i]) = 0
    BY LightWeight
  <1>5. Along(todo', Len(todo'), f) /\ f[1] = sp'
    BY <1>1, <1>2, <1>3, <1>4 DEF Along
  <1> QED BY <1>5 DEF SpInv, WordsOwed, NestedOK

LEMMA SpTops ==
    ASSUME CompilerInv, SpInv,
           compile_define \/ GlobalAssign \/ SecondPass \/ Declare \/ Declared
    PROVE  SpInv'
  <1>0. <<>> \in Seq(ItemType) /\ Len(<<>>) = 0
    BY EmptySeq
  <1>1. CASE compile_define
    <2> DEFINE x == It("stmt", level, depth + 1)
               y == It("more", level, depth + 1)
               z == Jump("enddefine", level, depth + 1, 0, rip + 2)
               a == << Op("push rbp"), Op("mov rbp, rsp"), I("sub rsp, frame", 0, 0, Unset) >>
    <2>1. /\ todo = <<>> /\ Running /\ Emit(a)
          /\ todo' = <<x, y>> \o <<z>>
      BY <1>1 DEF compile_define, AtTop, Body
    <2>2. x.k = "stmt" /\ y.k = "more" /\ z.k = "enddefine"
      BY DEF It, Jump
    <2> HIDE DEF x, y, z
    <2>3. todo' = <<x, y, z>>
      BY <2>1, ShortConcat
    <2>4. Len(todo') = 3 /\ todo'[1] = x /\ todo'[2] = y /\ todo'[3] = z
      BY <2>3
    <2>5. \A i \in 1..3 : i = 1 \/ i = 2 \/ i = 3
      OBVIOUS
    <2>6. x.k \notin Heavy /\ y.k \notin Heavy /\ z.k \notin Heavy
      BY <2>2 DEF Heavy
    <2>7. \A i \in 1..Len(todo') : todo'[i].k \notin Heavy
      BY <2>4, <2>5, <2>6
    <2>8. a \in Seq(Still)
      <3>1. /\ "push rbp" \in Opcodes \ Stacked /\ "mov rbp, rsp" \in Opcodes \ Stacked
            /\ "sub rsp, frame" \in Opcodes \ Stacked
        BY StillOps
      <3>2. Unset \in Int
        BY DEF Unset
      <3>3. /\ Op("push rbp") \in Still /\ Op("mov rbp, rsp") \in Still
            /\ I("sub rsp, frame", 0, 0, Unset) \in Still
        BY <3>1, <3>2, Zero, StillIs, StillOp
      <3> QED BY <3>3, ShortSeqs
    <2> HIDE DEF a
    <2>9. sp' = 0
      BY <2>1, <2>8, SpEmits, SpInt DEF SpInv
    <2>10. Len(todo') \in Nat
      BY <2>4
    <2> QED BY <2>7, <2>9, <2>10, SpTop
  <1>2. CASE GlobalAssign
    <2> DEFINE x == Expr(level, depth)
               y == Assign(level + 1, depth, tree[top].id, tree[top].n, rip)
    <2>1. todo = <<>> /\ Running /\ todo' = <<x, y>> /\ sp' = sp
      BY <1>2 DEF GlobalAssign, AtTop
    <2>2. x.k = "expr" /\ y.k = "assign"
      BY DEF Expr, Assign
    <2> HIDE DEF x, y
    <2>3. Len(todo') = 2 /\ todo'[1] = x /\ todo'[2] = y
      BY <2>1
    <2>4. x.k \notin Heavy /\ y.k \notin Heavy
      BY <2>2 DEF Heavy
    <2>5. \A i \in 1..2 : i = 1 \/ i = 2
      OBVIOUS
    <2>6. (\A i \in 1..Len(todo') : todo'[i].k \notin Heavy) /\ Len(todo') \in Nat
      BY <2>3, <2>4, <2>5
    <2>7. sp' = 0
      BY <2>1, SpInt DEF SpInv
    <2> QED BY <2>6, <2>7, SpTop
  <1>3. CASE SecondPass \/ Declare \/ Declared
    <2>1. (phase = "declare" \/ Running) /\ todo = <<>> /\ todo' = todo /\ sp' = sp
      BY <1>3 DEF SecondPass, Declare, Declared, Running, CompilerInv, TablesOpen
    <2>2. sp' = 0
      BY <2>1, SpInt DEF SpInv
    <2>3. Len(todo') \in Nat /\ \A i \in 1..Len(todo') : todo'[i].k \notin Heavy
      <3>1. Len(todo') = 0
        BY <1>0, <2>1
      <3> QED BY <3>1
    <2> QED BY <2>2, <2>3, SpTop
  <1> QED BY <1>1, <1>2, <1>3

LEMMA SpStep ==
    ASSUME CodeInv, SpInv, [Next]_vars
    PROVE  SpInv'
  <1>1. CompilerInv
    BY DEF CodeInv
  <1>2. CASE ExprHandlers \/ StmtHandlers \/ AssignStmt
    BY <1>1, <1>2, SpOperands, SpOperators, SpCalls, SpStores, SpBodies DEF ExprHandlers, StmtHandlers
  <1>3. CASE Conditional \/ TestCondition \/ Else \/ EndWhile \/ EndIf \/ EndDefine
    BY <1>1, <1>3, SpBodies, SpBranches
  <1>4. CASE compile_define \/ GlobalAssign \/ SecondPass \/ Declare \/ Declared
    BY <1>1, <1>4, SpTops
  <1>5. CASE compile_start \/ CompilePassEnd \/ Rejections
    <2>1. ~(phase' = "declare" \/ Running') /\ todo' = <<>>
      <3>1. CASE Rejections
        BY <1>1, <3>1, RejectedIs DEF Running
      <3>2. CASE compile_start \/ CompilePassEnd
        <4>1. phase' \in {"start", "end"} /\ todo' = todo
          BY <3>2 DEF compile_start, CompilePassEnd
        <4>2. todo = <<>>
          BY <3>2 DEF compile_start, CompilePassEnd, CodeInv, WalkInv, Idle, Running
        <4> QED BY <4>1, <4>2 DEF Running
      <3> QED BY <1>5, <3>1, <3>2
    <2>2. \A l \in 1..Len(todo') : FALSE
      <3>1. Len(todo') = 0
        BY <2>1, EmptySeq
      <3> QED BY <3>1
    <2> QED BY <2>1, <2>2 DEF SpInv, WordsOwed, NestedOK
  <1>6. CASE Terminating \/ UNCHANGED vars
    BY <1>6 DEF Terminating, vars, control, SpInv, WordsOwed, NestedOK, Running
  <1> QED BY <1>2, <1>3, <1>4, <1>5, <1>6, StepCases

(* Between statements the machine's stack is where it was.                 *)
THEOREM StackIsBalanced == Spec => []MachineStackBalanced
  <1>1. Init => SpInv
    <2> SUFFICES ASSUME Init
                 PROVE  SpInv
      OBVIOUS
    <2> DEFINE f == [i \in 1..1 |-> 0]
    <2>1. Len(todo) = 0 /\ sp = 0
      BY EmptySeq DEF Init
    <2>2. f[1] = 0 /\ \A i \in 1..1 : f[i] = 0
      OBVIOUS
    <2> HIDE DEF f
    <2>3. 0 + 1 = 1 /\ 1..0 = {}
      OBVIOUS
    <2>4. Along(todo, Len(todo), f) /\ f[1] = sp
      BY <2>1, <2>2, <2>3 DEF Along
    <2>5. NestedOK
      BY <2>1, <2>3 DEF NestedOK
    <2> QED BY <2>4, <2>5 DEF SpInv, WordsOwed
  <1>2. CodeInv /\ SpInv /\ [Next]_vars => SpInv'
    BY SpStep
  <1>3. CodeInv /\ SpInv => MachineStackBalanced
    <2> SUFFICES ASSUME CodeInv, SpInv, Running, AtStatement
                 PROVE  sp = 0
      BY DEF MachineStackBalanced
    <2>1. CompilerInv /\ todo \in Seq(ItemType)
      BY DEF CodeInv, CompilerInv, TypeOK
    <2>2. CASE todo = <<>>
      BY <2>1, <2>2, SpInt DEF SpInv
    <2>3. CASE todo # <<>>
      <3>1. PICK f : Along(todo, Len(todo), f) /\ f[1] = sp
        BY DEF SpInv, WordsOwed
      <3> DEFINE n == Len(todo)
      <3>2. n \in Nat /\ n >= 1 /\ Head(todo) = todo[1]
        BY <2>1, <2>3
      <3>3. todo[1].k \notin ExprKinds
        BY <2>3, <3>2 DEF AtStatement, ExprKinds
      <3>4. \A i \in 1..n : todo[i].k \notin Heavy
        BY <3>2, <3>3, NoneHeavy DEF SpInv
      <3>5. \A i \in 1..n : f[i] = f[i + 1]
        <4> SUFFICES ASSUME NEW i \in 1..n
                     PROVE  f[i] = f[i + 1]
          OBVIOUS
        <4>1. Weight(todo[i]) = 0
          BY <3>4, LightWeight
        <4>2. f[i] = f[i + 1] + Weight(todo[i])
          BY <3>1 DEF Along
        <4>3. i + 1 \in 1..(n + 1)
          BY <3>2
        <4>4. f[i + 1] \in Int
          BY <3>1, <4>3 DEF Along
        <4> QED BY <4>1, <4>2, <4>4
      <3>6. f[n + 1] = 0
        BY <3>1 DEF Along
      <3> HIDE DEF n
      <3> DEFINE T == {i \in Nat : i <= n => f[n + 1 - i] = 0}
      <3>7. 0 \in T
        BY <3>2, <3>6
      <3>8. ASSUME NEW i \in Nat, i \in T
            PROVE  i + 1 \in T
        <4> SUFFICES ASSUME i + 1 <= n
                     PROVE  f[n + 1 - (i + 1)] = 0
          OBVIOUS
        <4>1. f[n + 1 - i] = 0
          BY <3>2, <3>8
        <4>2. n + 1 - (i + 1) \in 1..n /\ (n + 1 - (i + 1)) + 1 = n + 1 - i
          BY <3>2
        <4>3. f[n + 1 - (i + 1)] = f[(n + 1 - (i + 1)) + 1]
          BY <3>5, <4>2
        <4> QED BY <4>1, <4>2, <4>3
      <3>9. n \in T
        <4> HIDE DEF T
        <4> QED BY <3>2, <3>7, <3>8, Induction
      <3>10. n + 1 - n = 1
        BY <3>2
      <3> QED BY <3>1, <3>2, <3>9, <3>10
    <2> QED BY <2>2, <2>3
  <1> QED BY <1>1, <1>2, <1>3, AlwaysCode, PTL DEF Spec
====
