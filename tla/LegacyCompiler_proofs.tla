---- MODULE LegacyCompiler_proofs ----
(***************************************************************************)
(* What the code generator guarantees for every tree, every number of      *)
(* registers and every bound: lemmas about the operators of LegacyCompiler *)
(* (the control stack, the symbol tables, the emitted instructions), the   *)
(* handlers one by one, the proof that CompilerInv is an invariant, and    *)
(* what follows from it; then the symbol tables and the relocations.       *)
(***************************************************************************)
EXTENDS CompilerProperties, SequenceTheorems, FiniteSetTheorems, TLAPS

(* A masked depth is a register's number.                                  *)
LEMMA MaskType == \A d \in Int : Mask(d) \in Register
  BY RegistersAssumption DEF Mask, Register

(* Below NREG the mask changes nothing.                                    *)
LEMMA MaskBelow == \A d \in Nat : d < NREG => Mask(d) = d
  BY RegistersAssumption DEF Mask

(* Every item of the control stack carries its depths.                     *)
LEMMA ItemDepths ==
    ASSUME NEW it \in ItemType
    PROVE  /\ it.h \in Nat /\ it.d \in Scopes
           /\ NetRegs(it.k) \in Int /\ NetScopes(it.k) \in Int
  <1>1. it.h \in Nat /\ it.d \in Scopes
    BY DEF ItemType
  <1>2. NetRegs(it.k) \in Int
    BY DEF NetRegs
  <1>3. NetScopes(it.k) \in Int
    BY DEF NetScopes
  <1> QED BY <1>1, <1>2, <1>3

(* The empty block leaves both depths as they are.                         *)
LEMMA LinkedNone ==
    ASSUME NEW h, NEW d, NEW e, NEW f
    PROVE  Linked(<<>>, h, d, e, f) <=> h = e /\ d = f
  BY DEF Linked

(* A block of one item.                                                    *)
LEMMA LinkedOne ==
    ASSUME NEW a, NEW h, NEW d, NEW e, NEW f,
           a.h = h, a.d = d, e = h + NetRegs(a.k), f = d + NetScopes(a.k)
    PROVE  Linked(<<a>>, h, d, e, f)
  BY DEF Linked

(* A block of two items, the second where the first leaves off.            *)
LEMMA LinkedTwo ==
    ASSUME NEW a, NEW b, NEW h, NEW d, NEW e, NEW f,
           a.h = h, a.d = d,
           b.h = h + NetRegs(a.k), b.d = d + NetScopes(a.k),
           e = b.h + NetRegs(b.k), f = b.d + NetScopes(b.k)
    PROVE  Linked(<<a, b>>, h, d, e, f)
  BY DEF Linked

(* A block of three items, each where the one before leaves off.           *)
LEMMA LinkedThree ==
    ASSUME NEW a, NEW b, NEW c, NEW h, NEW d, NEW e, NEW f,
           a.h = h, a.d = d,
           b.h = h + NetRegs(a.k), b.d = d + NetScopes(a.k),
           c.h = b.h + NetRegs(b.k), c.d = b.d + NetScopes(b.k),
           e = c.h + NetRegs(c.k), f = c.d + NetScopes(c.k)
    PROVE  Linked(<<a, b, c>>, h, d, e, f)
  BY DEF Linked

(* Linked blocks concatenate.                                              *)
LEMMA LinkedConcat ==
    ASSUME NEW s \in Seq(ItemType), NEW t \in Seq(ItemType),
           NEW h, NEW d, NEW e, NEW f, NEW g, NEW l,
           Linked(s, h, d, e, f), Linked(t, e, f, g, l)
    PROVE  Linked(s \o t, h, d, g, l)
  <1>1. CASE s = <<>>
    BY <1>1 DEF Linked
  <1>2. CASE t = <<>>
    BY <1>2 DEF Linked
  <1>3. CASE s # <<>> /\ t # <<>>
    <2> DEFINE st == s \o t
    <2>1. /\ Len(s) \in Nat \ {0} /\ Len(t) \in Nat \ {0} /\ Len(st) = Len(s) + Len(t)
          /\ \A i \in 1..Len(s) : st[i] = s[i]
          /\ \A i \in 1..Len(t) : st[Len(s) + i] = t[i]
          /\ st # <<>>
      BY <1>3
    <2>2. st[1].h = h /\ st[1].d = d
      BY <1>3, <2>1 DEF Linked
    <2>3. st[Len(st)] = t[Len(t)] /\ st[Len(s)] = s[Len(s)] /\ st[Len(s) + 1] = t[1]
      BY <2>1
    <2>4. /\ g = st[Len(st)].h + NetRegs(st[Len(st)].k)
          /\ l = st[Len(st)].d + NetScopes(st[Len(st)].k)
      BY <1>3, <2>3 DEF Linked
    <2>5. ASSUME NEW i \in 1..(Len(st) - 1)
          PROVE  /\ st[i + 1].h = st[i].h + NetRegs(st[i].k)
                 /\ st[i + 1].d = st[i].d + NetScopes(st[i].k)
      <3>1. CASE i < Len(s)
        <4>1. st[i] = s[i] /\ st[i + 1] = s[i + 1] /\ i \in 1..(Len(s) - 1)
          BY <2>1, <3>1
        <4> QED BY <1>3, <4>1 DEF Linked
      <3>2. CASE i = Len(s)
        BY <1>3, <2>3, <3>2 DEF Linked
      <3>3. CASE i > Len(s)
        <4>1. PICK j \in 1..(Len(t) - 1) : i = Len(s) + j
          <5>1. i - Len(s) \in 1..(Len(t) - 1) /\ i = Len(s) + (i - Len(s))
            BY <2>1, <3>3
          <5> QED BY <5>1
        <4>2. st[i] = t[j] /\ st[i + 1] = t[j + 1]
          BY <2>1, <4>1
        <4> QED BY <1>3, <4>2 DEF Linked
      <3> QED BY <2>1, <3>1, <3>2, <3>3
    <2> QED BY <2>1, <2>2, <2>4, <2>5 DEF Linked
  <1> QED BY <1>1, <1>2, <1>3

(* What is left after the first item.                                      *)
LEMMA LinkedRest ==
    ASSUME NEW s \in Seq(ItemType), NEW t \in Seq(ItemType),
           Len(s) \in Nat \ {0}, Len(t) = Len(s) - 1,
           \A i \in 1..Len(t) : t[i] = s[i + 1],
           NEW h, NEW d, NEW e, NEW f, Linked(s, h, d, e, f)
    PROVE  Linked(t, h + NetRegs(s[1].k), d + NetScopes(s[1].k), e, f)
  <1>1. s # <<>> /\ h = s[1].h /\ d = s[1].d
    BY DEF Linked
  <1>2. CASE t = <<>>
    <2>1. Len(s) = 1
      BY <1>2
    <2> QED BY <1>1, <1>2, <2>1 DEF Linked
  <1>3. CASE t # <<>>
    <2>1. Len(t) \in Nat \ {0}
      BY <1>3, EmptySeq
    <2>2. /\ t[1].h = h + NetRegs(s[1].k)
          /\ t[1].d = d + NetScopes(s[1].k)
      BY <1>1, <2>1 DEF Linked
    <2>3. t[Len(t)] = s[Len(s)]
      BY <2>1
    <2>4. ASSUME NEW i \in 1..(Len(t) - 1)
          PROVE  t[i] = s[i + 1] /\ t[i + 1] = s[i + 2] /\ i + 1 \in 1..(Len(s) - 1) /\ (i + 1) + 1 = i + 2
      BY <2>1
    <2>5. ASSUME NEW i \in 1..(Len(t) - 1)
          PROVE  /\ t[i + 1].h = t[i].h + NetRegs(t[i].k)
                 /\ t[i + 1].d = t[i].d + NetScopes(t[i].k)
      BY <1>1, <2>4 DEF Linked
    <2> QED BY <1>1, <1>3, <2>1, <2>2, <2>3, <2>5 DEF Linked
  <1> QED BY <1>2, <1>3

(* A linked control stack without its head is linked from where the head   *)
(* leaves off.                                                             *)
LEMMA LinkedTail ==
    ASSUME NEW s \in Seq(ItemType), s # <<>>,
           NEW h, NEW d, NEW e, NEW f, Linked(s, h, d, e, f)
    PROVE  /\ Head(s) \in ItemType /\ Tail(s) \in Seq(ItemType)
           /\ h = Head(s).h /\ d = Head(s).d
           /\ Linked(Tail(s), h + NetRegs(Head(s).k), d + NetScopes(Head(s).k), e, f)
  <1>1. /\ Head(s) \in ItemType /\ Tail(s) \in Seq(ItemType)
        /\ Len(Tail(s)) = Len(s) - 1
        /\ \A i \in 1..Len(Tail(s)) : Tail(s)[i] = s[i + 1]
    BY HeadTailProperties
  <1>2. Head(s) = s[1] /\ Len(s) \in Nat \ {0}
    BY EmptySeq
  <1>3. h = Head(s).h /\ d = Head(s).d
    BY <1>2 DEF Linked
  <1>4. Linked(Tail(s), h + NetRegs(s[1].k), d + NetScopes(s[1].k), e, f)
    BY <1>1, <1>2, LinkedRest
  <1> QED BY <1>1, <1>2, <1>3, <1>4

(* Symbols: the walk of find_symbol ends at an entry of the tables.        *)
LEMMA NatMinimum ==
    ASSUME NEW T \in SUBSET Nat, T # {}
    PROVE  \E m \in T : \A n \in T : m <= n
  <1> DEFINE Below == {0..m : m \in T}
             R     == StrictSubsetOrdering(Nat)
  <1>1. Below \subseteq FiniteSubsetsOf(Nat) /\ Below # {}
    <2>1. \A m \in T : IsFiniteSet(0..m) /\ 0..m \in SUBSET Nat
      BY FS_Interval
    <2> QED BY <2>1 DEF FiniteSubsetsOf
  <1>2. PICK x \in Below : \A y \in Below : <<y, x>> \notin R
    <2> HIDE DEF Below
    <2> QED BY <1>1, FS_StrictSubsetOrderingWellFounded, WFMin
  <1>3. PICK m \in T : x = 0..m
    BY <1>2
  <1>4. ASSUME NEW n \in T, ~(m <= n)
        PROVE  FALSE
    <2>1. n \in Nat /\ m \in Nat /\ n < m
      BY <1>4
    <2>2. 0..n \subseteq 0..m /\ m \in 0..m /\ m \notin 0..n
      BY <2>1
    <2>3. <<0..n, 0..m>> \in R
      BY <2>2, <2>1 DEF StrictSubsetOrdering
    <2> QED BY <1>2, <1>3, <2>3
  <1> QED BY <1>3, <1>4

(* find_symbol's first hit is a place in the tables.                       *)
LEMMA FirstPlace ==
    ASSUME NEW id, scopes \in Seq(Seq(Symbol)), Found(id)
    PROVE  /\ Place(id) \in Hits(id)
           /\ Place(id)[1] \in 1..Len(scopes)
           /\ Place(id)[2] \in 1..Len(scopes[Place(id)[1]])
           /\ \A q \in Hits(id) : \/ Place(id)[1] < q[1]
                                  \/ Place(id)[1] = q[1] /\ Place(id)[2] <= q[2]
  <1>1. ASSUME NEW p \in Hits(id)
        PROVE  /\ p[1] \in 1..Len(scopes) /\ p[2] \in 1..Len(scopes[p[1]])
               /\ p = <<p[1], p[2]>> /\ p[1] \in Nat /\ p[2] \in Nat
    BY DEF Hits, Places
  <1> DEFINE Tables == {p[1] : p \in Hits(id)}
  <1>2. PICK i \in Tables : \A n \in Tables : i <= n
    <2>1. Tables \in SUBSET Nat /\ Tables # {}
      BY <1>1 DEF Found
    <2> QED BY <2>1, NatMinimum
  <1> DEFINE Entries == {p[2] : p \in {q \in Hits(id) : q[1] = i}}
  <1>3. PICK j \in Entries : \A n \in Entries : j <= n
    <2>1. Entries \in SUBSET Nat /\ Entries # {}
      BY <1>1, <1>2
    <2> QED BY <2>1, NatMinimum
  <1>4. PICK p \in Hits(id) : p[1] = i /\ p[2] = j
    BY <1>3
  <1>5. \A q \in Hits(id) : p[1] < q[1] \/ (p[1] = q[1] /\ p[2] <= q[2])
    <2> TAKE q \in Hits(id)
    <2>1. p[1] <= q[1] /\ p[1] \in Nat /\ q[1] \in Nat
      BY <1>1, <1>2, <1>4
    <2>2. p[1] = q[1] => p[2] <= q[2]
      BY <1>3, <1>4
    <2> QED BY <2>1, <2>2
  <1>6. /\ Place(id) \in Hits(id)
        /\ \A q \in Hits(id) : \/ Place(id)[1] < q[1]
                               \/ Place(id)[1] = q[1] /\ Place(id)[2] <= q[2]
    BY <1>4, <1>5 DEF Place
  <1> QED BY <1>1, <1>6

LEMMA PlaceFound ==
    ASSUME NEW id, scopes \in Seq(Seq(Symbol)), Found(id)
    PROVE  /\ Place(id) \in Hits(id)
           /\ Place(id)[1] \in 1..Len(scopes)
           /\ Place(id)[2] \in 1..Len(scopes[Place(id)[1]])
  BY FirstPlace

(* What find_symbol returns is a symbol of that name.                      *)
LEMMA SymbolFound ==
    ASSUME NEW id, scopes \in Seq(Seq(Symbol)), Found(id)
    PROVE  find_symbol(id) \in Symbol /\ find_symbol(id).id = id
  <1>1. scopes[Place(id)[1]] \in Seq(Symbol)
    BY PlaceFound
  <1>2. find_symbol(id) \in Symbol
    BY PlaceFound, <1>1 DEF find_symbol
  <1>3. find_symbol(id).id = id
    BY PlaceFound DEF find_symbol, Hits
  <1> QED BY <1>2, <1>3

(* A declared function can be found.                                       *)
LEMMA FunctionFound ==
    ASSUME NEW id, scopes \in Seq(Seq(Symbol)), scopes # <<>>, id \in FunctionNames
    PROVE  Found(id)
  <1>1. PICK j \in 1..Len(scopes[1]) : scopes[1][j].id = id
    BY DEF FunctionNames
  <1>2. 1 \in 1..Len(scopes)
    BY EmptySeq
  <1>3. <<1, j>> \in Places
    BY <1>2 DEF Places
  <1>4. <<1, j>> \in Hits(id)
    BY <1>1, <1>3 DEF Hits
  <1> QED BY <1>4 DEF Found

(* What passes for a function is one of the declared ones.                 *)
LEMMA FunctionNamed ==
    ASSUME NEW id, scopes \in Seq(Seq(Symbol)), FunctionsFirst, IsFunction(id)
    PROVE  id \in FunctionNames
  <1> DEFINE i == Place(id)[1]
             j == Place(id)[2]
  <1>1. /\ i \in 1..Len(scopes) /\ j \in 1..Len(scopes[i])
        /\ scopes[i][j].id = id /\ scopes[i][j].type = "func"
    BY PlaceFound, SymbolFound DEF IsFunction, find_symbol
  <1> HIDE DEF i, j
  <1>2. i = 1
    BY <1>1 DEF FunctionsFirst
  <1> QED BY <1>1, <1>2 DEF FunctionNames

(* compile_tree's `main' is a symbol of that name.                         *)
LEMMA MainFound ==
    ASSUME scopes \in Seq(Seq(Symbol)), scopes # <<>>, "main" \in FunctionNames
    PROVE  main \in Symbol /\ main.id = "main"
  <1>1. /\ scopes[1] \in Seq(Symbol) /\ Mains \in SUBSET Nat
        /\ Mains \subseteq 1..Len(scopes[1]) /\ Mains # {}
    BY EmptySeq DEF Mains, FunctionNames
  <1>2. \E m \in Mains : \A n \in Mains : m <= n
    BY <1>1, NatMinimum
  <1> DEFINE m == CHOOSE i \in Mains : \A j \in Mains : i <= j
  <1>3. m \in Mains
    BY <1>2
  <1>4. main = scopes[1][m] /\ m \in 1..Len(scopes[1]) /\ scopes[1][m].id = "main"
    BY <1>1, <1>3 DEF main, Mains
  <1> HIDE DEF m
  <1> QED BY <1>1, <1>4

(* Cut to imm32 a number of bytes is still a number; it is exact where it  *)
(* fits, and an address below the frame's base stays above where it was.   *)
LEMMA ImmIs ==
    ASSUME NEW x \in Int
    PROVE  /\ HALF \in Nat /\ Imm(x) \in Int
           /\ -HALF <= x /\ x < HALF => Imm(x) = x
           /\ x <= 0 => x <= Imm(x)
  <1>1. IMM \in Nat \ {0} /\ HALF \in Nat /\ 2 * HALF = IMM
    BY ImmAssumption DEF HALF
  <1> DEFINE y == x + HALF
             q == y \div IMM
  <1>2. y % IMM \in 0..(IMM - 1) /\ q \in Int /\ y = IMM * q + (y % IMM)
    BY <1>1
  <1>3. Imm(x) = (y % IMM) - HALF
    BY DEF Imm
  <1>4. (0 <= y /\ y < IMM) => y % IMM = y
    BY <1>1
  <1>5. ASSUME x <= 0
        PROVE  x <= Imm(x)
    <2>1. y <= HALF /\ HALF < IMM
      BY <1>1, <1>5
    <2>2. CASE q >= 1
      <3>1. IMM * q >= IMM
        BY <1>1, <1>2, <2>2
      <3> QED BY <1>1, <1>2, <2>1, <3>1
    <2>3. CASE q <= 0
      <3>1. IMM * q <= 0
        BY <1>1, <1>2, <2>3
      <3> HIDE DEF q
      <3> QED BY <1>1, <1>2, <1>3, <3>1
    <2> QED BY <1>2, <2>2, <2>3
  <1> QED BY <1>1, <1>2, <1>3, <1>4, <1>5

(* The code the handlers emit is made of instructions.                     *)
LEMMA OpcodesAre ==
    /\ "push" \in Opcodes /\ "pop" \in Opcodes /\ "ret" \in Opcodes /\ "call" \in Opcodes
    /\ "call scan" \in Opcodes /\ "call print" \in Opcodes /\ "syscall" \in Opcodes /\ "je" \in Opcodes
    /\ "jmp" \in Opcodes /\ "test" \in Opcodes /\ "sub rsp" \in Opcodes /\ "add rsp" \in Opcodes
    /\ "sub rsp, frame" \in Opcodes /\ "push rbp" \in Opcodes /\ "pop rbp" \in Opcodes /\ "mov rbp, rsp" \in Opcodes
    /\ "mov rsp, rbp" \in Opcodes /\ "load local" \in Opcodes /\ "load global" \in Opcodes /\ "loadx local" \in Opcodes
    /\ "loadx global" \in Opcodes /\ "store local" \in Opcodes /\ "store global" \in Opcodes /\ "storex local" \in Opcodes
    /\ "storex global" \in Opcodes /\ "mov imm" \in Opcodes /\ "mov r, rax" \in Opcodes /\ "mov rax, r" \in Opcodes
    /\ "mov rdi, rax" \in Opcodes /\ "mov rax, 1" \in Opcodes /\ "mov rax, 0x3c" \in Opcodes /\ "cqo" \in Opcodes
    /\ "idiv" \in Opcodes /\ "cmov" \in Opcodes /\ "cmp" \in Opcodes /\ "add" \in Opcodes
    /\ "sub" \in Opcodes /\ "mul" \in Opcodes /\ "and" \in Opcodes /\ "or" \in Opcodes
    /\ "xor 1" \in Opcodes
  BY DEF Opcodes

(* 0 is a register and an operand.                                         *)
LEMMA Zero == 0 \in Register /\ 0 \in Int /\ 1 \in Int /\ WORD \in Int
  BY RegistersAssumption DEF Register, WORD

(* An instruction of a known operation, with registers and an operand.     *)
LEMMA InstrIs ==
    ASSUME NEW op \in Opcodes, NEW r \in Register, NEW s \in Register, NEW x \in Int
    PROVE  I(op, r, s, x) \in InstrType
  BY DEF I, InstrType

(* An instruction of a known operation alone.                              *)
LEMMA OpIs ==
    ASSUME NEW op \in Opcodes
    PROVE  Op(op) \in InstrType
  BY Zero, InstrIs DEF Op

(* Sequences of up to four elements.                                       *)
LEMMA ShortSeqs ==
    ASSUME NEW S, NEW a \in S, NEW b \in S, NEW c \in S, NEW d \in S
    PROVE  /\ <<a>> \in Seq(S) /\ <<a, b>> \in Seq(S)
           /\ <<a, b, c>> \in Seq(S) /\ <<a, b, c, d>> \in Seq(S)
  OBVIOUS

(* The pushes and pops around a call are instructions.                     *)
LEMMA SaveIs ==
    ASSUME NEW n \in Register
    PROVE  SaveCode(n) \in Seq(InstrType) /\ RestoreCode(n) \in Seq(InstrType)
  <1>1. n \in Nat /\ \A i \in 1..n : i \in Register /\ n + 1 - i \in Register
    BY RegistersAssumption DEF Register
  <1>2. \A i \in 1..n : I("push", i, 0, 0) \in InstrType /\ I("pop", n + 1 - i, 0, 0) \in InstrType
    BY <1>1, OpcodesAre, Zero, InstrIs, Zenon
  <1> QED BY <1>1, <1>2 DEF SaveCode, RestoreCode

(* So is the padding of a call.                                            *)
LEMMA PadIs ==
    ASSUME NEW n \in Nat
    PROVE  compile_call_begin(n) \in Nat /\ PadCode(n) \in Seq(InstrType)
  <1>1. compile_call_begin(n) \in Nat
    BY DEF compile_call_begin
  <1>2. I("sub rsp", 0, 0, WORD) \in InstrType
    BY OpcodesAre, Zero, InstrIs, Zenon
  <1>3. << I("sub rsp", 0, 0, WORD) >> \in Seq(InstrType) /\ <<>> \in Seq(InstrType)
    BY <1>2, ShortSeqs, EmptySeq
  <1> QED BY <1>1, <1>3, Zenon DEF PadCode

(* So is what follows a call.                                              *)
LEMMA CallEndIs ==
    ASSUME NEW live \in Int, NEW pushed \in Nat
    PROVE  compile_call_end(live, pushed) \in Seq(InstrType)
  <1>1. Mask(live + 1) \in Register /\ WORD * pushed \in Int
    BY MaskType DEF WORD
  <1>2. I("mov r, rax", Mask(live + 1), 0, 0) \in InstrType
    BY <1>1, OpcodesAre, Zero, InstrIs, Zenon
  <1>3. I("add rsp", 0, 0, WORD * pushed) \in InstrType
    BY <1>1, OpcodesAre, Zero, InstrIs, Zenon
  <1> QED BY <1>2, <1>3, ShortSeqs DEF compile_call_end

(* So is the code of each binary operator.                                 *)
LEMMA BinIs ==
    ASSUME NEW op \in Compiled, reg \in Int
    PROVE  BinCode(op) \in Seq(InstrType)
  <1>1. Mask(reg) \in Register /\ Mask(reg - 1) \in Register
    BY MaskType
  <1>2. CASE op = "div"
    <2>1. /\ I("mov rax, r", 0, Mask(reg - 1), 0) \in InstrType /\ Op("cqo") \in InstrType
          /\ I("idiv", 0, Mask(reg), 0) \in InstrType
          /\ I("mov r, rax", Mask(reg - 1), 0, 0) \in InstrType
      BY <1>1, OpcodesAre, Zero, InstrIs, OpIs, Zenon
    <2>2. BinCode(op) = << I("mov rax, r", 0, Mask(reg - 1), 0), Op("cqo"),
                           I("idiv", 0, Mask(reg), 0), I("mov r, rax", Mask(reg - 1), 0, 0) >>
      BY <1>2 DEF BinCode
    <2> QED BY <2>1, <2>2, ShortSeqs
  <1>3. CASE op = "cmp"
    <2>1. /\ I("cmp", Mask(reg - 1), Mask(reg), 0) \in InstrType /\ Op("mov rax, 1") \in InstrType
          /\ I("mov imm", Mask(reg - 1), 0, 0) \in InstrType
          /\ I("cmov", Mask(reg - 1), 0, 0) \in InstrType
      BY <1>1, OpcodesAre, Zero, InstrIs, OpIs, Zenon
    <2>2. BinCode(op) = << I("cmp", Mask(reg - 1), Mask(reg), 0), Op("mov rax, 1"),
                           I("mov imm", Mask(reg - 1), 0, 0), I("cmov", Mask(reg - 1), 0, 0) >>
      BY <1>3 DEF BinCode
    <2> QED BY <2>1, <2>2, ShortSeqs
  <1>4. CASE op \notin {"div", "cmp"}
    <2>1. op \in Opcodes
      BY <1>4 DEF Opcodes, Compiled
    <2>2. I(op, Mask(reg - 1), Mask(reg), 0) \in InstrType
      BY <1>1, <2>1, Zero, InstrIs
    <2>3. BinCode(op) = << I(op, Mask(reg - 1), Mask(reg), 0) >>
      BY <1>4 DEF BinCode
    <2> QED BY <2>2, <2>3, ShortSeqs
  <1> QED BY <1>2, <1>3, <1>4

(* Patching an address inside the section leaves a section of instructions. *)
LEMMA PatchIs ==
    ASSUME text \in Seq(InstrType), NEW at \in Nat, NEW x \in Int
    PROVE  Patch(at, x) \in Seq(InstrType) /\ Len(Patch(at, x)) = Len(text)
  <1>1. CASE at + 1 \in 1..Len(text)
    <2>1. text[at + 1] \in InstrType
      BY <1>1
    <2>2. [text[at + 1] EXCEPT !.x = x] \in InstrType
      BY <2>1 DEF InstrType
    <2>3. Patch(at, x) = [text EXCEPT ![at + 1] = [text[at + 1] EXCEPT !.x = x]]
      BY <1>1 DEF Patch
    <2> QED BY <1>1, <2>2, <2>3, ExceptSeq
  <1>2. CASE at + 1 \notin 1..Len(text)
    <2>1. Patch(at, x) = text
      BY <1>2, LenProperties DEF Patch
    <2> QED BY <2>1
  <1> QED BY <1>1, <1>2

(* The invariant, by the parts an action disturbs.                         *)
Nodes     == Exprs \union Stmts \union {Next1, Stop}
SourceOK  == prog \in Seq(Nodes) /\ pc \in Nat \ {0} /\ absent \in Nat /\ Complete
CodeOK    == text \in Seq(InstrType) /\ relas \in Seq(RelaType)
ControlOK == todo \in Seq(ItemType) /\ reg \in Int /\ ControlLinked /\ CallsPending

(* What a step that reads at most one node does to what was read: absent   *)
(* operands are counted, and the second pass finds none.                   *)
SourceStep ==
    /\ SourceOK'
    /\ absent' = 0 => absent = 0
    /\ phase = "pass2" => absent' = 0

(* What an action that leaves the scopes alone has to show.                *)
LEMMA HandlerInv ==
    ASSUME CompilerInv, Running, UNCHANGED <<control, storage, start>>,
           SourceStep, CodeOK', ControlOK', SitesSaved'
    PROVE  CompilerInv'
  <1> USE DEF CompilerInv, control, storage
  <1>1. TypeOK' /\ Complete'
    BY DEF TypeOK, SourceStep, SourceOK, Nodes, CodeOK, ControlOK
  <1>2. ControlLinked' /\ CallsPending'
    BY DEF ControlOK
  <1>3. TablesOpen' /\ FunctionsFirst'
    BY DEF TablesOpen, FunctionsFirst, Running, depth, FunctionNames
  <1>4. Reported'
    BY DEF Reported, Running, SourceStep
  <1> QED BY <1>1, <1>2, <1>3, <1>4

(* A step of a handler that touches no scope keeps the invariant when it   *)
(* keeps control, code and source right.                                   *)
LEMMA KeepInv ==
    ASSUME CompilerInv, Running, Keep, SourceStep, CodeOK', ControlOK'
    PROVE  CompilerInv'
  <1>1. SitesSaved'
    BY DEF CompilerInv, Keep, aux, SitesSaved, UserCalls, SourceStep
  <1> QED BY <1>1, HandlerInv DEF Keep

(* The depths carried by the item on top are the actual ones.              *)
LEMMA HeadFacts ==
    ASSUME CompilerInv, NEW k, At(k)
    PROVE  /\ Running /\ todo # <<>> /\ Head(todo) \in ItemType /\ Head(todo).k = k
           /\ Tail(todo) \in Seq(ItemType)
           /\ level = Head(todo).h /\ level = reg + absent /\ depth = Head(todo).d
           /\ absent \in Nat /\ reg \in Int /\ level \in Nat /\ depth \in Scopes /\ depth \in Nat
           /\ NetRegs(k) \in Int /\ NetScopes(k) \in Int
           /\ level + NetRegs(k) \in Nat /\ depth + NetScopes(k) \in Scopes
           /\ Linked(Tail(todo), level + NetRegs(k), depth + NetScopes(k), 0, 2)
  <1>1. /\ Running /\ todo # <<>> /\ Head(todo).k = k /\ todo \in Seq(ItemType)
        /\ reg \in Int /\ absent \in Nat /\ level = reg + absent
    BY DEF At, CompilerInv, TypeOK, level
  <1>2. Linked(todo, level, depth, 0, 2)
    BY <1>1 DEF CompilerInv, ControlLinked
  <1>3. /\ Head(todo) \in ItemType /\ Tail(todo) \in Seq(ItemType)
        /\ level = Head(todo).h /\ depth = Head(todo).d
        /\ Linked(Tail(todo), level + NetRegs(k), depth + NetScopes(k), 0, 2)
    BY <1>1, <1>2, LinkedTail
  <1>4. /\ level \in Nat /\ depth \in Scopes
        /\ NetRegs(k) \in Int /\ NetScopes(k) \in Int
    BY <1>1, <1>3, ItemDepths
  <1>5. level + NetRegs(k) \in Nat /\ depth + NetScopes(k) \in Scopes
    <2>1. CASE Tail(todo) = <<>>
      <3>1. level + NetRegs(k) = 0 /\ depth + NetScopes(k) = 2
        BY <1>3, <2>1 DEF Linked
      <3> QED BY <3>1 DEF Scopes
    <2>2. CASE Tail(todo) # <<>>
      <3> DEFINE t == Head(Tail(todo))
      <3>1. t \in ItemType /\ level + NetRegs(k) = t.h /\ depth + NetScopes(k) = t.d
        BY <1>3, <2>2, LinkedTail
      <3> QED BY <3>1, ItemDepths
    <2> QED BY <2>1, <2>2
  <1> QED BY <1>1, <1>3, <1>4, <1>5 DEF Scopes

(* Item a takes the depths <<h, d>> to <<e, f>>, and a sequence of items   *)
(* does when each starts where the one before it stops.                    *)
Pending(a) ==
    a.k = "args" => /\ absent = 0 => a.saved = Mask(a.h)
                    /\ a.id \in FunctionNames
Fits(a, h, d, e, f) ==
    /\ a \in ItemType /\ a.h = h /\ a.d = d
    /\ e = h + NetRegs(a.k) /\ f = d + NetScopes(a.k)
    /\ Pending(a)
Block(s, h, d, e, f) ==
    /\ s \in Seq(ItemType) /\ Linked(s, h, d, e, f)
    /\ \A i \in 1..Len(s) : Pending(s[i])

(* The block that does nothing.                                            *)
LEMMA BlockNone ==
    ASSUME NEW h, NEW d
    PROVE  Block(<<>>, h, d, h, d)
  <1>1. <<>> \in Seq(ItemType) /\ Len(<<>>) = 0
    BY EmptySeq
  <1>2. \A i \in 1..Len(<<>>) : Pending(<<>>[i])
    BY <1>1
  <1> QED BY <1>1, <1>2, LinkedNone DEF Block

(* A block of one item that fits.                                          *)
LEMMA BlockOne ==
    ASSUME NEW a, NEW h, NEW d, NEW e, NEW f, Fits(a, h, d, e, f)
    PROVE  Block(<<a>>, h, d, e, f)
  <1>1. Linked(<<a>>, h, d, e, f)
    BY LinkedOne DEF Fits
  <1>2. <<a>> \in Seq(ItemType)
    BY DEF Fits
  <1>3. \A i \in 1..Len(<<a>>) : Pending(<<a>>[i])
    BY DEF Fits
  <1> QED BY <1>1, <1>2, <1>3 DEF Block

(* Blocks that fit one after another make one that fits.                   *)
LEMMA BlockConcat ==
    ASSUME NEW s, NEW t, NEW h, NEW d, NEW e, NEW f, NEW g, NEW l,
           Block(s, h, d, e, f), Block(t, e, f, g, l)
    PROVE  Block(s \o t, h, d, g, l)
  <1>1. s \o t \in Seq(ItemType) /\ Linked(s \o t, h, d, g, l)
    BY LinkedConcat, ConcatProperties DEF Block
  <1>2. ASSUME NEW i \in 1..Len(s \o t)
        PROVE  Pending((s \o t)[i])
    <2>1. /\ s \in Seq(ItemType) /\ t \in Seq(ItemType)
          /\ Len(s) \in Nat /\ Len(t) \in Nat /\ Len(s \o t) = Len(s) + Len(t)
          /\ (s \o t)[i] = IF i <= Len(s) THEN s[i] ELSE t[i - Len(s)]
      BY ConcatProperties, LenProperties DEF Block
    <2>2. CASE i <= Len(s)
      BY <2>1, <2>2 DEF Block
    <2>3. CASE ~(i <= Len(s))
      <3>1. i - Len(s) \in 1..Len(t) /\ (s \o t)[i] = t[i - Len(s)]
        BY <2>1, <2>3
      <3> QED BY <3>1 DEF Block
    <2> QED BY <2>2, <2>3
  <1> QED BY <1>1, <1>2 DEF Block

(* A block of two items that fit.                                          *)
LEMMA BlockTwo ==
    ASSUME NEW a, NEW b, NEW h, NEW d, NEW e, NEW f, NEW g, NEW l,
           Fits(a, h, d, e, f), Fits(b, e, f, g, l)
    PROVE  Block(<<a, b>>, h, d, g, l)
  <1>1. Linked(<<a, b>>, h, d, g, l)
    BY LinkedTwo DEF Fits
  <1>2. <<a, b>> \in Seq(ItemType)
    BY DEF Fits
  <1>3. \A i \in 1..Len(<<a, b>>) : Pending(<<a, b>>[i])
    BY DEF Fits
  <1> QED BY <1>1, <1>2, <1>3 DEF Block

(* A block of three items that fit.                                        *)
LEMMA BlockThree ==
    ASSUME NEW a, NEW b, NEW c, NEW h, NEW d, NEW e, NEW f, NEW g, NEW l, NEW m, NEW n,
           Fits(a, h, d, e, f), Fits(b, e, f, g, l), Fits(c, g, l, m, n)
    PROVE  Block(<<a, b, c>>, h, d, m, n)
  <1>1. Linked(<<a, b, c>>, h, d, m, n)
    BY LinkedThree DEF Fits
  <1>2. <<a, b, c>> \in Seq(ItemType)
    BY DEF Fits
  <1>3. \A i \in 1..Len(<<a, b, c>>) : Pending(<<a, b, c>>[i])
    BY DEF Fits
  <1> QED BY <1>1, <1>2, <1>3 DEF Block

(* An item is replaced by a block that does the same to the depths.        *)
LEMMA Advance ==
    ASSUME CompilerInv, NEW k, At(k), NEW e, NEW f,
           e = level + NetRegs(k), f = depth + NetScopes(k),
           NEW block, Do(block), Block(block, level', depth', e, f), reg' \in Int,
           absent' \in Nat, absent' = 0 => absent = 0, FunctionNames' = FunctionNames
    PROVE  ControlOK'
  <1>1. Block(Tail(todo), e, f, 0, 2)
    <2>1. Tail(todo) \in Seq(ItemType) /\ Linked(Tail(todo), e, f, 0, 2)
      BY HeadFacts
    <2>2. ASSUME NEW i \in 1..Len(Tail(todo))
          PROVE  Pending(Tail(todo)[i])
      <3>1. todo \in Seq(ItemType) /\ todo # <<>>
        BY HeadFacts DEF CompilerInv, TypeOK
      <3>2. Len(Tail(todo)) = Len(todo) - 1 /\ Len(todo) \in Nat
        BY <3>1, HeadTailProperties, LenProperties
      <3>3. Tail(todo)[i] = todo[i + 1] /\ i + 1 \in 1..Len(todo)
        BY <3>1, <3>2, HeadTailProperties
      <3> QED BY <3>3 DEF CompilerInv, CallsPending, Pending
    <2> QED BY <2>1, <2>2 DEF Block
  <1>2. Block(todo', level', depth', 0, 2)
    BY <1>1, BlockConcat DEF Do
  <1>3. todo' \in Seq(ItemType) /\ ControlLinked'
    BY <1>2 DEF Block, ControlLinked
  <1>4. CallsPending'
    BY <1>2 DEF Block, CallsPending, Pending, Mask
  <1> QED BY <1>3, <1>4 DEF ControlOK

(* An item is done.                                                        *)
LEMMA Finish ==
    ASSUME CompilerInv, NEW k, At(k), Do(<<>>), FunctionNames' = FunctionNames,
           reg' = reg + NetRegs(k), depth' = depth + NetScopes(k), absent' = absent
    PROVE  ControlOK'
  <1>1. reg' \in Int /\ level' = level + NetRegs(k) /\ absent' \in Nat
    BY HeadFacts DEF level
  <1> QED BY <1>1, BlockNone, Advance

(* The same, when no scope is opened or closed.                            *)
LEMMA KeepDepth ==
    ASSUME CompilerInv, NEW k, At(k), Keep, NetScopes(k) = 0
    PROVE  depth' = depth /\ depth' = depth + NetScopes(k) /\ FunctionNames' = FunctionNames
  <1>1. depth \in Nat
    BY HeadFacts
  <1>2. depth' = depth
    BY DEF Keep, storage, depth
  <1>3. FunctionNames' = FunctionNames
    BY DEF Keep, storage, FunctionNames
  <1> QED BY <1>1, <1>2, <1>3

(* Replacing the head by a block with the same net effect, scopes kept.    *)
LEMMA AdvanceKeep ==
    ASSUME CompilerInv, NEW k, At(k), Keep, NetScopes(k) = 0,
           NEW e, e = level + NetRegs(k), reg' = reg, absent' = absent,
           NEW block, Do(block), Block(block, level, depth, e, depth)
    PROVE  ControlOK'
  <1>1. depth' = depth /\ depth = depth + NetScopes(k) /\ FunctionNames' = FunctionNames
    BY KeepDepth
  <1>2. reg' \in Int /\ absent' \in Nat /\ level' = level
    BY HeadFacts DEF level
  <1> QED BY <1>1, <1>2, Advance

(* Dropping the head once its net effect has happened, scopes kept.        *)
LEMMA FinishKeep ==
    ASSUME CompilerInv, NEW k, At(k), Keep, NetScopes(k) = 0, Do(<<>>),
           reg' = reg + NetRegs(k), absent' = absent
    PROVE  ControlOK'
  <1>1. depth' = depth + NetScopes(k) /\ FunctionNames' = FunctionNames
    BY KeepDepth
  <1> QED BY <1>1, Finish

(* The items the handlers push.                                            *)
LEMMA ExprFits ==
    ASSUME NEW h \in Nat, NEW d \in Scopes
    PROVE  Fits(Expr(h, d), h, d, h + 1, d)
  <1>1. Expr(h, d) \in ItemType
    BY DEF Expr, ItemType
  <1>2. Expr(h, d).h = h /\ Expr(h, d).d = d /\ Expr(h, d).k = "expr"
    BY DEF Expr
  <1>3. NetRegs("expr") = 1 /\ NetScopes("expr") = 0
    BY DEF NetRegs, NetScopes
  <1>4. Pending(Expr(h, d))
    BY DEF Expr, Pending
  <1>5. h + 1 = h + NetRegs("expr") /\ d = d + NetScopes("expr")
    BY <1>3 DEF Scopes
  <1> QED BY <1>1, <1>2, <1>4, <1>5, Zenon DEF Fits

(* A pending binary operator fits where its two operands are in registers. *)
LEMMA BinFits ==
    ASSUME NEW h \in Nat, NEW d \in Scopes, NEW op \in STRING
    PROVE  Fits(Bin(h, d, op), h, d, h - 1, d)
  <1>1. Bin(h, d, op) \in ItemType
    BY DEF Bin, ItemType
  <1>2. Bin(h, d, op).h = h /\ Bin(h, d, op).d = d /\ Bin(h, d, op).k = "bin"
    BY DEF Bin
  <1>3. NetRegs("bin") = -1 /\ NetScopes("bin") = 0
    BY DEF NetRegs, NetScopes
  <1>4. Pending(Bin(h, d, op))
    BY DEF Bin, Pending
  <1>5. h - 1 = h + NetRegs("bin") /\ d = d + NetScopes("bin")
    BY <1>3 DEF Scopes
  <1> QED BY <1>1, <1>2, <1>4, <1>5, Zenon DEF Fits

(* So does a pending indexed load,                                         *)
LEMMA LoadFits ==
    ASSUME NEW h \in Nat, NEW d \in Scopes, NEW s \in Symbol
    PROVE  Fits(Access("load", h, d, s), h, d, h, d)
  <1>1. Access("load", h, d, s) \in ItemType
    BY DEF Access, ItemType, Symbol
  <1>2. Access("load", h, d, s).h = h /\ Access("load", h, d, s).d = d /\ Access("load", h, d, s).k = "load"
    BY DEF Access
  <1>3. NetRegs("load") = 0 /\ NetScopes("load") = 0
    BY DEF NetRegs, NetScopes
  <1>4. Pending(Access("load", h, d, s))
    BY DEF Access, Pending
  <1>5. h = h + NetRegs("load") /\ d = d + NetScopes("load")
    BY <1>3 DEF Scopes
  <1> QED BY <1>1, <1>2, <1>4, <1>5, Zenon DEF Fits

(* a pending indexed store,                                                *)
LEMMA StoreFits ==
    ASSUME NEW h \in Nat, NEW d \in Scopes, NEW s \in Symbol
    PROVE  Fits(Access("store", h, d, s), h, d, h - 2, d)
  <1>1. Access("store", h, d, s) \in ItemType
    BY DEF Access, ItemType, Symbol
  <1>2. Access("store", h, d, s).h = h /\ Access("store", h, d, s).d = d /\ Access("store", h, d, s).k = "store"
    BY DEF Access
  <1>3. NetRegs("store") = -2 /\ NetScopes("store") = 0
    BY DEF NetRegs, NetScopes
  <1>4. Pending(Access("store", h, d, s))
    BY DEF Access, Pending
  <1>5. h - 2 = h + NetRegs("store") /\ d = d + NetScopes("store")
    BY <1>3 DEF Scopes
  <1> QED BY <1>1, <1>2, <1>4, <1>5, Zenon DEF Fits

(* a pending test of a condition,                                          *)
LEMMA TestFits ==
    ASSUME NEW h \in Nat, NEW d \in Scopes, NEW k \in {"test while", "test if", "test if else"},
           NEW cond \in Nat, NEW at \in Nat
    PROVE  Fits(Jump(k, h, d, cond, at), h, d, h - 1, d - 1)
  <1>1. Jump(k, h, d, cond, at) \in ItemType
    BY DEF Jump, ItemType
  <1>2. Jump(k, h, d, cond, at).h = h /\ Jump(k, h, d, cond, at).d = d /\ Jump(k, h, d, cond, at).k = k
    BY DEF Jump
  <1>3. NetRegs(k) = -1 /\ NetScopes(k) = -1
    BY DEF NetRegs, NetScopes
  <1>4. Pending(Jump(k, h, d, cond, at))
    BY DEF Jump, Pending
  <1>5. h - 1 = h + NetRegs(k) /\ d - 1 = d + NetScopes(k)
    BY <1>3 DEF Scopes
  <1> QED BY <1>1, <1>2, <1>4, <1>5, Zenon DEF Fits

(* the end of a loop, of a branch or of a function,                        *)
LEMMA JumpFits ==
    ASSUME NEW h \in Nat, NEW d \in Scopes, NEW k \in {"enddefine", "endwhile", "else", "endif"},
           NEW cond \in Nat, NEW at \in Nat
    PROVE  Fits(Jump(k, h, d, cond, at), h, d, h, d - 1)
  <1>1. Jump(k, h, d, cond, at) \in ItemType
    BY DEF Jump, ItemType
  <1>2. Jump(k, h, d, cond, at).h = h /\ Jump(k, h, d, cond, at).d = d /\ Jump(k, h, d, cond, at).k = k
    BY DEF Jump
  <1>3. NetRegs(k) = 0 /\ NetScopes(k) = -1
    BY DEF NetRegs, NetScopes
  <1>4. Pending(Jump(k, h, d, cond, at))
    BY DEF Jump, Pending
  <1>5. h = h + NetRegs(k) /\ d - 1 = d + NetScopes(k)
    BY <1>3 DEF Scopes
  <1> QED BY <1>1, <1>2, <1>4, <1>5, Zenon DEF Fits

(* a pending assignment,                                                   *)
LEMMA AssignFits ==
    ASSUME NEW h \in Nat, NEW d \in Scopes, NEW id \in STRING, NEW n \in Index, NEW at \in Nat
    PROVE  Fits(Assign(h, d, id, n, at), h, d, h - 1, d)
  <1>1. Assign(h, d, id, n, at) \in ItemType
    BY DEF Assign, ItemType
  <1>2. Assign(h, d, id, n, at).h = h /\ Assign(h, d, id, n, at).d = d /\ Assign(h, d, id, n, at).k = "assign"
    BY DEF Assign
  <1>3. NetRegs("assign") = -1 /\ NetScopes("assign") = 0
    BY DEF NetRegs, NetScopes
  <1>4. Pending(Assign(h, d, id, n, at))
    BY DEF Assign, Pending
  <1>5. h - 1 = h + NetRegs("assign") /\ d = d + NetScopes("assign")
    BY <1>3 DEF Scopes
  <1> QED BY <1>1, <1>2, <1>4, <1>5, Zenon DEF Fits

(* the use of one value (push, drop, out, return),                         *)
LEMMA UseFits ==
    ASSUME NEW h \in Nat, NEW d \in Scopes, NEW k \in {"push", "drop", "out", "return"}
    PROVE  Fits(It(k, h, d), h, d, h - 1, d)
  <1>1. It(k, h, d) \in ItemType
    BY DEF It, ItemType
  <1>2. It(k, h, d).h = h /\ It(k, h, d).d = d /\ It(k, h, d).k = k
    BY DEF It
  <1>3. NetRegs(k) = -1 /\ NetScopes(k) = 0
    BY DEF NetRegs, NetScopes
  <1>4. Pending(It(k, h, d))
    BY DEF It, Pending
  <1>5. h - 1 = h + NetRegs(k) /\ d = d + NetScopes(k)
    BY <1>3 DEF Scopes
  <1> QED BY <1>1, <1>2, <1>4, <1>5, Zenon DEF Fits

(* an item that needs nothing and leaves nothing,                          *)
LEMMA PlainFits ==
    ASSUME NEW h \in Nat, NEW d \in Scopes, NEW k \in {"stmt", "more", "not"}
    PROVE  Fits(It(k, h, d), h, d, h, d)
  <1>1. It(k, h, d) \in ItemType
    BY DEF It, ItemType
  <1>2. It(k, h, d).h = h /\ It(k, h, d).d = d /\ It(k, h, d).k = k
    BY DEF It
  <1>3. NetRegs(k) = 0 /\ NetScopes(k) = 0
    BY DEF NetRegs, NetScopes
  <1>4. Pending(It(k, h, d))
    BY DEF It, Pending
  <1>5. h = h + NetRegs(k) /\ d = d + NetScopes(k)
    BY <1>3 DEF Scopes
  <1> QED BY <1>1, <1>2, <1>4, <1>5, Zenon DEF Fits

(* and the arguments still to be compiled of a call.                       *)
LEMMA ArgsFits ==
    ASSUME NEW h \in Nat, NEW d \in Scopes, NEW id \in STRING, NEW left \in Nat,
           NEW given \in Int, NEW pushed \in Nat, NEW saved \in Register, absent = 0 => saved = Mask(h),
           id \in FunctionNames
    PROVE  Fits(Args(h, d, id, left, given, pushed, saved), h, d, h + 1, d)
  <1>1. Args(h, d, id, left, given, pushed, saved) \in ItemType
    BY DEF Args, ItemType
  <1>2. Args(h, d, id, left, given, pushed, saved).h = h /\ Args(h, d, id, left, given, pushed, saved).d = d /\ Args(h, d, id, left, given, pushed, saved).k = "args"
    BY DEF Args
  <1>3. NetRegs("args") = 1 /\ NetScopes("args") = 0
    BY DEF NetRegs, NetScopes
  <1>4. Pending(Args(h, d, id, left, given, pushed, saved))
    BY DEF Args, Pending
  <1>5. h + 1 = h + NetRegs("args") /\ d = d + NetScopes("args")
    BY <1>3 DEF Scopes
  <1> QED BY <1>1, <1>2, <1>4, <1>5, Zenon DEF Fits

(* A node lacks a number of operands; a statement lacks none.              *)
LEMMA AbsentIs ==
    /\ \A n \in Nodes : Absent(n) \in Nat
    /\ \A n \in Stmts \union {Next1, Stop} : Absent(n) = 0
    /\ \A n \in Exprs : n.k \notin {"bin", "not"} => Absent(n) = 0
  <1>1. Absent(Next1) = 0 /\ Absent(Stop) = 0
    BY DEF Next1, Stop, N, Absent
  <1>2. \A n \in Exprs : Absent(n) \in Nat /\ (n.k \notin {"bin", "not"} => Absent(n) = 0)
    BY NodesAssumption DEF Absent
  <1>3. \A n \in Stmts : Absent(n) = 0
    BY NodesAssumption
  <1>4. \A n \in Nodes : Absent(n) \in Nat
    <2>1. 0 \in Nat
      OBVIOUS
    <2> QED BY <1>1, <1>2, <1>3, <2>1, Zenon DEF Nodes
  <1>5. \A n \in Stmts \union {Next1, Stop} : Absent(n) = 0
    BY <1>1, <1>3, Zenon
  <1> QED BY <1>2, <1>4, <1>5, Zenon

(* What reading a node of the walk does to what was read.                  *)
LEMMA ReadIs ==
    ASSUME CompilerInv, NEW n, NEW choices, choices \subseteq Nodes, Read(n, choices)
    PROVE  SourceStep /\ n \in Nodes /\ absent' = absent + Absent(n)
  <1>1. /\ prog \in Seq(Nodes) /\ pc \in Nat \ {0} /\ absent \in Nat /\ Complete
        /\ phase = "pass2" => absent = 0
    BY DEF CompilerInv, TypeOK, Nodes, Reported
  <1>2. CASE /\ phase = "pass1" /\ n \in choices /\ prog' = Append(prog, n) /\ pc' = pc
             /\ absent' = absent + Absent(n)
    <2>1. n \in Nodes /\ Absent(n) \in Nat
      BY <1>2, AbsentIs
    <2>2. /\ prog' \in Seq(Nodes) /\ Len(prog) \in Nat /\ Len(prog') = Len(prog) + 1
          /\ \A i \in 1..Len(prog) : prog'[i] = prog[i]
          /\ prog'[Len(prog) + 1] = n
      BY <1>1, <1>2, <2>1, AppendProperties, LenProperties
    <2>3. absent' \in Nat /\ (absent' = 0 => absent = 0 /\ Absent(n) = 0)
      BY <1>1, <1>2, <2>1
    <2>4. ASSUME absent' = 0, NEW i \in 1..Len(prog')
          PROVE  Absent(prog'[i]) = 0
      <3>1. i \in 1..Len(prog) \/ i = Len(prog) + 1
        BY <2>2
      <3> QED BY <1>1, <2>2, <2>3, <2>4, <3>1 DEF Complete
    <2>5. Complete'
      BY <2>4 DEF Complete, Absent
    <2> QED BY <1>1, <1>2, <2>1, <2>2, <2>3, <2>5 DEF SourceOK, SourceStep
  <1>3. CASE /\ phase = "pass2" /\ pc <= Len(prog) /\ n = prog[pc] /\ pc' = pc + 1 /\ prog' = prog
             /\ absent' = absent + Absent(n)
    <2>1. pc \in 1..Len(prog) /\ n \in Nodes
      BY <1>1, <1>3, LenProperties
    <2>2. absent = 0 /\ Absent(n) = 0 /\ absent' = 0
      BY <1>1, <1>3, <2>1 DEF Complete
    <2>3. Complete'
      BY <1>1, <1>3, <2>2 DEF Complete, Absent
    <2> QED BY <1>1, <1>3, <2>1, <2>2, <2>3 DEF SourceOK, SourceStep
  <1> QED BY <1>2, <1>3 DEF Read

(* Reading an expression node keeps the recorded program well typed.       *)
LEMMA ReadExprIs ==
    ASSUME CompilerInv, NEW n \in Exprs, ReadExpr(n)
    PROVE  /\ SourceStep /\ At("expr") /\ absent' = absent + Absent(n)
           /\ n.k \notin {"bin", "not"} => absent' = absent
  <1>1. Bounded(Exprs) \subseteq Nodes
    BY DEF Bounded, Nodes
  <1>2. SourceStep /\ At("expr") /\ absent' = absent + Absent(n)
    BY <1>1, ReadIs DEF ReadExpr
  <1>3. absent \in Nat
    BY DEF CompilerInv, TypeOK
  <1> QED BY <1>2, <1>3, AbsentIs

(* So does reading a statement node.                                       *)
LEMMA ReadStmtIs ==
    ASSUME CompilerInv, NEW n \in Stmts, ReadStmt(n)
    PROVE  SourceStep /\ At("stmt") /\ absent' = absent
  <1>1. Bounded(Stmts) \subseteq Nodes
    BY DEF Bounded, Nodes
  <1>2. SourceStep /\ At("stmt") /\ absent' = absent + Absent(n)
    BY <1>1, ReadIs DEF ReadStmt
  <1>3. absent \in Nat /\ Absent(n) = 0
    BY AbsentIs DEF CompilerInv, TypeOK
  <1> QED BY <1>2, <1>3

(* So does reading nothing.                                                *)
LEMMA SourceKept ==
    ASSUME CompilerInv, UNCHANGED source
    PROVE  SourceStep /\ absent' = absent
  <1>1. absent' = absent /\ prog' = prog /\ pc' = pc
    BY DEF source
  <1>2. SourceOK'
    BY <1>1 DEF CompilerInv, TypeOK, SourceOK, Nodes, Complete, Absent
  <1> QED BY <1>1, <1>2 DEF SourceStep, CompilerInv, Reported

(* What emitted code does to the section.                                  *)
LEMMA EmitIs ==
    ASSUME CompilerInv, NEW list \in Seq(InstrType), Emit(list)
    PROVE  text' \in Seq(InstrType)
  <1>1. text \in Seq(InstrType) /\ text' = text \o list
    BY DEF CompilerInv, TypeOK, Emit
  <1> QED BY <1>1, ConcatProperties

(* A relocation is a well-typed entry.                                     *)
LEMMA RelaIs ==
    ASSUME NEW vis, NEW at \in Nat, NEW addend \in Int
    PROVE  RelaOf(vis, at, addend) \in Seq(RelaType)
  <1>1. Rela(at, "bss", addend) \in RelaType
    BY DEF Rela, RelaType
  <1>2. << Rela(at, "bss", addend) >> \in Seq(RelaType) /\ <<>> \in Seq(RelaType)
    BY <1>1, ShortSeqs, EmptySeq
  <1> QED BY <1>2, Zenon DEF RelaOf

(* The next address is a number.                                           *)
LEMMA AddressIs ==
    ASSUME CompilerInv
    PROVE  rip \in Nat /\ rip + 1 \in Nat
  BY LenProperties DEF CompilerInv, TypeOK, rip

(* Loads and stores are operations of the code.                            *)
LEMMA MemoryOps ==
    ASSUME NEW vis \in {"local", "global"}
    PROVE  /\ Load[vis] \in Opcodes /\ Loadx[vis] \in Opcodes
           /\ Store[vis] \in Opcodes /\ Storex[vis] \in Opcodes
  <1>1. CASE vis = "local"
    <2>1. /\ Load[vis] = "load local" /\ Loadx[vis] = "loadx local"
          /\ Store[vis] = "store local" /\ Storex[vis] = "storex local"
      BY <1>1 DEF Load, Loadx, Store, Storex
    <2> QED BY <2>1, OpcodesAre, Zenon
  <1>2. CASE vis = "global"
    <2>1. /\ Load[vis] = "load global" /\ Loadx[vis] = "loadx global"
          /\ Store[vis] = "store global" /\ Storex[vis] = "storex global"
      BY <1>2 DEF Load, Loadx, Store, Storex
    <2> QED BY <2>1, OpcodesAre, Zenon
  <1> QED BY <1>1, <1>2

(* The net effect of each kind of item, spelled out.                       *)
LEMMA NetTable ==
    /\ NetRegs("expr") = 1 /\ NetRegs("args") = 1 /\ NetRegs("store") = -2
    /\ NetRegs("bin") = -1 /\ NetRegs("assign") = -1 /\ NetRegs("push") = -1
    /\ NetRegs("drop") = -1 /\ NetRegs("out") = -1 /\ NetRegs("return") = -1
    /\ NetRegs("test while") = -1 /\ NetRegs("test if") = -1 /\ NetRegs("test if else") = -1
    /\ NetRegs("load") = 0 /\ NetRegs("not") = 0 /\ NetRegs("stmt") = 0 /\ NetRegs("more") = 0
    /\ NetRegs("enddefine") = 0 /\ NetRegs("endwhile") = 0 /\ NetRegs("else") = 0
    /\ NetRegs("endif") = 0
    /\ NetScopes("expr") = 0 /\ NetScopes("args") = 0 /\ NetScopes("store") = 0
    /\ NetScopes("bin") = 0 /\ NetScopes("assign") = 0 /\ NetScopes("push") = 0
    /\ NetScopes("drop") = 0 /\ NetScopes("out") = 0 /\ NetScopes("return") = 0
    /\ NetScopes("load") = 0 /\ NetScopes("not") = 0 /\ NetScopes("stmt") = 0
    /\ NetScopes("more") = 0
    /\ NetScopes("test while") = -1 /\ NetScopes("test if") = -1
    /\ NetScopes("test if else") = -1 /\ NetScopes("enddefine") = -1
    /\ NetScopes("endwhile") = -1 /\ NetScopes("else") = -1 /\ NetScopes("endif") = -1
  BY DEF NetRegs, NetScopes

(* Expressions.                                                            *)
LEMMA LoadNumInv ==
    ASSUME CompilerInv, compile_load_num
    PROVE  CompilerInv'
  <1>1. PICK n \in Exprs : /\ n.k = "num" /\ ReadExpr(n) /\ reg' = reg + 1
                           /\ Emit(<< I("mov imm", Mask(reg + 1), 0, n.n) >>)
                           /\ Do(<<>>) /\ Keep /\ UNCHANGED relas
    BY DEF compile_load_num
  <1>2. SourceStep /\ At("expr") /\ absent' = absent
    BY <1>1, ReadExprIs
  <1>3. reg \in Int /\ Running
    BY <1>2, HeadFacts
  <1>4. CodeOK'
    <2>1. Mask(reg + 1) \in Register /\ n.n \in Int
      BY <1>3, MaskType, NodesAssumption DEF Node
    <2>2. << I("mov imm", Mask(reg + 1), 0, n.n) >> \in Seq(InstrType)
      <3>1. I("mov imm", Mask(reg + 1), 0, n.n) \in InstrType
        BY <2>1, OpcodesAre, Zero, InstrIs, Zenon
      <3> QED BY <3>1, ShortSeqs
    <2>3. text' \in Seq(InstrType)
      BY <1>1, <2>2, EmitIs
    <2> QED BY <1>1, <2>3 DEF CodeOK, CompilerInv, TypeOK
  <1>5. ControlOK'
    BY <1>1, <1>2, NetTable, FinishKeep
  <1> QED BY <1>1, <1>2, <1>3, <1>4, <1>5, KeepInv

(* compile_expr of an identifier.                                          *)
LEMMA LoadVariableInv ==
    ASSUME CompilerInv, LoadVariable
    PROVE  CompilerInv'
  <1>1. PICK n \in Exprs :
          /\ n.k = "var" /\ ReadExpr(n) /\ Found(n.id)
          /\ LET s == find_symbol(n.id) IN
             \/ /\ reg' = reg + 1
                /\ relas' = relas \o RelaOf(s.vis, rip, s.addend)
                /\ Emit(<< I(Load[s.vis], Mask(reg + 1), 0, s.addend) >>)
                /\ Do(<<>>)
             \/ /\ Do(<< Expr(level, depth), Access("load", level + 1, depth, s) >>)
                /\ UNCHANGED <<reg, code, sp>>
          /\ Keep
    BY DEF LoadVariable
  <1> DEFINE s == find_symbol(n.id)
  <1>2. SourceStep /\ At("expr") /\ absent' = absent
    BY <1>1, ReadExprIs
  <1>3. /\ reg \in Int /\ level \in Nat /\ Running /\ depth \in Scopes /\ depth \in Nat
        /\ s \in Symbol /\ s.vis \in {"local", "global"} /\ s.addend \in Int
    <2>1. s \in Symbol
      BY <1>1, SymbolFound DEF CompilerInv, TypeOK
    <2> HIDE DEF s
    <2> QED BY <1>2, <2>1, HeadFacts DEF Symbol
  <1> HIDE DEF s
  <1>4. CASE /\ reg' = reg + 1
             /\ relas' = relas \o RelaOf(s.vis, rip, s.addend)
             /\ Emit(<< I(Load[s.vis], Mask(reg + 1), 0, s.addend) >>)
             /\ Do(<<>>)
    <2>1. Mask(reg + 1) \in Register
      BY <1>3, MaskType
    <2>2. I(Load[s.vis], Mask(reg + 1), 0, s.addend) \in InstrType
      BY <1>3, <2>1, MemoryOps, Zero, InstrIs
    <2>3. text' \in Seq(InstrType)
      BY <1>4, <2>2, ShortSeqs, EmitIs
    <2>4. relas' \in Seq(RelaType)
      BY <1>3, <1>4, AddressIs, RelaIs, ConcatProperties DEF CompilerInv, TypeOK
    <2>5. CodeOK'
      BY <2>3, <2>4 DEF CodeOK
    <2>6. ControlOK'
      BY <1>1, <1>2, <1>4, NetTable, FinishKeep
    <2> QED BY <1>1, <1>2, <1>3, <2>5, <2>6, KeepInv
  <1>5. CASE /\ Do(<< Expr(level, depth), Access("load", level + 1, depth, s) >>)
             /\ UNCHANGED <<reg, code, sp>>
    <2>1. CodeOK'
      BY <1>5 DEF CodeOK, code, CompilerInv, TypeOK
    <2>2. Block(<< Expr(level, depth), Access("load", level + 1, depth, s) >>,
                level, depth, level + 1, depth)
      <3>1. level + 1 \in Nat
        BY <1>3
      <3> QED BY <1>3, <3>1, ExprFits, LoadFits, BlockTwo, Zenon
    <2>3. ControlOK'
      <3>1. level + 1 = level + NetRegs("expr") /\ reg' = reg /\ NetScopes("expr") = 0
        BY <1>3, <1>5, NetTable
      <3> QED BY <1>1, <1>2, <1>5, <2>2, <3>1, AdvanceKeep
    <2> QED BY <1>1, <1>2, <1>3, <2>1, <2>3, KeepInv
  <1> QED BY <1>1, <1>4, <1>5 DEF s

(* Facts at the head of the control stack, for each kind of item.          *)
LEMMA HeadIs ==
    ASSUME CompilerInv, NEW k, At(k)
    PROVE  Running /\ reg \in Int /\ level \in Nat /\ depth \in Scopes /\ depth \in Nat
  BY HeadFacts

(* The indexed load after its index.                                       *)
LEMMA LoadElementInv ==
    ASSUME CompilerInv, LoadElement
    PROVE  CompilerInv'
  <1> DEFINE it == Head(todo)
  <1>1. /\ At("load") /\ Do(<<>>) /\ Keep /\ UNCHANGED source /\ reg' = reg
        /\ relas' = relas \o RelaOf(it.vis, rip, it.addend)
        /\ Emit(<< I(Loadx[it.vis], Mask(reg), Mask(reg), it.addend) >>)
    BY DEF LoadElement
  <1>2. it \in ItemType /\ it.k = "load" /\ Running /\ reg \in Int /\ level \in Nat
    BY <1>1, HeadFacts
  <1>3. it.vis \in {"local", "global"} /\ it.addend \in Int
    BY <1>2 DEF ItemType
  <1> HIDE DEF it
  <1>4. CodeOK'
    <2>1. Mask(reg) \in Register
      BY <1>2, MaskType
    <2>2. I(Loadx[it.vis], Mask(reg), Mask(reg), it.addend) \in InstrType
      BY <1>3, <2>1, MemoryOps, InstrIs
    <2>3. text' \in Seq(InstrType)
      BY <1>1, <2>2, ShortSeqs, EmitIs
    <2>4. relas' \in Seq(RelaType)
      BY <1>1, <1>3, AddressIs, RelaIs, ConcatProperties DEF CompilerInv, TypeOK
    <2> QED BY <2>3, <2>4 DEF CodeOK
  <1>5. ControlOK'
    <2>1. reg' = reg + NetRegs("load") /\ NetScopes("load") = 0
      <3>1. NetRegs("load") = 0 /\ NetScopes("load") = 0
        BY NetTable
      <3> QED BY <1>1, <1>2, <3>1
    <2> QED BY <1>1, <2>1, SourceKept, FinishKeep
  <1> QED BY <1>1, <1>2, <1>4, <1>5, SourceKept, KeepInv

(* Short sequences put together.                                           *)
LEMMA ShortConcat ==
    ASSUME NEW a, NEW b, NEW c
    PROVE  /\ <<a>> \o <<b>> = <<a, b>> /\ <<a, b>> \o <<c>> = <<a, b, c>>
           /\ <<>> \o <<c>> = <<c>>
  <1> DEFINE S == {a, b, c}
  <1>1. /\ <<a>> \in Seq(S) /\ <<b>> \in Seq(S) /\ <<c>> \in Seq(S)
        /\ <<a, b>> \in Seq(S)
    OBVIOUS
  <1> HIDE DEF S
  <1>2. ASSUME NEW u \in Seq(S), NEW v \in Seq(S), Len(u) = Len(v), Len(u) \in {2, 3},
               u[1] = v[1], u[2] = v[2], Len(u) = 3 => u[3] = v[3]
        PROVE  u = v
    <2>1. \A i \in 1..Len(u) : u[i] = v[i]
      BY <1>2
    <2> QED BY <1>2, <2>1, SeqEqual
  <1>3. <<a>> \o <<b>> = <<a, b>>
    <2> DEFINE u == <<a>> \o <<b>>
               v == <<a, b>>
    <2>1. /\ u \in Seq(S) /\ Len(u) = 2 /\ u[1] = a /\ u[2] = b
          /\ v \in Seq(S) /\ Len(v) = 2 /\ v[1] = a /\ v[2] = b
      BY <1>1, ConcatProperties
    <2> HIDE DEF u, v
    <2>2. u = v
      BY <1>2, <2>1
    <2> QED BY <2>2 DEF u, v
  <1>4. <<a, b>> \o <<c>> = <<a, b, c>>
    <2> DEFINE u == <<a, b>> \o <<c>>
               v == <<a, b, c>>
    <2>1. /\ u \in Seq(S) /\ Len(u) = 3 /\ u[1] = a /\ u[2] = b /\ u[3] = c
          /\ v \in Seq(S) /\ Len(v) = 3 /\ v[1] = a /\ v[2] = b /\ v[3] = c
      BY <1>1, ConcatProperties DEF S
    <2> HIDE DEF u, v
    <2>2. u = v
      BY <1>2, <2>1
    <2> QED BY <2>2 DEF u, v
  <1>5. <<>> \o <<c>> = <<c>>
    BY <1>1, ConcatEmptySeq
  <1> QED BY <1>3, <1>4, <1>5

(* What is left of one operand or two.                                     *)
LEMMA Operands ==
    ASSUME NEW a, NEW b
    PROVE  /\ SubSeq(<<a, b>>, 1, 2) = <<a, b>> /\ SubSeq(<<a, b>>, 2, 2) = <<b>>
           /\ SubSeq(<<a, b>>, 3, 2) = <<>>
           /\ SubSeq(<<a>>, 1, 1) = <<a>> /\ SubSeq(<<a>>, 2, 1) = <<>>
  <1> DEFINE S == {a, b}
  <1>1. /\ <<a, b>> \in Seq(S) /\ Len(<<a, b>>) = 2 /\ <<a, b>>[1] = a /\ <<a, b>>[2] = b
        /\ <<a>> \in Seq(S) /\ Len(<<a>>) = 1 /\ <<a>>[1] = a
        /\ <<b>> \in Seq(S) /\ Len(<<b>>) = 1 /\ <<b>>[1] = b
    OBVIOUS
  <1> DEFINE two  == SubSeq(<<a, b>>, 1, 2)
             last == SubSeq(<<a, b>>, 2, 2)
             one  == SubSeq(<<a>>, 1, 1)
  <1>2. /\ two \in Seq(S) /\ Len(two) = 2 /\ two[1] = a /\ two[2] = b
        /\ last \in Seq(S) /\ Len(last) = 1 /\ last[1] = b
        /\ one \in Seq(S) /\ Len(one) = 1 /\ one[1] = a
    <2>1. /\ two \in Seq(S) /\ Len(two) = 2
          /\ \A i \in 1..(2 - 1 + 1) : two[i] = <<a, b>>[1 + i - 1]
      <3>1. \A i \in 1..2 : <<a, b>>[i] \in S
        BY <1>1
      <3> QED BY <3>1, SubSeqProperties
    <2>2. /\ last \in Seq(S) /\ Len(last) = 1
          /\ \A i \in 1..(2 - 2 + 1) : last[i] = <<a, b>>[2 + i - 1]
      <3>1. \A i \in 2..2 : <<a, b>>[i] \in S
        BY <1>1
      <3> QED BY <3>1, SubSeqProperties
    <2>3. /\ one \in Seq(S) /\ Len(one) = 1
          /\ \A i \in 1..(1 - 1 + 1) : one[i] = <<a>>[1 + i - 1]
      <3>1. \A i \in 1..1 : <<a>>[i] \in S
        BY <1>1
      <3> QED BY <3>1, SubSeqProperties
    <2> HIDE DEF two, last, one
    <2> QED BY <1>1, <2>1, <2>2, <2>3
  <1>3. two = <<a, b>> /\ last = <<b>> /\ one = <<a>>
    <2> HIDE DEF two, last, one
    <2> QED BY <1>1, <1>2, SeqEqual
  <1>4. SubSeq(<<a, b>>, 3, 2) = <<>> /\ SubSeq(<<a>>, 2, 1) = <<>>
    BY SubSeqEmpty
  <1> HIDE DEF S, two, last, one
  <1>5. /\ SubSeq(<<a, b>>, 1, 2) = <<a, b>> /\ SubSeq(<<a, b>>, 2, 2) = <<b>>
        /\ SubSeq(<<a>>, 1, 1) = <<a>>
    BY <1>3 DEF two, last, one
  <1> QED BY <1>4, <1>5, Zenon

(* What a binary operator puts on the control stack,                       *)
LEMMA BinaryDo ==
    ASSUME BinaryExpr
    PROVE  \E n \in Exprs :
              LET left  == Expr(level, depth)
                  right == Expr(level + 1, depth)
                  op    == Bin(level + 2, depth, n.id)
              IN  /\ n.k = "bin" /\ ReadExpr(n) /\ Keep /\ UNCHANGED <<reg, code, sp>>
                  /\ Do(<<left, right, op>>) \/ Do(<<right, op>>) \/ Do(<<op>>)
  <1>1. PICK n \in Exprs :
          /\ n.k = "bin" /\ ReadExpr(n)
          /\ Do(SubSeq(<< Expr(level, depth), Expr(level + 1, depth) >>, n.n + 1, 2)
                   \o << Bin(level + 2, depth, n.id) >>)
          /\ Keep /\ UNCHANGED <<reg, code, sp>>
    BY DEF BinaryExpr
  <1> DEFINE left  == Expr(level, depth)
             right == Expr(level + 1, depth)
             op    == Bin(level + 2, depth, n.id)
  <1>2. Do(SubSeq(<<left, right>>, n.n + 1, 2) \o <<op>>) /\ n.n \in 0..2
    BY <1>1, NodesAssumption
  <1> HIDE DEF left, right, op
  <1>3. /\ SubSeq(<<left, right>>, 1, 2) = <<left, right>>
        /\ SubSeq(<<left, right>>, 2, 2) = <<right>>
        /\ SubSeq(<<left, right>>, 3, 2) = <<>>
    BY Operands, Zenon
  <1>4. /\ <<left, right>> \o <<op>> = <<left, right, op>> /\ <<right>> \o <<op>> = <<right, op>>
        /\ <<>> \o <<op>> = <<op>>
    BY ShortConcat, Zenon
  <1>5. n.n + 1 = 1 \/ n.n + 1 = 2 \/ n.n + 1 = 3
    BY <1>2
  <1>6. Do(<<left, right, op>>) \/ Do(<<right, op>>) \/ Do(<<op>>)
    BY <1>2, <1>3, <1>4, <1>5, Zenon
  <1> QED BY <1>1, <1>6 DEF left, right, op

(* and a negation.                                                         *)
LEMMA NotDo ==
    ASSUME NotExpr
    PROVE  \E n \in Exprs :
              LET operand == Expr(level, depth)
                  not     == It("not", level + 1, depth)
              IN  /\ n.k = "not" /\ ReadExpr(n) /\ Keep /\ UNCHANGED <<reg, code, sp>>
                  /\ Do(<<operand, not>>) \/ Do(<<not>>)
  <1>1. PICK n \in Exprs :
          /\ n.k = "not" /\ ReadExpr(n)
          /\ Do(SubSeq(<< Expr(level, depth) >>, n.n + 1, 1) \o << It("not", level + 1, depth) >>)
          /\ Keep /\ UNCHANGED <<reg, code, sp>>
    BY DEF NotExpr
  <1> DEFINE operand == Expr(level, depth)
             not     == It("not", level + 1, depth)
  <1>2. Do(SubSeq(<<operand>>, n.n + 1, 1) \o <<not>>) /\ n.n \in 0..1
    BY <1>1, NodesAssumption
  <1> HIDE DEF operand, not
  <1>3. SubSeq(<<operand>>, 1, 1) = <<operand>> /\ SubSeq(<<operand>>, 2, 1) = <<>>
    BY Operands, Zenon
  <1>4. <<operand>> \o <<not>> = <<operand, not>> /\ <<>> \o <<not>> = <<not>>
    BY ShortConcat, Zenon
  <1>5. n.n + 1 = 1 \/ n.n + 1 = 2
    BY <1>2
  <1>6. Do(<<operand, not>>) \/ Do(<<not>>)
    BY <1>2, <1>3, <1>4, <1>5, Zenon
  <1> QED BY <1>1, <1>6 DEF operand, not

(* compile_expr of a binary operator, before its operands.                 *)
LEMMA BinaryInv ==
    ASSUME CompilerInv, BinaryExpr
    PROVE  CompilerInv'
  <1>1. PICK n \in Exprs :
          /\ n.k = "bin" /\ ReadExpr(n)
          /\ Do(SubSeq(<< Expr(level, depth), Expr(level + 1, depth) >>, n.n + 1, 2)
                   \o << Bin(level + 2, depth, n.id) >>)
          /\ Keep /\ UNCHANGED <<reg, code, sp>>
    BY DEF BinaryExpr
  <1> DEFINE left  == Expr(level, depth)
             right == Expr(level + 1, depth)
             op    == Bin(level + 2, depth, n.id)
             block == SubSeq(<<left, right>>, n.n + 1, 2) \o <<op>>
  <1>2. SourceStep /\ At("expr") /\ absent' = absent + n.n /\ n.n \in 0..2 /\ n.id \in STRING
    BY <1>1, ReadExprIs, NodesAssumption DEF Absent, Node
  <1>3. /\ Running /\ reg \in Int /\ level \in Nat /\ depth \in Scopes
        /\ absent \in Nat /\ level = reg + absent
    BY <1>2, HeadFacts
  <1>4. CodeOK'
    BY <1>1 DEF CodeOK, code, CompilerInv, TypeOK
  <1>5. /\ level + 1 \in Nat /\ level + 2 \in Nat
        /\ (level + 1) + 1 = level + 2 /\ (level + 2) - 1 = level + 1
    BY <1>3
  <1>6. Fits(left, level, depth, level + 1, depth)
    BY <1>3, <1>5, ExprFits
  <1>7. Fits(right, level + 1, depth, level + 2, depth)
    <2>1. Fits(right, level + 1, depth, (level + 1) + 1, depth)
      BY <1>3, <1>5, ExprFits, Zenon
    <2> QED BY <1>5, <2>1
  <1>8. Fits(op, level + 2, depth, level + 1, depth)
    <2>1. Fits(op, level + 2, depth, (level + 2) - 1, depth)
      BY <1>2, <1>3, <1>5, BinFits, Zenon
    <2> QED BY <1>5, <2>1
  <1> HIDE DEF left, right, op
  <1>9. Block(block, level + n.n, depth, level + 1, depth)
    <2>1. CASE n.n = 0
      <3>1. block = <<left, right, op>> /\ level + n.n = level
        <4>1. level + n.n = level /\ n.n + 1 = 1
          BY <1>3, <2>1
        <4>2. SubSeq(<<left, right>>, 1, 2) = <<left, right>>
          BY Operands, Zenon
        <4>3. <<left, right>> \o <<op>> = <<left, right, op>>
          BY ShortConcat, Zenon
        <4> QED BY <4>1, <4>2, <4>3
      <3> QED BY <1>6, <1>7, <1>8, <3>1, BlockThree, Zenon
    <2>2. CASE n.n = 1
      <3>1. block = <<right, op>> /\ level + n.n = level + 1
        <4>1. level + n.n = level + 1 /\ n.n + 1 = 2
          BY <1>3, <2>2
        <4>2. SubSeq(<<left, right>>, 2, 2) = <<right>>
          BY Operands, Zenon
        <4>3. <<right>> \o <<op>> = <<right, op>>
          BY ShortConcat, Zenon
        <4> QED BY <4>1, <4>2, <4>3
      <3> QED BY <1>7, <1>8, <3>1, BlockTwo, Zenon
    <2>3. CASE n.n = 2
      <3>1. block = <<op>> /\ level + n.n = level + 2
        <4>1. level + n.n = level + 2 /\ n.n + 1 = 3
          BY <1>3, <2>3
        <4>2. SubSeq(<<left, right>>, 3, 2) = <<>>
          BY Operands, Zenon
        <4>3. <<>> \o <<op>> = <<op>>
          BY ShortConcat, Zenon
        <4> QED BY <4>1, <4>2, <4>3
      <3> QED BY <1>8, <3>1, BlockOne, Zenon
    <2> QED BY <1>2, <2>1, <2>2, <2>3
  <1>10. ControlOK'
    <2>1. level + 1 = level + NetRegs("expr") /\ NetScopes("expr") = 0
      BY NetTable
    <2>2. reg' \in Int /\ level' = level + n.n /\ absent' \in Nat /\ (absent' = 0 => absent = 0)
      BY <1>1, <1>2, <1>3 DEF level
    <2>3. depth' = depth /\ depth' = depth + NetScopes("expr") /\ FunctionNames' = FunctionNames
      BY <1>1, <1>2, <2>1, KeepDepth
    <2>5. Do(block)
      BY <1>1 DEF left, right, op
    <2> HIDE DEF block
    <2>4. Block(block, level', depth', level + 1, depth)
      BY <1>9, <2>2, <2>3
    <2> QED BY <1>2, <2>1, <2>2, <2>3, <2>4, <2>5, Advance
  <1> QED BY <1>1, <1>2, <1>3, <1>4, <1>10, KeepInv

(* compile_expr_add and its like, after the operands.                      *)
LEMMA BinInv ==
    ASSUME CompilerInv, compile_expr_bin
    PROVE  CompilerInv'
  <1>1. /\ At("bin") /\ Head(todo).op \in Compiled /\ Emit(BinCode(Head(todo).op))
        /\ reg' = reg - 1 /\ Do(<<>>) /\ Keep /\ UNCHANGED source /\ relas' = relas
    BY DEF compile_expr_bin
  <1>2. Running /\ reg \in Int /\ reg' = reg + NetRegs("bin") /\ NetScopes("bin") = 0
    <2>1. reg \in Int /\ Running
      BY <1>1, HeadFacts
    <2> QED BY <1>1, <2>1, NetTable
  <1>3. CodeOK'
    <2>1. text' \in Seq(InstrType)
      BY <1>1, <1>2, BinIs, EmitIs
    <2> QED BY <1>1, <2>1 DEF CodeOK, CompilerInv, TypeOK
  <1>4. ControlOK'
    BY <1>1, <1>2, SourceKept, FinishKeep
  <1> QED BY <1>1, <1>2, <1>3, <1>4, SourceKept, KeepInv

(* compile_expr of a negation, before its operand,                         *)
LEMMA NotExprInv ==
    ASSUME CompilerInv, NotExpr
    PROVE  CompilerInv'
  <1> DEFINE operand  == Expr(level, depth)
             not      == It("not", level + 1, depth)
             block(n) == SubSeq(<<operand>>, n.n + 1, 1) \o <<not>>
  <1>1. PICK n \in Exprs :
          /\ n.k = "not" /\ ReadExpr(n) /\ Do(block(n))
          /\ Keep /\ UNCHANGED <<reg, code, sp>>
    BY DEF NotExpr
  <1>2. SourceStep /\ At("expr") /\ absent' = absent + n.n /\ n.n \in 0..1
    BY <1>1, ReadExprIs, NodesAssumption DEF Absent
  <1>3. /\ Running /\ reg \in Int /\ level \in Nat /\ depth \in Scopes
        /\ absent \in Nat /\ level = reg + absent
    BY <1>2, HeadFacts
  <1>4. CodeOK'
    BY <1>1 DEF CodeOK, code, CompilerInv, TypeOK
  <1>5. level + 1 \in Nat
    BY <1>3
  <1>6. Fits(operand, level, depth, level + 1, depth)
    BY <1>3, ExprFits
  <1>7. Fits(not, level + 1, depth, level + 1, depth)
    BY <1>3, <1>5, PlainFits
  <1> HIDE DEF operand, not
  <1>8. Block(block(n), level + n.n, depth, level + 1, depth)
    <2>1. CASE n.n = 0
      <3>1. block(n) = <<operand, not>> /\ level + n.n = level
        <4>1. level + n.n = level /\ n.n + 1 = 1
          BY <1>3, <2>1
        <4>2. SubSeq(<<operand>>, 1, 1) = <<operand>>
          BY Operands, Zenon
        <4>3. <<operand>> \o <<not>> = <<operand, not>>
          BY ShortConcat, Zenon
        <4> QED BY <4>1, <4>2, <4>3
      <3> QED BY <1>6, <1>7, <3>1, BlockTwo, Zenon
    <2>2. CASE n.n = 1
      <3>1. block(n) = <<not>> /\ level + n.n = level + 1
        <4>1. level + n.n = level + 1 /\ n.n + 1 = 2
          BY <1>3, <2>2
        <4>2. SubSeq(<<operand>>, 2, 1) = <<>>
          BY Operands, Zenon
        <4>3. <<>> \o <<not>> = <<not>>
          BY ShortConcat, Zenon
        <4> QED BY <4>1, <4>2, <4>3
      <3> QED BY <1>7, <3>1, BlockOne, Zenon
    <2> QED BY <1>2, <2>1, <2>2
  <1>9. ControlOK'
    <2>1. level + 1 = level + NetRegs("expr") /\ NetScopes("expr") = 0
      BY NetTable
    <2>2. reg' \in Int /\ level' = level + n.n /\ absent' \in Nat /\ (absent' = 0 => absent = 0)
      BY <1>1, <1>2, <1>3 DEF level
    <2>3. depth' = depth /\ depth' = depth + NetScopes("expr") /\ FunctionNames' = FunctionNames
      BY <1>1, <1>2, <2>1, KeepDepth
    <2> HIDE DEF block
    <2>4. Block(block(n), level', depth', level + 1, depth)
      BY <1>8, <2>2, <2>3
    <2> QED BY <1>1, <1>2, <2>1, <2>2, <2>3, <2>4, Advance
  <1> QED BY <1>1, <1>2, <1>3, <1>4, <1>9, KeepInv

(* and after it.                                                           *)
LEMMA NotInv ==
    ASSUME CompilerInv, compile_expr_not
    PROVE  CompilerInv'
  <1>1. /\ At("not") /\ Emit(<< I("xor 1", Mask(reg), 0, 1) >>)
        /\ Do(<<>>) /\ Keep /\ UNCHANGED source /\ reg' = reg /\ relas' = relas
    BY DEF compile_expr_not
  <1>2. Running /\ reg \in Int /\ reg' = reg + NetRegs("not") /\ NetScopes("not") = 0
    <2>1. NetRegs("not") = 0 /\ NetScopes("not") = 0
      BY NetTable
    <2>2. Running /\ reg \in Int /\ reg' = reg
      BY <1>1, HeadIs
    <2> QED BY <2>1, <2>2
  <1>3. CodeOK'
    <2>1. Mask(reg) \in Register
      BY <1>2, MaskType
    <2>2. I("xor 1", Mask(reg), 0, 1) \in InstrType
      BY <2>1, OpcodesAre, Zero, InstrIs, Zenon
    <2>3. text' \in Seq(InstrType)
      BY <1>1, <2>2, ShortSeqs, EmitIs
    <2> QED BY <1>1, <2>3 DEF CodeOK, CompilerInv, TypeOK
  <1>4. ControlOK'
    BY <1>1, <1>2, SourceKept, FinishKeep
  <1> QED BY <1>1, <1>2, <1>3, <1>4, SourceKept, KeepInv

(* A syntax error ends the pass.                                           *)
LEMMA FailInv ==
    ASSUME CompilerInv, Running, SourceStep, Fail
    PROVE  CompilerInv'
  <1> USE DEF CompilerInv
  <1>1. /\ UNCHANGED <<tree, top, scopes, bss, frame, reg, text, relas, start, sites>>
        /\ todo' = <<>>
        /\ \/ phase' = "end" /\ outcome' = "syntax"
           \/ phase' = "start" /\ outcome' = "second"
    BY DEF Fail, storage, code, aux
  <1>2. TypeOK' /\ Complete'
    BY <1>1, EmptySeq DEF TypeOK, SourceStep, SourceOK, Nodes
  <1>3. ControlLinked'
    BY <1>1 DEF ControlLinked, Running
  <1>4. CallsPending'
    BY <1>1, EmptySeq DEF CallsPending
  <1>5. SitesSaved'
    BY <1>1 DEF SitesSaved, UserCalls, SourceStep
  <1>6. TablesOpen' /\ FunctionsFirst'
    BY <1>1 DEF TablesOpen, FunctionsFirst, Running, depth, FunctionNames
  <1>7. Reported'
    <2>1. \/ phase' = "end" /\ outcome' = "syntax"
          \/ phase = "pass2" /\ phase' = "start" /\ outcome' = "second"
      BY DEF Fail, Running
    <2> QED BY <2>1 DEF Reported, Running, SourceStep
  <1> QED BY <1>2, <1>3, <1>4, <1>5, <1>6, <1>7

(* An error leaves an empty control stack and drops nothing else.          *)
LEMMA RejectedInv ==
    ASSUME CompilerInv, VariableRejected \/ OperatorRejected \/ CallRejected \/ CallStmtRejected
                        \/ AssignRejected \/ DefineRejected
    PROVE  CompilerInv'
  <1>1. ASSUME NEW n \in Exprs, ReadExpr(n), Fail
        PROVE  CompilerInv'
    BY <1>1, ReadExprIs, HeadIs, FailInv
  <1>2. ASSUME NEW n \in Stmts, ReadStmt(n), Fail
        PROVE  CompilerInv'
    BY <1>2, ReadStmtIs, HeadIs, FailInv
  <1>3. ASSUME Running, UNCHANGED source, Fail
        PROVE  CompilerInv'
    BY <1>3, SourceKept, FailInv
  <1>4. CASE VariableRejected
    BY <1>4, <1>1 DEF VariableRejected
  <1>5. CASE OperatorRejected
    BY <1>5, <1>3 DEF OperatorRejected, At
  <1>6. CASE CallRejected
    BY <1>6, <1>1, <1>3 DEF CallRejected, At
  <1>7. CASE CallStmtRejected
    BY <1>7, <1>2 DEF CallStmtRejected
  <1>8. CASE AssignRejected
    BY <1>8, <1>3 DEF AssignRejected, At
  <1>9. CASE DefineRejected
    BY <1>9, <1>3 DEF DefineRejected, AtTop
  <1> QED BY <1>4, <1>5, <1>6, <1>7, <1>8, <1>9

(* Calls.                                                                  *)
LEMMA CallBeginInv ==
    ASSUME CompilerInv, NEW n, n.id \in STRING, n.n \in Int, IsFunction(n.id),
           NEW k \in {"expr", "stmt"}, At(k), SourceStep, absent' = absent,
           NEW after, CallBegin(n, after),
           Block(after, level + 1, depth, level + NetRegs(k), depth)
    PROVE  CompilerInv'
  <1> DEFINE info  == find_symbol(n.id).info
             saved == Mask(reg)
             call  == Args(level, depth, n.id, info, n.n, compile_call_begin(info), saved)
  <1>1. /\ Emit(SaveCode(saved) \o PadCode(info)) /\ Do(<<call>> \o after)
        /\ Keep /\ reg' = reg /\ relas' = relas
    BY DEF CallBegin
  <1>2. /\ Running /\ reg \in Int /\ level \in Nat /\ depth \in Scopes
        /\ (absent = 0 => level = reg)
    BY <1>1, HeadFacts
  <1>3. info \in Nat /\ saved \in Register
    <2>1. find_symbol(n.id) \in Symbol
      BY SymbolFound DEF IsFunction, CompilerInv, TypeOK
    <2> QED BY <1>2, <2>1, MaskType DEF Symbol
  <1> HIDE DEF info
  <1>4. CodeOK'
    <2>1. SaveCode(saved) \o PadCode(info) \in Seq(InstrType)
      BY <1>3, SaveIs, PadIs, ConcatProperties
    <2>2. text' \in Seq(InstrType)
      BY <1>1, <2>1, EmitIs
    <2> QED BY <1>1, <2>2 DEF CodeOK, CompilerInv, TypeOK
  <1>5. Fits(call, level, depth, level + 1, depth)
    <2>1. compile_call_begin(info) \in Nat
      BY <1>3, PadIs
    <2>2. n.id \in FunctionNames
      BY FunctionNamed DEF CompilerInv, TypeOK
    <2>3. absent = 0 => saved = Mask(level)
      BY <1>2
    <2> HIDE DEF saved
    <2> QED BY <1>2, <1>3, <2>1, <2>2, <2>3, ArgsFits
  <1> HIDE DEF call
  <1>6. Block(<<call>> \o after, level, depth, level + NetRegs(k), depth)
    BY <1>1, <1>5, BlockOne, BlockConcat
  <1>7. NetScopes(k) = 0
    BY NetTable
  <1>8. ControlOK'
    BY <1>1, <1>2, <1>6, <1>7, AdvanceKeep
  <1> QED BY <1>1, <1>2, <1>4, <1>8, KeepInv

(* compile_call as an expression and as a statement.                       *)
LEMMA CallInv ==
    ASSUME CompilerInv, CallExpr \/ CallStmt
    PROVE  CompilerInv'
  <1>1. CASE CallExpr
    <2>1. PICK n \in Exprs : n.k = "call" /\ ReadExpr(n) /\ IsFunction(n.id) /\ CallBegin(n, <<>>)
      BY <1>1 DEF CallExpr
    <2>2. SourceStep /\ At("expr") /\ absent' = absent
      BY <2>1, ReadExprIs
    <2>3. n.id \in STRING /\ n.n \in Int
      BY NodesAssumption DEF Node
    <2>4. Block(<<>>, level + 1, depth, level + NetRegs("expr"), depth)
      <3>1. level + NetRegs("expr") = level + 1
        BY NetTable
      <3> QED BY <3>1, BlockNone
    <2> QED BY <2>1, <2>2, <2>3, <2>4, CallBeginInv, Zenon
  <1>2. CASE CallStmt
    <2>1. PICK n \in Stmts : /\ ReadStmt(n) /\ IsFunction(n.id)
                             /\ CallBegin(n, << It("drop", level + 1, depth) >>)
      BY <1>2 DEF CallStmt
    <2>2. SourceStep /\ At("stmt") /\ absent' = absent
      BY <2>1, ReadStmtIs
    <2>3. n.id \in STRING /\ n.n \in Int
      BY NodesAssumption DEF Node
    <2>4. Block(<< It("drop", level + 1, depth) >>, level + 1, depth, level + NetRegs("stmt"), depth)
      <3>1. level \in Nat /\ level + 1 \in Nat /\ depth \in Scopes
        BY <2>2, HeadIs
      <3>2. NetRegs("stmt") = 0
        BY NetTable
      <3>3. (level + 1) - 1 = level + NetRegs("stmt")
        BY <3>1, <3>2
      <3>4. Fits(It("drop", level + 1, depth), level + 1, depth, (level + 1) - 1, depth)
        BY <3>1, UseFits
      <3> QED BY <3>3, <3>4, BlockOne
    <2> QED BY <2>1, <2>2, <2>3, <2>4, CallBeginInv, Zenon
  <1> QED BY <1>1, <1>2

(* The next argument of a call.                                            *)
LEMMA CallArgumentInv ==
    ASSUME CompilerInv, CallArgument
    PROVE  CompilerInv'
  <1> DEFINE a == Head(todo)
             next == Args(level, depth, a.id, a.left - 1, a.given - 1, a.pushed, a.saved)
  <1>1. /\ At("args") /\ a.left > 0 /\ a.given > 0
        /\ Do(<< Expr(level, depth), It("push", level + 1, depth), next >>)
        /\ Keep /\ UNCHANGED source /\ reg' = reg /\ UNCHANGED code
    BY DEF CallArgument
  <1>2. /\ Running /\ reg \in Int /\ level \in Nat /\ level + 1 \in Nat /\ depth \in Scopes
        /\ a \in ItemType /\ a.k = "args" /\ a.h = level
    BY <1>1, HeadFacts
  <1>3. /\ a.id \in STRING /\ a.left - 1 \in Nat /\ a.given - 1 \in Int
        /\ a.pushed \in Nat /\ a.saved \in Register
    <2>1. a \in [k : {"args"}, h : Nat, d : Scopes, id : STRING, left : Nat, given : Int,
                 pushed : Nat, saved : Register]
      <3> HIDE DEF a
      <3> QED BY <1>2 DEF ItemType
    <2> HIDE DEF a
    <2> QED BY <1>1, <2>1
  <1>4. (absent = 0 => a.saved = Mask(level)) /\ a.id \in FunctionNames
    <2>1. todo \in Seq(ItemType) /\ todo # <<>>
      BY <1>1, HeadFacts DEF CompilerInv, TypeOK
    <2>2. a = todo[1] /\ 1 \in 1..Len(todo)
      BY <2>1, EmptySeq
    <2> QED BY <1>2, <2>2 DEF CompilerInv, CallsPending
  <1> HIDE DEF a
  <1>5. CodeOK'
    BY <1>1 DEF CodeOK, code, CompilerInv, TypeOK
  <1>6. Block(<< Expr(level, depth), It("push", level + 1, depth), next >>, level, depth, level + 1, depth)
    <2>1. Fits(Expr(level, depth), level, depth, level + 1, depth)
      BY <1>2, ExprFits
    <2>2. Fits(It("push", level + 1, depth), level + 1, depth, level, depth)
      <3>1. Fits(It("push", level + 1, depth), level + 1, depth, (level + 1) - 1, depth)
        BY <1>2, UseFits
      <3>2. (level + 1) - 1 = level
        BY <1>2
      <3> QED BY <3>1, <3>2
    <2>3. Fits(next, level, depth, level + 1, depth)
      BY <1>2, <1>3, <1>4, ArgsFits
    <2> QED BY <2>1, <2>2, <2>3, BlockThree
  <1>7. ControlOK'
    <2>1. level + 1 = level + NetRegs("args") /\ NetScopes("args") = 0
      BY NetTable
    <2> QED BY <1>1, <1>2, <1>6, <2>1, SourceKept, AdvanceKeep
  <1> QED BY <1>1, <1>2, <1>5, <1>7, SourceKept, KeepInv

(* An argument is pushed.                                                  *)
LEMMA PushArgumentInv ==
    ASSUME CompilerInv, PushArgument
    PROVE  CompilerInv'
  <1>1. /\ At("push") /\ Emit(<< I("push", Mask(reg), 0, 0) >>) /\ reg' = reg - 1
        /\ Do(<<>>) /\ Keep /\ UNCHANGED source /\ relas' = relas
    BY DEF PushArgument
  <1>2. Running /\ reg \in Int /\ reg' = reg + NetRegs("push") /\ NetScopes("push") = 0
    BY <1>1, HeadIs, NetTable
  <1>3. CodeOK'
    <2>1. Mask(reg) \in Register
      BY <1>2, MaskType
    <2>2. I("push", Mask(reg), 0, 0) \in InstrType
      BY <2>1, OpcodesAre, Zero, InstrIs, Zenon
    <2>3. text' \in Seq(InstrType)
      BY <1>1, <2>2, ShortSeqs, EmitIs
    <2> QED BY <1>1, <2>3 DEF CodeOK, CompilerInv, TypeOK
  <1>4. ControlOK'
    BY <1>1, <1>2, SourceKept, FinishKeep
  <1> QED BY <1>1, <1>2, <1>3, <1>4, SourceKept, KeepInv

(* The call itself, whose site records what it was compiled under.         *)
LEMMA CallEndInv ==
    ASSUME CompilerInv, CallEnd
    PROVE  CompilerInv'
  <1> DEFINE a    == Head(todo)
             call == I("call", 0, 0, Displace(find_symbol(a.id).offset, rip))
  <1>1. /\ At("args")
        /\ Emit(<<call>> \o compile_call_end(reg, a.pushed) \o RestoreCode(a.saved))
        /\ sites' = sites \union {Site("user", a.id, rip, reg, a.saved)}
        /\ reg' = reg + 1 /\ Do(<<>>)
        /\ UNCHANGED <<control, source, storage, relas, start, frames>>
    BY DEF CallEnd
  <1>2. /\ Running /\ reg \in Int /\ level \in Nat /\ level = reg + absent /\ depth \in Nat
        /\ a \in ItemType /\ a.k = "args" /\ a.h = level
    BY <1>1, HeadFacts
  <1>3. a.pushed \in Nat /\ a.saved \in Register
    <2>1. a \in [k : {"args"}, h : Nat, d : Scopes, id : STRING, left : Nat, given : Int,
                 pushed : Nat, saved : Register]
      <3> HIDE DEF a
      <3> QED BY <1>2 DEF ItemType
    <2> HIDE DEF a
    <2> QED BY <2>1
  <1>4. (absent = 0 => a.saved = Mask(level)) /\ a.id \in FunctionNames
    <2>1. todo \in Seq(ItemType) /\ todo # <<>>
      BY <1>1, HeadFacts DEF CompilerInv, TypeOK
    <2>2. a = todo[1] /\ 1 \in 1..Len(todo)
      BY <2>1, EmptySeq
    <2> QED BY <1>2, <2>2 DEF CompilerInv, CallsPending
  <1>5. Displace(find_symbol(a.id).offset, rip) \in Int
    <2>1. scopes \in Seq(Seq(Symbol)) /\ scopes # <<>>
      <3>1. scopes \in Seq(Seq(Symbol)) /\ depth \in Nat /\ depth >= 2
        BY <1>1, HeadFacts DEF CompilerInv, TypeOK, Scopes
      <3> QED BY <3>1, EmptySeq DEF depth
    <2>2. Found(a.id)
      BY <1>4, <2>1, FunctionFound
    <2>3. find_symbol(a.id) \in Symbol
      BY <2>1, <2>2, SymbolFound
    <2>4. find_symbol(a.id).offset \in Nat
      BY <2>3 DEF Symbol
    <2> QED BY <2>4, AddressIs DEF Displace
  <1> HIDE DEF a
  <1>6. CodeOK'
    <2>1. call \in InstrType
      BY <1>5, OpcodesAre, Zero, InstrIs, Zenon
    <2> HIDE DEF call
    <2>2. /\ <<call>> \in Seq(InstrType) /\ compile_call_end(reg, a.pushed) \in Seq(InstrType)
          /\ RestoreCode(a.saved) \in Seq(InstrType)
      BY <1>2, <1>3, <2>1, ShortSeqs, CallEndIs, SaveIs
    <2>3. <<call>> \o compile_call_end(reg, a.pushed) \o RestoreCode(a.saved) \in Seq(InstrType)
      BY <2>2, ConcatProperties
    <2>4. text' \in Seq(InstrType)
      BY <1>1, <2>3, EmitIs
    <2> QED BY <1>1, <2>4 DEF CodeOK, CompilerInv, TypeOK
  <1>7. ControlOK'
    <2>1. NetRegs("args") = 1 /\ NetScopes("args") = 0
      BY NetTable
    <2>2. depth' = depth /\ FunctionNames' = FunctionNames
      BY <1>1 DEF storage, depth, FunctionNames
    <2>3. reg' = reg + NetRegs("args") /\ depth' = depth + NetScopes("args")
      BY <1>1, <1>2, <2>1, <2>2
    <2> QED BY <1>1, <2>2, <2>3, SourceKept, Finish
  <1>8. SitesSaved'
    <2> DEFINE c == Site("user", a.id, rip, reg, a.saved)
    <2>1. absent = 0 => /\ c.live = reg /\ reg \in Nat
                        /\ c.saved = SaveCode(Mask(reg)) /\ c.restored = RestoreCode(Mask(reg))
      <3>1. absent = 0 => level = reg
        BY <1>2
      <3> QED BY <1>2, <1>4, <3>1 DEF Site
    <2> HIDE DEF c
    <2>2. UserCalls' \subseteq UserCalls \union {c}
      BY <1>1 DEF UserCalls, c
    <2>3. absent' = absent
      BY <1>1, SourceKept
    <2> QED BY <1>2, <2>1, <2>2, <2>3 DEF SitesSaved, CompilerInv, SaveCode, RestoreCode, Mask
  <1> QED BY <1>1, <1>2, <1>6, <1>7, <1>8, SourceKept, HandlerInv

(* Calls of the library.                                                   *)
LEMMA StdcallIs ==
    ASSUME CompilerInv, NEW sym \in {"scan", "print"}, NEW args \in {0, 1}, reg \in Int,
           absent' = 0 => absent = 0, compile_stdcall(sym, args)
    PROVE  CodeOK' /\ SitesSaved'
  <1> DEFINE pushes == [i \in 1..args |-> I("push", Mask(reg - i + 1), 0, 0)]
             before == PadCode(args) \o pushes
             call   == I(Library[sym], 0, 0, 0)
             end    == compile_call_end(reg - args, compile_call_begin(args))
             at     == rip + Len(before)
             c      == Site("std", sym, at, reg - args, 0)
  <1>1. /\ Emit(before \o <<call>> \o end)
        /\ relas' = Append(relas, Rela(at, sym, 0))
        /\ sites' = sites \union {c}
    BY DEF compile_stdcall
  <1>2. pushes \in Seq(InstrType)
    <2>1. \A i \in 1..args : Mask(reg - i + 1) \in Register
      BY MaskType
    <2>2. \A i \in 1..args : I("push", Mask(reg - i + 1), 0, 0) \in InstrType
      BY <2>1, OpcodesAre, Zero, InstrIs, Zenon
    <2>3. args \in Nat
      OBVIOUS
    <2> QED BY <2>2, <2>3
  <1> HIDE DEF pushes
  <1>3. before \in Seq(InstrType) /\ compile_call_begin(args) \in Nat
    BY <1>2, PadIs, ConcatProperties
  <1>4. call \in InstrType
    <2>1. CASE sym = "scan"
      <3>1. Library[sym] = "call scan"
        BY <2>1 DEF Library
      <3> QED BY <3>1, OpcodesAre, Zero, InstrIs, Zenon
    <2>2. CASE sym = "print"
      <3>1. Library[sym] = "call print"
        BY <2>2 DEF Library
      <3> QED BY <3>1, OpcodesAre, Zero, InstrIs, Zenon
    <2> QED BY <2>1, <2>2
  <1>5. end \in Seq(InstrType)
    BY <1>3, CallEndIs
  <1>6. at \in Nat
    BY <1>3, AddressIs, LenProperties
  <1>7. c.kind # "user"
    BY DEF Site
  <1> HIDE DEF before, call, end, at, c
  <1>8. text' \in Seq(InstrType)
    <2>1. before \o <<call>> \o end \in Seq(InstrType)
      BY <1>3, <1>4, <1>5, ShortSeqs, ConcatProperties
    <2> QED BY <1>1, <2>1, EmitIs
  <1>9. relas' \in Seq(RelaType)
    <2>1. Rela(at, sym, 0) \in RelaType
      BY <1>6 DEF Rela, RelaType
    <2> QED BY <1>1, <2>1, AppendProperties DEF CompilerInv, TypeOK
  <1>10. UserCalls' \subseteq UserCalls
    BY <1>1, <1>7 DEF UserCalls
  <1> QED BY <1>8, <1>9, <1>10 DEF CodeOK, SitesSaved, CompilerInv

(* compile_stdcall of IN,                                                  *)
LEMMA InInv ==
    ASSUME CompilerInv, InExpr
    PROVE  CompilerInv'
  <1>1. PICK n \in Exprs : /\ n.k = "in" /\ ReadExpr(n) /\ compile_stdcall("scan", 0)
                           /\ reg' = reg + 1 /\ Do(<<>>)
                           /\ UNCHANGED <<control, storage, start, frames>>
    BY DEF InExpr
  <1>2. SourceStep /\ At("expr") /\ absent' = absent
    BY <1>1, ReadExprIs
  <1>3. Running /\ reg \in Int /\ depth \in Nat
    BY <1>2, HeadIs
  <1>4. CodeOK' /\ SitesSaved'
    <2>1. "scan" \in {"scan", "print"} /\ 0 \in {0, 1}
      OBVIOUS
    <2> QED BY <1>1, <1>2, <1>3, <2>1, StdcallIs, Zenon
  <1>5. ControlOK'
    <2>1. NetRegs("expr") = 1 /\ NetScopes("expr") = 0
      BY NetTable
    <2>2. depth' = depth /\ FunctionNames' = FunctionNames
      BY <1>1 DEF storage, depth, FunctionNames
    <2>3. reg' = reg + NetRegs("expr") /\ depth' = depth + NetScopes("expr")
      BY <1>1, <1>3, <2>1, <2>2
    <2> QED BY <1>1, <1>2, <2>2, <2>3, Finish
  <1> QED BY <1>1, <1>2, <1>3, <1>4, <1>5, HandlerInv

(* and of OUT.                                                             *)
LEMMA OutInv ==
    ASSUME CompilerInv, OutStmt
    PROVE  CompilerInv'
  <1>1. /\ At("out") /\ compile_stdcall("print", 1) /\ reg' = reg - 1 /\ Do(<<>>)
        /\ UNCHANGED <<control, source, storage, start, frames>>
    BY DEF OutStmt
  <1>2. Running /\ reg \in Int /\ depth \in Nat
    BY <1>1, HeadFacts
  <1>3. CodeOK' /\ SitesSaved'
    <2>1. "print" \in {"scan", "print"} /\ 1 \in {0, 1}
      OBVIOUS
    <2> QED BY <1>1, <1>2, <2>1, SourceKept, StdcallIs, Zenon
  <1>4. ControlOK'
    <2>1. NetRegs("out") = -1 /\ NetScopes("out") = 0
      BY NetTable
    <2>2. depth' = depth /\ FunctionNames' = FunctionNames
      BY <1>1 DEF storage, depth, FunctionNames
    <2>3. reg' = reg + NetRegs("out") /\ depth' = depth + NetScopes("out")
      BY <1>1, <1>2, <2>1, <2>2
    <2> QED BY <1>1, <2>2, <2>3, SourceKept, Finish
  <1> QED BY <1>1, <1>2, <1>3, <1>4, SourceKept, HandlerInv

(* Statements.                                                             *)
LEMMA BodyFits ==
    ASSUME NEW h \in Nat, NEW d \in Scopes
    PROVE  Block(Body(h, d), h, d, h, d)
  <1>1. Fits(It("stmt", h, d), h, d, h, d) /\ Fits(It("more", h, d), h, d, h, d)
    BY PlainFits
  <1> QED BY <1>1, BlockTwo DEF Body

(* The list of statements.                                                 *)
LEMMA StmtInv ==
    ASSUME CompilerInv, compile_stmt
    PROVE  CompilerInv'
  <1> DEFINE choices == IF More THEN {Next1, Stop} ELSE {Stop}
  <1>1. PICK n \in {Next1, Stop} : /\ Read(n, choices)
                                   /\ Do(IF n = Next1 THEN Body(level, depth) ELSE <<>>)
    BY DEF compile_stmt
  <1>2. At("more") /\ Keep /\ reg' = reg /\ UNCHANGED code
    BY DEF compile_stmt
  <1>3. Running /\ reg \in Int /\ level \in Nat /\ depth \in Scopes /\ depth \in Nat
    BY <1>2, HeadIs
  <1>4. SourceStep /\ absent' = absent
    <2>1. choices \subseteq Nodes
      BY DEF Nodes
    <2> HIDE DEF choices
    <2>2. SourceStep /\ absent' = absent + Absent(n)
      BY <1>1, <2>1, ReadIs
    <2>3. Absent(n) = 0 /\ absent \in Nat
      BY AbsentIs DEF CompilerInv, TypeOK
    <2> QED BY <2>2, <2>3
  <1>5. CodeOK'
    BY <1>2 DEF CodeOK, code, CompilerInv, TypeOK
  <1>6. ControlOK'
    <2> DEFINE block == IF n = Next1 THEN Body(level, depth) ELSE <<>>
    <2>1. NetRegs("more") = 0 /\ NetScopes("more") = 0
      BY NetTable
    <2>2. Block(block, level, depth, level, depth)
      BY <1>3, BodyFits, BlockNone
    <2>3. level = level + NetRegs("more")
      BY <1>2, <1>3, <2>1
    <2>4. Do(block)
      BY <1>1
    <2> HIDE DEF block
    <2> QED BY <1>2, <1>4, <2>1, <2>2, <2>3, <2>4, AdvanceKeep
  <1> QED BY <1>2, <1>3, <1>4, <1>5, <1>6, KeepInv

(* compile_assign up to the right-hand side.                               *)
LEMMA AssignStmtInv ==
    ASSUME CompilerInv, AssignStmt
    PROVE  CompilerInv'
  <1>1. PICK n \in Stmts :
          /\ n.k = "assign" /\ ReadStmt(n)
          /\ Do(<< Expr(level, depth), Assign(level + 1, depth, n.id, n.n, rip) >>)
          /\ Keep /\ UNCHANGED <<reg, code, sp>>
    BY DEF AssignStmt
  <1>2. SourceStep /\ At("stmt") /\ absent' = absent
    BY <1>1, ReadStmtIs
  <1>3. Running /\ reg \in Int /\ level \in Nat /\ depth \in Scopes /\ level + 1 \in Nat /\ reg' = reg
    BY <1>1, <1>2, HeadIs
  <1>4. CodeOK'
    BY <1>1 DEF CodeOK, code, CompilerInv, TypeOK
  <1>5. Block(<< Expr(level, depth), Assign(level + 1, depth, n.id, n.n, rip) >>,
              level, depth, level, depth)
    <2>1. n.id \in STRING /\ n.n \in Index /\ rip \in Nat
      BY <1>1, NodesAssumption, AddressIs DEF Node
    <2>2. Fits(Expr(level, depth), level, depth, level + 1, depth)
      BY <1>3, ExprFits
    <2>3. Fits(Assign(level + 1, depth, n.id, n.n, rip), level + 1, depth, level, depth)
      <3>1. Fits(Assign(level + 1, depth, n.id, n.n, rip), level + 1, depth, (level + 1) - 1, depth)
        BY <1>3, <2>1, AssignFits
      <3>2. (level + 1) - 1 = level
        BY <1>3
      <3> QED BY <3>1, <3>2
    <2> QED BY <2>2, <2>3, BlockTwo
  <1>6. ControlOK'
    <2>1. NetRegs("stmt") = 0 /\ NetScopes("stmt") = 0
      BY NetTable
    <2>2. level = level + NetRegs("stmt")
      BY <1>3, <2>1
    <2> QED BY <1>1, <1>2, <1>3, <1>5, <2>1, <2>2, AdvanceKeep
  <1> QED BY <1>1, <1>2, <1>3, <1>4, <1>6, KeepInv

(* The code of a store.                                                    *)
LEMMA RetIs ==
    ASSUME NEW vis
    PROVE  RetCode(vis) \in Seq(InstrType)
  <1>1. Op("ret") \in InstrType
    BY OpcodesAre, OpIs
  <1>2. << Op("ret") >> \in Seq(InstrType) /\ <<>> \in Seq(InstrType)
    BY <1>1, ShortSeqs, EmptySeq
  <1> QED BY <1>2, Zenon DEF RetCode

(* compile_store emits instructions and relocations.                       *)
LEMMA StoreIs ==
    ASSUME CompilerInv, NEW s \in Symbol, NEW n \in Int, reg \in Int, compile_store(s, n)
    PROVE  CodeOK'
  <1>1. /\ s.vis \in {"local", "global"} /\ s.addend \in Int
        /\ Mask(reg) \in Register /\ Mask(reg + 1) \in Register
    BY MaskType DEF Symbol
  <1> DEFINE mov    == I("mov imm", Mask(reg + 1), 0, n)
             store  == I(Store[s.vis], 0, Mask(reg), s.addend)
             storex == I(Storex[s.vis], Mask(reg + 1), Mask(reg), s.addend)
  <1>2. mov \in InstrType
    BY <1>1, OpcodesAre, Zero, InstrIs, Zenon
  <1>3. store \in InstrType
    BY <1>1, MemoryOps, Zero, InstrIs
  <1>4. storex \in InstrType
    BY <1>1, MemoryOps, InstrIs
  <1>5. \/ /\ Emit(<<store>> \o RetCode(s.vis))
           /\ relas' = relas \o RelaOf(s.vis, rip, s.addend)
        \/ /\ Emit(<<mov, storex>> \o RetCode(s.vis))
           /\ relas' = relas \o RelaOf(s.vis, rip + 1, s.addend)
    BY DEF compile_store
  <1> HIDE DEF mov, store, storex
  <1>6. /\ <<store>> \o RetCode(s.vis) \in Seq(InstrType)
        /\ <<mov, storex>> \o RetCode(s.vis) \in Seq(InstrType)
    BY <1>2, <1>3, <1>4, ShortSeqs, RetIs, ConcatProperties
  <1>7. text' \in Seq(InstrType)
    BY <1>5, <1>6, EmitIs
  <1>8. relas' \in Seq(RelaType)
    <2>1. /\ RelaOf(s.vis, rip, s.addend) \in Seq(RelaType)
          /\ RelaOf(s.vis, rip + 1, s.addend) \in Seq(RelaType)
      BY <1>1, AddressIs, RelaIs
    <2> QED BY <1>5, <2>1, ConcatProperties DEF CompilerInv, TypeOK
  <1> QED BY <1>7, <1>8 DEF CodeOK

(* What the invariant says of a pending assignment.                        *)
LEMMA AssignHead ==
    ASSUME CompilerInv, At("assign")
    PROVE  LET it == Head(todo)
           IN  it.id \in STRING /\ it.n \in Index /\ it.n \in Int /\ it.at \in Nat
  <1> DEFINE it == Head(todo)
  <1>1. it \in ItemType /\ it.k = "assign"
    BY HeadFacts
  <1> HIDE DEF it
  <1>2. it \in [k : {"assign"}, h : Nat, d : Scopes, id : STRING, n : Index, at : Nat]
    BY <1>1 DEF ItemType
  <1>3. it.id \in STRING /\ it.n \in Index /\ it.n \in Int /\ it.at \in Nat
    BY <1>2 DEF Index, NoIndex, Computed
  <1> QED BY <1>3 DEF it

(* A store to a visible name.                                              *)
LEMMA ReassignInv ==
    ASSUME CompilerInv, Reassign
    PROVE  CompilerInv'
  <1> DEFINE it == Head(todo)
             s  == find_symbol(it.id)
  <1>1. /\ At("assign") /\ Found(it.id) /\ Keep /\ UNCHANGED source
        /\ \/ /\ Do(<< Expr(level, depth), Access("store", level + 1, depth, s) >>)
              /\ UNCHANGED <<reg, code, sp>>
           \/ compile_store(s, it.n) /\ reg' = reg - 1 /\ Do(<<>>)
    BY DEF Reassign
  <1>2. Running /\ reg \in Int /\ level \in Nat /\ level + 1 \in Nat /\ depth \in Scopes
    BY <1>1, HeadIs
  <1>3. it.n \in Int
    BY <1>1, AssignHead
  <1>4. s \in Symbol
    BY <1>1, SymbolFound DEF CompilerInv, TypeOK
  <1> HIDE DEF s, it
  <1>5. NetRegs("assign") = -1 /\ NetScopes("assign") = 0
    BY NetTable
  <1>6. CASE /\ Do(<< Expr(level, depth), Access("store", level + 1, depth, s) >>)
             /\ UNCHANGED <<reg, code, sp>>
    <2>1. CodeOK'
      BY <1>6 DEF CodeOK, code, CompilerInv, TypeOK
    <2>2. Block(<< Expr(level, depth), Access("store", level + 1, depth, s) >>,
                level, depth, level - 1, depth)
      <3>1. Fits(Expr(level, depth), level, depth, level + 1, depth)
        BY <1>2, ExprFits
      <3>2. Fits(Access("store", level + 1, depth, s), level + 1, depth, (level + 1) - 2, depth)
        BY <1>2, <1>4, StoreFits
      <3>3. (level + 1) - 2 = level - 1
        BY <1>2
      <3> QED BY <3>1, <3>2, <3>3, BlockTwo
    <2>3. ControlOK'
      <3>1. level - 1 = level + NetRegs("assign") /\ reg' = reg
        BY <1>2, <1>5, <1>6
      <3> QED BY <1>1, <1>2, <1>5, <1>6, <2>2, <3>1, SourceKept, AdvanceKeep
    <2> QED BY <1>1, <1>2, <2>1, <2>3, SourceKept, KeepInv
  <1>7. CASE compile_store(s, it.n) /\ reg' = reg - 1 /\ Do(<<>>)
    <2>1. CodeOK'
      BY <1>2, <1>3, <1>4, <1>7, StoreIs
    <2>2. reg' = reg + NetRegs("assign")
      BY <1>2, <1>5, <1>7
    <2>3. ControlOK'
      BY <1>1, <1>5, <1>7, <2>2, SourceKept, FinishKeep
    <2> QED BY <1>1, <1>2, <2>1, <2>3, SourceKept, KeepInv
  <1> QED BY <1>1, <1>6, <1>7

(* A store to an element with a computed index.                            *)
LEMMA StoreElementInv ==
    ASSUME CompilerInv, StoreElement
    PROVE  CompilerInv'
  <1> DEFINE it == Head(todo)
             x  == I(Storex[it.vis], Mask(reg), Mask(reg - 1), it.addend)
  <1>1. /\ At("store") /\ Do(<<>>) /\ Keep /\ UNCHANGED source /\ reg' = reg - 2
        /\ relas' = relas \o RelaOf(it.vis, rip, it.addend)
        /\ Emit(<<x>> \o RetCode(it.vis))
    BY DEF StoreElement
  <1>2. /\ it \in ItemType /\ it.k = "store" /\ Running /\ reg \in Int
    BY <1>1, HeadFacts
  <1>3. it.vis \in {"local", "global"} /\ it.addend \in Int
    BY <1>2 DEF ItemType
  <1>4. /\ NetRegs("store") = -2 /\ NetScopes("store") = 0
        /\ reg' = reg + NetRegs("store")
    <2>1. NetRegs("store") = -2 /\ NetScopes("store") = 0
      BY NetTable
    <2>2. reg' = reg - 2
      BY <1>1
    <2> HIDE DEF it
    <2> QED BY <1>2, <2>1, <2>2
  <1> HIDE DEF it
  <1>5. CodeOK'
    <2>1. Mask(reg) \in Register /\ Mask(reg - 1) \in Register
      BY <1>2, <1>4, MaskType
    <2>2. x \in InstrType
      BY <1>3, <2>1, MemoryOps, InstrIs
    <2> HIDE DEF x
    <2>3. text' \in Seq(InstrType)
      BY <1>1, <2>2, ShortSeqs, RetIs, ConcatProperties, EmitIs
    <2>4. relas' \in Seq(RelaType)
      BY <1>1, <1>3, AddressIs, RelaIs, ConcatProperties DEF CompilerInv, TypeOK
    <2> QED BY <2>3, <2>4 DEF CodeOK
  <1>6. ControlOK'
    BY <1>1, <1>4, SourceKept, FinishKeep
  <1> QED BY <1>1, <1>2, <1>5, <1>6, SourceKept, KeepInv

(* The result of a call statement is dropped.                              *)
LEMMA DropInv ==
    ASSUME CompilerInv, DropResult
    PROVE  CompilerInv'
  <1>1. /\ At("drop") /\ reg' = reg - 1 /\ Do(<<>>) /\ Keep
        /\ UNCHANGED source /\ UNCHANGED code
    BY DEF DropResult
  <1>2. Running /\ reg \in Int
    BY <1>1, HeadIs
  <1>3. reg' = reg + NetRegs("drop") /\ NetScopes("drop") = 0
    BY <1>1, <1>2, NetTable
  <1>4. CodeOK'
    BY <1>1 DEF CodeOK, code, CompilerInv, TypeOK
  <1>5. ControlOK'
    BY <1>1, <1>3, SourceKept, FinishKeep
  <1> QED BY <1>1, <1>2, <1>4, <1>5, SourceKept, KeepInv

(* OUT and return, before their operand.                                   *)
LEMMA OutOrReturnInv ==
    ASSUME CompilerInv, OutOrReturn
    PROVE  CompilerInv'
  <1>1. PICK n \in Stmts :
          /\ n.k \in {"out", "return"} /\ ReadStmt(n)
          /\ Do(<< Expr(level, depth), It(n.k, level + 1, depth) >>)
          /\ Keep /\ UNCHANGED <<reg, code, sp>>
    BY DEF OutOrReturn
  <1>2. SourceStep /\ At("stmt") /\ absent' = absent
    BY <1>1, ReadStmtIs
  <1>3. Running /\ reg \in Int /\ level \in Nat /\ depth \in Scopes /\ level + 1 \in Nat /\ reg' = reg
    BY <1>1, <1>2, HeadIs
  <1>4. CodeOK'
    BY <1>1 DEF CodeOK, code, CompilerInv, TypeOK
  <1>5. Block(<< Expr(level, depth), It(n.k, level + 1, depth) >>, level, depth, level, depth)
    <2>1. Fits(Expr(level, depth), level, depth, level + 1, depth)
      BY <1>3, ExprFits
    <2>2. Fits(It(n.k, level + 1, depth), level + 1, depth, (level + 1) - 1, depth)
      <3>1. n.k \in {"push", "drop", "out", "return"}
        BY <1>1
      <3> QED BY <1>3, <3>1, UseFits, Zenon
    <2>3. (level + 1) - 1 = level
      BY <1>3
    <2> QED BY <2>1, <2>2, <2>3, BlockTwo
  <1>6. ControlOK'
    <2>1. NetRegs("stmt") = 0 /\ NetScopes("stmt") = 0
      BY NetTable
    <2>2. level = level + NetRegs("stmt")
      BY <1>3, <2>1
    <2> QED BY <1>1, <1>2, <1>3, <1>5, <2>1, <2>2, AdvanceKeep
  <1> QED BY <1>1, <1>2, <1>3, <1>4, <1>6, KeepInv

(* compile_return, after it.                                               *)
LEMMA ReturnInv ==
    ASSUME CompilerInv, compile_return
    PROVE  CompilerInv'
  <1> DEFINE ret == << I("mov rax, r", 0, Mask(reg), 0), Op("mov rsp, rbp"), Op("pop rbp"), Op("ret") >>
  <1>1. /\ At("return") /\ Emit(ret) /\ reg' = reg - 1 /\ Do(<<>>) /\ Keep
        /\ UNCHANGED source /\ relas' = relas
    BY DEF compile_return
  <1>2. Running /\ reg \in Int
    BY <1>1, HeadIs
  <1>3. reg' = reg + NetRegs("return") /\ NetScopes("return") = 0
    BY <1>1, <1>2, NetTable
  <1>4. CodeOK'
    <2>1. Mask(reg) \in Register
      BY <1>2, MaskType
    <2>2. /\ I("mov rax, r", 0, Mask(reg), 0) \in InstrType /\ Op("mov rsp, rbp") \in InstrType
          /\ Op("pop rbp") \in InstrType /\ Op("ret") \in InstrType
      BY <2>1, OpcodesAre, Zero, InstrIs, OpIs, Zenon
    <2>3. text' \in Seq(InstrType)
      BY <1>1, <2>2, ShortSeqs, EmitIs
    <2> QED BY <1>1, <2>3 DEF CodeOK, CompilerInv, TypeOK
  <1>5. ControlOK'
    BY <1>1, <1>3, SourceKept, FinishKeep
  <1> QED BY <1>1, <1>2, <1>4, <1>5, SourceKept, KeepInv

(* The handlers that change the scopes, and the theorems.                  *)

(* The tables of symbols, and the names of the functions in them.          *)
Tables(s) ==
    /\ s \in Seq(Seq(Symbol)) /\ Len(s) >= 2
    /\ \A i \in 2..Len(s) : \A j \in 1..Len(s[i]) : s[i][j].type = "var"
NamesOf(s) == {s[1][j].id : j \in 1..Len(s[1])}

(* One entry of a sequence is replaced.                                    *)
LEMMA SetEntry ==
    ASSUME NEW S, NEW s \in Seq(S), NEW i \in 1..Len(s), NEW e \in S,
           NEW u, u = [s EXCEPT ![i] = e]
    PROVE  /\ u \in Seq(S) /\ Len(u) = Len(s) /\ u[i] = e
           /\ \A j \in 1..Len(s) : j # i => u[j] = s[j]
  <1>1. /\ u \in Seq(S) /\ Len(u) = Len(s)
        /\ \A j \in 1..Len(s) : u[j] = IF j = i THEN e ELSE s[j]
    BY ExceptSeq
  <1> QED BY <1>1

(* An entry is added to a sequence.                                        *)
LEMMA AddEntry ==
    ASSUME NEW S, NEW s \in Seq(S), NEW e \in S
    PROVE  /\ Append(s, e) \in Seq(S) /\ Len(Append(s, e)) = Len(s) + 1
           /\ \A i \in 1..Len(s) : Append(s, e)[i] = s[i]
           /\ Append(s, e)[Len(s) + 1] = e
  BY AppendProperties

(* A table of the scopes is replaced.                                      *)
LEMMA SetTable ==
    ASSUME NEW s \in Seq(Seq(Symbol)), NEW i \in 1..Len(s), NEW t \in Seq(Symbol),
           NEW u, u = [s EXCEPT ![i] = t]
    PROVE  /\ u \in Seq(Seq(Symbol)) /\ Len(u) = Len(s) /\ u[i] = t
           /\ \A j \in 1..Len(s) : j # i => u[j] = s[j]
  <1> DEFINE S == Seq(Symbol)
  <1>1. s \in Seq(S) /\ t \in S
    OBVIOUS
  <1> HIDE DEF S
  <1>2. /\ u \in Seq(S) /\ Len(u) = Len(s) /\ u[i] = t
        /\ \A j \in 1..Len(s) : j # i => u[j] = s[j]
    BY <1>1, SetEntry
  <1> QED BY <1>2 DEF S

(* A scope is opened with a table of variables.                            *)
LEMMA OpenScope ==
    ASSUME NEW s, Tables(s), NEW t \in Seq(Symbol), \A j \in 1..Len(t) : t[j].type = "var"
    PROVE  /\ Tables(Append(s, t)) /\ NamesOf(Append(s, t)) = NamesOf(s)
           /\ Len(Append(s, t)) = Len(s) + 1
  <1> DEFINE u == Append(s, t)
  <1>1. /\ s \in Seq(Seq(Symbol)) /\ Len(s) \in Nat /\ Len(s) >= 2
        /\ u \in Seq(Seq(Symbol)) /\ Len(u) = Len(s) + 1
        /\ \A i \in 1..Len(s) : u[i] = s[i]
        /\ u[Len(s) + 1] = t
    BY AppendProperties, LenProperties DEF Tables
  <1> HIDE DEF u
  <1>2. u[1] = s[1]
    BY <1>1
  <1>3. ASSUME NEW i \in 2..Len(u), NEW j \in 1..Len(u[i])
        PROVE  u[i][j].type = "var"
    <2>1. CASE i = Len(s) + 1
      BY <1>1, <2>1
    <2>2. CASE i # Len(s) + 1
      <3>1. i \in 2..Len(s) /\ u[i] = s[i]
        BY <1>1, <2>2
      <3> QED BY <3>1 DEF Tables
    <2> QED BY <2>1, <2>2
  <1>4. Tables(u) /\ NamesOf(u) = NamesOf(s) /\ Len(u) = Len(s) + 1
    BY <1>1, <1>2, <1>3 DEF Tables, NamesOf
  <1> QED BY <1>4 DEF u

(* The last scope is closed; those of functions and of globals stay.       *)
LEMMA CloseScope ==
    ASSUME Tables(scopes), Len(scopes) >= 3
    PROVE  /\ Tables(PopScope) /\ NamesOf(PopScope) = NamesOf(scopes)
           /\ Len(PopScope) = Len(scopes) - 1
  <1> DEFINE u == PopScope
  <1>1. /\ scopes \in Seq(Seq(Symbol)) /\ Len(scopes) \in Nat
        /\ u \in Seq(Seq(Symbol)) /\ Len(u) = Len(scopes) - 1
        /\ \A i \in 1..(Len(scopes) - 1) : u[i] = scopes[i]
    BY SubSeqProperties, LenProperties DEF Tables, PopScope
  <1> HIDE DEF u
  <1>2. u[1] = scopes[1] /\ Len(u) >= 2
    BY <1>1
  <1>3. \A i \in 2..Len(u) : i \in 2..Len(scopes) /\ u[i] = scopes[i]
    <2>1. \A i \in 2..Len(u) : i \in 2..Len(scopes) /\ i \in 1..(Len(scopes) - 1)
      BY <1>1
    <2> QED BY <1>1, <2>1
  <1>4. Tables(u) /\ NamesOf(u) = NamesOf(scopes) /\ Len(u) = Len(scopes) - 1
    BY <1>1, <1>2, <1>3 DEF Tables, NamesOf
  <1> QED BY <1>4 DEF u

(* The table of a scope is replaced by another table of variables.         *)
LEMMA ReplaceTable ==
    ASSUME NEW s, Tables(s), NEW n \in 2..Len(s),
           NEW t \in Seq(Symbol), \A j \in 1..Len(t) : t[j].type = "var",
           NEW u, u = [s EXCEPT ![n] = t]
    PROVE  Tables(u) /\ NamesOf(u) = NamesOf(s) /\ Len(u) = Len(s)
  <1>1. s \in Seq(Seq(Symbol)) /\ Len(s) \in Nat /\ Len(s) >= 2 /\ n \in 1..Len(s)
    BY LenProperties DEF Tables
  <1>2. /\ u \in Seq(Seq(Symbol)) /\ Len(u) = Len(s) /\ u[n] = t
        /\ \A i \in 1..Len(s) : i # n => u[i] = s[i]
    BY <1>1, SetTable, SMT
  <1>3. u[1] = s[1]
    <2>1. 1 \in 1..Len(s) /\ 1 # n
      BY <1>1
    <2> QED BY <1>2, <2>1
  <1>4. ASSUME NEW i \in 2..Len(u), NEW j \in 1..Len(u[i])
        PROVE  u[i][j].type = "var"
    <2>1. CASE i = n
      BY <1>2, <2>1
    <2>2. CASE i # n
      <3>1. i \in 1..Len(s) /\ i \in 2..Len(s)
        BY <1>1, <1>2
      <3>2. u[i] = s[i]
        BY <1>2, <2>2, <3>1
      <3> QED BY <3>1, <3>2 DEF Tables
    <2> QED BY <2>1, <2>2
  <1> QED BY <1>1, <1>2, <1>3, <1>4 DEF Tables, NamesOf

(* A variable is declared in the last scope.                               *)
LEMMA AppendVariable ==
    ASSUME NEW v \in Seq(Symbol), \A j \in 1..Len(v) : v[j].type = "var",
           NEW x \in Symbol, x.type = "var"
    PROVE  /\ Append(v, x) \in Seq(Symbol)
           /\ \A j \in 1..Len(Append(v, x)) : Append(v, x)[j].type = "var"
  <1> DEFINE w == Append(v, x)
  <1>1. /\ w \in Seq(Symbol) /\ Len(w) = Len(v) + 1 /\ Len(v) \in Nat
        /\ \A j \in 1..Len(v) : w[j] = v[j]
        /\ w[Len(v) + 1] = x
    BY AppendProperties, LenProperties
  <1> HIDE DEF w
  <1>2. ASSUME NEW j \in 1..Len(w)
        PROVE  w[j].type = "var"
    <2>1. j \in 1..Len(v) \/ j = Len(v) + 1
      BY <1>1
    <2> QED BY <1>1, <2>1
  <1> QED BY <1>1, <1>2 DEF w

(* A variable appended to the innermost table.                             *)
LEMMA AddSymbol ==
    ASSUME NEW s, Tables(s), NEW x \in Symbol, x.type = "var",
           NEW u, u = [s EXCEPT ![Len(s)] = Append(@, x)]
    PROVE  Tables(u) /\ NamesOf(u) = NamesOf(s) /\ Len(u) = Len(s)
  <1> DEFINE n == Len(s)
             t == Append(s[n], x)
  <1>1. n \in 2..Len(s) /\ n \in 1..Len(s) /\ s[n] \in Seq(Symbol)
    BY LenProperties DEF Tables
  <1>2. \A j \in 1..Len(s[n]) : s[n][j].type = "var"
    BY <1>1 DEF Tables
  <1>3. t \in Seq(Symbol) /\ \A j \in 1..Len(t) : t[j].type = "var"
    BY <1>1, <1>2, AppendVariable, Zenon
  <1>4. u = [s EXCEPT ![n] = t]
    OBVIOUS
  <1> HIDE DEF n, t
  <1> QED BY <1>1, <1>3, <1>4, ReplaceTable, Zenon

(* Symbols change, but neither their names nor their types.                *)
SameSymbols(s, u) ==
    /\ u \in Seq(Seq(Symbol)) /\ Len(u) = Len(s)
    /\ \A i \in 1..Len(s) :
          /\ Len(u[i]) = Len(s[i])
          /\ \A j \in 1..Len(s[i]) : u[i][j].type = s[i][j].type /\ u[i][j].id = s[i][j].id

(* Tables that differ in offsets and addends only.                         *)
LEMMA SameTables ==
    ASSUME NEW s, Tables(s), NEW u, SameSymbols(s, u)
    PROVE  Tables(u) /\ NamesOf(u) = NamesOf(s) /\ Len(u) = Len(s)
  <1>1. Len(s) \in Nat /\ 1 \in 1..Len(s) /\ \A i \in 2..Len(s) : i \in 1..Len(s)
    BY LenProperties DEF Tables
  <1>2. Tables(u)
    BY <1>1 DEF Tables, SameSymbols
  <1> QED BY <1>1, <1>2 DEF SameSymbols, NamesOf

(* The tables while statements are compiled.                               *)
LEMMA RunningTables ==
    ASSUME CompilerInv, Running
    PROVE  /\ Tables(scopes) /\ NamesOf(scopes) = FunctionNames
           /\ depth = Len(scopes) /\ depth \in Nat /\ depth \in Scopes
           /\ "main" \in FunctionNames
  <1>1. scopes \in Seq(Seq(Symbol)) /\ Len(scopes) \in Nat /\ Len(scopes) >= 2
    BY LenProperties DEF CompilerInv, TypeOK, TablesOpen, Running, depth
  <1>2. NamesOf(scopes) = FunctionNames /\ "main" \in FunctionNames
    BY DEF NamesOf, FunctionNames, CompilerInv, TablesOpen, Running
  <1>3. Tables(scopes)
    BY <1>1 DEF Tables, CompilerInv, FunctionsFirst
  <1>4. depth = Len(scopes) /\ depth \in Nat /\ depth \in Scopes
    <2>1. depth = Len(scopes)
      BY DEF depth
    <2> QED BY <1>1, <2>1 DEF Scopes
  <1> QED BY <1>2, <1>3, <1>4

(* What an action that changes the scopes has to show.                     *)
LEMMA ScopeInv ==
    ASSUME CompilerInv, Running, UNCHANGED <<tree, phase, outcome, start>>,
           top' \in Nat \ {0}, bss' \in Nat, frame' \in Nat,
           SourceStep, CodeOK', ControlOK', SitesSaved',
           Tables(scopes'), NamesOf(scopes') = NamesOf(scopes)
    PROVE  CompilerInv'
  <1>1. TypeOK' /\ Complete'
    BY DEF TypeOK, SourceStep, SourceOK, Nodes, CodeOK, ControlOK, Tables, CompilerInv
  <1>2. ControlLinked' /\ CallsPending'
    BY DEF ControlOK
  <1>3. FunctionNames' = FunctionNames
    BY DEF NamesOf, FunctionNames
  <1>4. depth' >= 2 /\ FunctionsFirst'
    BY DEF depth, Tables, FunctionsFirst
  <1>5. TablesOpen'
    BY <1>3, <1>4 DEF TablesOpen, CompilerInv, Running
  <1>6. Reported'
    BY DEF Reported, Running, SourceStep, CompilerInv
  <1> QED BY <1>1, <1>2, <1>4, <1>5, <1>6 DEF CompilerInv

(* Declarations and control flow.                                          *)
LEMMA DeclareVariableInv ==
    ASSUME CompilerInv, DeclareVariable
    PROVE  CompilerInv'
  <1> DEFINE it   == Head(todo)
             info == Extent(it.n)
             s    == IF is_global_scope
                     THEN Sym("var", "global", it.id, Imm(bss), it.at, info)
                     ELSE Sym("var", "local", it.id, LocalAddend(info), it.at, info)
  <1>1. /\ At("assign") /\ it.n # Computed
        /\ scopes' = [scopes EXCEPT ![Len(scopes)] = Append(@, s)]
        /\ \/ bss' = bss + info /\ frame' = frame
           \/ frame' = frame + info /\ bss' = bss
        /\ compile_store(s, it.n) /\ reg' = reg - 1 /\ Do(<<>>)
        /\ UNCHANGED <<control, source, start, aux>>
    BY DEF DeclareVariable
  <1>2. Running /\ reg \in Int /\ level \in Nat /\ bss \in Nat /\ frame \in Nat /\ top \in Nat \ {0}
    BY <1>1, HeadIs DEF CompilerInv, TypeOK
  <1>3. it.id \in STRING /\ it.n \in Index /\ it.n \in Int /\ it.at \in Nat
    BY <1>1, AssignHead
  <1> HIDE DEF it
  <1>4. info \in Nat
    BY <1>1, <1>3 DEF Extent, Index, NoIndex, Computed, WORD
  <1> HIDE DEF info
  <1>5. s \in Symbol /\ s.type = "var"
    <2>1. -(frame + info) \in Int /\ bss \in Int
      BY <1>2, <1>4
    <2>2. LocalAddend(info) \in Int /\ Imm(bss) \in Int
      BY <2>1, ImmIs DEF LocalAddend
    <2> QED BY <1>2, <1>3, <1>4, <2>2 DEF Sym, Symbol
  <1> HIDE DEF s
  <1>6. Tables(scopes') /\ NamesOf(scopes') = NamesOf(scopes) /\ Len(scopes') = Len(scopes)
    BY <1>1, <1>2, <1>5, RunningTables, AddSymbol
  <1>7. CodeOK'
    BY <1>1, <1>2, <1>3, <1>5, StoreIs
  <1>8. ControlOK'
    <2>1. NetRegs("assign") = -1 /\ NetScopes("assign") = 0
      BY NetTable
    <2>2. depth' = depth /\ FunctionNames' = FunctionNames
      BY <1>6 DEF depth, FunctionNames, NamesOf
    <2>3. depth \in Nat
      BY <1>2, RunningTables
    <2>4. reg' = reg + NetRegs("assign") /\ depth' = depth + NetScopes("assign")
      BY <1>1, <1>2, <2>1, <2>2, <2>3
    <2> QED BY <1>1, <2>2, <2>4, SourceKept, Finish
  <1>9. SitesSaved'
    BY <1>1, SourceKept DEF CompilerInv, aux, SitesSaved, UserCalls
  <1>10. bss' \in Nat /\ frame' \in Nat /\ top' \in Nat \ {0}
    BY <1>1, <1>2, <1>4 DEF control
  <1> QED BY <1>1, <1>2, <1>6, <1>7, <1>8, <1>9, <1>10, SourceKept, ScopeInv DEF control

(* A while or an if opens its scope.                                       *)
LEMMA ConditionalInv ==
    ASSUME CompilerInv, Conditional
    PROVE  CompilerInv'
  <1>1. PICK n \in Stmts : /\ ReadStmt(n) /\ scopes' = Append(scopes, <<>>)
                           /\ \E k \in {"test while", "test if", "test if else"} :
                                Do(<< Expr(level, depth + 1), Jump(k, level + 1, depth + 1, rip, 0) >>)
                           /\ UNCHANGED <<control, bss, frame, reg, code, start, sp, aux>>
    BY Zenon DEF Conditional
  <1>2. SourceStep /\ At("stmt") /\ absent' = absent
    BY <1>1, ReadStmtIs
  <1>3. /\ Running /\ reg \in Int /\ level \in Nat /\ level + 1 \in Nat /\ depth \in Nat /\ depth \in Scopes
        /\ depth + 1 \in Scopes /\ reg' = reg /\ level' = level /\ absent \in Nat /\ (level + 1) - 1 = level /\ (depth + 1) - 1 = depth
        /\ rip \in Nat /\ 0 \in Nat
    <2>1. /\ Running /\ reg \in Int /\ level \in Nat /\ depth \in Nat /\ depth \in Scopes
          /\ absent \in Nat
      BY <1>2, HeadFacts
    <2>3. reg' = reg /\ level' = level
      BY <1>1, <1>2 DEF level
    <2>2. level + 1 \in Nat /\ (level + 1) - 1 = level /\ (depth + 1) - 1 = depth /\ depth + 1 \in Scopes
      BY <2>1 DEF Scopes
    <2> QED BY <2>1, <2>2, <2>3, AddressIs
  <1>4. Tables(scopes') /\ NamesOf(scopes') = NamesOf(scopes) /\ Len(scopes') = Len(scopes) + 1
    <2>1. <<>> \in Seq(Symbol) /\ \A j \in 1..Len(<<>>) : <<>>[j].type = "var"
      <3>1. <<>> \in Seq(Symbol) /\ Len(<<>>) = 0
        BY EmptySeq
      <3>2. 1..0 = {}
        OBVIOUS
      <3> QED BY <3>1, <3>2, Zenon
    <2> QED BY <1>1, <1>3, <2>1, RunningTables, OpenScope
  <1>5. CodeOK'
    BY <1>1 DEF CodeOK, code, CompilerInv, TypeOK
  <1>6. ControlOK'
    <2>1. depth' = depth + 1 /\ FunctionNames' = FunctionNames
      BY <1>4 DEF depth, FunctionNames, NamesOf
    <2>2. level = level + NetRegs("stmt") /\ depth = depth + NetScopes("stmt")
      <3>1. NetRegs("stmt") = 0 /\ NetScopes("stmt") = 0
        BY NetTable
      <3> QED BY <1>3, <3>1
    <2>3. Fits(Expr(level, depth + 1), level, depth + 1, level + 1, depth + 1)
      BY <1>3, ExprFits
    <2>4. PICK k \in {"test while", "test if", "test if else"} :
              Do(<< Expr(level, depth + 1), Jump(k, level + 1, depth + 1, rip, 0) >>)
      BY <1>1
    <2> DEFINE test == Jump(k, level + 1, depth + 1, rip, 0)
    <2>5. Fits(test, level + 1, depth + 1, level, depth)
      <3>1. Fits(test, level + 1, depth + 1, (level + 1) - 1, (depth + 1) - 1)
        BY <1>3, TestFits
      <3> HIDE DEF test
      <3> QED BY <1>3, <3>1, Zenon
    <2>6. Do(<< Expr(level, depth + 1), test >>)
      BY <2>4
    <2> HIDE DEF test
    <2>7. Block(<< Expr(level, depth + 1), test >>, level', depth', level, depth)
      BY <1>3, <2>1, <2>3, <2>5, BlockTwo, Zenon
    <2> QED BY <1>2, <1>3, <2>1, <2>2, <2>6, <2>7, Advance, Zenon
  <1>7. SitesSaved'
    BY <1>1, <1>2 DEF CompilerInv, aux, SitesSaved, UserCalls
  <1>8. bss' \in Nat /\ frame' \in Nat /\ top' \in Nat \ {0}
    BY <1>1 DEF control, CompilerInv, TypeOK
  <1> QED BY <1>1, <1>2, <1>3, <1>4, <1>5, <1>6, <1>7, <1>8, ScopeInv DEF control

(* A register given back, no operand more missing.                         *)
LEMMA OneLess ==
    ASSUME reg \in Int, absent \in Nat, absent' = absent, reg' = reg - 1
    PROVE  reg' \in Int /\ level' = level - 1 /\ absent' = absent
  BY DEF level

(* The condition is tested: the body follows, then the patch of its je.    *)
LEMMA TestInv ==
    ASSUME CompilerInv, TestCondition
    PROVE  CompilerInv'
  <1> DEFINE it == Head(todo)
  <1>1. PICK k \in {"test while", "test if", "test if else"} : At(k)
    BY DEF TestCondition
  <1>2. /\ Emit(<< I("test", Mask(reg), Mask(reg), 0), I("je", 0, 0, Unset) >>)
        /\ reg' = reg - 1 /\ Keep /\ UNCHANGED source /\ relas' = relas
        /\ \E then \in {"endwhile", "else", "endif"} :
              Do(Body(level - 1, depth) \o << Jump(then, level - 1, depth, it.cond, rip + 1) >>)
    BY Zenon DEF TestCondition
  <1>3. PICK then \in {"endwhile", "else", "endif"} :
            Do(Body(level - 1, depth) \o << Jump(then, level - 1, depth, it.cond, rip + 1) >>)
    BY <1>2
  <1>4. NetRegs(k) = -1 /\ NetScopes(k) = -1
    BY NetTable
  <1>5. /\ Running /\ reg \in Int /\ level \in Nat /\ level + NetRegs(k) \in Nat
        /\ depth \in Nat /\ depth \in Scopes /\ absent \in Nat /\ it \in ItemType /\ it.k = k
    BY <1>1, HeadFacts
  <1>6. level - 1 \in Nat /\ level - 1 = level + NetRegs(k) /\ depth - 1 = depth + NetScopes(k)
    BY <1>4, <1>5
  <1>7. it.cond \in Nat /\ rip + 1 \in Nat
    BY <1>5, AddressIs DEF ItemType
  <1> HIDE DEF it
  <1>8. CodeOK'
    <2>1. Mask(reg) \in Register
      BY <1>5, MaskType
    <2>2. I("test", Mask(reg), Mask(reg), 0) \in InstrType /\ I("je", 0, 0, Unset) \in InstrType
      BY <2>1, OpcodesAre, Zero, InstrIs, Zenon DEF Unset
    <2>3. text' \in Seq(InstrType)
      BY <1>2, <2>2, ShortSeqs, EmitIs
    <2> QED BY <1>2, <2>3 DEF CodeOK, CompilerInv, TypeOK
  <1>9. ControlOK'
    <2> DEFINE end == Jump(then, level - 1, depth, it.cond, rip + 1)
    <2>1. Fits(end, level - 1, depth, level - 1, depth - 1)
      BY <1>5, <1>6, <1>7, JumpFits
    <2> HIDE DEF end
    <2>2. Block(Body(level - 1, depth) \o <<end>>, level - 1, depth, level - 1, depth - 1)
      BY <1>5, <1>6, <2>1, BodyFits, BlockOne, BlockConcat
    <2>3. depth' = depth /\ FunctionNames' = FunctionNames
      BY <1>2 DEF Keep, storage, depth, FunctionNames
    <2>4. Do(Body(level - 1, depth) \o <<end>>)
      BY <1>3 DEF end
    <2>5. reg' \in Int /\ level' = level - 1 /\ absent' = absent
      <3>1. absent' = absent /\ reg' = reg - 1
        BY <1>2, SourceKept
      <3>2. reg \in Int /\ absent \in Nat
        BY <1>5
      <3> QED BY <3>1, <3>2, OneLess, Zenon
    <2>6. Block(Body(level - 1, depth) \o <<end>>, level', depth', level - 1, depth - 1)
      BY <2>2, <2>3, <2>5
    <2>7. absent' \in Nat /\ (absent' = 0 => absent = 0)
      BY <1>5, <2>5
    <2> QED BY <1>1, <1>6, <2>3, <2>4, <2>5, <2>6, <2>7, Advance
  <1> QED BY <1>2, <1>5, <1>8, <1>9, SourceKept, KeepInv

(* An else: the jmp over it, and its body.                                 *)
LEMMA ElseInv ==
    ASSUME CompilerInv, Else
    PROVE  CompilerInv'
  <1> DEFINE it  == Head(todo)
             end == Jump("endif", level, depth, it.cond, rip)
  <1>1. /\ At("else")
        /\ text' = Append(Patch(it.at, Displace(after_jmp, it.at)), I("jmp", 0, 0, Unset))
        /\ Do(Body(level, depth) \o <<end>>)
        /\ Keep /\ UNCHANGED source /\ reg' = reg /\ relas' = relas
    BY DEF Else
  <1>2. /\ Running /\ reg \in Int /\ level \in Nat /\ depth \in Nat /\ depth \in Scopes /\ absent \in Nat
        /\ it \in ItemType /\ it.k = "else"
    BY <1>1, HeadFacts
  <1>3. it.cond \in Nat /\ it.at \in Nat /\ rip \in Nat /\ rip + 1 \in Nat
    BY <1>2, AddressIs DEF ItemType
  <1> HIDE DEF it
  <1>4. CodeOK'
    <2>1. Displace(after_jmp, it.at) \in Int
      BY <1>3 DEF Displace, after_jmp
    <2>2. I("jmp", 0, 0, Unset) \in InstrType
      BY OpcodesAre, Zero, InstrIs, Zenon DEF Unset
    <2>3. Patch(it.at, Displace(after_jmp, it.at)) \in Seq(InstrType)
      BY <1>3, <2>1, PatchIs DEF CompilerInv, TypeOK
    <2>4. text' \in Seq(InstrType)
      BY <1>1, <2>2, <2>3, AppendProperties
    <2> QED BY <1>1, <2>4 DEF CodeOK, CompilerInv, TypeOK
  <1>5. ControlOK'
    <2>1. Fits(end, level, depth, level, depth - 1)
      BY <1>2, <1>3, JumpFits
    <2> HIDE DEF end
    <2>2. Block(Body(level, depth) \o <<end>>, level, depth, level, depth - 1)
      BY <1>2, <2>1, BodyFits, BlockOne, BlockConcat
    <2>3. depth' = depth /\ FunctionNames' = FunctionNames
      BY <1>1 DEF Keep, storage, depth, FunctionNames
    <2>4. NetRegs("else") = 0 /\ NetScopes("else") = -1
      BY NetTable
    <2>5. level = level + NetRegs("else") /\ depth - 1 = depth + NetScopes("else")
      BY <1>2, <2>4
    <2>6. reg' \in Int /\ level' = level /\ absent' = absent
      BY <1>1, <1>2, SourceKept DEF level
    <2> QED BY <1>1, <1>2, <2>2, <2>3, <2>5, <2>6, Advance
  <1> QED BY <1>1, <1>2, <1>4, <1>5, SourceKept, KeepInv

(* The construct is done: its jump is patched and its scope closed.        *)
LEMMA CloseInv ==
    ASSUME CompilerInv, NEW k \in {"enddefine", "endwhile", "endif"}, At(k),
           scopes' = PopScope, Do(<<>>), reg' = reg,
           UNCHANGED <<control, source, start>>, SitesSaved', CodeOK',
           bss' \in Nat, frame' \in Nat
    PROVE  CompilerInv'
  <1>1. NetRegs(k) = 0 /\ NetScopes(k) = -1
    BY NetTable
  <1>2. Running /\ reg \in Int /\ level \in Nat /\ depth \in Nat /\ depth + NetScopes(k) \in Scopes
    BY HeadFacts
  <1>3. depth >= 3
    BY <1>1, <1>2 DEF Scopes
  <1>4. Tables(scopes') /\ NamesOf(scopes') = NamesOf(scopes) /\ Len(scopes') = Len(scopes) - 1
    BY <1>2, <1>3, RunningTables, CloseScope DEF depth
  <1>5. depth' = depth - 1 /\ FunctionNames' = FunctionNames
    BY <1>4 DEF depth, FunctionNames, NamesOf
  <1>6. reg' = reg + NetRegs(k) /\ depth' = depth + NetScopes(k)
    BY <1>1, <1>2, <1>5
  <1>7. ControlOK'
    BY <1>5, <1>6, SourceKept, Finish
  <1>8. top' \in Nat \ {0}
    BY DEF control, CompilerInv, TypeOK
  <1> QED BY <1>2, <1>4, <1>7, <1>8, SourceKept, ScopeInv DEF control

(* The end of a function, which closes its scope.                          *)
LEMMA EndInv ==
    ASSUME CompilerInv, EndDefine \/ EndWhile \/ EndIf
    PROVE  CompilerInv'
  <1> DEFINE it == Head(todo)
  <1>1. ASSUME NEW k \in {"enddefine", "endwhile", "endif"}, At(k)
        PROVE  it.at \in Nat /\ it.cond \in Nat /\ rip \in Nat /\ rip + 1 \in Nat
    <2>1. it \in ItemType /\ it.k = k
      BY <1>1, HeadFacts
    <2> HIDE DEF it
    <2> QED BY <2>1, AddressIs DEF ItemType
  <1>2. ASSUME NEW at \in Nat, NEW x \in Int
        PROVE  Patch(at, x) \in Seq(InstrType)
    BY PatchIs DEF CompilerInv, TypeOK
  <1>3. CASE EndDefine
    <2>1. /\ At("enddefine") /\ scopes' = PopScope /\ Do(<<>>) /\ reg' = reg /\ frame' = 0
          /\ text' = Patch(it.at, Imm(Align(frame, 16)))
          /\ UNCHANGED <<control, source, relas, bss, start, sites>>
      BY <1>3 DEF EndDefine
    <2>2. Imm(Align(frame, 16)) \in Int
      <3>1. Align(frame, 16) \in Int
        BY DEF Align, CompilerInv, TypeOK
      <3> QED BY <3>1, ImmIs
    <2>3. CodeOK'
      BY <1>1, <1>2, <2>1, <2>2 DEF CodeOK, CompilerInv, TypeOK
    <2>4. SitesSaved' /\ bss' \in Nat /\ frame' \in Nat
      BY <2>1, SourceKept DEF CompilerInv, TypeOK, SitesSaved, UserCalls
    <2> QED BY <2>1, <2>3, <2>4, CloseInv
  <1>4. CASE EndWhile
    <2> DEFINE back == I("jmp", 0, 0, Displace(it.cond, rip))
    <2>1. /\ At("endwhile") /\ scopes' = PopScope /\ Do(<<>>) /\ reg' = reg
          /\ text' = Append(Patch(it.at, Displace(after_jmp, it.at)), back)
          /\ UNCHANGED <<control, source, relas, bss, frame, start, aux>>
      BY <1>4 DEF EndWhile
    <2>2. Displace(it.cond, rip) \in Int /\ Displace(after_jmp, it.at) \in Int /\ it.at \in Nat
      <3>1. it.at \in Nat /\ it.cond \in Nat /\ rip \in Nat
        BY <1>1, <2>1
      <3> HIDE DEF it
      <3> QED BY <3>1 DEF Displace, after_jmp
    <2>3. back \in InstrType
      BY <2>2, OpcodesAre, Zero, InstrIs, Zenon
    <2> HIDE DEF back
    <2>4. CodeOK'
      BY <1>2, <2>1, <2>2, <2>3, AppendProperties DEF CodeOK, CompilerInv, TypeOK
    <2>5. SitesSaved' /\ bss' \in Nat /\ frame' \in Nat
      BY <2>1, SourceKept DEF CompilerInv, TypeOK, SitesSaved, UserCalls, aux
    <2> QED BY <2>1, <2>4, <2>5, CloseInv
  <1>5. CASE EndIf
    <2>1. /\ At("endif") /\ scopes' = PopScope /\ Do(<<>>) /\ reg' = reg
          /\ text' = Patch(it.at, Displace(rip, it.at))
          /\ UNCHANGED <<control, source, relas, bss, frame, start, aux>>
      BY <1>5 DEF EndIf
    <2>2. Displace(rip, it.at) \in Int /\ it.at \in Nat
      <3>1. it.at \in Nat /\ rip \in Nat
        BY <1>1, <2>1
      <3> HIDE DEF it
      <3> QED BY <3>1 DEF Displace
    <2>3. CodeOK'
      BY <1>2, <2>1, <2>2 DEF CodeOK, CompilerInv, TypeOK
    <2>4. SitesSaved' /\ bss' \in Nat /\ frame' \in Nat
      BY <2>1, SourceKept DEF CompilerInv, TypeOK, SitesSaved, UserCalls, aux
    <2> QED BY <2>1, <2>3, <2>4, CloseInv
  <1> QED BY <1>3, <1>4, <1>5

(* The top level.                                                          *)

(* Between top-level statements the depths are those at the start.         *)
LEMMA TopFacts ==
    ASSUME CompilerInv, Running, todo = <<>>
    PROVE  /\ level = 0 /\ depth = 2 /\ level = reg + absent
           /\ reg \in Int /\ absent \in Nat
  BY DEF CompilerInv, TypeOK, ControlLinked, Linked, level

(* The next top-level statement is one.                                    *)
LEMMA TopNodeIs ==
    ASSUME CompilerInv, NEW k, AtTop(k)
    PROVE  /\ Running /\ todo = <<>> /\ top \in Nat \ {0} /\ top + 1 \in Nat \ {0}
           /\ tree[top] \in TopNode /\ tree[top].k = k
  <1>1. tree \in Seq(TopNode) /\ Len(tree) \in Nat /\ top \in Nat \ {0} /\ top <= Len(tree)
    BY TreesAssumption, LenProperties DEF CompilerInv, TypeOK, AtTop
  <1>2. tree[top] \in TopNode
    BY <1>1
  <1> QED BY <1>1, <1>2 DEF AtTop

(* A control stack made at the top level is well formed if its one block   *)
(* is.                                                                     *)
LEMMA FreshControl ==
    ASSUME reg' \in Int, Block(todo', level', depth', 0, 2), FunctionNames' = FunctionNames,
           absent' = absent
    PROVE  ControlOK'
  BY DEF Block, ControlOK, ControlLinked, CallsPending, Pending, Mask

(* compile_assign of a global, up to its right-hand side.                  *)
LEMMA GlobalAssignInv ==
    ASSUME CompilerInv, GlobalAssign
    PROVE  CompilerInv'
  <1> DEFINE t == tree[top]
             assign == Assign(level + 1, depth, t.id, t.n, rip)
  <1>1. /\ AtTop("assign") /\ todo' = << Expr(level, depth), assign >> /\ top' = top + 1
        /\ UNCHANGED <<tree, phase, outcome, source, storage, reg, code, start, sp, aux>>
    BY DEF GlobalAssign
  <1>2. Running /\ todo = <<>> /\ top' \in Nat \ {0} /\ t \in TopNode /\ t.k = "assign"
    BY <1>1, TopNodeIs
  <1>3. /\ level = 0 /\ depth = 2 /\ level' = 0 /\ depth' = 2 /\ rip \in Nat
        /\ reg' \in Int
    <2>1. level = 0 /\ depth = 2 /\ reg \in Int /\ rip \in Nat
      BY <1>2, TopFacts, AddressIs
    <2>2. level' = level /\ depth' = depth /\ reg' = reg
      BY <1>1 DEF level, depth, storage, source
    <2> QED BY <2>1, <2>2
  <1>4. t.id \in STRING /\ t.n \in Index
    <2> HIDE DEF t
    <2> QED BY <1>2 DEF TopNode
  <1> HIDE DEF t
  <1>5. ControlOK'
    <2>1. 0 \in Nat /\ 1 \in Nat /\ 2 \in Scopes /\ 0 + 1 = 1 /\ 1 - 1 = 0
      BY DEF Scopes
    <2>2. Fits(Expr(0, 2), 0, 2, 1, 2)
      <3>1. Fits(Expr(0, 2), 0, 2, 0 + 1, 2)
        BY <2>1, ExprFits, Zenon
      <3> QED BY <2>1, <3>1, Zenon
    <2>3. Fits(Assign(1, 2, t.id, t.n, rip), 1, 2, 0, 2)
      <3>1. Fits(Assign(1, 2, t.id, t.n, rip), 1, 2, 1 - 1, 2)
        BY <1>3, <1>4, <2>1, AssignFits, Zenon
      <3> QED BY <2>1, <3>1, Zenon
    <2>4. Block(<< Expr(0, 2), Assign(1, 2, t.id, t.n, rip) >>, 0, 2, 0, 2)
      BY <2>2, <2>3, BlockTwo
    <2>5. todo' = << Expr(0, 2), Assign(1, 2, t.id, t.n, rip) >>
      BY <1>1, <1>3, <2>1
    <2>6. FunctionNames' = FunctionNames
      BY <1>1 DEF storage, FunctionNames
    <2>7. absent' = absent
      BY <1>1, SourceKept
    <2>8. Block(todo', level', depth', 0, 2)
      BY <1>3, <2>4, <2>5
    <2> QED BY <1>3, <2>6, <2>7, <2>8, FreshControl, Zenon
  <1>6. CodeOK' /\ SourceStep /\ SitesSaved'
    BY <1>1, SourceKept DEF CodeOK, code, aux, SitesSaved, UserCalls, CompilerInv, TypeOK
  <1>7. Tables(scopes') /\ NamesOf(scopes') = NamesOf(scopes) /\ bss' \in Nat /\ frame' \in Nat
    BY <1>1, <1>2, RunningTables DEF storage, CompilerInv, TypeOK
  <1> QED BY <1>1, <1>2, <1>5, <1>6, <1>7, ScopeInv

(* The parameters of a function are symbols of variables.                  *)
LEMMA ParamsAre ==
    ASSUME NEW f \in TopNode, NEW n \in Nat
    PROVE  /\ Params(f, n) \in Seq(Symbol)
           /\ \A j \in 1..Len(Params(f, n)) : Params(f, n)[j].type = "var"
  <1>1. f.params \in Seq(STRING) /\ Len(f.params) \in Nat
    BY LenProperties DEF TopNode
  <1>2. ASSUME NEW j \in 1..Len(f.params)
        PROVE  /\ Sym("var", "local", f.params[j], WORD * (n - j + 2), 0, WORD) \in Symbol
               /\ Sym("var", "local", f.params[j], WORD * (n - j + 2), 0, WORD).type = "var"
    <2>1. f.params[j] \in STRING /\ WORD * (n - j + 2) \in Int /\ WORD \in Nat /\ 0 \in Nat
      BY <1>1 DEF WORD
    <2> QED BY <2>1 DEF Sym, Symbol
  <1>3. /\ Params(f, n) \in Seq(Symbol) /\ Len(Params(f, n)) = Len(f.params)
        /\ \A j \in 1..Len(f.params) : Params(f, n)[j].type = "var"
    BY <1>1, <1>2 DEF Params
  <1> QED BY <1>3

(* compile_define up to the body.                                          *)
LEMMA DefineInv ==
    ASSUME CompilerInv, compile_define
    PROVE  CompilerInv'
  <1> DEFINE f      == tree[top]
             p      == Place(f.id)
             info   == find_symbol(f.id).info
             opened == [scopes EXCEPT ![p[1]][p[2]].offset = rip]
             code1  == << Op("push rbp"), Op("mov rbp, rsp"), I("sub rsp, frame", 0, 0, Unset) >>
             end    == Jump("enddefine", level, depth + 1, 0, rip + 2)
  <1>1. /\ AtTop("define") /\ Found(f.id)
        /\ scopes' = Append(opened, Params(f, info))
        /\ Emit(code1) /\ todo' = Body(level, depth + 1) \o <<end>> /\ top' = top + 1
        /\ UNCHANGED <<tree, phase, outcome, source, reg, relas, bss, frame, start, aux>>
    BY DEF compile_define, DefineFails
  <1>2. Running /\ todo = <<>> /\ top' \in Nat \ {0} /\ f \in TopNode
    BY <1>1, TopNodeIs
  <1>3. /\ level = 0 /\ depth = 2 /\ level' = 0 /\ rip \in Nat /\ rip + 2 \in Nat
        /\ reg' \in Int
    <2>1. level = 0 /\ depth = 2 /\ reg \in Int /\ rip \in Nat
      BY <1>2, TopFacts, AddressIs
    <2>2. level' = level /\ reg' = reg
      BY <1>1 DEF level, source
    <2> QED BY <2>1, <2>2
  <1>4. /\ p[1] \in 1..Len(scopes) /\ p[2] \in 1..Len(scopes[p[1]]) /\ info \in Nat
    <2>1. find_symbol(f.id) \in Symbol
      BY <1>1, SymbolFound DEF CompilerInv, TypeOK
    <2>2. info \in Nat
      BY <2>1 DEF Symbol
    <2> QED BY <1>1, <2>2, PlaceFound DEF CompilerInv, TypeOK
  <1> HIDE DEF f, p, info
  <1>5. Tables(opened) /\ NamesOf(opened) = NamesOf(scopes) /\ Len(opened) = Len(scopes)
    <2> DEFINE i == p[1]
               j == p[2]
               x == [scopes[i][j] EXCEPT !.offset = rip]
               t == [scopes[i] EXCEPT ![j] = x]
    <2>1. /\ i \in 1..Len(scopes) /\ j \in 1..Len(scopes[i]) /\ rip \in Nat
          /\ Tables(scopes) /\ scopes \in Seq(Seq(Symbol))
      BY <1>2, <1>3, <1>4, RunningTables DEF Tables
    <2>2. opened = [scopes EXCEPT ![i] = t]
      OBVIOUS
    <2> HIDE DEF i, j, opened
    <2>3. scopes[i] \in Seq(Symbol)
      BY <2>1
    <2>4. x \in Symbol /\ x.type = scopes[i][j].type /\ x.id = scopes[i][j].id
      <3>1. scopes[i][j] \in Symbol
        BY <2>1, <2>3
      <3> QED BY <2>1, <3>1 DEF Symbol
    <2> HIDE DEF x
    <2>5. /\ t \in Seq(Symbol) /\ Len(t) = Len(scopes[i]) /\ t[j] = x
          /\ \A l \in 1..Len(scopes[i]) : l # j => t[l] = scopes[i][l]
      BY <2>1, <2>3, <2>4, SetEntry
    <2> HIDE DEF t
    <2>6. /\ opened \in Seq(Seq(Symbol)) /\ Len(opened) = Len(scopes) /\ opened[i] = t
          /\ \A l \in 1..Len(scopes) : l # i => opened[l] = scopes[l]
      BY <2>1, <2>2, <2>5, SetTable
    <2>7. SameSymbols(scopes, opened)
      BY <2>4, <2>5, <2>6 DEF SameSymbols
    <2> QED BY <2>1, <2>7, SameTables
  <1> HIDE DEF opened
  <1>6. Tables(scopes') /\ NamesOf(scopes') = NamesOf(scopes) /\ Len(scopes') = Len(scopes) + 1
    BY <1>1, <1>2, <1>4, <1>5, ParamsAre, OpenScope
  <1>7. CodeOK'
    <2>1. /\ Op("push rbp") \in InstrType /\ Op("mov rbp, rsp") \in InstrType
          /\ I("sub rsp, frame", 0, 0, Unset) \in InstrType
      BY OpcodesAre, OpIs, Zero, InstrIs, Zenon DEF Unset
    <2>2. text' \in Seq(InstrType)
      BY <1>1, <2>1, ShortSeqs, EmitIs
    <2> QED BY <1>1, <2>2 DEF CodeOK, CompilerInv, TypeOK
  <1>8. ControlOK'
    <2>1. depth' = 3 /\ FunctionNames' = FunctionNames
      <3>1. Len(scopes) = 2 /\ Len(scopes') = Len(scopes) + 1 /\ depth' = Len(scopes')
        BY <1>3, <1>6 DEF depth
      <3>2. FunctionNames' = FunctionNames
        BY <1>6 DEF FunctionNames, NamesOf
      <3> QED BY <3>1, <3>2
    <2>2. 0 \in Nat /\ 3 \in Scopes /\ 3 - 1 = 2 /\ 2 + 1 = 3
      BY DEF Scopes
    <2>3. Fits(Jump("enddefine", 0, 3, 0, rip + 2), 0, 3, 0, 2)
      <3>1. Fits(Jump("enddefine", 0, 3, 0, rip + 2), 0, 3, 0, 3 - 1)
        BY <1>3, <2>2, JumpFits
      <3> QED BY <2>2, <3>1, Zenon
    <2>4. Block(Body(0, 3), 0, 3, 0, 3)
      BY <2>2, BodyFits
    <2>5. Block(Body(0, 3) \o << Jump("enddefine", 0, 3, 0, rip + 2) >>, 0, 3, 0, 2)
      BY <2>3, <2>4, BlockOne, BlockConcat
    <2>6. todo' = Body(0, 3) \o << Jump("enddefine", 0, 3, 0, rip + 2) >>
      BY <1>1, <1>3, <2>2
    <2>7. absent' = absent
      BY <1>1, SourceKept
    <2>8. Block(todo', level', depth', 0, 2)
      BY <1>3, <2>1, <2>5, <2>6
    <2> QED BY <1>3, <2>1, <2>7, <2>8, FreshControl, Zenon
  <1>9. SourceStep /\ SitesSaved' /\ bss' \in Nat /\ frame' \in Nat
    BY <1>1, SourceKept DEF aux, SitesSaved, UserCalls, CompilerInv, TypeOK
  <1> QED BY <1>1, <1>2, <1>6, <1>7, <1>8, <1>9, ScopeInv

(* Between the passes.                                                     *)
LEMMA InitInv ==
    ASSUME Init
    PROVE  CompilerInv
  <1>1. scopes \in Seq(Seq(Symbol)) /\ Len(scopes) = 1
    <2>1. <<>> \in Seq(Symbol)
      BY EmptySeq
    <2> QED BY <2>1 DEF Init
  <1>2. /\ todo \in Seq(ItemType) /\ text \in Seq(InstrType) /\ relas \in Seq(RelaType)
        /\ prog \in Seq(Exprs \union Stmts \union {Next1, Stop})
    BY EmptySeq DEF Init
  <1>3. TypeOK
    BY <1>1, <1>2 DEF Init, TypeOK
  <1>4. ControlLinked /\ CallsPending
    BY EmptySeq DEF Init, ControlLinked, CallsPending, Running
  <1>5. SitesSaved /\ Reported
    BY DEF Init, SitesSaved, UserCalls, Reported
  <1>6. TablesOpen /\ FunctionsFirst
    BY <1>1 DEF Init, TablesOpen, FunctionsFirst, depth
  <1>7. Complete
    <2>1. 1..0 = {} /\ Len(<<>>) = 0
      BY EmptySeq
    <2> QED BY <2>1 DEF Init, Complete
  <1> QED BY <1>3, <1>4, <1>5, <1>6, <1>7 DEF CompilerInv

(* declare_functions, one top-level statement at a time,                   *)
LEMMA DeclareInv ==
    ASSUME CompilerInv, Declare
    PROVE  CompilerInv'
  <1> DEFINE t == tree[top]
             f == Sym("func", "global", t.id, 0, 0, Len(t.params))
  <1>1. /\ phase = "declare" /\ top <= Len(tree)
        /\ \/ top' = Len(tree) + 1 /\ UNCHANGED scopes
           \/ /\ top' = top + 1
              /\ \/ scopes' = scopes
                 \/ scopes' = [scopes EXCEPT ![1] = Append(@, f)]
        /\ UNCHANGED <<tree, phase, outcome, source, todo, reg, code, bss, frame, start, sp, aux>>
    BY DEF Declare
  <1>2. /\ scopes \in Seq(Seq(Symbol)) /\ Len(scopes) = 1 /\ 1 \in 1..Len(scopes)
        /\ reg = 0 /\ todo = <<>> /\ top \in Nat \ {0} /\ Len(tree) \in Nat
    <2>1. /\ scopes \in Seq(Seq(Symbol)) /\ depth = 1 /\ reg = 0 /\ todo = <<>>
          /\ top \in Nat \ {0} /\ tree \in Seq(TopNode)
      BY <1>1, TreesAssumption DEF CompilerInv, TypeOK, TablesOpen
    <2>2. Len(scopes) = 1 /\ Len(tree) \in Nat
      BY <2>1, LenProperties DEF depth
    <2> QED BY <2>1, <2>2
  <1>3. scopes' \in Seq(Seq(Symbol)) /\ Len(scopes') = 1
    <2>1. f \in Symbol
      <3>1. t \in TopNode
        BY <1>1, <1>2, TreesAssumption DEF CompilerInv, TypeOK
      <3> HIDE DEF t
      <3>2. t.id \in STRING /\ Len(t.params) \in Nat
        BY <3>1, LenProperties DEF TopNode
      <3> QED BY <3>2 DEF Sym, Symbol
    <2> HIDE DEF f
    <2> DEFINE functions == Append(scopes[1], f)
    <2>2. functions \in Seq(Symbol)
      <3>1. scopes[1] \in Seq(Symbol)
        BY <1>2
      <3> QED BY <2>1, <3>1, AppendProperties
    <2>3. scopes' = scopes \/ scopes' = [scopes EXCEPT ![1] = functions]
      BY <1>1
    <2> HIDE DEF functions
    <2> QED BY <1>2, <2>2, <2>3, SetTable
  <1>4. top' \in Nat \ {0}
    BY <1>1, <1>2
  <1>5. TypeOK'
    BY <1>1, <1>3, <1>4 DEF CompilerInv, TypeOK, source, code
  <1>6. ControlLinked' /\ CallsPending'
    BY <1>1, <1>2, EmptySeq DEF ControlLinked, Running, CallsPending
  <1>7. SitesSaved' /\ Complete' /\ Reported'
    BY <1>1, SourceKept DEF CompilerInv, SitesSaved, UserCalls, aux, Reported, Running,
                            SourceStep, SourceOK
  <1>8. TablesOpen' /\ FunctionsFirst'
    BY <1>1, <1>2, <1>3, SourceKept DEF TablesOpen, FunctionsFirst, depth, CompilerInv
  <1> QED BY <1>5, <1>6, <1>7, <1>8 DEF CompilerInv

(* and its end.                                                            *)
LEMMA DeclaredInv ==
    ASSUME CompilerInv, Declared
    PROVE  CompilerInv'
  <1>1. /\ phase = "declare" /\ scopes' = Append(scopes, <<>>) /\ top' = 1
        /\ \/ phase' = "end" /\ outcome' = "nomain"
           \/ Mains # {} /\ phase' = "pass1" /\ outcome' = outcome
        /\ UNCHANGED <<tree, source, todo, reg, code, bss, frame, start, sp, aux>>
    BY DEF Declared
  <1>2. scopes \in Seq(Seq(Symbol)) /\ Len(scopes) = 1 /\ reg = 0 /\ todo = <<>>
    BY <1>1 DEF CompilerInv, TypeOK, TablesOpen, depth
  <1>3. /\ scopes' \in Seq(Seq(Symbol)) /\ Len(scopes') = 2
        /\ scopes'[1] = scopes[1] /\ scopes'[2] = <<>>
    <2> DEFINE S    == Seq(Symbol)
               none == <<>>
    <2>1. none \in S /\ scopes \in Seq(S) /\ scopes' = Append(scopes, none) /\ Len(scopes) = 1
      BY <1>1, <1>2, EmptySeq
    <2> HIDE DEF S, none
    <2> DEFINE u == Append(scopes, none)
    <2>2. /\ u \in Seq(S) /\ Len(u) = Len(scopes) + 1
          /\ \A i \in 1..Len(scopes) : u[i] = scopes[i]
          /\ u[Len(scopes) + 1] = none
      BY <2>1, AddEntry
    <2> HIDE DEF u
    <2>3. u \in Seq(S) /\ Len(u) = 2 /\ u[1] = scopes[1] /\ u[2] = none
      BY <2>1, <2>2
    <2>4. scopes' \in Seq(S) /\ Len(scopes') = 2 /\ scopes'[1] = scopes[1] /\ scopes'[2] = none
      BY <2>1, <2>3 DEF u
    <2> QED BY <2>4 DEF S, none
  <1>4. TypeOK'
    BY <1>1, <1>3 DEF CompilerInv, TypeOK, source, code
  <1>5. ControlLinked' /\ CallsPending'
    <2>1. level' = 0 /\ todo' = <<>> /\ depth' = 2
      BY <1>1, <1>2, <1>3, SourceKept DEF level, depth, CompilerInv, TablesOpen
    <2> QED BY <2>1, EmptySeq DEF ControlLinked, CallsPending, Linked
  <1>6. SitesSaved' /\ Complete' /\ Reported'
    BY <1>1, SourceKept DEF CompilerInv, SitesSaved, UserCalls, aux, Reported, Running,
                            SourceStep, SourceOK
  <1>7. FunctionsFirst'
    <2>1. \A i \in 2..2 : i = 2
      OBVIOUS
    <2>2. Len(scopes'[2]) = 0
      BY <1>3, EmptySeq
    <2>3. 1..0 = {}
      OBVIOUS
    <2> QED BY <1>3, <2>1, <2>2, <2>3, Zenon DEF FunctionsFirst
  <1>8. TablesOpen'
    <2>1. ASSUME Mains # {}
          PROVE  "main" \in FunctionNames'
      <3>1. PICK i \in 1..Len(scopes[1]) : scopes[1][i].id = "main"
        BY <2>1 DEF Mains
      <3> QED BY <1>3, <3>1 DEF FunctionNames
    <2>2. depth' = 2
      BY <1>3 DEF depth
    <2> QED BY <1>1, <2>1, <2>2 DEF TablesOpen
  <1> QED BY <1>4, <1>5, <1>6, <1>7, <1>8 DEF CompilerInv

(* Between the passes a register stack that is not empty lacked an operand. *)
LEMMA SecondPassInv ==
    ASSUME CompilerInv, SecondPass
    PROVE  CompilerInv'
  <1>1. /\ phase = "pass1" /\ todo = <<>> /\ top' = 1
        /\ text' = <<>> /\ relas' = <<>> /\ bss' = 0
        /\ scopes' = [scopes EXCEPT ![2] = <<>>] /\ sites' = {}
        /\ \/ reg = 0 /\ phase' = "pass2" /\ outcome' = outcome
           \/ reg # 0 /\ phase' = "end" /\ outcome' = "unbalanced"
        /\ UNCHANGED <<tree, source, todo, reg, frame, start, sp>>
    BY DEF SecondPass, section_free, free_array
  <1>2. Running
    BY <1>1 DEF Running
  <1>3. /\ level = 0 /\ depth = 2 /\ level' = level /\ (reg = 0 <=> absent = 0)
        /\ reg \in Int /\ absent \in Nat
    <2>1. level = 0 /\ depth = 2 /\ level = reg + absent /\ reg \in Int /\ absent \in Nat
      BY <1>1, <1>2, TopFacts
    <2> QED BY <1>1, <2>1 DEF level, source
  <1>4. Tables(scopes') /\ NamesOf(scopes') = NamesOf(scopes) /\ Len(scopes') = Len(scopes)
    <2>1. <<>> \in Seq(Symbol) /\ \A j \in 1..Len(<<>>) : <<>>[j].type = "var"
      <3>1. <<>> \in Seq(Symbol) /\ Len(<<>>) = 0
        BY EmptySeq
      <3>2. 1..0 = {}
        OBVIOUS
      <3> QED BY <3>1, <3>2, Zenon
    <2>2. 2 \in 2..Len(scopes) /\ Tables(scopes)
      BY <1>2, RunningTables DEF Tables
    <2> DEFINE none == <<>>
    <2>3. none \in Seq(Symbol) /\ \A j \in 1..Len(none) : none[j].type = "var"
      BY <2>1
    <2>4. scopes' = [scopes EXCEPT ![2] = none]
      BY <1>1
    <2> HIDE DEF none
    <2> QED BY <2>2, <2>3, <2>4, ReplaceTable
  <1>5. depth' = 2
    BY <1>3, <1>4 DEF depth
  <1>6. TypeOK'
    BY <1>1, <1>3, <1>4, EmptySeq DEF CompilerInv, TypeOK, Tables, source
  <1>7. ControlLinked' /\ CallsPending'
    BY <1>1, <1>3, <1>5, EmptySeq DEF ControlLinked, CallsPending, Linked
  <1>8. SitesSaved' /\ Complete' /\ Reported'
    <2>1. absent' = absent /\ Complete'
      BY <1>1, SourceKept DEF SourceStep, SourceOK
    <2> QED BY <1>1, <1>3, <2>1 DEF CompilerInv, SitesSaved, UserCalls, Reported, Running
  <1>9. FunctionsFirst' /\ FunctionNames' = FunctionNames
    BY <1>4 DEF FunctionsFirst, Tables, FunctionNames, NamesOf
  <1>10. TablesOpen'
    BY <1>1, <1>3, <1>5, <1>9 DEF TablesOpen, CompilerInv
  <1> QED BY <1>6, <1>7, <1>8, <1>9, <1>10 DEF CompilerInv

(* The end of the second pass.                                             *)
LEMMA PassEndInv ==
    ASSUME CompilerInv, CompilePassEnd
    PROVE  CompilerInv'
  <1>1. /\ phase = "pass2" /\ phase' = "start"
        /\ UNCHANGED <<tree, outcome, top, source, todo, storage, reg, code, start, sp, aux>>
    BY DEF CompilePassEnd
  <1>2. TypeOK'
    BY <1>1 DEF CompilerInv, TypeOK, source, storage, code
  <1>3. ControlLinked' /\ CallsPending' /\ SitesSaved'
    BY <1>1, SourceKept DEF CompilerInv, ControlLinked, Running, CallsPending, SitesSaved, UserCalls,
                FunctionNames, storage, aux, Mask, SaveCode, RestoreCode
  <1>4. TablesOpen' /\ FunctionsFirst'
    BY <1>1 DEF CompilerInv, TablesOpen, FunctionsFirst, FunctionNames, depth, storage
  <1>5. Complete' /\ Reported'
    BY <1>1, SourceKept DEF CompilerInv, Reported, Running, SourceStep, SourceOK
  <1> QED BY <1>2, <1>3, <1>4, <1>5 DEF CompilerInv

(* _start: calls of the initialisers and of main, then the exit.           *)
LEMMA StartTargetsAre ==
    ASSUME CompilerInv, phase = "start"
    PROVE  StartTargets \in Seq(Nat)
  <1>1. scopes \in Seq(Seq(Symbol)) /\ Len(scopes) \in Nat /\ Len(scopes) >= 2 /\ scopes # <<>>
    BY LenProperties, EmptySeq DEF CompilerInv, TypeOK, TablesOpen, depth
  <1>2. main.offset \in Nat
    <2>1. main \in Symbol
      BY <1>1, MainFound DEF CompilerInv, TablesOpen
    <2> QED BY <2>1 DEF Symbol
  <1> DEFINE globals == scopes[Len(scopes)]
             offsets == [i \in 1..Len(globals) |-> globals[i].offset]
  <1>3. globals \in Seq(Symbol) /\ Len(globals) \in Nat
    BY <1>1, LenProperties
  <1> HIDE DEF globals
  <1>4. \A i \in 1..Len(globals) : globals[i].offset \in Nat
    <2>1. \A i \in 1..Len(globals) : globals[i] \in Symbol
      BY <1>3
    <2> QED BY <2>1 DEF Symbol
  <1>5. offsets \in Seq(Nat)
    BY <1>3, <1>4
  <1> HIDE DEF offsets
  <1>6. StartTargets = Append(offsets, main.offset)
    BY DEF StartTargets, offsets, globals
  <1> QED BY <1>2, <1>5, <1>6, AppendProperties

(* compile_start.                                                          *)
LEMMA StartInv ==
    ASSUME CompilerInv, compile_start
    PROVE  CompilerInv'
  <1> DEFINE n     == Len(StartTargets)
             calls == [i \in 1..n |-> I("call", 0, 0, Displace(StartTargets[i], rip + i - 1))]
             exit  == << Op("mov rdi, rax"), Op("mov rax, 0x3c"), Op("syscall") >>
  <1>1. /\ phase = "start" /\ start' = rip /\ text' = text \o calls \o exit /\ phase' = "end"
        /\ outcome' = IF outcome = "none" THEN "ok" ELSE outcome
        /\ UNCHANGED <<tree, top, source, todo, storage, reg, relas, sp, aux>>
    BY DEF compile_start
  <1>2. n \in Nat /\ rip \in Nat /\ \A i \in 1..n : StartTargets[i] \in Nat
    <2>1. StartTargets \in Seq(Nat)
      BY <1>1, StartTargetsAre
    <2>2. rip \in Nat
      BY AddressIs
    <2> QED BY <2>1, <2>2, LenProperties
  <1> HIDE DEF n
  <1>3. calls \in Seq(InstrType)
    <2>1. \A i \in 1..n : Displace(StartTargets[i], rip + i - 1) \in Int
      BY <1>2 DEF Displace
    <2>2. \A i \in 1..n : I("call", 0, 0, Displace(StartTargets[i], rip + i - 1)) \in InstrType
      BY <2>1, OpcodesAre, Zero, InstrIs, Zenon
    <2> QED BY <1>2, <2>2
  <1>4. exit \in Seq(InstrType)
    <2>1. /\ Op("mov rdi, rax") \in InstrType /\ Op("mov rax, 0x3c") \in InstrType
          /\ Op("syscall") \in InstrType
      BY OpcodesAre, OpIs, Zenon
    <2> QED BY <2>1, ShortSeqs
  <1> HIDE DEF calls, exit
  <1>5. TypeOK'
    <2>1. text' \in Seq(InstrType)
      BY <1>1, <1>3, <1>4, ConcatProperties DEF CompilerInv, TypeOK
    <2> QED BY <1>1, <1>2, <2>1 DEF CompilerInv, TypeOK, source, storage
  <1>6. ControlLinked' /\ CallsPending' /\ SitesSaved'
    BY <1>1, SourceKept DEF CompilerInv, ControlLinked, Running, CallsPending, SitesSaved, UserCalls,
                FunctionNames, storage, aux, Mask, SaveCode, RestoreCode
  <1>7. TablesOpen' /\ FunctionsFirst'
    BY <1>1 DEF CompilerInv, TablesOpen, FunctionsFirst, storage
  <1>8. Complete' /\ Reported'
    BY <1>1, SourceKept DEF CompilerInv, Reported, Running, SourceStep, SourceOK
  <1> QED BY <1>5, <1>6, <1>7, <1>8 DEF CompilerInv

(* A step that changes nothing.                                            *)
LEMMA StutterInv ==
    ASSUME CompilerInv, UNCHANGED vars
    PROVE  CompilerInv'
  <1>1. UNCHANGED <<control, source, todo, storage, reg, code, start, sp, aux>>
    BY DEF vars
  <1>2. TypeOK'
    BY <1>1 DEF CompilerInv, TypeOK, control, source, storage, code
  <1>3. ControlLinked' /\ CallsPending' /\ SitesSaved'
    BY <1>1, SourceKept DEF level, CompilerInv, ControlLinked, Running, CallsPending, SitesSaved, UserCalls, control,
                FunctionNames, storage, aux, Mask, SaveCode, RestoreCode, depth, Linked
  <1>4. TablesOpen' /\ FunctionsFirst'
    BY <1>1, SourceKept DEF CompilerInv, TablesOpen, FunctionsFirst, FunctionNames, depth, control,
                            storage
  <1>5. Complete' /\ Reported'
    BY <1>1, SourceKept DEF CompilerInv, Reported, Running, SourceStep, SourceOK, control
  <1> QED BY <1>2, <1>3, <1>4, <1>5 DEF CompilerInv

(* Every step of the code generator keeps CompilerInv.                     *)
LEMMA StepInv ==
    ASSUME CompilerInv, [Next]_vars
    PROVE  CompilerInv'
  <1>1. CASE Declare \/ Declared \/ SecondPass \/ CompilePassEnd \/ compile_start
    BY <1>1, DeclareInv, DeclaredInv, SecondPassInv, PassEndInv, StartInv
  <1>2. CASE compile_define \/ GlobalAssign \/ EndDefine \/ EndWhile \/ EndIf
    BY <1>2, DefineInv, GlobalAssignInv, EndInv
  <1>3. CASE \/ DefineRejected \/ VariableRejected \/ OperatorRejected
             \/ CallRejected \/ AssignRejected \/ CallStmtRejected
    BY <1>3, RejectedInv
  <1>4. CASE \/ compile_load_num \/ LoadVariable \/ LoadElement \/ BinaryExpr
             \/ compile_expr_bin \/ NotExpr \/ compile_expr_not \/ InExpr
    BY <1>4, LoadNumInv, LoadVariableInv, LoadElementInv, BinaryInv, BinInv, NotExprInv, NotInv, InInv
  <1>5. CASE CallExpr \/ CallStmt \/ CallArgument \/ PushArgument \/ CallEnd
    BY <1>5, CallInv, CallArgumentInv, PushArgumentInv, CallEndInv
  <1>6. CASE \/ compile_stmt \/ AssignStmt \/ Reassign \/ StoreElement \/ DeclareVariable
             \/ DropResult \/ OutOrReturn \/ OutStmt \/ compile_return
    BY <1>6, StmtInv, AssignStmtInv, ReassignInv, StoreElementInv, DeclareVariableInv,
       DropInv, OutOrReturnInv, OutInv, ReturnInv
  <1>7. CASE Conditional \/ TestCondition \/ Else
    BY <1>7, ConditionalInv, TestInv, ElseInv
  <1>8. CASE Terminating \/ UNCHANGED vars
    BY <1>8, StutterInv DEF Terminating
  <1> QED BY <1>1, <1>2, <1>3, <1>4, <1>5, <1>6, <1>7, <1>8, Zenon DEF Next

(* CompilerInv holds throughout, whatever the tree and however many        *)
(* registers there are: what is still to be compiled always brings the     *)
(* register stack and the scopes back to where they were.                  *)
THEOREM Invariant == Spec => []CompilerInv
  <1>1. Init => CompilerInv
    BY InitInv
  <1>2. CompilerInv /\ [Next]_vars => CompilerInv'
    BY StepInv
  <1> QED BY <1>1, <1>2, PTL DEF Spec

(* Types: every register number in the code fits its field.                *)
THEOREM TypeCorrect == Spec => []TypeOK
  <1>1. CompilerInv => TypeOK
    BY DEF CompilerInv
  <1> QED BY <1>1, Invariant, PTL

(* compile_tree reports an "Unbalanced register stack" for the trees in    *)
(* which an operator lacks an operand and for no other, and what           *)
(* compile_start takes for the table of globals is that table.             *)
THEOREM AlwaysBalanced == Spec => []Balanced
  <1>1. CompilerInv => Balanced
    <2>1. CompilerInv /\ Running /\ todo = <<>> => reg = -absent /\ depth = 2
      BY TopFacts
    <2> QED BY <2>1 DEF CompilerInv, Reported, Balanced
  <1> QED BY <1>1, Invariant, PTL

(* compile_call keeps fewer than NREG pending values across a call, as     *)
(* long as no operand is absent.                                           *)
THEOREM CallsKeepValues == Spec => []PendingValuesSurvive
  <1>1. CompilerInv => PendingValuesSurvive
    <2> SUFFICES ASSUME CompilerInv, absent = 0, NEW c \in UserCalls, c.live < NREG
                 PROVE  /\ \A d \in 1..c.live : Mask(d) \in Regs(c.saved)
                        /\ Len(c.restored) = Len(c.saved)
                        /\ \A i \in 1..Len(c.saved) :
                              c.restored[i].r = c.saved[Len(c.saved) + 1 - i].r
                        /\ Mask(c.live + 1) \notin Regs(c.restored)
      BY DEF PendingValuesSurvive
    <2> DEFINE n == c.live
    <2>1. n \in Nat /\ c.saved = SaveCode(Mask(n)) /\ c.restored = RestoreCode(Mask(n))
      BY DEF CompilerInv, SitesSaved
    <2> HIDE DEF n
    <2>2. Mask(n) = n /\ \A d \in 1..n : Mask(d) = d
      <3>1. n < NREG /\ NREG \in Nat /\ n \in Nat
        BY <2>1, RegistersAssumption DEF n
      <3>2. \A d \in 1..n : d \in Nat /\ d < NREG
        BY <3>1
      <3> QED BY <3>1, <3>2, MaskBelow, Zenon
    <2>3. /\ Len(c.saved) = n /\ Len(c.restored) = n
          /\ \A i \in 1..n : c.saved[i].r = i /\ c.restored[i].r = n + 1 - i
      BY <2>1, <2>2 DEF SaveCode, RestoreCode, I
    <2>4. \A d \in 1..n : Mask(d) \in Regs(c.saved)
      BY <2>2, <2>3 DEF Regs
    <2>5. \A i \in 1..n : c.restored[i].r = c.saved[n + 1 - i].r
      <3>1. \A i \in 1..n : n + 1 - i \in 1..n
        BY <2>1
      <3> QED BY <2>3, <3>1
    <2>6. Mask(n + 1) \notin Regs(c.restored)
      <3>1. Mask(n + 1) = 0 \/ Mask(n + 1) = n + 1
        BY <2>1, RegistersAssumption DEF Mask, n
      <3>2. \A i \in 1..n : n + 1 - i # 0 /\ n + 1 - i # n + 1
        BY <2>1
      <3> QED BY <2>3, <3>1, <3>2 DEF Regs
    <2> QED BY <2>3, <2>4, <2>5, <2>6 DEF n
  <1> QED BY <1>1, Invariant, PTL

(* The tables: in the symbol tables a visible name is declared once and no *)
(* two visible variables share a byte of a frame or of .bss; the           *)
(* relocations are those of the instructions that need one, each once.     *)

(* An imm32 reaches all of .bss, of b bytes, or of the frame, of f bytes.   *)
Reached(vis, b, f) == IF vis = "global" THEN b <= HALF ELSE f <= HALF

(* Two variables in the same kind of storage, as long as it is reached, do *)
(* not overlap.                                                            *)
Clear(x, y, b, f) ==
    x.type = "var" /\ y.type = "var" /\ x.vis = y.vis /\ Reached(x.vis, b, f) =>
        x.addend + x.info <= y.addend \/ y.addend + y.info <= x.addend

(* Functions are global; a variable of table i lies where its kind does:   *)
(* those of the second table in the b bytes of .bss, those of the others   *)
(* above the return address or in the f bytes of the frame, as long as     *)
(* these are reached; beyond, a local still begins inside the frame.       *)
Laid(x, i, b, f) ==
    /\ x.type = "func" => x.vis = "global"
    /\ x.type = "var" =>
        \/ /\ i = 2 /\ x.vis = "global"
           /\ b <= HALF => 0 <= x.addend /\ x.addend + x.info <= b
        \/ /\ i >= 3 /\ x.vis = "local" /\ -f <= x.addend
           /\ f <= HALF => x.addend >= 2 * WORD \/ x.addend + x.info <= 0

Differ(s, i, j, l, m, b, f) ==
    s[i][j].id # s[l][m].id /\ Clear(s[i][j], s[l][m], b, f)

ScopesOK(s, b, f) ==
    /\ \A i \in 1..Len(s) : \A j \in 1..Len(s[i]) : Laid(s[i][j], i, b, f)
    /\ \A i, l \in 1..Len(s) : \A j \in 1..Len(s[i]), m \in 1..Len(s[l]) :
          <<i, j>> # <<l, m>> => Differ(s, i, j, l, m, b, f)

(* The end of a definition is compiled with one table of locals open.      *)
EndsAtThree == \A i \in 1..Len(todo) : todo[i].k = "enddefine" => todo[i].d = 3

ScopesInv == ScopesOK(scopes, bss, frame) /\ EndsAtThree

(* Tables.                                                                 *)

(* Only the offset of a symbol changes once it is declared.                *)
Same(x, y) ==
    /\ x.type = y.type /\ x.vis = y.vis /\ x.id = y.id
    /\ x.addend = y.addend /\ x.info = y.info
Old(s, u, i, j) ==
    i \in 1..Len(s) /\ j \in 1..Len(s[i]) /\ Same(u[i][j], s[i][j])

(* The numbers of a symbol.                                                *)
LEMMA SymbolNumbers ==
    ASSUME NEW x \in Symbol
    PROVE  x.addend \in Int /\ x.info \in Nat
  BY DEF Symbol

(* An entry stays where it is; the space may grow.                         *)
LEMMA LaidSame ==
    ASSUME NEW x, NEW y \in Symbol, Same(x, y), NEW i \in Int,
           NEW b \in Nat, NEW f \in Nat, NEW c \in Nat, NEW g \in Nat,
           Laid(y, i, b, f), i = 2 => c >= b, i >= 3 => g >= f
    PROVE  Laid(x, i, c, g)
  <1>1. y.addend \in Int /\ y.info \in Nat /\ 2 * WORD \in Int /\ HALF \in Nat
    BY SymbolNumbers, ImmIs DEF WORD
  <1> QED BY <1>1 DEF Laid, Same

(* Entries that were there stay as they were laid out; those at the places *)
(* of F are new, and have to differ from all others.                       *)
Joins(s, u, F, b, f, c, g) ==
    /\ \A i \in 1..Len(u) : \A j \in 1..Len(u[i]) :
          \/ <<i, j>> \in F /\ Laid(u[i][j], i, c, g)
          \/ Old(s, u, i, j) /\ (i = 2 => c >= b) /\ (i >= 3 => g >= f)
    /\ \A i, l \in 1..Len(u) : \A j \in 1..Len(u[i]), m \in 1..Len(u[l]) :
          <<i, j>> \in F /\ <<i, j>> # <<l, m>> => Differ(u, i, j, l, m, c, g)
LEMMA Joined ==
    ASSUME NEW s \in Seq(Seq(Symbol)), NEW u \in Seq(Seq(Symbol)), NEW F,
           NEW b \in Nat, NEW f \in Nat, NEW c \in Nat, NEW g \in Nat,
           ScopesOK(s, b, f),
           Joins(s, u, F, b, f, c, g)
    PROVE  ScopesOK(u, c, g)
  <1>1. ASSUME NEW i \in 1..Len(u), NEW j \in 1..Len(u[i])
        PROVE  Laid(u[i][j], i, c, g)
    <2>0. \/ <<i, j>> \in F /\ Laid(u[i][j], i, c, g)
          \/ Old(s, u, i, j) /\ (i = 2 => c >= b) /\ (i >= 3 => g >= f)
      BY DEF Joins
    <2>1. CASE <<i, j>> \in F /\ Laid(u[i][j], i, c, g)
      BY <2>1
    <2>2. CASE Old(s, u, i, j) /\ (i = 2 => c >= b) /\ (i >= 3 => g >= f)
      <3>1. i \in 1..Len(s) /\ j \in 1..Len(s[i]) /\ Same(u[i][j], s[i][j])
        BY <2>2 DEF Old
      <3>2. Laid(s[i][j], i, b, f) /\ s[i][j] \in Symbol
        BY <3>1 DEF ScopesOK
      <3>3. i \in Int
        OBVIOUS
      <3> QED BY <2>2, <3>1, <3>2, <3>3, LaidSame, Zenon
    <2> QED BY <2>0, <2>1, <2>2
  <1>2. ASSUME NEW i \in 1..Len(u), NEW l \in 1..Len(u),
               NEW j \in 1..Len(u[i]), NEW m \in 1..Len(u[l]), <<i, j>> # <<l, m>>
        PROVE  Differ(u, i, j, l, m, c, g)
    <2>1. CASE <<i, j>> \in F
      BY <1>2, <2>1 DEF Joins
    <2>2. CASE <<l, m>> \in F
      <3>1. Differ(u, l, m, i, j, c, g)
        BY <1>2, <2>2 DEF Joins
      <3> QED BY <3>1 DEF Differ, Clear
    <2>3. CASE /\ Old(s, u, i, j) /\ (i = 2 => c >= b) /\ (i >= 3 => g >= f)
               /\ Old(s, u, l, m)
      <3>1. Differ(s, i, j, l, m, b, f) /\ Laid(s[i][j], i, b, f)
        BY <1>2, <2>3 DEF Old, ScopesOK
      <3>2. ASSUME s[i][j].type = "var", Reached(s[i][j].vis, c, g)
            PROVE  Reached(s[i][j].vis, b, f)
        <4>1. \/ i = 2 /\ s[i][j].vis = "global"
              \/ i >= 3 /\ s[i][j].vis = "local"
          BY <3>1, <3>2 DEF Laid
        <4>2. HALF \in Nat
          BY ImmIs
        <4>3. CASE i = 2 /\ s[i][j].vis = "global"
          BY <2>3, <3>2, <4>2, <4>3 DEF Reached
        <4>4. CASE i >= 3 /\ s[i][j].vis = "local"
          <5>1. g >= f /\ g <= HALF
            BY <2>3, <3>2, <4>4 DEF Reached
          <5> QED BY <4>2, <4>4, <5>1 DEF Reached
        <4> QED BY <4>1, <4>3, <4>4
      <3> QED BY <2>3, <3>1, <3>2 DEF Differ, Clear, Old, Same
    <2> QED BY <2>1, <2>2, <2>3 DEF Joins
  <1> QED BY <1>1, <1>2 DEF ScopesOK

(* Fewer entries, or the same.                                             *)
Keeps(s, u, b, f, c, g) ==
    \A i \in 1..Len(u) : \A j \in 1..Len(u[i]) :
       Old(s, u, i, j) /\ (i = 2 => c >= b) /\ (i >= 3 => g >= f)

LEMMA Kept ==
    ASSUME NEW s \in Seq(Seq(Symbol)), NEW u \in Seq(Seq(Symbol)),
           NEW b \in Nat, NEW f \in Nat, NEW c \in Nat, NEW g \in Nat,
           ScopesOK(s, b, f), Keeps(s, u, b, f, c, g)
    PROVE  ScopesOK(u, c, g)
  <1>1. Joins(s, u, {}, b, f, c, g)
    BY DEF Joins, Keeps
  <1> QED BY <1>1, Joined

(* Symbol x differs from all of the tables s.                              *)
New(x, s, b, f) == \A i \in 1..Len(s) : \A j \in 1..Len(s[i]) :
                      x.id # s[i][j].id /\ Clear(x, s[i][j], b, f)

(* One entry more, at the end of a table.                                  *)
LEMMA OneMore ==
    ASSUME NEW s \in Seq(Seq(Symbol)), NEW n \in 1..Len(s), NEW x \in Symbol,
           NEW u, u = [s EXCEPT ![n] = Append(@, x)],
           NEW b \in Nat, NEW f \in Nat, NEW c \in Nat, NEW g \in Nat,
           ScopesOK(s, b, f), c >= b, g >= f, Laid(x, n, c, g), New(x, s, c, g)
    PROVE  u \in Seq(Seq(Symbol)) /\ ScopesOK(u, c, g)
  <1> DEFINE t == Append(s[n], x)
             k == Len(s[n]) + 1
             F == {<<n, k>>}
  <1>1. s[n] \in Seq(Symbol)
    OBVIOUS
  <1>2. /\ t \in Seq(Symbol) /\ Len(t) = k /\ Len(s[n]) \in Nat
        /\ \A j \in 1..Len(s[n]) : t[j] = s[n][j]
        /\ t[k] = x
    BY <1>1, AppendProperties, LenProperties
  <1>3. u = [s EXCEPT ![n] = t]
    OBVIOUS
  <1> HIDE DEF t
  <1>4. /\ u \in Seq(Seq(Symbol)) /\ Len(u) = Len(s) /\ u[n] = t
        /\ \A i \in 1..Len(s) : i # n => u[i] = s[i]
    BY <1>2, <1>3, SetTable
  <1>5. ASSUME NEW i \in 1..Len(u), NEW j \in 1..Len(u[i])
        PROVE  \/ i = n /\ j = k /\ u[i][j] = x
               \/ i \in 1..Len(s) /\ j \in 1..Len(s[i]) /\ u[i][j] = s[i][j]
                  /\ <<i, j>> # <<n, k>>
    <2>1. CASE i = n
      <3>1. j \in 1..Len(s[n]) \/ j = k
        BY <1>2, <1>4, <2>1
      <3> QED BY <1>2, <1>4, <2>1, <3>1
    <2>2. CASE i # n
      BY <1>4, <2>2
    <2> QED BY <2>1, <2>2
  <1> HIDE DEF k
  <1>6. \A i \in 1..Len(u) : \A j \in 1..Len(u[i]) :
           \/ <<i, j>> \in F /\ Laid(u[i][j], i, c, g)
           \/ Old(s, u, i, j) /\ (i = 2 => c >= b) /\ (i >= 3 => g >= f)
    BY <1>5 DEF Old, Same
  <1>7. ASSUME NEW i \in 1..Len(u), NEW l \in 1..Len(u),
               NEW j \in 1..Len(u[i]), NEW m \in 1..Len(u[l]),
               <<i, j>> \in F, <<i, j>> # <<l, m>>
        PROVE  Differ(u, i, j, l, m, c, g)
    <2>1. i = n /\ j = k
      BY <1>7
    <2>2. u[i][j] = x
      BY <1>5, <2>1
    <2>3. l \in 1..Len(s) /\ m \in 1..Len(s[l]) /\ u[l][m] = s[l][m]
      BY <1>5, <1>7, <2>1
    <2> QED BY <2>2, <2>3 DEF Differ, New
  <1> HIDE DEF F
  <1>8. \A i, l \in 1..Len(u) : \A j \in 1..Len(u[i]), m \in 1..Len(u[l]) :
           <<i, j>> \in F /\ <<i, j>> # <<l, m>> => Differ(u, i, j, l, m, c, g)
    BY <1>7
  <1>9. Joins(s, u, F, b, f, c, g)
    BY <1>6, <1>8 DEF Joins
  <1> QED BY <1>4, <1>9, Joined

(* One table more.                                                         *)
LEMMA TableMore ==
    ASSUME NEW s \in Seq(Seq(Symbol)), NEW t \in Seq(Symbol), NEW n, n = Len(s) + 1,
           NEW b \in Nat, NEW f \in Nat, ScopesOK(s, b, f),
           \A j \in 1..Len(t) :
              /\ Laid(t[j], n, b, f)
              /\ \A m \in 1..Len(t) : m # j => t[j].id # t[m].id /\ Clear(t[j], t[m], b, f)
              /\ New(t[j], s, b, f)
    PROVE  Append(s, t) \in Seq(Seq(Symbol)) /\ ScopesOK(Append(s, t), b, f)
  <1> DEFINE S == Seq(Symbol)
             u == Append(s, t)
             F == {<<n, j>> : j \in 1..Len(t)}
  <1>1. s \in Seq(S) /\ t \in S /\ Len(s) \in Nat
    BY LenProperties
  <1> HIDE DEF S
  <1>2. /\ u \in Seq(S) /\ Len(u) = n /\ n \in Nat
        /\ \A i \in 1..Len(s) : u[i] = s[i]
        /\ u[n] = t
    BY <1>1, AddEntry
  <1> HIDE DEF u
  <1>3. \A i \in 1..Len(u) : (i = n /\ u[i] = t) \/ (i \in 1..Len(s) /\ i # n /\ u[i] = s[i])
    BY <1>1, <1>2
  <1>4. \A i, j : <<i, j>> \in F <=> i = n /\ j \in 1..Len(t)
    OBVIOUS
  <1> HIDE DEF F
  <1>5. ASSUME NEW i \in 1..Len(u), NEW j \in 1..Len(u[i])
        PROVE  \/ <<i, j>> \in F /\ Laid(u[i][j], i, b, f)
               \/ Old(s, u, i, j)
    BY <1>3, <1>4 DEF Old, Same
  <1>6. ASSUME NEW i \in 1..Len(u), NEW l \in 1..Len(u),
               NEW j \in 1..Len(u[i]), NEW m \in 1..Len(u[l]),
               <<i, j>> \in F, <<i, j>> # <<l, m>>
        PROVE  Differ(u, i, j, l, m, b, f)
    <2>1. i = n /\ u[i] = t /\ j \in 1..Len(t)
      BY <1>3, <1>4, <1>6
    <2>2. CASE l = n /\ u[l] = t
      <3>1. m \in 1..Len(t) /\ m # j
        BY <1>6, <2>1, <2>2
      <3> QED BY <2>1, <2>2, <3>1 DEF Differ
    <2>3. CASE l \in 1..Len(s) /\ u[l] = s[l]
      <3>1. New(t[j], s, b, f) /\ m \in 1..Len(s[l])
        BY <2>1, <2>3
      <3>2. t[j].id # s[l][m].id /\ Clear(t[j], s[l][m], b, f)
        BY <2>3, <3>1 DEF New
      <3> QED BY <2>1, <2>3, <3>2 DEF Differ
    <2> QED BY <1>3, <2>2, <2>3
  <1>7. Joins(s, u, F, b, f, b, f)
    BY <1>5, <1>6 DEF Joins
  <1>8. u \in Seq(Seq(Symbol))
    BY <1>2 DEF S
  <1>9. ScopesOK(u, b, f)
    BY <1>7, <1>8, Joined
  <1> QED BY <1>8, <1>9 DEF u

(* A name that is not found differs from all that are declared.            *)
LEMMA NotFound ==
    ASSUME NEW id, ~Found(id)
    PROVE  \A i \in 1..Len(scopes) : \A j \in 1..Len(scopes[i]) : id # scopes[i][j].id
  <1> SUFFICES ASSUME NEW i \in 1..Len(scopes), NEW j \in 1..Len(scopes[i]),
                      scopes[i][j].id = id
               PROVE  FALSE
    OBVIOUS
  <1>1. <<i, j>> \in Places
    BY DEF Places
  <1>2. <<i, j>> \in Hits(id)
    BY <1>1 DEF Hits
  <1> QED BY <1>2 DEF Found

(* The control stack.                                                      *)

(* The items that stand for an instruction to be patched.                  *)
Marks == {"enddefine", "endwhile", "else", "endif"}

(* Those that are not in C were there.                                     *)
NoNew(C) == \A i \in 1..Len(todo') :
               todo'[i].k \in Marks =>
                  todo'[i] \in C \/ \E l \in 1..Len(todo) : todo'[i] = todo[l]

(* Of what is put on top of the rest, only those of C are of that kind.    *)
LEMMA DoKeeps ==
    ASSUME CompilerInv, NEW C, NEW k, At(k), NEW block, Do(block), NEW S, block \in Seq(S),
           \A i \in 1..Len(block) : block[i].k \in Marks => block[i] \in C
    PROVE  NoNew(C)
  <1>1. todo \in Seq(ItemType) /\ todo # <<>>
    BY DEF At, CompilerInv, TypeOK
  <1>2. /\ Len(todo) \in Nat /\ Tail(todo) \in Seq(ItemType) /\ Len(Tail(todo)) = Len(todo) - 1
        /\ \A i \in 1..Len(Tail(todo)) : Tail(todo)[i] = todo[i + 1]
    BY <1>1
  <1> DEFINE rest == Tail(todo)
             n    == Len(block)
  <1>3. /\ n \in Nat /\ Len(rest) \in Nat /\ Len(todo') = n + Len(rest)
        /\ \A i \in 1..Len(todo') : todo'[i] = IF i <= n THEN block[i] ELSE rest[i - n]
    BY <1>2 DEF Do
  <1> HIDE DEF rest, n
  <1>4. ASSUME NEW i \in 1..Len(todo'), todo'[i].k \in Marks, todo'[i] \notin C
        PROVE  \E l \in 1..Len(todo) : todo'[i] = todo[l]
    <2>1. i \in 1..n => (block[i].k \in Marks => block[i] \in C)
      BY DEF n
    <2>2. i > n /\ todo'[i] = rest[i - n]
      BY <1>3, <1>4, <2>1
    <2>3. i - n \in 1..Len(rest) /\ i - n + 1 \in 1..Len(todo)
      BY <1>2, <1>3, <2>2 DEF rest
    <2>4. todo'[i] = todo[i - n + 1]
      BY <1>2, <2>2, <2>3 DEF rest
    <2> QED BY <2>3, <2>4
  <1> QED BY <1>4 DEF NoNew

(* Nothing is put there.                                                   *)
LEMMA DoneKeeps ==
    ASSUME CompilerInv, NEW k, At(k), Do(<<>>)
    PROVE  NoNew({})
  <1>1. <<>> \in Seq(ItemType) /\ \A i \in 1..Len(<<>>) : <<>>[i].k \notin Marks
    BY EmptySeq
  <1> QED BY <1>1, DoKeeps

(* The walk is given up.                                                   *)
LEMMA FailKeeps ==
    ASSUME Fail
    PROVE  NoNew({})
  <1>1. todo' = <<>> /\ Len(<<>>) = 0
    BY EmptySeq DEF Fail
  <1> QED BY <1>1 DEF NoNew

(* Blocks of one, two and three items.                                     *)
LEMMA FewKeep ==
    ASSUME CompilerInv, NEW C, NEW k, At(k), NEW x, NEW y, NEW z,
           x.k \in Marks => x \in C, y.k \in Marks => y \in C, z.k \in Marks => z \in C,
           Do(<<x>>) \/ Do(<<x, y>>) \/ Do(<<x, y, z>>)
    PROVE  NoNew(C)
  <1> DEFINE S == {x, y, z}
  <1>1. <<x>> \in Seq(S) /\ <<x, y>> \in Seq(S) /\ <<x, y, z>> \in Seq(S)
    OBVIOUS
  <1>2. /\ \A i \in 1..Len(<<x>>) : <<x>>[i].k \in Marks => <<x>>[i] \in C
        /\ \A i \in 1..Len(<<x, y>>) : <<x, y>>[i].k \in Marks => <<x, y>>[i] \in C
        /\ \A i \in 1..Len(<<x, y, z>>) : <<x, y, z>>[i].k \in Marks => <<x, y, z>>[i] \in C
    OBVIOUS
  <1> HIDE DEF S
  <1> QED BY <1>1, <1>2, DoKeeps

(* The handlers that put no such item there.                               *)
LEMMA ExprKeeps ==
    ASSUME CompilerInv,
           \/ compile_load_num \/ LoadVariable \/ LoadElement \/ BinaryExpr \/ compile_expr_bin
           \/ NotExpr \/ compile_expr_not \/ InExpr
    PROVE  NoNew({})
  <1>1. CASE compile_load_num \/ InExpr
    BY <1>1, DoneKeeps DEF compile_load_num, InExpr, ReadExpr
  <1>2. CASE LoadVariable
    <2>1. PICK n \in Exprs :
             /\ At("expr")
             /\ \/ Do(<<>>)
                \/ Do(<< Expr(level, depth), Access("load", level + 1, depth, find_symbol(n.id)) >>)
      BY <1>2 DEF LoadVariable, ReadExpr
    <2>2. \A x : Access("load", level + 1, depth, x).k \notin Marks
      BY DEF Access, Marks
    <2>3. Expr(level, depth).k \notin Marks
      BY DEF Expr, Marks
    <2> QED BY <2>1, <2>2, <2>3, DoneKeeps, FewKeep
  <1>3. CASE LoadElement \/ compile_expr_bin \/ compile_expr_not
    BY <1>3, DoneKeeps DEF LoadElement, compile_expr_bin, compile_expr_not
  <1>4. CASE BinaryExpr
    <2>1. PICK a, b, c :
             /\ At("expr") /\ a.k \notin Marks /\ b.k \notin Marks /\ c.k \notin Marks
             /\ Do(<<a, b, c>>) \/ Do(<<b, c>>) \/ Do(<<c>>)
      BY <1>4, BinaryDo DEF ReadExpr, Expr, Bin, Marks
    <2> QED BY <2>1, FewKeep
  <1>5. CASE NotExpr
    <2>1. PICK a, b :
             /\ At("expr") /\ a.k \notin Marks /\ b.k \notin Marks
             /\ Do(<<a, b>>) \/ Do(<<b>>)
      BY <1>5, NotDo DEF ReadExpr, Expr, It, Marks
    <2> QED BY <2>1, FewKeep
  <1> QED BY <1>1, <1>2, <1>3, <1>4, <1>5

(* So do those of calls,                                                   *)
LEMMA CallKeeps ==
    ASSUME CompilerInv,
           CallExpr \/ CallStmt \/ CallArgument \/ PushArgument \/ CallEnd
    PROVE  NoNew({})
  <1>1. \A h, d, id, left, given, pushed, saved :
           Args(h, d, id, left, given, pushed, saved).k \notin Marks
    BY DEF Args, Marks
  <1>2. \A h, d : /\ Expr(h, d).k \notin Marks /\ It("push", h, d).k \notin Marks
                  /\ It("drop", h, d).k \notin Marks
    BY DEF Expr, It, Marks
  <1>3. CASE CallExpr
    <2>1. PICK a :
             At("expr") /\ a.k \notin Marks /\ Do(<<a>> \o <<>>)
      BY <1>1, <1>3 DEF CallExpr, ReadExpr, CallBegin
    <2>2. <<a>> \o <<>> = <<a>>
      OBVIOUS
    <2> QED BY <2>1, <2>2, FewKeep
  <1>4. CASE CallStmt
    <2>1. PICK a, b :
             At("stmt") /\ a.k \notin Marks /\ b.k \notin Marks /\ Do(<<a>> \o <<b>>)
      BY <1>1, <1>2, <1>4 DEF CallStmt, ReadStmt, CallBegin
    <2>2. <<a>> \o <<b>> = <<a, b>>
      BY ShortConcat
    <2> QED BY <2>1, <2>2, FewKeep
  <1>5. CASE CallArgument
    <2> DEFINE a == Expr(level, depth)
               b == It("push", level + 1, depth)
               x == Head(todo)
               c == Args(level, depth, x.id, x.left - 1, x.given - 1, x.pushed, x.saved)
    <2>1. At("args") /\ Do(<<a, b, c>>)
      BY <1>5 DEF CallArgument
    <2>2. a.k \notin Marks /\ b.k \notin Marks /\ c.k \notin Marks
      BY <1>1, <1>2
    <2> HIDE DEF a, b, c
    <2> QED BY <2>1, <2>2, FewKeep
  <1>6. CASE PushArgument \/ CallEnd
    BY <1>6, DoneKeeps DEF PushArgument, CallEnd
  <1> QED BY <1>3, <1>4, <1>5, <1>6

(* and those of statements.                                                *)
LEMMA StmtKeeps ==
    ASSUME CompilerInv,
           \/ compile_stmt \/ AssignStmt \/ Reassign \/ StoreElement \/ DeclareVariable
           \/ Conditional \/ EndWhile \/ EndIf \/ EndDefine
           \/ DropResult \/ OutOrReturn \/ OutStmt \/ compile_return
    PROVE  NoNew({})
  <1>1. \A h, d : /\ Expr(h, d).k \notin Marks /\ It("stmt", h, d).k \notin Marks
                  /\ It("more", h, d).k \notin Marks /\ It("out", h, d).k \notin Marks
                  /\ It("return", h, d).k \notin Marks
    BY DEF Expr, It, Marks
  <1>2. \A k, h, d, cond, at : k \notin Marks => Jump(k, h, d, cond, at).k \notin Marks
    BY DEF Jump, Marks
  <1>3. CASE \/ StoreElement \/ DeclareVariable \/ EndWhile \/ EndIf \/ EndDefine
             \/ DropResult \/ OutStmt \/ compile_return
    BY <1>3, DoneKeeps DEF StoreElement, DeclareVariable, EndWhile, EndIf, EndDefine,
                          DropResult, OutStmt, compile_return
  <1>4. CASE compile_stmt
    <2> DEFINE a == It("stmt", level, depth)
               b == It("more", level, depth)
    <2>1. At("more") /\ (Do(<<a, b>>) \/ Do(<<>>))
      BY <1>4 DEF compile_stmt, Body
    <2>2. a.k \notin Marks /\ b.k \notin Marks
      BY <1>1
    <2> HIDE DEF a, b
    <2> QED BY <2>1, <2>2, DoneKeeps, FewKeep
  <1>5. CASE AssignStmt
    <2> DEFINE a == Expr(level, depth)
    <2>1. PICK b : At("stmt") /\ Do(<<a, b>>) /\ b.k = "assign"
      BY <1>5 DEF AssignStmt, ReadStmt, Assign
    <2>2. a.k \notin Marks /\ b.k \notin Marks
      BY <1>1, <2>1 DEF Marks
    <2> HIDE DEF a
    <2> QED BY <2>1, <2>2, FewKeep
  <1>6. CASE Reassign
    <2> DEFINE a == Expr(level, depth)
               b == Access("store", level + 1, depth, find_symbol(Head(todo).id))
    <2>1. At("assign") /\ (Do(<<>>) \/ Do(<<a, b>>))
      BY <1>6 DEF Reassign
    <2>2. a.k \notin Marks /\ b.k \notin Marks
      BY <1>1 DEF Access, Marks
    <2> HIDE DEF a, b
    <2> QED BY <2>1, <2>2, DoneKeeps, FewKeep
  <1>7. CASE Conditional
    <2>1. PICK k \in {"test while", "test if else", "test if"} :
             At("stmt") /\ Do(<< Expr(level, depth + 1), Jump(k, level + 1, depth + 1, rip, 0) >>)
      BY <1>7 DEF Conditional, ReadStmt
    <2>2. k \notin Marks
      BY DEF Marks
    <2> QED BY <1>1, <1>2, <2>1, <2>2, FewKeep
  <1>8. CASE OutOrReturn
    <2>1. PICK k \in {"out", "return"} :
             At("stmt") /\ Do(<< Expr(level, depth), It(k, level + 1, depth) >>)
      BY <1>8 DEF OutOrReturn, ReadStmt
    <2>2. It(k, level + 1, depth).k \notin Marks
      BY <1>1, <2>1
    <2> QED BY <1>1, <2>1, <2>2, FewKeep
  <1> QED BY <1>3, <1>4, <1>5, <1>6, <1>7, <1>8

(* A body and the jump after it, which is to be patched.                   *)
LEMMA BodyThen ==
    ASSUME CompilerInv, NEW c, NEW h, NEW k, At(k), Do(Body(h, depth) \o <<c>>)
    PROVE  NoNew({c})
  <1> DEFINE a == It("stmt", h, depth)
             b == It("more", h, depth)
  <1>1. a.k \notin Marks /\ b.k \notin Marks /\ Body(h, depth) = <<a, b>>
    BY DEF Body, It, Marks
  <1> HIDE DEF a, b
  <1>2. <<a, b>> \o <<c>> = <<a, b, c>>
    BY ShortConcat
  <1>3. /\ a.k \in Marks => a \in {c}
        /\ b.k \in Marks => b \in {c}
        /\ c.k \in Marks => c \in {c}
    BY <1>1
  <1> QED BY <1>1, <1>2, <1>3, FewKeep

(* No end of a definition is added below the top level.                    *)
LEMMA EndsKept ==
    ASSUME EndsAtThree, NEW C, NoNew(C), \A c \in C : c.k # "enddefine"
    PROVE  EndsAtThree'
  BY DEF EndsAtThree, NoNew, Marks

(* Conditions and elses add ends of branches only.                         *)
LEMMA BranchEnds ==
    ASSUME CompilerInv, EndsAtThree, TestCondition \/ Else
    PROVE  EndsAtThree'
  <1>1. PICK c, k, h : At(k) /\ Do(Body(h, depth) \o <<c>>) /\ c.k # "enddefine"
    <2>1. CASE TestCondition
      <3>1. PICK then \in {"endwhile", "else", "endif"} : \E cond, je :
               /\ At("test while") \/ At("test if") \/ At("test if else")
               /\ Do(Body(level - 1, depth) \o << Jump(then, level - 1, depth, cond, je) >>)
        BY <2>1 DEF TestCondition
      <3>2. PICK cond, je :
               /\ At("test while") \/ At("test if") \/ At("test if else")
               /\ Do(Body(level - 1, depth) \o << Jump(then, level - 1, depth, cond, je) >>)
        BY <3>1
      <3> DEFINE c == Jump(then, level - 1, depth, cond, je)
      <3>3. c.k # "enddefine"
        BY DEF Jump
      <3> HIDE DEF c
      <3> QED BY <3>2, <3>3 DEF c
    <2>2. CASE Else
      <3>1. PICK cond :
               At("else") /\ Do(Body(level, depth) \o << Jump("endif", level, depth, cond, rip) >>)
        BY <2>2 DEF Else
      <3>2. Jump("endif", level, depth, cond, rip).k # "enddefine"
        BY DEF Jump
      <3> QED BY <3>1, <3>2
    <2> QED BY <2>1, <2>2
  <1> QED BY <1>1, BodyThen, EndsKept

(* The handlers that change the scopes.                                    *)

(* declare_functions declares no name twice.                               *)
LEMMA DeclareScopes ==
    ASSUME CompilerInv, ScopesInv, Declare
    PROVE  ScopesInv'
  <1> DEFINE t == tree[top]
             x == Sym("func", "global", t.id, 0, 0, Len(t.params))
  <1>1. /\ phase = "declare" /\ top <= Len(tree)
        /\ \/ scopes' = scopes
           \/ ~Found(t.id) /\ scopes' = [scopes EXCEPT ![1] = Append(@, x)]
        /\ bss' = bss /\ frame' = frame /\ todo' = todo
    <2>1. CASE t.k = "define" /\ Found(t.id)
      BY <2>1 DEF Declare
    <2>2. CASE t.k = "assign"
      BY <2>2 DEF Declare
    <2>3. CASE ~(t.k = "define" /\ Found(t.id)) /\ t.k # "assign"
      <3>1. t.k = "define"
        <4>1. tree \in Seq(TopNode) /\ top \in 1..Len(tree)
          BY TreesAssumption DEF CompilerInv, TypeOK, Declare
        <4>2. t \in TopNode
          BY <4>1
        <4> QED BY <2>3, <4>2 DEF TopNode
      <3> QED BY <2>3, <3>1 DEF Declare
    <2> QED BY <2>1, <2>2, <2>3
  <1>2. EndsAtThree'
    BY <1>1 DEF ScopesInv, EndsAtThree
  <1>3. CASE scopes' = scopes
    BY <1>1, <1>2, <1>3 DEF ScopesInv
  <1>4. CASE ~Found(t.id) /\ scopes' = [scopes EXCEPT ![1] = Append(@, x)]
    <2>1. /\ scopes \in Seq(Seq(Symbol)) /\ 1 \in 1..Len(scopes)
          /\ bss \in Nat /\ frame \in Nat
      <3>1. scopes \in Seq(Seq(Symbol)) /\ depth = 1 /\ bss \in Nat /\ frame \in Nat
        BY <1>1 DEF CompilerInv, TypeOK, TablesOpen
      <3> QED BY <3>1 DEF depth
    <2>2. x \in Symbol /\ x.id = t.id /\ x.type = "func" /\ x.vis = "global"
      <3>1. tree \in Seq(TopNode) /\ top \in 1..Len(tree)
        BY <1>1, TreesAssumption DEF CompilerInv, TypeOK
      <3>2. t \in TopNode
        BY <3>1
      <3> HIDE DEF t
      <3>3. t.id \in STRING /\ Len(t.params) \in Nat
        BY <3>2, LenProperties DEF TopNode
      <3> QED BY <3>3 DEF Sym, Symbol
    <2> HIDE DEF x, t
    <2>3. New(x, scopes, bss, frame)
      BY <1>4, <2>2, NotFound DEF New, Clear
    <2>4. Laid(x, 1, bss, frame)
      BY <2>2 DEF Laid
    <2>5. bss >= bss /\ frame >= frame
      BY <2>1
    <2>6. ScopesOK(scopes', bss, frame)
      <3>1. ScopesOK(scopes, bss, frame)
        BY DEF ScopesInv
      <3>2. scopes' = [scopes EXCEPT ![1] = Append(@, x)] /\ x \in Symbol
        BY <1>4, <2>2
      <3>3. \A u : u = [scopes EXCEPT ![1] = Append(@, x)] => ScopesOK(u, bss, frame)
        BY <2>1, <2>3, <2>4, <2>5, <3>1, <3>2, OneMore
      <3> QED BY <3>2, <3>3, Zenon
    <2> QED BY <1>1, <1>2, <2>6 DEF ScopesInv
  <1> QED BY <1>1, <1>3, <1>4

(* A new scope is empty.                                                   *)
LEMMA EmptyTable ==
    ASSUME scopes \in Seq(Seq(Symbol)), bss \in Nat, frame \in Nat, ScopesOK(scopes, bss, frame)
    PROVE  ScopesOK(Append(scopes, <<>>), bss, frame)
  <1> DEFINE none == <<>>
             n    == Len(scopes) + 1
  <1>1. none \in Seq(Symbol) /\ Len(none) = 0 /\ 1..0 = {}
    BY EmptySeq
  <1> HIDE DEF none
  <1>2. ScopesOK(Append(scopes, none), bss, frame)
    BY <1>1, TableMore
  <1> QED BY <1>2 DEF none

(* A scope is opened, empty.                                               *)
LEMMA OpenedScopes ==
    ASSUME CompilerInv, ScopesInv, Declared \/ Conditional
    PROVE  ScopesInv'
  <1>1. scopes' = Append(scopes, <<>>) /\ bss' = bss /\ frame' = frame
    BY DEF Declared, Conditional
  <1>2. ScopesOK(scopes', bss', frame')
    BY <1>1, EmptyTable DEF ScopesInv, CompilerInv, TypeOK
  <1>3. EndsAtThree'
    <2>1. CASE Declared
      BY <2>1 DEF Declared, ScopesInv, EndsAtThree
    <2>2. CASE Conditional
      BY <2>2, StmtKeeps, EndsKept DEF ScopesInv
    <2> QED BY <2>1, <2>2
  <1> QED BY <1>2, <1>3 DEF ScopesInv

(* A scope is closed; with the last one, the frame is given back.          *)
LEMMA ClosedScopes ==
    ASSUME CompilerInv, ScopesInv, EndWhile \/ EndIf \/ EndDefine
    PROVE  ScopesInv'
  <1>1. /\ scopes' = PopScope /\ bss' = bss /\ Running
        /\ frame' = frame \/ (frame' = 0 /\ At("enddefine"))
        /\ At("enddefine") \/ At("endwhile") \/ At("endif")
    BY DEF EndWhile, EndIf, EndDefine, At
  <1>2. scopes \in Seq(Seq(Symbol)) /\ bss \in Nat /\ frame \in Nat /\ frame' \in Nat /\ bss' \in Nat
    BY <1>1 DEF CompilerInv, TypeOK
  <1>3. Tables(scopes) /\ Len(scopes) \in Nat /\ Len(scopes) >= 3
    <2>1. ASSUME NEW k \in {"enddefine", "endwhile", "endif"}, At(k)
          PROVE  depth - 1 \in Scopes /\ depth \in Nat
      <3>1. depth + NetScopes(k) \in Scopes /\ depth \in Nat
        BY <2>1, HeadFacts
      <3>2. NetScopes(k) = -1
        BY NetTable
      <3> QED BY <3>1, <3>2
    <2>2. depth - 1 \in Scopes /\ depth \in Nat
      BY <1>1, <2>1
    <2>3. Tables(scopes) /\ depth = Len(scopes)
      BY <1>1, RunningTables
    <2> QED BY <2>2, <2>3 DEF Scopes
  <1>4. /\ scopes' \in Seq(Seq(Symbol)) /\ Len(scopes') = Len(scopes) - 1
        /\ \A i \in 1..(Len(scopes) - 1) : scopes'[i] = scopes[i]
    BY <1>1, <1>3, SubSeqProperties, CloseScope DEF Tables, PopScope
  <1>5. frame' >= frame \/ Len(scopes') = 2
    <2>1. CASE frame' = frame
      BY <1>2, <2>1
    <2>2. CASE At("enddefine")
      <3>1. todo # <<>> /\ todo \in Seq(ItemType) /\ Head(todo).k = "enddefine"
        BY <2>2 DEF At, CompilerInv, TypeOK
      <3>2. Head(todo) = todo[1] /\ 1 \in 1..Len(todo)
        BY <3>1
      <3>3. Head(todo).d = 3
        BY <3>1, <3>2 DEF ScopesInv, EndsAtThree
      <3>4. depth = 3
        BY <2>2, <3>3, HeadFacts
      <3> QED BY <1>4, <3>4 DEF depth
    <2> QED BY <1>1, <2>1, <2>2
  <1>6. Keeps(scopes, scopes', bss, frame, bss', frame')
    <2> SUFFICES ASSUME NEW i \in 1..Len(scopes'), NEW j \in 1..Len(scopes'[i])
                 PROVE  /\ Old(scopes, scopes', i, j)
                        /\ i = 2 => bss' >= bss
                        /\ i >= 3 => frame' >= frame
      BY DEF Keeps
    <2>1. i \in 1..(Len(scopes) - 1) /\ i \in 1..Len(scopes)
      BY <1>3, <1>4
    <2>2. scopes'[i] = scopes[i]
      BY <1>4, <2>1
    <2>3. Old(scopes, scopes', i, j)
      BY <2>1, <2>2 DEF Old, Same
    <2>4. i >= 3 => frame' >= frame
      BY <1>5
    <2>5. bss' >= bss
      BY <1>1, <1>2
    <2> QED BY <2>3, <2>4, <2>5
  <1>7. ScopesOK(scopes', bss', frame')
    BY <1>2, <1>4, <1>6, Kept DEF ScopesInv
  <1> QED BY <1>7, StmtKeeps, EndsKept DEF ScopesInv

(* Between the passes the table of globals is emptied, with .bss.          *)
LEMMA SecondPassScopes ==
    ASSUME CompilerInv, ScopesInv, SecondPass
    PROVE  ScopesInv'
  <1>1. /\ phase = "pass1" /\ todo = <<>> /\ todo' = todo /\ bss' = 0 /\ frame' = frame
        /\ scopes' = [scopes EXCEPT ![2] = <<>>]
    BY DEF SecondPass, free_array
  <1>2. /\ scopes \in Seq(Seq(Symbol)) /\ Len(scopes) = 2 /\ bss \in Nat /\ frame \in Nat
    BY <1>1, TopFacts DEF CompilerInv, TypeOK, Running, depth
  <1> DEFINE none == <<>>
  <1>3. none \in Seq(Symbol) /\ Len(none) = 0 /\ 1..0 = {}
    BY EmptySeq
  <1>4. scopes' = [scopes EXCEPT ![2] = none]
    BY <1>1
  <1> HIDE DEF none
  <1>5. /\ scopes' \in Seq(Seq(Symbol)) /\ Len(scopes') = 2 /\ scopes'[2] = none
        /\ \A i \in 1..Len(scopes) : i # 2 => scopes'[i] = scopes[i]
    BY <1>2, <1>3, <1>4, SetTable
  <1>6. Keeps(scopes, scopes', bss, frame, bss', frame')
    <2> SUFFICES ASSUME NEW i \in 1..Len(scopes'), NEW j \in 1..Len(scopes'[i])
                 PROVE  Old(scopes, scopes', i, j) /\ i = 1
      BY DEF Keeps
    <2>1. i = 1
      BY <1>3, <1>5
    <2> QED BY <1>2, <1>5, <2>1 DEF Old, Same
  <1>7. ScopesOK(scopes', bss', frame')
    <2>1. bss' \in Nat /\ frame' \in Nat
      BY <1>1, <1>2
    <2> QED BY <1>2, <1>5, <1>6, <2>1, Kept DEF ScopesInv
  <1> QED BY <1>1, <1>7 DEF ScopesInv, EndsAtThree

(* A global goes to the end of .bss, a local below the others of the frame. *)
LEMMA NewVariable ==
    ASSUME NEW x \in Symbol, NEW y \in Symbol, NEW i \in Int, NEW b \in Nat, NEW f \in Nat,
           Laid(y, i, b, f), NEW c \in Nat, NEW g \in Nat,
           \/ x.vis = "global" /\ c >= b /\ (c <= HALF => x.addend = b)
           \/ x.vis = "local" /\ g >= f /\ (g <= HALF => x.addend = -(f + x.info))
    PROVE  Clear(x, y, c, g)
  <1>1. /\ x.addend \in Int /\ x.info \in Nat /\ y.addend \in Int /\ y.info \in Nat
        /\ HALF \in Nat
    BY SymbolNumbers, ImmIs
  <1> QED BY <1>1 DEF Laid, Clear, Reached, WORD

(* A variable is declared.                                                 *)
LEMMA VariableScopes ==
    ASSUME CompilerInv, ScopesInv, DeclareVariable
    PROVE  ScopesInv'
  <1> DEFINE it   == Head(todo)
             info == Extent(it.n)
             x    == IF is_global_scope
                     THEN Sym("var", "global", it.id, Imm(bss), it.at, info)
                     ELSE Sym("var", "local", it.id, LocalAddend(info), it.at, info)
             n    == Len(scopes)
  <1>1. /\ At("assign") /\ ~Found(it.id) /\ it.n # Computed
        /\ scopes' = [scopes EXCEPT ![n] = Append(@, x)]
        /\ IF is_global_scope THEN bss' = bss + info /\ frame' = frame
                              ELSE frame' = frame + info /\ bss' = bss
    BY DEF DeclareVariable
  <1>2. Running /\ bss \in Nat /\ frame \in Nat
    BY <1>1, HeadIs DEF CompilerInv, TypeOK
  <1>3. /\ scopes \in Seq(Seq(Symbol)) /\ n \in Nat /\ n >= 2 /\ n \in 1..Len(scopes)
        /\ is_global_scope <=> n = 2
    BY <1>2, RunningTables, LenProperties DEF Tables, is_global_scope
  <1>4. it.id \in STRING /\ it.n \in Index /\ it.n \in Int /\ it.at \in Nat
    BY <1>1, AssignHead
  <1> HIDE DEF it
  <1>5. info \in Nat /\ info > 0
    BY <1>1, <1>4 DEF Extent, Index, NoIndex, Computed, WORD
  <1> HIDE DEF info
  <1>6. /\ x \in Symbol /\ x.type = "var" /\ x.id = it.id /\ x.info = info
        /\ \/ n = 2 /\ x.vis = "global" /\ (bss + info <= HALF => x.addend = bss)
           \/ /\ n >= 3 /\ x.vis = "local" /\ -(frame + info) <= x.addend
              /\ frame + info <= HALF => x.addend = -(frame + info)
    <2>1. /\ LocalAddend(info) \in Int /\ Imm(bss) \in Int
          /\ bss + info <= HALF => Imm(bss) = bss
          /\ frame + info <= HALF => LocalAddend(info) = -(frame + info)
          /\ -(frame + info) <= LocalAddend(info)
      <3>1. /\ HALF \in Nat /\ Imm(bss) \in Int
            /\ -HALF <= bss /\ bss < HALF => Imm(bss) = bss
        BY <1>2, ImmIs
      <3>2. -(frame + info) \in Int /\ -(frame + info) <= 0
        BY <1>2, <1>5
      <3>3. /\ LocalAddend(info) \in Int /\ -(frame + info) <= LocalAddend(info)
            /\ -HALF <= -(frame + info) /\ -(frame + info) < HALF =>
                  LocalAddend(info) = -(frame + info)
        BY <3>2, ImmIs DEF LocalAddend
      <3> QED BY <1>2, <1>5, <3>1, <3>3
    <2>2. CASE is_global_scope
      <3>1. x = Sym("var", "global", it.id, Imm(bss), it.at, info)
        BY <2>2
      <3>2. n = 2
        BY <1>3, <2>2
      <3> HIDE DEF x, n
      <3> QED BY <1>2, <1>4, <1>5, <2>1, <3>1, <3>2 DEF Sym, Symbol
    <2>3. CASE ~is_global_scope
      <3>1. x = Sym("var", "local", it.id, LocalAddend(info), it.at, info)
        BY <2>3
      <3>2. n >= 3
        BY <1>3, <2>3 DEF is_global_scope
      <3> HIDE DEF x, n
      <3> QED BY <1>2, <1>4, <1>5, <2>1, <3>1, <3>2 DEF Sym, Symbol
    <2> QED BY <2>2, <2>3
  <1> HIDE DEF x, n
  <1>7. /\ bss' \in Nat /\ bss' >= bss /\ frame' \in Nat /\ frame' >= frame
        /\ n = 2 => bss' = bss + info
        /\ n >= 3 => frame' = frame + info
    BY <1>1, <1>2, <1>3, <1>5
  <1>8. Laid(x, n, bss', frame')
    BY <1>2, <1>5, <1>6, <1>7, ImmIs DEF Laid
  <1>9. New(x, scopes, bss', frame')
    <2> SUFFICES ASSUME NEW i \in 1..Len(scopes), NEW j \in 1..Len(scopes[i])
                 PROVE  x.id # scopes[i][j].id /\ Clear(x, scopes[i][j], bss', frame')
      BY DEF New
    <2>1. scopes[i][j] \in Symbol /\ Laid(scopes[i][j], i, bss, frame) /\ i \in Int
      BY <1>3 DEF ScopesInv, ScopesOK
    <2>2. Clear(x, scopes[i][j], bss', frame')
      <3>1. \/ /\ x.vis = "global" /\ bss' >= bss /\ (bss' <= HALF => x.addend = bss)
            \/ /\ x.vis = "local" /\ frame' >= frame
               /\ frame' <= HALF => x.addend = -(frame + x.info)
        BY <1>6, <1>7
      <3> QED BY <1>2, <1>6, <1>7, <2>1, <3>1, NewVariable
    <2>3. x.id # scopes[i][j].id
      BY <1>1, <1>6, NotFound
    <2> QED BY <2>2, <2>3
  <1>10. ScopesOK(scopes', bss', frame')
    <2>1. ScopesOK(scopes, bss, frame)
      BY DEF ScopesInv
    <2>2. scopes' = [scopes EXCEPT ![n] = Append(@, x)]
      BY <1>1
    <2>3. \A u : u = [scopes EXCEPT ![n] = Append(@, x)] => ScopesOK(u, bss', frame')
      BY <1>2, <1>3, <1>6, <1>7, <1>8, <1>9, <2>1, OneMore
    <2> QED BY <2>2, <2>3, Zenon
  <1> QED BY <1>10, StmtKeeps, EndsKept DEF ScopesInv

(* The parameters of a function lie above the return address, apart.       *)
LEMMA ParamsApart ==
    ASSUME NEW f \in TopNode, NEW n, n = Len(f.params), NEW j \in 1..n, NEW b \in Nat, NEW g \in Nat
    PROVE  /\ Params(f, n)[j].id = f.params[j] /\ Params(f, n)[j].vis = "local"
           /\ Laid(Params(f, n)[j], 3, b, g)
           /\ \A m \in 1..n : m # j => Clear(Params(f, n)[j], Params(f, n)[m], b, g)
  <1>1. f.params \in Seq(STRING) /\ n \in Nat
    BY LenProperties DEF TopNode
  <1>2. ASSUME NEW m \in 1..n
        PROVE  /\ Params(f, n)[m].id = f.params[m] /\ Params(f, n)[m].vis = "local"
               /\ Params(f, n)[m].type = "var"
               /\ Params(f, n)[m].addend = 8 * (n - m + 2) /\ Params(f, n)[m].info = 8
    BY <1>1, <1>2 DEF Params, Sym, WORD
  <1>3. Laid(Params(f, n)[j], 3, b, g)
    BY <1>1, <1>2 DEF Laid, WORD
  <1>4. ASSUME NEW m \in 1..n, m # j
        PROVE  Clear(Params(f, n)[j], Params(f, n)[m], b, g)
    BY <1>1, <1>2, <1>4 DEF Clear
  <1> QED BY <1>2, <1>3, <1>4

(* A definition opens the scope of its parameters.                         *)
LEMMA DefineScopes ==
    ASSUME CompilerInv, ScopesInv, compile_define
    PROVE  ScopesInv'
  <1> DEFINE f      == tree[top]
             p      == Place(f.id)
             n      == find_symbol(f.id).info
             opened == [scopes EXCEPT ![p[1]][p[2]].offset = rip]
             end    == Jump("enddefine", level, depth + 1, 0, rip + 2)
  <1>1. /\ AtTop("define") /\ Found(f.id) /\ n = Len(f.params) /\ ~ParamsVisible(f.params)
        /\ scopes' = Append(opened, Params(f, n))
        /\ todo' = Body(level, depth + 1) \o <<end>>
        /\ bss' = bss /\ frame' = frame
    BY DEF compile_define, DefineFails
  <1>2. Running /\ todo = <<>> /\ f \in TopNode
    BY <1>1, TopNodeIs
  <1>3. /\ scopes \in Seq(Seq(Symbol)) /\ Len(scopes) = 2 /\ depth = 2
        /\ bss \in Nat /\ frame \in Nat /\ rip \in Nat
    BY <1>2, TopFacts, AddressIs DEF CompilerInv, TypeOK, depth
  <1>4. p[1] \in 1..Len(scopes) /\ p[2] \in 1..Len(scopes[p[1]]) /\ n \in Nat
    <2>1. find_symbol(f.id) \in Symbol
      BY <1>1, <1>3, SymbolFound
    <2>2. n \in Nat
      BY <2>1 DEF Symbol
    <2> QED BY <1>1, <1>3, <2>2, PlaceFound
  <1>5. EndsAtThree'
    <2> DEFINE a == It("stmt", level, depth + 1)
               b == It("more", level, depth + 1)
    <2>1. a.k = "stmt" /\ b.k = "more" /\ end.k = "enddefine" /\ end.d = depth + 1
      BY DEF It, Jump
    <2>2. Body(level, depth + 1) = <<a, b>>
      BY DEF Body
    <2>3. depth + 1 = 3
      BY <1>3
    <2> HIDE DEF a, b, end
    <2>4. todo' = <<a, b, end>>
      BY <1>1, <2>2, ShortConcat
    <2>5. \A i \in 1..Len(todo') : i = 3 \/ todo'[i].k \in {"stmt", "more"}
      BY <2>1, <2>4
    <2> QED BY <2>1, <2>3, <2>4, <2>5 DEF EndsAtThree
  <1> HIDE DEF f, p, n
  <1>6. opened \in Seq(Seq(Symbol)) /\ Len(opened) = 2 /\ Keeps(scopes, opened, bss, frame, bss, frame)
    <2> DEFINE i == p[1]
               j == p[2]
               x == [scopes[i][j] EXCEPT !.offset = rip]
               t == [scopes[i] EXCEPT ![j] = x]
    <2>1. /\ i \in 1..Len(scopes) /\ j \in 1..Len(scopes[i])
          /\ scopes \in Seq(Seq(Symbol))
      BY <1>3, <1>4
    <2>2. opened = [scopes EXCEPT ![i] = t]
      OBVIOUS
    <2> HIDE DEF i, j, opened
    <2>3. scopes[i] \in Seq(Symbol)
      BY <2>1
    <2>4. x \in Symbol /\ Same(x, scopes[i][j])
      <3>1. scopes[i][j] \in Symbol
        BY <2>1, <2>3
      <3> QED BY <1>3, <3>1 DEF Symbol, Same
    <2> HIDE DEF x
    <2>5. /\ t \in Seq(Symbol) /\ Len(t) = Len(scopes[i]) /\ t[j] = x
          /\ \A l \in 1..Len(scopes[i]) : l # j => t[l] = scopes[i][l]
      BY <2>1, <2>3, <2>4, SetEntry
    <2> HIDE DEF t
    <2>6. /\ opened \in Seq(Seq(Symbol)) /\ Len(opened) = Len(scopes) /\ opened[i] = t
          /\ \A l \in 1..Len(scopes) : l # i => opened[l] = scopes[l]
      BY <2>1, <2>2, <2>5, SetTable
    <2>7. ASSUME NEW k \in 1..Len(opened), NEW l \in 1..Len(opened[k])
          PROVE  Old(scopes, opened, k, l)
      <3>1. CASE k = i /\ l = j
        BY <2>1, <2>4, <2>5, <2>6, <3>1 DEF Old
      <3>2. CASE k = i /\ l # j
        BY <2>1, <2>5, <2>6, <3>2 DEF Old, Same
      <3>3. CASE k # i
        BY <2>6, <3>3 DEF Old, Same
      <3> QED BY <3>1, <3>2, <3>3
    <2>8. bss >= bss /\ frame >= frame
      BY <1>3
    <2>9. Keeps(scopes, opened, bss, frame, bss, frame)
      BY <2>7, <2>8 DEF Keeps
    <2> QED BY <1>3, <2>6, <2>9
  <1> HIDE DEF opened
  <1>7. ScopesOK(opened, bss, frame)
    BY <1>3, <1>6, Kept DEF ScopesInv
  <1> DEFINE t == Params(f, n)
  <1>8. t \in Seq(Symbol) /\ Len(t) = n /\ \A j \in 1..Len(t) : t[j].type = "var"
    <2>1. Len(t) = Len(f.params)
      BY <1>2 DEF Params, TopNode
    <2> QED BY <1>1, <1>2, <1>4, <2>1, ParamsAre DEF n
  <1>9. ASSUME NEW j \in 1..Len(t)
        PROVE  /\ t[j].id = f.params[j] /\ t[j].vis = "local" /\ Laid(t[j], 3, bss, frame)
               /\ \A m \in 1..Len(t) : m # j => Clear(t[j], t[m], bss, frame)
    <2>1. j \in 1..n /\ n = Len(f.params) /\ f \in TopNode /\ bss \in Nat /\ frame \in Nat
      BY <1>1, <1>2, <1>3, <1>8
    <2>2. /\ t[j].id = f.params[j] /\ t[j].vis = "local" /\ Laid(t[j], 3, bss, frame)
          /\ \A m \in 1..n : m # j => Clear(t[j], t[m], bss, frame)
      BY <2>1, ParamsApart, Zenon
    <2> QED BY <1>8, <2>2
  <1> HIDE DEF t
  <1>10. ASSUME NEW j \in 1..Len(t)
         PROVE  ~Found(t[j].id) /\ \A m \in 1..Len(t) : m # j => t[j].id # t[m].id
    <2>1. ASSUME NEW k \in 1..Len(t)
          PROVE  ~Found(f.params[k]) /\ \A m \in 1..(k - 1) : f.params[m] # f.params[k]
      BY <1>1, <1>8, <2>1 DEF ParamsVisible, n, f
    <2>2. ASSUME NEW m \in 1..Len(t), m # j
          PROVE  f.params[j] # f.params[m]
      <3>1. m \in 1..(j - 1) \/ j \in 1..(m - 1)
        BY <2>2
      <3> QED BY <2>1, <3>1
    <2> QED BY <1>9, <2>1, <2>2
  <1>11. ASSUME NEW j \in 1..Len(t)
         PROVE  New(t[j], opened, bss, frame)
    <2> SUFFICES ASSUME NEW i \in 1..Len(opened), NEW m \in 1..Len(opened[i])
                 PROVE  t[j].id # opened[i][m].id /\ Clear(t[j], opened[i][m], bss, frame)
      BY DEF New
    <2>1. i \in 1..Len(scopes) /\ m \in 1..Len(scopes[i]) /\ opened[i][m].id = scopes[i][m].id
      BY <1>6 DEF Keeps, Old, Same
    <2>2. t[j].id # opened[i][m].id
      BY <1>10, <2>1, NotFound
    <2>3. Laid(opened[i][m], i, bss, frame) /\ i <= 2
      BY <1>3, <1>7, <2>1 DEF ScopesOK
    <2>4. Clear(t[j], opened[i][m], bss, frame)
      BY <1>9, <2>3 DEF Laid, Clear
    <2> QED BY <2>2, <2>4
  <1>12. ScopesOK(Append(opened, t), bss, frame)
    <2>1. 3 = Len(opened) + 1
      BY <1>6
    <2> QED BY <1>3, <1>6, <1>7, <1>8, <1>9, <1>10, <1>11, <2>1, TableMore
  <1> QED BY <1>1, <1>5, <1>12 DEF ScopesInv, t

(* The start, and every step.                                              *)
LEMMA InitScopes ==
    ASSUME Init
    PROVE  ScopesInv
  <1>1. scopes = << <<>> >> /\ todo = <<>> /\ Len(<<>>) = 0 /\ 1..0 = {}
    BY EmptySeq DEF Init
  <1>2. Len(scopes) = 1 /\ Len(scopes[1]) = 0
    BY <1>1
  <1>3. \A i \in 1..Len(scopes) : 1..Len(scopes[i]) = {}
    BY <1>1, <1>2
  <1>4. ScopesOK(scopes, bss, frame)
    BY <1>3 DEF ScopesOK
  <1> QED BY <1>1, <1>4 DEF ScopesInv, EndsAtThree

(* A step that leaves the tables and the storage alone.                    *)
LEMMA SameScopes ==
    ASSUME ScopesInv, UNCHANGED storage, EndsAtThree'
    PROVE  ScopesInv'
  BY DEF ScopesInv, storage

(* A program that is given up.                                             *)
LEMMA RejectedScopes ==
    ASSUME ScopesInv,
           \/ DefineRejected \/ VariableRejected \/ OperatorRejected
           \/ CallRejected \/ AssignRejected \/ CallStmtRejected
    PROVE  ScopesInv'
  <1>1. Fail
    BY DEF DefineRejected, VariableRejected, OperatorRejected, CallRejected,
           AssignRejected, CallStmtRejected
  <1>2. UNCHANGED storage
    BY <1>1 DEF Fail
  <1> QED BY <1>1, <1>2, FailKeeps, EndsKept, SameScopes DEF ScopesInv

(* The handlers of expressions, calls and statements.                      *)
LEMMA HandlerScopes ==
    ASSUME CompilerInv, ScopesInv,
           \/ compile_load_num \/ LoadVariable \/ LoadElement \/ BinaryExpr \/ compile_expr_bin
           \/ NotExpr \/ compile_expr_not \/ InExpr
           \/ CallExpr \/ CallStmt \/ CallArgument \/ PushArgument \/ CallEnd
           \/ compile_stmt \/ AssignStmt \/ Reassign \/ StoreElement \/ TestCondition \/ Else
           \/ DropResult \/ OutOrReturn \/ OutStmt \/ compile_return
    PROVE  ScopesInv'
  <1>1. EndsAtThree'
    BY ExprKeeps, CallKeeps, StmtKeeps, BranchEnds, EndsKept DEF ScopesInv
  <1>2. CASE \/ compile_load_num \/ LoadVariable \/ LoadElement \/ BinaryExpr
             \/ compile_expr_bin \/ NotExpr \/ compile_expr_not \/ InExpr
    <2>1. UNCHANGED storage
      BY <1>2 DEF compile_load_num, LoadVariable, LoadElement, BinaryExpr, compile_expr_bin,
                  NotExpr, compile_expr_not, InExpr, Keep
    <2> QED BY <1>1, <2>1, SameScopes
  <1>3. CASE CallExpr \/ CallStmt \/ CallArgument \/ PushArgument \/ CallEnd
    <2>1. UNCHANGED storage
      BY <1>3 DEF CallExpr, CallStmt, CallBegin, CallArgument, PushArgument, CallEnd, Keep
    <2> QED BY <1>1, <2>1, SameScopes
  <1>4. CASE \/ compile_stmt \/ AssignStmt \/ Reassign \/ StoreElement \/ TestCondition \/ Else
             \/ DropResult \/ OutOrReturn \/ OutStmt \/ compile_return
    <2>1. UNCHANGED storage
      BY <1>4 DEF compile_stmt, AssignStmt, Reassign, StoreElement, TestCondition, Else,
                  DropResult, OutOrReturn, OutStmt, compile_return, Keep
    <2> QED BY <1>1, <2>1, SameScopes
  <1> QED BY <1>2, <1>3, <1>4

(* The top level: a global, the ends of a pass, the code of _start.        *)
LEMMA TopScopes ==
    ASSUME CompilerInv, ScopesInv,
           GlobalAssign \/ CompilePassEnd \/ compile_start \/ Terminating \/ UNCHANGED vars
    PROVE  ScopesInv'
  <1>1. UNCHANGED storage
    BY DEF GlobalAssign, CompilePassEnd, compile_start, Terminating, vars
  <1>2. CASE UNCHANGED todo
    BY <1>1, <1>2 DEF ScopesInv, EndsAtThree, storage
  <1>3. CASE GlobalAssign
    <2> DEFINE a == Expr(level, depth)
               b == Assign(level + 1, depth, tree[top].id, tree[top].n, rip)
    <2>1. todo' = <<a, b>> /\ a.k # "enddefine" /\ b.k # "enddefine"
      BY <1>3 DEF GlobalAssign, Expr, Assign
    <2> HIDE DEF a, b
    <2>2. EndsAtThree'
      BY <2>1 DEF EndsAtThree
    <2> QED BY <1>1, <2>2, SameScopes
  <1> QED BY <1>2, <1>3 DEF CompilePassEnd, compile_start, Terminating, vars

(* Every step.                                                             *)
LEMMA StepScopes ==
    ASSUME CompilerInv, ScopesInv, [Next]_vars
    PROVE  ScopesInv'
  BY InitScopes, DeclareScopes, OpenedScopes, ClosedScopes, SecondPassScopes, VariableScopes,
     DefineScopes, RejectedScopes, HandlerScopes, TopScopes, Zenon DEF Next

(* The tables are right throughout.                                        *)
LEMMA AlwaysScopes == Spec => []ScopesInv
  <1>1. Init => ScopesInv
    BY InitScopes
  <1>2. CompilerInv /\ ScopesInv /\ [Next]_vars => ScopesInv'
    BY StepScopes
  <1> QED BY <1>1, <1>2, Invariant, PTL DEF Spec

(* The first entry find_symbol comes to is the only one: no visible name   *)
(* is declared twice.                                                      *)
THEOREM NamesAreUnique == Spec => []NoShadowing
  <1>1. ScopesInv => NoShadowing
    <2> SUFFICES ASSUME ScopesInv, NEW p \in Places
                 PROVE  Cardinality(Hits(scopes[p[1]][p[2]].id)) = 1
      BY DEF NoShadowing
    <2>1. \A q \in Places : /\ q[1] \in 1..Len(scopes) /\ q[2] \in 1..Len(scopes[q[1]])
                            /\ q = <<q[1], q[2]>>
      BY DEF Places
    <2>2. ASSUME NEW q \in Places, scopes[q[1]][q[2]].id = scopes[p[1]][p[2]].id
          PROVE  q = p
      <3>1. CASE <<q[1], q[2]>> # <<p[1], p[2]>>
        <4>1. Differ(scopes, q[1], q[2], p[1], p[2], bss, frame)
          BY <2>1, <3>1 DEF ScopesInv, ScopesOK
        <4> QED BY <2>2, <4>1 DEF Differ
      <3> QED BY <2>1, <3>1
    <2>3. Hits(scopes[p[1]][p[2]].id) = {p}
      BY <2>2 DEF Hits
    <2> QED BY <2>3, FS_Singleton
  <1> QED BY <1>1, AlwaysScopes, PTL

(* Parameters lie above the return address, locals inside the frame,       *)
(* globals inside .bss, and no two visible variables share a byte, as long *)
(* as an imm32 reaches all of the frame, or of .bss.                       *)
THEOREM StorageIsDisjoint == Spec => []StorageDisjoint
  <1>1. CompilerInv /\ ScopesInv => StorageDisjoint
    <2> SUFFICES ASSUME CompilerInv, ScopesInv, NEW vis \in {"local", "global"},
                        Reached(vis, bss, frame)
                 PROVE  /\ \A p, q \in Visible(vis) :
                              p # q => ExtentOf(p) \intersect ExtentOf(q) = {}
                        /\ \A p \in Visible(vis) : \A b \in ExtentOf(p) :
                              IF vis = "global" THEN b \in 0..(bss - 1)
                                                ELSE b >= 2 * WORD \/ b \in -frame..(-1)
      BY DEF StorageDisjoint, Reached
    <2>1. bss \in Nat /\ frame \in Nat /\ scopes \in Seq(Seq(Symbol))
      BY DEF CompilerInv, TypeOK
    <2> DEFINE S(p) == scopes[p[1]][p[2]]
    <2>2. ASSUME NEW p \in Visible(vis)
          PROVE  /\ p[1] \in 1..Len(scopes) /\ p[2] \in 1..Len(scopes[p[1]])
                 /\ p = <<p[1], p[2]>> /\ S(p) \in Symbol
                 /\ S(p).type = "var" /\ S(p).vis = vis
                 /\ ExtentOf(p) = S(p).addend..(S(p).addend + S(p).info - 1)
                 /\ Laid(S(p), p[1], bss, frame)
                 /\ S(p).addend \in Int /\ S(p).info \in Nat
      <3>1. p[1] \in 1..Len(scopes) /\ p[2] \in 1..Len(scopes[p[1]]) /\ p = <<p[1], p[2]>>
        BY DEF Visible, Places
      <3>2. S(p).type = "var" /\ S(p).vis = vis
        BY DEF Visible
      <3>3. S(p) \in Symbol
        BY <2>1, <3>1
      <3>4. Laid(S(p), p[1], bss, frame)
        BY <3>1 DEF ScopesInv, ScopesOK
      <3>5. ExtentOf(p) = S(p).addend..(S(p).addend + S(p).info - 1)
        BY DEF ExtentOf
      <3> QED BY <3>1, <3>2, <3>3, <3>4, <3>5, SymbolNumbers
    <2>3. ASSUME NEW p \in Visible(vis), NEW q \in Visible(vis), p # q
          PROVE  ExtentOf(p) \intersect ExtentOf(q) = {}
      <3>1. Differ(scopes, p[1], p[2], q[1], q[2], bss, frame)
        BY <2>2, <2>3 DEF ScopesInv, ScopesOK
      <3>2. \/ S(p).addend + S(p).info <= S(q).addend
            \/ S(q).addend + S(q).info <= S(p).addend
        BY <2>2, <3>1 DEF Differ, Clear
      <3>3. /\ S(p).addend \in Int /\ S(p).info \in Nat
            /\ S(q).addend \in Int /\ S(q).info \in Nat
            /\ ExtentOf(p) = S(p).addend..(S(p).addend + S(p).info - 1)
            /\ ExtentOf(q) = S(q).addend..(S(q).addend + S(q).info - 1)
        BY <2>2
      <3> HIDE DEF S
      <3> QED BY <3>2, <3>3
    <2>4. ASSUME NEW p \in Visible(vis), NEW b \in ExtentOf(p)
          PROVE  IF vis = "global" THEN b \in 0..(bss - 1)
                                   ELSE b >= 2 * WORD \/ b \in -frame..(-1)
      <3>1. /\ S(p).addend \in Int /\ S(p).info \in Nat /\ S(p).type = "var" /\ S(p).vis = vis
            /\ Laid(S(p), p[1], bss, frame)
            /\ ExtentOf(p) = S(p).addend..(S(p).addend + S(p).info - 1)
        BY <2>2
      <3> HIDE DEF S
      <3>2. b \in Int /\ S(p).addend <= b /\ b < S(p).addend + S(p).info
        BY <3>1
      <3> QED BY <2>1, <3>1, <3>2 DEF Laid, Reached, WORD
    <2> QED BY <2>3, <2>4
  <1> QED BY <1>1, AlwaysScopes, Invariant, PTL

(* Relocations.                                                            *)

(* The operations that are relocated, and the instructions that are not.   *)
Needs == NeedsBss \union {"call scan", "call print"}
Plain == {c \in InstrType : c.op \notin Needs}

(* Entry e is right for instruction c.                                     *)
Right(c, e) == /\ c.op \in Needs
               /\ IF e.sym = "bss" THEN c.x = e.addend ELSE c.op = Library[e.sym]

(* The entries r are those of the code t, whose first address is n.        *)
Match(t, r, n) ==
    /\ \A i \in 1..Len(r) :
          /\ r[i].at - n + 1 \in 1..Len(t)
          /\ Right(t[r[i].at - n + 1], r[i])
    /\ \A a \in 1..Len(t) : t[a].op \in Needs => \E i \in 1..Len(r) : r[i].at = a + n - 1
    /\ \A i, j \in 1..Len(r) : r[i].at = r[j].at => i = j

(* What is still to be patched is an instruction that is not relocated.    *)
Patched(it, t) == it.at \in Nat /\ it.at + 1 \in 1..Len(t) /\ t[it.at + 1].op \notin Needs
ToPatch == \A l \in 1..Len(todo) : todo[l].k \in Marks => Patched(todo[l], text)

RelasInv == Match(text, relas, 0) /\ ToPatch

(* Code that was emitted stays, but for what is patched into it.           *)
Extends(t, u) == Len(t) <= Len(u) /\ \A a \in 1..Len(t) : u[a].op = t[a].op

(* More code, with its own entries.                                        *)
LEMMA MoreMatch ==
    ASSUME NEW t \in Seq(InstrType), NEW r \in Seq(RelaType), Match(t, r, 0),
           NEW a \in Seq(InstrType), NEW e \in Seq(RelaType), Match(a, e, Len(t))
    PROVE  Match(t \o a, r \o e, 0) /\ Extends(t, t \o a)
  <1> DEFINE u == t \o a
             q == r \o e
             n == Len(t)
             m == Len(r)
  <1>1. /\ n \in Nat /\ Len(a) \in Nat /\ Len(u) = n + Len(a)
        /\ \A i \in 1..n : u[i] = t[i]
        /\ \A i \in 1..Len(a) : u[n + i] = a[i]
    BY LenProperties, ConcatProperties
  <1>2. /\ m \in Nat /\ Len(e) \in Nat /\ Len(q) = m + Len(e)
        /\ \A i \in 1..m : q[i] = r[i]
        /\ \A i \in 1..Len(e) : q[m + i] = e[i]
    BY LenProperties, ConcatProperties
  <1>3. /\ \A i \in 1..m : r[i].at \in Nat
        /\ \A i \in 1..Len(e) : e[i].at \in Nat
    <2>1. /\ \A i \in 1..m : r[i] \in RelaType
          /\ \A i \in 1..Len(e) : e[i] \in RelaType
      BY <1>2
    <2> HIDE DEF m
    <2> QED BY <2>1 DEF RelaType
  <1> HIDE DEF u, q
  <1>4. ASSUME NEW i \in 1..Len(q)
        PROVE  \/ i \in 1..m /\ q[i] = r[i]
               \/ i - m \in 1..Len(e) /\ q[i] = e[i - m]
    <2>1. CASE i <= m
      BY <1>2, <2>1
    <2>2. CASE i > m
      <3>1. i - m \in 1..Len(e) /\ i = m + (i - m)
        BY <1>2, <2>2
      <3> QED BY <1>2, <3>1
    <2> QED BY <1>2, <2>1, <2>2
  <1>5. ASSUME NEW i \in 1..m
        PROVE  r[i].at + 1 \in 1..n /\ Right(t[r[i].at + 1], r[i])
    <2>1. r[i].at - 0 + 1 = r[i].at + 1
      BY <1>3
    <2> QED BY <2>1 DEF Match
  <1>6. ASSUME NEW i \in 1..Len(e)
        PROVE  e[i].at - n + 1 \in 1..Len(a) /\ Right(a[e[i].at - n + 1], e[i])
    BY DEF Match
  <1>7. ASSUME NEW i \in 1..Len(q)
        PROVE  q[i].at - 0 + 1 \in 1..Len(u) /\ Right(u[q[i].at - 0 + 1], q[i])
    <2>1. CASE i \in 1..m /\ q[i] = r[i]
      <3>1. /\ q[i].at - 0 + 1 = r[i].at + 1 /\ r[i].at + 1 \in 1..n
            /\ Right(t[r[i].at + 1], r[i])
        BY <1>3, <1>5, <2>1
      <3>2. u[r[i].at + 1] = t[r[i].at + 1] /\ r[i].at + 1 \in 1..Len(u)
        BY <1>1, <3>1
      <3> QED BY <2>1, <3>1, <3>2
    <2>2. CASE i - m \in 1..Len(e) /\ q[i] = e[i - m]
      <3> DEFINE x == e[i - m]
      <3>1. /\ x.at - n + 1 \in 1..Len(a) /\ Right(a[x.at - n + 1], x) /\ x.at \in Nat
        BY <1>3, <1>6, <2>2
      <3> HIDE DEF x
      <3>2. x.at - 0 + 1 = n + (x.at - n + 1) /\ x.at - 0 + 1 \in 1..Len(u)
        <4> DEFINE y == x.at
        <4>1. n \in Nat /\ Len(a) \in Nat /\ Len(u) = n + Len(a)
          BY <1>1
        <4>2. y \in Nat /\ y - n + 1 \in 1..Len(a)
          BY <3>1
        <4> HIDE DEF y
        <4>3. y - 0 + 1 = n + (y - n + 1) /\ y - 0 + 1 \in 1..Len(u)
          BY <4>1, <4>2
        <4> QED BY <4>3 DEF y
      <3>3. u[x.at - 0 + 1] = a[x.at - n + 1]
        <4> DEFINE k == x.at - n + 1
        <4>1. k \in 1..Len(a) /\ x.at - 0 + 1 = n + k
          BY <3>1, <3>2
        <4> HIDE DEF k
        <4>2. u[n + k] = a[k]
          BY <1>1, <4>1
        <4>3. u[x.at - 0 + 1] = a[k]
          BY <4>1, <4>2
        <4> QED BY <4>3 DEF k
      <3>4. q[i] = x
        BY <2>2 DEF x
      <3> QED BY <3>1, <3>2, <3>3, <3>4
    <2> QED BY <1>4, <2>1, <2>2
  <1>8. ASSUME NEW b \in 1..Len(u), u[b].op \in Needs
        PROVE  \E i \in 1..Len(q) : q[i].at = b + 0 - 1
    <2>1. CASE b <= n
      <3>1. b \in 1..n /\ t[b].op \in Needs
        BY <1>1, <1>8, <2>1
      <3>2. PICK i \in 1..m : r[i].at = b + 0 - 1
        BY <3>1 DEF Match
      <3> QED BY <1>2, <3>2
    <2>2. CASE b > n
      <3>1. b - n \in 1..Len(a) /\ u[b] = a[b - n]
        <4>1. b - n \in 1..Len(a) /\ b = n + (b - n)
          BY <1>1, <2>2
        <4> QED BY <1>1, <4>1
      <3>2. PICK i \in 1..Len(e) : e[i].at = (b - n) + n - 1
        BY <1>8, <3>1 DEF Match
      <3>3. (b - n) + n - 1 = b + 0 - 1
        BY <1>1
      <3>4. e[i].at = b + 0 - 1
        BY <3>2, <3>3
      <3>5. m + i \in 1..Len(q) /\ q[m + i] = e[i]
        BY <1>2
      <3> QED BY <3>4, <3>5
    <2> QED BY <1>1, <2>1, <2>2
  <1>9. ASSUME NEW i \in 1..Len(q), NEW j \in 1..Len(q), q[i].at = q[j].at
        PROVE  i = j
    <2>1. CASE i \in 1..m /\ q[i] = r[i] /\ j \in 1..m /\ q[j] = r[j]
      BY <1>9, <2>1 DEF Match
    <2>2. CASE /\ i - m \in 1..Len(e) /\ q[i] = e[i - m]
               /\ j - m \in 1..Len(e) /\ q[j] = e[j - m]
      <3>1. i - m = j - m
        BY <1>9, <2>2 DEF Match
      <3> QED BY <1>2, <3>1
    <2>3. ASSUME NEW k \in 1..m, NEW l \in 1..Len(e), r[k].at = e[l].at
          PROVE  FALSE
      BY <1>1, <1>3, <1>5, <1>6, <2>3
    <2> QED BY <1>4, <1>9, <2>1, <2>2, <2>3
  <1>10. Match(u, q, 0)
    BY <1>7, <1>8, <1>9 DEF Match
  <1>11. Extends(t, u)
    BY <1>1 DEF Extends
  <1> QED BY <1>10, <1>11 DEF u, q

(* Code that needs no entry.                                               *)
LEMMA PlainChunk ==
    ASSUME NEW a \in Seq(Plain), NEW n \in Nat
    PROVE  a \in Seq(InstrType) /\ <<>> \in Seq(RelaType) /\ Match(a, <<>>, n)
  <1>1. Len(<<>>) = 0 /\ 1..0 = {} /\ <<>> \in Seq(RelaType)
    BY EmptySeq
  <1>2. \A i \in 1..Len(a) : a[i] \in InstrType /\ a[i].op \notin Needs
    BY DEF Plain
  <1>3. a \in Seq(InstrType)
    BY DEF Plain
  <1> QED BY <1>1, <1>2, <1>3 DEF Match

(* Code that needs no entry is put behind the rest.                        *)
LEMMA MorePlain ==
    ASSUME NEW t \in Seq(InstrType), NEW r \in Seq(RelaType), Match(t, r, 0),
           NEW a \in Seq(Plain)
    PROVE  t \o a \in Seq(InstrType) /\ Match(t \o a, r, 0) /\ Extends(t, t \o a)
  <1>1. Len(t) \in Nat /\ a \in Seq(InstrType) /\ <<>> \in Seq(RelaType)
        /\ Match(a, <<>>, Len(t))
    BY LenProperties, PlainChunk
  <1>2. r \o <<>> = r
    OBVIOUS
  <1>3. t \o a \in Seq(InstrType)
    BY <1>1, ConcatProperties
  <1> QED BY <1>1, <1>2, <1>3, MoreMatch

(* One access among such code.                                             *)
LEMMA AccessChunk ==
    ASSUME NEW b \in Seq(Plain), NEW c \in InstrType, NEW a \in Seq(Plain), NEW n \in Nat,
           NEW e \in RelaType, e.at = n + Len(b), Right(c, e)
    PROVE  b \o <<c>> \o a \in Seq(InstrType) /\ Match(b \o <<c>> \o a, <<e>>, n)
  <1> DEFINE u == b \o <<c>> \o a
             k == Len(b) + 1
  <1>1. b \in Seq(InstrType) /\ a \in Seq(InstrType) /\ <<c>> \in Seq(InstrType)
        /\ Len(<<c>>) = 1 /\ <<c>>[1] = c
    BY PlainChunk
  <1>2. b \o <<c>> \in Seq(InstrType) /\ u \in Seq(InstrType)
    BY <1>1, ConcatProperties
  <1>3. /\ Len(b) \in Nat /\ Len(a) \in Nat /\ Len(b \o <<c>>) = k
        /\ \A i \in 1..Len(b) : (b \o <<c>>)[i] = b[i]
        /\ (b \o <<c>>)[k] = c
    BY <1>1, LenProperties, ConcatProperties
  <1>4. /\ Len(u) = k + Len(a)
        /\ \A i \in 1..k : u[i] = (b \o <<c>>)[i]
        /\ \A i \in 1..Len(a) : u[k + i] = a[i]
    BY <1>1, <1>2, <1>3, ConcatProperties
  <1>5. /\ \A i \in 1..Len(b) : b[i].op \notin Needs
        /\ \A i \in 1..Len(a) : a[i].op \notin Needs
    BY DEF Plain
  <1> HIDE DEF u
  <1>6. u[k] = c /\ k \in 1..Len(u)
    BY <1>3, <1>4
  <1>7. ASSUME NEW i \in 1..Len(u), u[i].op \in Needs
        PROVE  i = k
    <2>1. CASE i <= Len(b)
      BY <1>3, <1>4, <1>5, <1>7, <2>1
    <2>2. CASE i > k
      <3>1. i - k \in 1..Len(a) /\ i = k + (i - k)
        BY <1>3, <1>4, <2>2
      <3>2. u[i] = a[i - k]
        BY <1>4, <3>1
      <3> QED BY <1>5, <1>7, <3>1, <3>2
    <2> QED BY <1>3, <2>1, <2>2
  <1>8. e.at - n + 1 = k /\ k + n - 1 = e.at
    BY <1>3
  <1>9. Len(<<e>>) = 1 /\ <<e>>[1] = e
    OBVIOUS
  <1> DEFINE q == <<e>>
  <1>10. Len(q) = 1 /\ q[1] = e /\ \A i \in 1..Len(q) : i = 1
    BY <1>9
  <1> HIDE DEF q, k
  <1>11. \A i \in 1..Len(q) : q[i].at - n + 1 \in 1..Len(u) /\ Right(u[q[i].at - n + 1], q[i])
    BY <1>6, <1>8, <1>10
  <1>12. \A i \in 1..Len(u) : u[i].op \in Needs => \E j \in 1..Len(q) : q[j].at = i + n - 1
    BY <1>7, <1>8, <1>10
  <1>13. Match(u, q, n)
    BY <1>10, <1>11, <1>12 DEF Match
  <1> QED BY <1>2, <1>13 DEF u, q

(* A load or a store in a piece of code, with the entry RelaOf makes.      *)
LEMMA MoreAccess ==
    ASSUME NEW t \in Seq(InstrType), NEW r \in Seq(RelaType), Match(t, r, 0),
           NEW b \in Seq(Plain), NEW c \in InstrType, NEW a \in Seq(Plain),
           NEW vis \in {"local", "global"}, NEW addend \in Int,
           vis = "global" => c.op \in Needs /\ c.x = addend,
           vis = "local" => c.op \notin Needs
    PROVE  LET u == t \o (b \o <<c>> \o a)
           IN  Match(u, r \o RelaOf(vis, Len(t) + Len(b), addend), 0) /\ Extends(t, u)
  <1>1. Len(t) \in Nat /\ Len(b) \in Nat /\ Len(t) + Len(b) \in Nat
    BY LenProperties
  <1>2. CASE vis = "global"
    <2> DEFINE e == Rela(Len(t) + Len(b), "bss", addend)
    <2>1. e \in RelaType /\ e.at = Len(t) + Len(b) /\ Right(c, e)
      BY <1>1, <1>2 DEF Rela, RelaType, Right
    <2>2. RelaOf(vis, Len(t) + Len(b), addend) = <<e>>
      BY <1>2 DEF RelaOf
    <2> HIDE DEF e
    <2>3. <<e>> \in Seq(RelaType)
      BY <2>1
    <2>4. b \o <<c>> \o a \in Seq(InstrType) /\ Match(b \o <<c>> \o a, <<e>>, Len(t))
      BY <1>1, <2>1, AccessChunk
    <2> QED BY <2>2, <2>3, <2>4, MoreMatch
  <1>3. CASE vis = "local"
    <2>1. c \in Plain
      BY <1>3 DEF Plain
    <2>2. <<c>> \in Seq(Plain)
      BY <2>1
    <2>3. b \o <<c>> \o a \in Seq(Plain)
      BY <2>2, ConcatProperties
    <2>4. RelaOf(vis, Len(t) + Len(b), addend) = <<>> /\ r \o <<>> = r
      BY <1>3 DEF RelaOf
    <2> QED BY <2>3, <2>4, MorePlain
  <1> QED BY <1>2, <1>3

(* Patching an instruction that is not relocated.                          *)
LEMMA PatchMatch ==
    ASSUME text \in Seq(InstrType), NEW r, Match(text, r, 0),
           NEW at \in Nat, NEW x \in Int, at + 1 \in 1..Len(text), text[at + 1].op \notin Needs
    PROVE  Match(Patch(at, x), r, 0) /\ Extends(text, Patch(at, x))
  <1> DEFINE u == Patch(at, x)
  <1>1. Len(u) = Len(text)
    BY PatchIs
  <1>2. \A i \in 1..Len(text) : i # at + 1 => u[i] = text[i]
    BY DEF Patch
  <1>3. u[at + 1].op = text[at + 1].op
    <2>1. u[at + 1] = [text[at + 1] EXCEPT !.x = x] /\ text[at + 1] \in InstrType
      BY DEF Patch
    <2> QED BY <2>1 DEF InstrType
  <1> HIDE DEF u
  <1>4. \A i \in 1..Len(text) : u[i].op = text[i].op
    BY <1>2, <1>3
  <1>5. Extends(text, u)
    BY <1>1, <1>4, LenProperties DEF Extends
  <1>6. ASSUME NEW i \in 1..Len(r)
        PROVE  r[i].at - 0 + 1 \in 1..Len(u) /\ Right(u[r[i].at - 0 + 1], r[i])
    <2>1. r[i].at - 0 + 1 \in 1..Len(text) /\ Right(text[r[i].at - 0 + 1], r[i])
      BY DEF Match
    <2>2. u[r[i].at - 0 + 1] = text[r[i].at - 0 + 1]
      BY <1>2, <2>1 DEF Right
    <2> QED BY <1>1, <2>1, <2>2
  <1>7. Match(u, r, 0)
    BY <1>1, <1>4, <1>6 DEF Match
  <1> QED BY <1>5, <1>7 DEF u

(* What was to be patched still is.                                        *)
LEMMA PatchesKept ==
    ASSUME ToPatch, Extends(text, text'), text \in Seq(InstrType), text' \in Seq(InstrType),
           NEW C, NoNew(C), \A c \in C : Patched(c, text')
    PROVE  ToPatch'
  <1> SUFFICES ASSUME NEW l \in 1..Len(todo'), todo'[l].k \in Marks
               PROVE  Patched(todo'[l], text')
    BY DEF ToPatch
  <1>1. CASE todo'[l] \in C
    BY <1>1
  <1>2. CASE todo'[l] \notin C
    <2>1. PICK i \in 1..Len(todo) : todo'[l] = todo[i]
      BY <1>2 DEF NoNew
    <2>2. Patched(todo[i], text)
      BY <2>1 DEF ToPatch
    <2>3. Patched(todo[i], text')
      BY <2>2, LenProperties DEF Patched, Extends
    <2> QED BY <2>1, <2>3
  <1> QED BY <1>1, <1>2

(* Steps that emit such code.                                              *)
LEMMA PlainStep ==
    ASSUME CompilerInv, RelasInv, NEW a \in Seq(Plain), text' = text \o a, relas' = relas,
           NEW C, NoNew(C), \A c \in C : Patched(c, text')
    PROVE  RelasInv'
  <1>1. text \in Seq(InstrType) /\ relas \in Seq(RelaType) /\ Match(text, relas, 0) /\ ToPatch
    BY DEF CompilerInv, TypeOK, RelasInv
  <1>2. text' \in Seq(InstrType) /\ Match(text', relas, 0) /\ Extends(text, text')
    BY <1>1, MorePlain
  <1>3. ToPatch'
    BY <1>1, <1>2, PatchesKept
  <1> QED BY <1>2, <1>3 DEF RelasInv

(* A step that emits one access.                                           *)
LEMMA AccessStep ==
    ASSUME CompilerInv, RelasInv, text' \in Seq(InstrType),
           NEW b \in Seq(Plain), NEW c \in InstrType, NEW a \in Seq(Plain),
           NEW vis \in {"local", "global"}, NEW addend \in Int,
           vis = "global" => c.op \in Needs /\ c.x = addend,
           vis = "local" => c.op \notin Needs,
           text' = text \o (b \o <<c>> \o a),
           relas' = relas \o RelaOf(vis, rip + Len(b), addend), NoNew({})
    PROVE  RelasInv'
  <1>1. text \in Seq(InstrType) /\ relas \in Seq(RelaType) /\ Match(text, relas, 0) /\ ToPatch
    BY DEF CompilerInv, TypeOK, RelasInv
  <1>2. Match(text', relas', 0) /\ Extends(text, text')
    BY <1>1, MoreAccess DEF rip
  <1>3. ToPatch'
    BY <1>1, <1>2, PatchesKept
  <1> QED BY <1>2, <1>3 DEF RelasInv

(* A step that emits nothing.                                              *)
LEMMA SameCode ==
    ASSUME CompilerInv, RelasInv, UNCHANGED code, NoNew({})
    PROVE  RelasInv'
  <1>1. text \in Seq(InstrType) /\ text' = text /\ relas' = relas
        /\ Match(text, relas, 0) /\ ToPatch
    BY DEF CompilerInv, TypeOK, RelasInv, code
  <1>2. Extends(text, text')
    BY <1>1, LenProperties DEF Extends
  <1>3. ToPatch'
    BY <1>1, <1>2, PatchesKept
  <1> QED BY <1>1, <1>3 DEF RelasInv

(* The operations that are not relocated, and those that are.              *)
LEMMA PlainOps ==
    /\ "push" \in Opcodes \ Needs /\ "pop" \in Opcodes \ Needs
    /\ "ret" \in Opcodes \ Needs /\ "call" \in Opcodes \ Needs
    /\ "syscall" \in Opcodes \ Needs /\ "je" \in Opcodes \ Needs
    /\ "jmp" \in Opcodes \ Needs /\ "test" \in Opcodes \ Needs
    /\ "sub rsp" \in Opcodes \ Needs /\ "add rsp" \in Opcodes \ Needs
    /\ "sub rsp, frame" \in Opcodes \ Needs /\ "push rbp" \in Opcodes \ Needs
    /\ "pop rbp" \in Opcodes \ Needs /\ "mov rbp, rsp" \in Opcodes \ Needs
    /\ "mov rsp, rbp" \in Opcodes \ Needs /\ "mov imm" \in Opcodes \ Needs
    /\ "mov r, rax" \in Opcodes \ Needs /\ "mov rax, r" \in Opcodes \ Needs
    /\ "mov rdi, rax" \in Opcodes \ Needs /\ "mov rax, 1" \in Opcodes \ Needs
    /\ "mov rax, 0x3c" \in Opcodes \ Needs /\ "cqo" \in Opcodes \ Needs
    /\ "idiv" \in Opcodes \ Needs /\ "cmov" \in Opcodes \ Needs
    /\ "cmp" \in Opcodes \ Needs /\ "xor 1" \in Opcodes \ Needs
    /\ Compiled \ {"div"} \subseteq Opcodes \ Needs
  <1>1. /\ "add" \notin Needs /\ "sub" \notin Needs /\ "mul" \notin Needs
        /\ "and" \notin Needs /\ "or" \notin Needs /\ "cmp" \notin Needs
    BY DEF Needs, NeedsBss
  <1>2. Compiled \ {"div"} \subseteq Opcodes \ Needs
    BY <1>1, OpcodesAre DEF Compiled
  <1> QED BY <1>2, OpcodesAre DEF Needs, NeedsBss

(* An instruction of an operation that is not relocated.                   *)
LEMMA PlainIs ==
    ASSUME NEW op \in Opcodes \ Needs, NEW r \in Register, NEW s \in Register, NEW x \in Int
    PROVE  I(op, r, s, x) \in Plain
  <1>1. I(op, r, s, x) \in InstrType /\ I(op, r, s, x).op = op
    BY InstrIs DEF I
  <1> QED BY <1>1 DEF Plain

(* Such an operation alone.                                                *)
LEMMA PlainOp ==
    ASSUME NEW op \in Opcodes \ Needs
    PROVE  Op(op) \in Plain
  BY Zero, PlainIs DEF Op

(* Accesses to globals are relocated, those to locals are not.             *)
LEMMA MemoryAccess ==
    ASSUME NEW vis \in {"local", "global"}
    PROVE  /\ Load[vis] \in Opcodes /\ Loadx[vis] \in Opcodes
           /\ Store[vis] \in Opcodes /\ Storex[vis] \in Opcodes
           /\ vis = "global" => /\ Load[vis] \in Needs /\ Loadx[vis] \in Needs
                                /\ Store[vis] \in Needs /\ Storex[vis] \in Needs
           /\ vis = "local" => /\ Load[vis] \notin Needs /\ Loadx[vis] \notin Needs
                               /\ Store[vis] \notin Needs /\ Storex[vis] \notin Needs
  <1>1. CASE vis = "local"
    <2>1. /\ Load[vis] = "load local" /\ Loadx[vis] = "loadx local"
          /\ Store[vis] = "store local" /\ Storex[vis] = "storex local"
      BY <1>1 DEF Load, Loadx, Store, Storex
    <2> QED BY <1>1, <2>1, MemoryOps DEF Needs, NeedsBss
  <1>2. CASE vis = "global"
    <2>1. /\ Load[vis] = "load global" /\ Loadx[vis] = "loadx global"
          /\ Store[vis] = "store global" /\ Storex[vis] = "storex global"
      BY <1>2 DEF Load, Loadx, Store, Storex
    <2> QED BY <1>2, <2>1, MemoryOps DEF Needs, NeedsBss
  <1> QED BY <1>1, <1>2

(* The code around calls and after operators needs no entry.               *)
LEMMA AroundCall ==
    ASSUME NEW n \in Nat, NEW m \in Register, NEW live \in Int, NEW pushed \in Nat
    PROVE  /\ PadCode(n) \in Seq(Plain) /\ compile_call_begin(n) \in Nat
           /\ SaveCode(m) \in Seq(Plain) /\ RestoreCode(m) \in Seq(Plain)
           /\ compile_call_end(live, pushed) \in Seq(Plain)
  <1>1. m \in Nat /\ \A i \in 1..m : i \in Register /\ m + 1 - i \in Register
    BY RegistersAssumption DEF Register
  <1>2. \A i \in 1..m : I("push", i, 0, 0) \in Plain /\ I("pop", m + 1 - i, 0, 0) \in Plain
    <2>1. "push" \in Opcodes \ Needs /\ "pop" \in Opcodes \ Needs
      BY PlainOps
    <2> QED BY <1>1, <2>1, Zero, PlainIs, Zenon
  <1>3. SaveCode(m) \in Seq(Plain) /\ RestoreCode(m) \in Seq(Plain)
    BY <1>1, <1>2 DEF SaveCode, RestoreCode
  <1>4. I("sub rsp", 0, 0, WORD) \in Plain
    <2>1. "sub rsp" \in Opcodes \ Needs
      BY PlainOps
    <2> QED BY <2>1, Zero, PlainIs, Zenon
  <1>5. << I("sub rsp", 0, 0, WORD) >> \in Seq(Plain) /\ <<>> \in Seq(Plain)
    BY <1>4, ShortSeqs, EmptySeq
  <1>6. PadCode(n) \in Seq(Plain)
    BY <1>5, Zenon DEF PadCode
  <1>7. Mask(live + 1) \in Register /\ WORD * pushed \in Int
    BY MaskType DEF WORD
  <1>8. I("mov r, rax", Mask(live + 1), 0, 0) \in Plain /\ I("add rsp", 0, 0, WORD * pushed) \in Plain
    <2>1. "mov r, rax" \in Opcodes \ Needs /\ "add rsp" \in Opcodes \ Needs
      BY PlainOps
    <2> QED BY <1>7, <2>1, Zero, PlainIs, Zenon
  <1>9. compile_call_end(live, pushed) \in Seq(Plain)
    BY <1>8, ShortSeqs DEF compile_call_end
  <1> QED BY <1>3, <1>6, <1>9, PadIs

(* The code of a binary operator needs no entry.                           *)
LEMMA BinPlain ==
    ASSUME NEW op \in Compiled, reg \in Int
    PROVE  BinCode(op) \in Seq(Plain)
  <1>1. Mask(reg) \in Register /\ Mask(reg - 1) \in Register
    BY MaskType
  <1>2. CASE op = "div"
    <2>1. /\ "mov rax, r" \in Opcodes \ Needs /\ "cqo" \in Opcodes \ Needs
          /\ "idiv" \in Opcodes \ Needs /\ "mov r, rax" \in Opcodes \ Needs
      BY PlainOps
    <2>2. /\ I("mov rax, r", 0, Mask(reg - 1), 0) \in Plain /\ Op("cqo") \in Plain
          /\ I("idiv", 0, Mask(reg), 0) \in Plain
          /\ I("mov r, rax", Mask(reg - 1), 0, 0) \in Plain
      BY <1>1, <2>1, Zero, PlainIs, PlainOp, Zenon
    <2>3. BinCode(op) = << I("mov rax, r", 0, Mask(reg - 1), 0), Op("cqo"),
                           I("idiv", 0, Mask(reg), 0), I("mov r, rax", Mask(reg - 1), 0, 0) >>
      BY <1>2 DEF BinCode
    <2> QED BY <2>2, <2>3, ShortSeqs
  <1>3. CASE op = "cmp"
    <2>1. /\ "cmp" \in Opcodes \ Needs /\ "mov rax, 1" \in Opcodes \ Needs
          /\ "mov imm" \in Opcodes \ Needs /\ "cmov" \in Opcodes \ Needs
      BY PlainOps
    <2>2. /\ I("cmp", Mask(reg - 1), Mask(reg), 0) \in Plain /\ Op("mov rax, 1") \in Plain
          /\ I("mov imm", Mask(reg - 1), 0, 0) \in Plain
          /\ I("cmov", Mask(reg - 1), 0, 0) \in Plain
      BY <1>1, <2>1, Zero, PlainIs, PlainOp, Zenon
    <2>3. BinCode(op) = << I("cmp", Mask(reg - 1), Mask(reg), 0), Op("mov rax, 1"),
                           I("mov imm", Mask(reg - 1), 0, 0), I("cmov", Mask(reg - 1), 0, 0) >>
      BY <1>3 DEF BinCode
    <2> QED BY <2>2, <2>3, ShortSeqs
  <1>4. CASE op \notin {"div", "cmp"}
    <2>1. op \in Opcodes \ Needs
      BY <1>4, PlainOps
    <2>2. I(op, Mask(reg - 1), Mask(reg), 0) \in Plain
      BY <1>1, <2>1, Zero, PlainIs
    <2>3. BinCode(op) = << I(op, Mask(reg - 1), Mask(reg), 0) >>
      BY <1>4 DEF BinCode
    <2> QED BY <2>2, <2>3, ShortSeqs
  <1> QED BY <1>2, <1>3, <1>4

(* Nor does the end of an initialiser.                                     *)
LEMMA RetPlain ==
    ASSUME NEW vis
    PROVE  RetCode(vis) \in Seq(Plain)
  <1>1. Op("ret") \in Plain
    <2>1. "ret" \in Opcodes \ Needs
      BY PlainOps
    <2> QED BY <2>1, PlainOp
  <1>2. << Op("ret") >> \in Seq(Plain) /\ <<>> \in Seq(Plain)
    BY <1>1, ShortSeqs, EmptySeq
  <1> QED BY <1>2, Zenon DEF RetCode

(* The handlers that emit code without relocations.                        *)
LEMMA PlainHandlers ==
    ASSUME CompilerInv, RelasInv,
           compile_load_num \/ compile_expr_not \/ PushArgument \/ compile_expr_bin \/ compile_return
    PROVE  RelasInv'
  <1>1. NoNew({})
    BY ExprKeeps, CallKeeps, StmtKeeps
  <1>2. ASSUME NEW a \in Seq(Plain), Emit(a), relas' = relas
        PROVE  RelasInv'
    BY <1>1, <1>2, PlainStep DEF Emit
  <1>3. CASE compile_load_num
    <2>1. PICK n \in Exprs : /\ ReadExpr(n) /\ relas' = relas
                             /\ Emit(<< I("mov imm", Mask(reg + 1), 0, n.n) >>)
      BY <1>3 DEF compile_load_num
    <2>2. reg \in Int
      BY <2>1, ReadExprIs, HeadFacts
    <2>3. Mask(reg + 1) \in Register /\ n.n \in Int
      BY <2>2, MaskType, NodesAssumption DEF Node
    <2>4. I("mov imm", Mask(reg + 1), 0, n.n) \in Plain
      BY <2>3, PlainOps, Zero, PlainIs, Zenon
    <2>5. << I("mov imm", Mask(reg + 1), 0, n.n) >> \in Seq(Plain)
      BY <2>4, ShortSeqs
    <2> QED BY <1>2, <2>1, <2>5
  <1>4. CASE compile_expr_not
    <2>1. At("not") /\ Emit(<< I("xor 1", Mask(reg), 0, 1) >>) /\ relas' = relas
      BY <1>4 DEF compile_expr_not
    <2>2. Mask(reg) \in Register
      BY <2>1, HeadFacts, MaskType
    <2>3. I("xor 1", Mask(reg), 0, 1) \in Plain
      BY <2>2, PlainOps, Zero, PlainIs, Zenon
    <2>4. << I("xor 1", Mask(reg), 0, 1) >> \in Seq(Plain)
      BY <2>3, ShortSeqs
    <2> QED BY <1>2, <2>1, <2>4
  <1>5. CASE PushArgument
    <2>1. At("push") /\ Emit(<< I("push", Mask(reg), 0, 0) >>) /\ relas' = relas
      BY <1>5 DEF PushArgument
    <2>2. Mask(reg) \in Register
      BY <2>1, HeadFacts, MaskType
    <2>3. I("push", Mask(reg), 0, 0) \in Plain
      BY <2>2, PlainOps, Zero, PlainIs, Zenon
    <2>4. << I("push", Mask(reg), 0, 0) >> \in Seq(Plain)
      BY <2>3, ShortSeqs
    <2> QED BY <1>2, <2>1, <2>4
  <1>6. CASE compile_expr_bin
    <2>1. /\ At("bin") /\ Head(todo).op \in Compiled
          /\ Emit(BinCode(Head(todo).op)) /\ relas' = relas
      BY <1>6 DEF compile_expr_bin
    <2>2. reg \in Int /\ reg - 1 \in Int
      <3>1. reg \in Int
        BY <2>1, HeadFacts
      <3> QED BY <3>1
    <2>3. BinCode(Head(todo).op) \in Seq(Plain)
      BY <2>1, <2>2, BinPlain
    <2> QED BY <1>2, <2>1, <2>3
  <1>7. CASE compile_return
    <2> DEFINE a == I("mov rax, r", 0, Mask(reg), 0)
               b == << a, Op("mov rsp, rbp"), Op("pop rbp"), Op("ret") >>
    <2>1. At("return") /\ Emit(b) /\ relas' = relas
      BY <1>7 DEF compile_return
    <2>2. Mask(reg) \in Register
      BY <2>1, HeadFacts, MaskType
    <2>3. a \in Plain
      BY <2>2, PlainOps, Zero, PlainIs, Zenon
    <2>4. Op("mov rsp, rbp") \in Plain /\ Op("pop rbp") \in Plain /\ Op("ret") \in Plain
      BY PlainOps, PlainOp, Zenon
    <2>5. b \in Seq(Plain)
      BY <2>3, <2>4, ShortSeqs
    <2> QED BY <1>2, <2>1, <2>5
  <1> QED BY <1>3, <1>4, <1>5, <1>6, <1>7

(* Calls of functions of the program.                                      *)
LEMMA CallRelas ==
    ASSUME CompilerInv, RelasInv, CallExpr \/ CallStmt \/ CallEnd
    PROVE  RelasInv'
  <1>1. NoNew({})
    BY CallKeeps
  <1>2. ASSUME NEW a \in Seq(Plain), Emit(a), relas' = relas
        PROVE  RelasInv'
    BY <1>1, <1>2, PlainStep DEF Emit
  <1>3. CASE CallExpr \/ CallStmt
    <2>1. PICK n \in Exprs \union Stmts, k \in {"expr", "stmt"} :
            /\ At(k) /\ IsFunction(n.id) /\ relas' = relas
            /\ Emit(SaveCode(Mask(reg)) \o PadCode(find_symbol(n.id).info))
      BY <1>3 DEF CallExpr, CallStmt, CallBegin, ReadExpr, ReadStmt
    <2>2. reg \in Int /\ Mask(reg) \in Register
      BY <2>1, HeadFacts, MaskType
    <2>3. find_symbol(n.id).info \in Nat
      <3>1. find_symbol(n.id) \in Symbol
        BY <2>1, SymbolFound DEF IsFunction, CompilerInv, TypeOK
      <3> QED BY <3>1 DEF Symbol
    <2>4. /\ SaveCode(Mask(reg)) \in Seq(Plain)
          /\ PadCode(find_symbol(n.id).info) \in Seq(Plain)
      BY <2>2, <2>3, AroundCall
    <2>5. SaveCode(Mask(reg)) \o PadCode(find_symbol(n.id).info) \in Seq(Plain)
      BY <2>4, ConcatProperties
    <2> QED BY <1>2, <2>1, <2>5
  <1>4. CASE CallEnd
    <2> DEFINE a    == Head(todo)
               call == I("call", 0, 0, Displace(find_symbol(a.id).offset, rip))
    <2>1. /\ At("args") /\ relas' = relas
          /\ Emit(<<call>> \o compile_call_end(reg, a.pushed) \o RestoreCode(a.saved))
      BY <1>4 DEF CallEnd
    <2>2. reg \in Int /\ a \in ItemType /\ a.k = "args" /\ todo \in Seq(ItemType) /\ todo # <<>>
      BY <2>1, HeadFacts DEF CompilerInv, TypeOK
    <2>3. a.pushed \in Nat /\ a.saved \in Register
      <3>1. a \in [k : {"args"}, h : Nat, d : Scopes, id : STRING, left : Nat, given : Int,
                   pushed : Nat, saved : Register]
        <4> HIDE DEF a
        <4> QED BY <2>2 DEF ItemType
      <3> HIDE DEF a
      <3> QED BY <3>1
    <2>4. a.id \in FunctionNames
      <3>1. a = todo[1] /\ 1 \in 1..Len(todo)
        BY <2>2, EmptySeq
      <3> QED BY <2>2, <3>1 DEF CompilerInv, CallsPending
    <2>5. Displace(find_symbol(a.id).offset, rip) \in Int
      <3>1. scopes \in Seq(Seq(Symbol)) /\ depth \in Nat /\ depth >= 2
        BY <2>1, HeadFacts DEF CompilerInv, TypeOK, Scopes
      <3>2. scopes # <<>>
        BY <3>1, EmptySeq DEF depth
      <3>3. find_symbol(a.id) \in Symbol
        BY <2>4, <3>1, <3>2, FunctionFound, SymbolFound
      <3>4. find_symbol(a.id).offset \in Nat
        BY <3>3 DEF Symbol
      <3> QED BY <3>4, AddressIs DEF Displace
    <2> HIDE DEF a
    <2>6. call \in Plain
      BY <2>5, PlainOps, Zero, PlainIs, Zenon
    <2> HIDE DEF call
    <2>7. /\ <<call>> \in Seq(Plain) /\ compile_call_end(reg, a.pushed) \in Seq(Plain)
          /\ RestoreCode(a.saved) \in Seq(Plain)
      BY <2>2, <2>3, <2>6, ShortSeqs, AroundCall
    <2>8. <<call>> \o compile_call_end(reg, a.pushed) \o RestoreCode(a.saved) \in Seq(Plain)
      BY <2>7, ConcatProperties
    <2> QED BY <1>2, <2>1, <2>8
  <1> QED BY <1>3, <1>4

(* An access at the beginning of the code.                                 *)
LEMMA AccessFirst ==
    ASSUME CompilerInv, RelasInv, text' \in Seq(InstrType), NoNew({}),
           NEW c \in InstrType, NEW a \in Seq(Plain),
           NEW vis \in {"local", "global"}, NEW addend \in Int,
           vis = "global" => c.op \in Needs /\ c.x = addend,
           vis = "local" => c.op \notin Needs,
           Emit(<<c>> \o a), relas' = relas \o RelaOf(vis, rip, addend)
    PROVE  RelasInv'
  <1>1. <<>> \in Seq(Plain) /\ Len(<<>>) = 0 /\ rip + 0 = rip
    BY EmptySeq, AddressIs
  <1>2. <<>> \o <<c>> = <<c>>
    OBVIOUS
  <1>3. text' = text \o (<<>> \o <<c>> \o a)
    BY <1>2 DEF Emit
  <1>4. relas' = relas \o RelaOf(vis, rip + Len(<<>>), addend)
    BY <1>1
  <1> QED BY <1>1, <1>3, <1>4, AccessStep

(* Loads of elements.                                                      *)
LEMMA LoadElementRelas ==
    ASSUME CompilerInv, CompilerInv', RelasInv, LoadElement
    PROVE  RelasInv'
  <1> DEFINE it == Head(todo)
             c  == I(Loadx[it.vis], Mask(reg), Mask(reg), it.addend)
  <1>1. /\ At("load") /\ relas' = relas \o RelaOf(it.vis, rip, it.addend) /\ Emit(<<c>>)
    BY DEF LoadElement
  <1>2. it \in ItemType /\ it.k = "load" /\ Mask(reg) \in Register
    BY <1>1, HeadFacts, MaskType
  <1>3. it.vis \in {"local", "global"} /\ it.addend \in Int
    BY <1>2 DEF ItemType
  <1> HIDE DEF it
  <1>4. c \in InstrType /\ c.op = Loadx[it.vis] /\ c.x = it.addend
    BY <1>2, <1>3, MemoryAccess, InstrIs DEF I
  <1> HIDE DEF c
  <1>5. <<c>> \o <<>> = <<c>> /\ <<>> \in Seq(Plain)
    OBVIOUS
  <1>6. NoNew({}) /\ text' \in Seq(InstrType)
    BY ExprKeeps DEF CompilerInv, TypeOK
  <1> QED BY <1>1, <1>3, <1>4, <1>5, <1>6, MemoryAccess, AccessFirst

(* Stores of elements.                                                     *)
LEMMA StoreElementRelas ==
    ASSUME CompilerInv, CompilerInv', RelasInv, StoreElement
    PROVE  RelasInv'
  <1> DEFINE it == Head(todo)
             c  == I(Storex[it.vis], Mask(reg), Mask(reg - 1), it.addend)
  <1>1. /\ At("store") /\ relas' = relas \o RelaOf(it.vis, rip, it.addend)
        /\ Emit(<<c>> \o RetCode(it.vis))
    BY DEF StoreElement
  <1>2. it \in ItemType /\ it.k = "store" /\ Mask(reg) \in Register
    BY <1>1, HeadFacts, MaskType
  <1>3. Mask(reg - 1) \in Register
    <2>1. reg \in Int
      BY <1>1, HeadFacts
    <2>2. reg - 1 \in Int
      BY <2>1
    <2> QED BY <2>2, MaskType
  <1>4. it.vis \in {"local", "global"} /\ it.addend \in Int
    BY <1>2 DEF ItemType
  <1> HIDE DEF it
  <1>5. c \in InstrType /\ c.op = Storex[it.vis] /\ c.x = it.addend
    BY <1>2, <1>3, <1>4, MemoryAccess, InstrIs DEF I
  <1> HIDE DEF c
  <1>6. NoNew({}) /\ text' \in Seq(InstrType)
    BY StmtKeeps DEF CompilerInv, TypeOK
  <1> QED BY <1>1, <1>4, <1>5, <1>6, RetPlain, MemoryAccess, AccessFirst

(* A variable is loaded, or its index comes first.                         *)
LEMMA LoadRelas ==
    ASSUME CompilerInv, CompilerInv', RelasInv, LoadVariable
    PROVE  RelasInv'
  <1>1. NoNew({}) /\ text' \in Seq(InstrType)
    BY ExprKeeps DEF CompilerInv, TypeOK
  <1>2. PICK n \in Exprs :
          /\ ReadExpr(n) /\ Found(n.id)
          /\ LET s == find_symbol(n.id) IN
             \/ /\ relas' = relas \o RelaOf(s.vis, rip, s.addend)
                /\ Emit(<< I(Load[s.vis], Mask(reg + 1), 0, s.addend) >>)
             \/ UNCHANGED code
    BY DEF LoadVariable
  <1> DEFINE s == find_symbol(n.id)
             c == I(Load[s.vis], Mask(reg + 1), 0, s.addend)
  <1>3. s \in Symbol
    BY <1>2, SymbolFound DEF CompilerInv, TypeOK
  <1>4. \/ relas' = relas \o RelaOf(s.vis, rip, s.addend) /\ Emit(<<c>>)
        \/ UNCHANGED code
    BY <1>2
  <1>5. s.vis \in {"local", "global"} /\ s.addend \in Int
    <2> HIDE DEF s
    <2> QED BY <1>3 DEF Symbol
  <1>6. Mask(reg + 1) \in Register
    BY <1>2, ReadExprIs, HeadFacts, MaskType
  <1> HIDE DEF s
  <1>7. c \in InstrType /\ c.op = Load[s.vis] /\ c.x = s.addend
    BY <1>5, <1>6, Zero, MemoryAccess, InstrIs DEF I
  <1> HIDE DEF c
  <1>8. <<c>> \o <<>> = <<c>> /\ <<>> \in Seq(Plain)
    OBVIOUS
  <1>9. CASE UNCHANGED code
    BY <1>1, <1>9, SameCode
  <1>10. CASE relas' = relas \o RelaOf(s.vis, rip, s.addend) /\ Emit(<<c>>)
    BY <1>1, <1>5, <1>7, <1>8, <1>10, MemoryAccess, AccessFirst
  <1> QED BY <1>4, <1>9, <1>10

(* A variable is stored.                                                   *)
LEMMA StoreRelas ==
    ASSUME CompilerInv, CompilerInv', RelasInv, NEW s \in Symbol, NEW n \in Int, reg \in Int,
           compile_store(s, n), NoNew({})
    PROVE  RelasInv'
  <1>1. /\ s.vis \in {"local", "global"} /\ s.addend \in Int
        /\ Mask(reg) \in Register /\ Mask(reg + 1) \in Register
        /\ text' \in Seq(InstrType)
    BY MaskType DEF Symbol, CompilerInv, TypeOK
  <1> DEFINE mov    == I("mov imm", Mask(reg + 1), 0, n)
             store  == I(Store[s.vis], 0, Mask(reg), s.addend)
             storex == I(Storex[s.vis], Mask(reg + 1), Mask(reg), s.addend)
             ret    == RetCode(s.vis)
  <1>2. mov \in Plain
    BY <1>1, PlainOps, Zero, PlainIs, Zenon
  <1>3. store \in InstrType /\ store.op = Store[s.vis] /\ store.x = s.addend
    BY <1>1, MemoryAccess, Zero, InstrIs DEF I
  <1>4. storex \in InstrType /\ storex.op = Storex[s.vis] /\ storex.x = s.addend
    BY <1>1, MemoryAccess, InstrIs DEF I
  <1>5. \/ /\ Emit(<<store>> \o ret)
           /\ relas' = relas \o RelaOf(s.vis, rip, s.addend)
        \/ /\ Emit(<<mov, storex>> \o ret)
           /\ relas' = relas \o RelaOf(s.vis, rip + 1, s.addend)
    BY DEF compile_store
  <1>6. ret \in Seq(Plain)
    BY RetPlain
  <1> HIDE DEF mov, store, storex, ret
  <1>7. CASE Emit(<<store>> \o ret) /\ relas' = relas \o RelaOf(s.vis, rip, s.addend)
    BY <1>1, <1>3, <1>6, <1>7, MemoryAccess, AccessFirst
  <1>8. CASE Emit(<<mov, storex>> \o ret) /\ relas' = relas \o RelaOf(s.vis, rip + 1, s.addend)
    <2>1. <<mov>> \in Seq(Plain) /\ Len(<<mov>>) = 1
      BY <1>2
    <2>2. <<mov, storex>> = <<mov>> \o <<storex>>
      BY ShortConcat
    <2>3. text' = text \o (<<mov>> \o <<storex>> \o ret)
      BY <1>8, <2>2 DEF Emit
    <2>4. relas' = relas \o RelaOf(s.vis, rip + Len(<<mov>>), s.addend)
      BY <1>8, <2>1
    <2> QED BY <1>1, <1>4, <1>6, <2>1, <2>3, <2>4, MemoryAccess, AccessStep
  <1> QED BY <1>5, <1>7, <1>8

(* A variable is assigned, or declared.                                    *)
LEMMA AssignRelas ==
    ASSUME CompilerInv, CompilerInv', RelasInv, Reassign \/ DeclareVariable
    PROVE  RelasInv'
  <1>1. NoNew({})
    BY StmtKeeps
  <1> DEFINE it == Head(todo)
  <1>2. At("assign")
    BY DEF Reassign, DeclareVariable
  <1>3. it.id \in STRING /\ it.n \in Index /\ it.n \in Int /\ it.at \in Nat /\ reg \in Int
    BY <1>2, AssignHead, HeadFacts
  <1>4. CASE Reassign
    <2> DEFINE s == find_symbol(it.id)
    <2>1. Found(it.id) /\ (UNCHANGED code \/ compile_store(s, it.n))
      BY <1>4 DEF Reassign
    <2>2. s \in Symbol
      BY <2>1, SymbolFound DEF CompilerInv, TypeOK
    <2> HIDE DEF s, it
    <2> QED BY <1>1, <1>3, <2>1, <2>2, SameCode, StoreRelas
  <1>5. CASE DeclareVariable
    <2> DEFINE info == Extent(it.n)
               s    == IF is_global_scope
                       THEN Sym("var", "global", it.id, Imm(bss), it.at, info)
                       ELSE Sym("var", "local", it.id, LocalAddend(info), it.at, info)
    <2>1. it.n # Computed /\ compile_store(s, it.n)
      BY <1>5 DEF DeclareVariable
    <2> HIDE DEF it
    <2>2. info \in Nat /\ bss \in Nat /\ frame \in Nat
      <3>1. info \in Nat
        BY <1>3, <2>1 DEF Extent, Index, NoIndex, Computed, WORD
      <3> QED BY <3>1 DEF CompilerInv, TypeOK
    <2> HIDE DEF info
    <2>3. s \in Symbol
      <3>1. LocalAddend(info) \in Int /\ Imm(bss) \in Int
        <4>1. -(frame + info) \in Int /\ bss \in Int
          BY <2>2
        <4> QED BY <4>1, ImmIs DEF LocalAddend
      <3> QED BY <1>3, <2>2, <3>1 DEF Sym, Symbol
    <2> HIDE DEF s
    <2> QED BY <1>1, <1>3, <2>1, <2>3, StoreRelas
  <1> QED BY <1>4, <1>5

(* Calls of the library.                                                   *)
LEMMA StdcallRelas ==
    ASSUME CompilerInv, CompilerInv', RelasInv, NoNew({}),
           NEW sym \in {"scan", "print"}, NEW args \in {0, 1},
           reg - args \in Int, reg \in Int, compile_stdcall(sym, args)
    PROVE  RelasInv'
  <1> DEFINE pushes == [i \in 1..args |-> I("push", Mask(reg - i + 1), 0, 0)]
             before == PadCode(args) \o pushes
             call   == I(Library[sym], 0, 0, 0)
             end    == compile_call_end(reg - args, compile_call_begin(args))
             e      == Rela(rip + Len(before), sym, 0)
  <1>1. text' = text \o (before \o <<call>> \o end) /\ relas' = Append(relas, e)
    BY DEF compile_stdcall, Emit
  <1>2. pushes \in Seq(Plain)
    <2>1. \A i \in 1..args : Mask(reg - i + 1) \in Register
      BY MaskType
    <2>2. \A i \in 1..args : I("push", Mask(reg - i + 1), 0, 0) \in Plain
      BY <2>1, PlainOps, Zero, PlainIs, Zenon
    <2>3. args \in Nat
      OBVIOUS
    <2> QED BY <2>2, <2>3
  <1> HIDE DEF pushes
  <1>3. before \in Seq(Plain) /\ end \in Seq(Plain)
    BY <1>2, Zero, AroundCall, ConcatProperties
  <1>4. call \in InstrType /\ call.op = Library[sym] /\ call.op \in Needs
    <2>1. Library[sym] \in {"call scan", "call print"}
      <3>1. CASE sym = "scan"
        BY <3>1 DEF Library
      <3>2. CASE sym = "print"
        BY <3>2 DEF Library
      <3> QED BY <3>1, <3>2
    <2>2. Library[sym] \in Opcodes /\ Library[sym] \in Needs
      BY <2>1, OpcodesAre DEF Needs
    <2> QED BY <2>2, Zero, InstrIs DEF I
  <1>5. rip + Len(before) \in Nat
    BY <1>3, AddressIs, LenProperties
  <1> HIDE DEF before, end, call
  <1>6. e \in RelaType /\ e.at = rip + Len(before) /\ e.sym = sym
    BY <1>5 DEF Rela, RelaType
  <1> HIDE DEF e
  <1>7. Right(call, e)
    BY <1>4, <1>6 DEF Right
  <1>8. /\ text \in Seq(InstrType) /\ relas \in Seq(RelaType) /\ Match(text, relas, 0)
        /\ ToPatch /\ text' \in Seq(InstrType) /\ rip \in Nat /\ rip = Len(text)
    BY AddressIs DEF CompilerInv, TypeOK, RelasInv, rip
  <1>9. /\ before \o <<call>> \o end \in Seq(InstrType)
        /\ Match(before \o <<call>> \o end, <<e>>, Len(text))
    BY <1>3, <1>4, <1>6, <1>7, <1>8, AccessChunk
  <1>10. relas' = relas \o <<e>> /\ <<e>> \in Seq(RelaType)
    <2>1. relas' = relas \o <<e>>
      BY <1>1, <1>6, <1>8, AppendIsConcat
    <2> QED BY <1>6, <2>1
  <1>11. Match(text', relas', 0) /\ Extends(text, text')
    BY <1>1, <1>8, <1>9, <1>10, MoreMatch
  <1>12. ToPatch'
    BY <1>8, <1>11, PatchesKept
  <1> QED BY <1>11, <1>12 DEF RelasInv

(* IN and OUT.                                                             *)
LEMMA InOutRelas ==
    ASSUME CompilerInv, CompilerInv', RelasInv, InExpr \/ OutStmt
    PROVE  RelasInv'
  <1>1. NoNew({})
    BY ExprKeeps, StmtKeeps
  <1>2. CASE InExpr
    <2>1. PICK n \in Exprs : ReadExpr(n) /\ compile_stdcall("scan", 0)
      BY <1>2 DEF InExpr
    <2>2. reg \in Int
      BY <2>1, ReadExprIs, HeadFacts
    <2>3. reg - 0 \in Int
      BY <2>2
    <2> QED BY <1>1, <2>1, <2>2, <2>3, StdcallRelas
  <1>3. CASE OutStmt
    <2>1. At("out") /\ compile_stdcall("print", 1)
      BY <1>3 DEF OutStmt
    <2>2. reg \in Int
      BY <2>1, HeadFacts
    <2>3. reg - 1 \in Int
      BY <2>2
    <2> QED BY <1>1, <2>1, <2>2, <2>3, StdcallRelas
  <1> QED BY <1>2, <1>3

(* The handlers that patch.                                                *)

(* The instruction the head of the control stack stands for.               *)
LEMMA HeadPatched ==
    ASSUME CompilerInv, RelasInv, NEW k \in Marks, At(k), NEW x \in Int
    PROVE  LET t == Patch(Head(todo).at, x)
           IN  t \in Seq(InstrType) /\ Match(t, relas, 0) /\ Extends(text, t)
  <1>1. todo \in Seq(ItemType) /\ todo # <<>> /\ Head(todo).k = k /\ text \in Seq(InstrType)
    BY HeadFacts DEF CompilerInv, TypeOK
  <1>2. Head(todo) = todo[1] /\ 1 \in 1..Len(todo)
    BY <1>1, EmptySeq
  <1>3. Patched(Head(todo), text)
    BY <1>1, <1>2 DEF RelasInv, ToPatch
  <1> HIDE DEF Marks
  <1>4. Match(text, relas, 0)
    BY DEF RelasInv
  <1> QED BY <1>1, <1>3, <1>4, PatchIs, PatchMatch DEF Patched

(* The ends of definitions and branches.                                   *)
LEMMA PatchRelas ==
    ASSUME CompilerInv, RelasInv, EndDefine \/ EndIf \/ EndWhile \/ Else
    PROVE  RelasInv'
  <1> DEFINE it == Head(todo)
  <1>1. text \in Seq(InstrType) /\ relas \in Seq(RelaType) /\ ToPatch
    BY DEF CompilerInv, TypeOK, RelasInv
  <1>2. ASSUME NEW k \in Marks, At(k)
        PROVE  it.at \in Nat /\ it.cond \in Nat /\ rip \in Nat
    <2>1. it \in ItemType /\ it.k = k
      BY <1>2, HeadFacts
    <2> HIDE DEF it
    <2> QED BY <2>1, AddressIs DEF ItemType, Marks
  <1>3. ASSUME NEW t, t \in Seq(InstrType), Match(t, relas, 0), Extends(text, t),
               text' = t, relas' = relas, NoNew({})
        PROVE  RelasInv'
    <2>1. ToPatch'
      BY <1>1, <1>3, PatchesKept
    <2> QED BY <1>3, <2>1 DEF RelasInv
  <1>4. ASSUME NEW t, t \in Seq(InstrType), Match(t, relas, 0), Extends(text, t),
               NEW c \in Plain, text' = Append(t, c), relas' = relas
        PROVE  /\ text' \in Seq(InstrType) /\ Match(text', relas', 0) /\ Extends(text, text')
               /\ Len(text') = Len(t) + 1 /\ text'[Len(t) + 1] = c
    <2>1. c \in InstrType
      BY DEF Plain
    <2>2. text' = t \o <<c>> /\ Len(text') = Len(t) + 1 /\ text'[Len(t) + 1] = c
      BY <1>4, <2>1, AppendIsConcat, AppendProperties
    <2>3. <<c>> \in Seq(Plain)
      OBVIOUS
    <2>4. text' \in Seq(InstrType) /\ Match(text', relas, 0) /\ Extends(t, text')
      BY <1>1, <1>4, <2>2, <2>3, MorePlain
    <2>5. Extends(text, text')
      BY <1>1, <1>4, <2>4, LenProperties DEF Extends
    <2> QED BY <1>4, <2>2, <2>4, <2>5
  <1>5. CASE EndDefine
    <2>1. At("enddefine") /\ text' = Patch(it.at, Imm(Align(frame, 16))) /\ relas' = relas
      BY <1>5 DEF EndDefine
    <2>2. Imm(Align(frame, 16)) \in Int /\ "enddefine" \in Marks
      <3>1. Align(frame, 16) \in Int
        BY DEF Align, CompilerInv, TypeOK
      <3> QED BY <3>1, ImmIs DEF Marks
    <2> QED BY <1>3, <1>5, <2>1, <2>2, HeadPatched, StmtKeeps
  <1>6. CASE EndIf
    <2>1. At("endif") /\ text' = Patch(it.at, Displace(rip, it.at)) /\ relas' = relas
      BY <1>6 DEF EndIf
    <2>2. "endif" \in Marks
      BY DEF Marks
    <2>3. it.at \in Nat /\ rip \in Nat
      BY <1>2, <2>1, <2>2
    <2>4. Displace(rip, it.at) \in Int
      <3> HIDE DEF it
      <3> QED BY <2>3 DEF Displace
    <2> QED BY <1>3, <1>6, <2>1, <2>2, <2>4, HeadPatched, StmtKeeps
  <1>7. CASE EndWhile
    <2> DEFINE back == I("jmp", 0, 0, Displace(it.cond, rip))
               t    == Patch(it.at, Displace(after_jmp, it.at))
    <2>1. At("endwhile") /\ text' = Append(t, back) /\ relas' = relas
      BY <1>7 DEF EndWhile
    <2>2. "endwhile" \in Marks
      BY DEF Marks
    <2>3. it.at \in Nat /\ it.cond \in Nat /\ rip \in Nat
      BY <1>2, <2>1, <2>2
    <2>4. Displace(after_jmp, it.at) \in Int /\ Displace(it.cond, rip) \in Int
      <3> HIDE DEF it
      <3> QED BY <2>3 DEF Displace, after_jmp
    <2>5. back \in Plain
      BY <2>4, PlainOps, Zero, PlainIs, Zenon
    <2>6. t \in Seq(InstrType) /\ Match(t, relas, 0) /\ Extends(text, t)
      BY <2>1, <2>2, <2>4, HeadPatched
    <2> HIDE DEF back, t
    <2>7. text' \in Seq(InstrType) /\ Match(text', relas', 0) /\ Extends(text, text')
      BY <1>4, <2>1, <2>5, <2>6
    <2>8. ToPatch'
      BY <1>1, <1>7, <2>7, PatchesKept, StmtKeeps
    <2> QED BY <2>7, <2>8 DEF RelasInv
  <1>8. CASE Else
    <2> DEFINE jmp == I("jmp", 0, 0, Unset)
               t   == Patch(it.at, Displace(after_jmp, it.at))
               end == Jump("endif", level, depth, it.cond, rip)
    <2>1. /\ At("else") /\ text' = Append(t, jmp) /\ relas' = relas
          /\ Do(Body(level, depth) \o <<end>>)
      BY <1>8 DEF Else
    <2>2. "else" \in Marks
      BY DEF Marks
    <2>3. it.at \in Nat /\ rip \in Nat
      BY <1>2, <2>1, <2>2
    <2>4. Displace(after_jmp, it.at) \in Int
      <3> HIDE DEF it
      <3> QED BY <2>3 DEF Displace, after_jmp
    <2>5. jmp \in Plain
      BY PlainOps, Zero, PlainIs, Zenon DEF Unset
    <2>6. t \in Seq(InstrType) /\ Match(t, relas, 0) /\ Extends(text, t)
      BY <2>1, <2>2, <2>4, HeadPatched
    <2>7. Len(t) = rip
      BY <1>1, <2>3, <2>4, PatchIs DEF rip
    <2>8. end.at = rip
      BY DEF Jump
    <2> HIDE DEF jmp, t, end
    <2>9. /\ text' \in Seq(InstrType) /\ Match(text', relas', 0) /\ Extends(text, text')
          /\ Len(text') = rip + 1 /\ text'[rip + 1] = jmp
      BY <1>4, <2>1, <2>5, <2>6, <2>7
    <2>10. NoNew({end})
      BY <2>1, BodyThen
    <2>11. Patched(end, text')
      BY <2>3, <2>5, <2>8, <2>9 DEF Patched, Plain
    <2>12. ToPatch'
      BY <1>1, <2>9, <2>10, <2>11, PatchesKept
    <2> QED BY <2>9, <2>12 DEF RelasInv
  <1> QED BY <1>5, <1>6, <1>7, <1>8

(* The last instruction that was emitted.                                  *)
LEMMA LastEmitted ==
    ASSUME CompilerInv, NEW a \in Seq(Plain), NEW n \in Nat \ {0}, Len(a) = n, text' = text \o a
    PROVE  rip \in Nat /\ Len(text') = rip + n /\ text'[rip + n] = a[n]
  <1>1. text \in Seq(InstrType) /\ Len(text) = rip /\ rip \in Nat
    BY AddressIs DEF CompilerInv, TypeOK, rip
  <1>2. a \in Seq(InstrType) /\ n \in 1..Len(a)
    BY <1>1, PlainChunk
  <1>3. /\ Len(text \o a) = Len(text) + Len(a)
        /\ \A i \in 1..(Len(text) + Len(a)) :
              (text \o a)[i] = IF i <= Len(text) THEN text[i] ELSE a[i - Len(text)]
    BY <1>1, <1>2, ConcatProperties
  <1>4. rip + n \in 1..(Len(text) + Len(a)) /\ ~(rip + n <= Len(text)) /\ rip + n - Len(text) = n
    BY <1>1
  <1> QED BY <1>1, <1>3, <1>4

(* Two and three instructions.                                             *)
LEMMA TwoThree ==
    ASSUME NEW x \in Plain, NEW y \in Plain, NEW z \in Plain
    PROVE  /\ <<x, y>> \in Seq(Plain) /\ Len(<<x, y>>) = 2 /\ <<x, y>>[2] = y
           /\ <<x, y, z>> \in Seq(Plain) /\ Len(<<x, y, z>>) = 3 /\ <<x, y, z>>[3] = z
  <1> DEFINE S == Plain
  <1> HIDE DEF S
  <1>1. x \in S /\ y \in S /\ z \in S
    BY DEF S
  <1>2. <<x, y>> \in Seq(S) /\ <<x, y, z>> \in Seq(S)
    BY <1>1, ShortSeqs
  <1>3. Len(<<x, y>>) = 2 /\ <<x, y>>[2] = y /\ Len(<<x, y, z>>) = 3 /\ <<x, y, z>>[3] = z
    OBVIOUS
  <1> QED BY <1>2, <1>3 DEF S

(* The je of a condition, which is to be patched.                          *)
LEMMA TestRelas ==
    ASSUME CompilerInv, RelasInv, TestCondition
    PROVE  RelasInv'
  <1> DEFINE test == I("test", Mask(reg), Mask(reg), 0)
             je   == I("je", 0, 0, Unset)
  <1>0. /\ rip \in Nat /\ (rip + 1) + 1 = rip + 2 /\ rip + 1 \in Nat /\ rip + 2 \in 1..(rip + 2)
        /\ 2 \in Nat \ {0}
    BY AddressIs
  <1>1. PICK k \in {"test while", "test if", "test if else"} : At(k)
    BY DEF TestCondition
  <1>2. /\ text' = text \o <<test, je>> /\ relas' = relas
        /\ \E then \in {"endwhile", "else", "endif"} :
              Do(Body(level - 1, depth) \o << Jump(then, level - 1, depth, Head(todo).cond, rip + 1) >>)
    BY Zenon DEF TestCondition, Emit
  <1>3. PICK then \in {"endwhile", "else", "endif"} :
            Do(Body(level - 1, depth) \o << Jump(then, level - 1, depth, Head(todo).cond, rip + 1) >>)
    BY <1>2
  <1> DEFINE end == Jump(then, level - 1, depth, Head(todo).cond, rip + 1)
  <1>4. end.at = rip + 1
    BY DEF Jump
  <1>5. NoNew({end})
    BY <1>1, <1>3, BodyThen
  <1>6. test \in Plain /\ je \in Plain
    <2>1. Mask(reg) \in Register
      BY <1>1, HeadFacts, MaskType
    <2> QED BY <2>1, PlainOps, Zero, PlainIs, Zenon DEF Unset
  <1> HIDE DEF test, je, end
  <1>7. <<test, je>> \in Seq(Plain) /\ Len(<<test, je>>) = 2 /\ <<test, je>>[2] = je
    BY <1>6, TwoThree
  <1>8. rip \in Nat /\ Len(text') = rip + 2 /\ text'[rip + 2] = je
    <2> DEFINE a == <<test, je>>
    <2>1. a \in Seq(Plain) /\ Len(a) = 2 /\ a[2] = je /\ text' = text \o a
      BY <1>2, <1>7, Zenon
    <2> HIDE DEF a
    <2>2. rip \in Nat /\ Len(text') = rip + 2 /\ text'[rip + 2] = a[2]
      BY <1>0, <2>1, LastEmitted, Zenon
    <2> QED BY <2>1, <2>2, Zenon
  <1>9. Patched(end, text')
    BY <1>0, <1>4, <1>6, <1>8 DEF Patched, Plain
  <1> QED BY <1>2, <1>5, <1>7, <1>9, PlainStep

(* The prologue of a function, whose frame is to be patched.               *)
LEMMA DefineRelas ==
    ASSUME CompilerInv, RelasInv, compile_define
    PROVE  RelasInv'
  <1> DEFINE sub  == I("sub rsp, frame", 0, 0, Unset)
             code1 == << Op("push rbp"), Op("mov rbp, rsp"), sub >>
             end  == Jump("enddefine", level, depth + 1, 0, rip + 2)
             a    == It("stmt", level, depth + 1)
             b    == It("more", level, depth + 1)
  <1>1. text' = text \o code1 /\ relas' = relas /\ todo' = Body(level, depth + 1) \o <<end>>
    BY DEF compile_define, Emit
  <1>2. a.k \notin Marks /\ b.k \notin Marks /\ end.at = rip + 2 /\ Body(level, depth + 1) = <<a, b>>
    BY DEF It, Jump, Marks, Body
  <1>3. sub \in Plain /\ Op("push rbp") \in Plain /\ Op("mov rbp, rsp") \in Plain
    BY PlainOps, Zero, PlainIs, PlainOp, Zenon DEF Unset
  <1> HIDE DEF sub
  <1>4. code1 \in Seq(Plain) /\ Len(code1) = 3 /\ code1[3] = sub
    BY <1>3, TwoThree, Zenon
  <1> HIDE DEF code1, end, a, b
  <1>5. todo' = <<a, b, end>>
    BY <1>1, <1>2, ShortConcat
  <1>6. NoNew({end})
    BY <1>2, <1>5 DEF NoNew
  <1>8. rip \in Nat /\ Len(text') = rip + 3 /\ text'[rip + 3] = sub
    <2> DEFINE n == 3
    <2>1. Len(code1) = n /\ code1[n] = sub /\ n \in Nat \ {0}
      BY <1>4
    <2> HIDE DEF n
    <2>2. rip \in Nat /\ Len(text') = rip + n /\ text'[rip + n] = sub
      BY <1>1, <1>4, <2>1, LastEmitted
    <2> QED BY <2>2 DEF n
  <1>9. Patched(end, text')
    <2>1. rip + 2 \in Nat /\ (rip + 2) + 1 = rip + 3 /\ rip + 3 \in 1..Len(text')
      BY <1>8
    <2> QED BY <1>2, <1>3, <1>8, <2>1 DEF Patched, Plain
  <1> QED BY <1>1, <1>4, <1>6, <1>9, PlainStep

(* The other steps.                                                        *)
LEMMA StartRelas ==
    ASSUME CompilerInv, RelasInv, compile_start
    PROVE  RelasInv'
  <1> DEFINE n     == Len(StartTargets)
             calls == [i \in 1..n |-> I("call", 0, 0, Displace(StartTargets[i], rip + i - 1))]
             exit  == << Op("mov rdi, rax"), Op("mov rax, 0x3c"), Op("syscall") >>
  <1>1. /\ phase = "start" /\ text' = text \o calls \o exit /\ relas' = relas /\ todo' = todo
    BY DEF compile_start
  <1>2. n \in Nat /\ rip \in Nat /\ \A i \in 1..n : StartTargets[i] \in Nat
    <2>1. StartTargets \in Seq(Nat)
      BY <1>1, StartTargetsAre
    <2> QED BY <2>1, AddressIs, LenProperties
  <1> HIDE DEF n
  <1>3. calls \in Seq(Plain)
    <2>1. \A i \in 1..n : Displace(StartTargets[i], rip + i - 1) \in Int
      BY <1>2 DEF Displace
    <2>2. \A i \in 1..n : I("call", 0, 0, Displace(StartTargets[i], rip + i - 1)) \in Plain
      BY <2>1, PlainOps, Zero, PlainIs, Zenon
    <2> QED BY <1>2, <2>2
  <1>4. exit \in Seq(Plain)
    <2>1. Op("mov rdi, rax") \in Plain /\ Op("mov rax, 0x3c") \in Plain /\ Op("syscall") \in Plain
      BY PlainOps, PlainOp, Zenon
    <2> QED BY <2>1, ShortSeqs
  <1> HIDE DEF calls, exit
  <1>5. /\ text \in Seq(InstrType) /\ relas \in Seq(RelaType) /\ Match(text, relas, 0) /\ ToPatch
    BY DEF CompilerInv, TypeOK, RelasInv
  <1>6. /\ text \o calls \in Seq(InstrType) /\ Match(text \o calls, relas, 0)
        /\ Extends(text, text \o calls)
    BY <1>3, <1>5, MorePlain
  <1>7. /\ text' \in Seq(InstrType) /\ Match(text', relas, 0)
        /\ Extends(text \o calls, text')
    BY <1>1, <1>4, <1>5, <1>6, MorePlain
  <1>8. Extends(text, text')
    BY <1>5, <1>6, <1>7, LenProperties DEF Extends
  <1>9. NoNew({})
    BY <1>1 DEF NoNew
  <1>10. ToPatch'
    BY <1>5, <1>7, <1>8, <1>9, PatchesKept
  <1> QED BY <1>1, <1>7, <1>10 DEF RelasInv

(* Nothing is compiled yet,                                                *)
LEMMA EmptyRelas ==
    ASSUME text = <<>>, relas = <<>>, todo = <<>>
    PROVE  RelasInv
  <1>1. Len(<<>>) = 0 /\ 1..0 = {}
    BY EmptySeq
  <1> QED BY <1>1 DEF RelasInv, Match, ToPatch

(* or everything was freed.                                                *)
LEMMA SecondPassRelas ==
    ASSUME SecondPass
    PROVE  RelasInv'
  <1>1. text' = <<>> /\ relas' = <<>> /\ todo' = <<>>
    BY DEF SecondPass, section_free
  <1>2. Len(<<>>) = 0 /\ 1..0 = {}
    BY EmptySeq
  <1> QED BY <1>1, <1>2 DEF RelasInv, Match, ToPatch

(* The steps that leave the code alone.                                    *)
LEMMA OtherRelas ==
    ASSUME CompilerInv, RelasInv,
           \/ Declare \/ Declared \/ CompilePassEnd \/ Terminating \/ UNCHANGED vars \/ GlobalAssign
           \/ DefineRejected \/ VariableRejected \/ OperatorRejected
           \/ CallRejected \/ AssignRejected \/ CallStmtRejected
           \/ BinaryExpr \/ NotExpr \/ CallArgument
           \/ compile_stmt \/ AssignStmt \/ Conditional \/ DropResult \/ OutOrReturn
    PROVE  RelasInv'
  <1>1. CASE Declare \/ Declared \/ CompilePassEnd \/ Terminating \/ UNCHANGED vars
    <2>1. UNCHANGED code /\ todo' = todo
      BY <1>1 DEF Declare, Declared, CompilePassEnd, Terminating, vars
    <2> QED BY <2>1, SameCode DEF NoNew
  <1>2. CASE GlobalAssign
    <2> DEFINE a == Expr(level, depth)
               b == Assign(level + 1, depth, tree[top].id, tree[top].n, rip)
    <2>1. todo' = <<a, b>> /\ a.k \notin Marks /\ b.k \notin Marks /\ UNCHANGED code
      BY <1>2 DEF GlobalAssign, Expr, Assign, Marks
    <2> HIDE DEF a, b
    <2>2. NoNew({})
      BY <2>1 DEF NoNew
    <2> QED BY <2>1, <2>2, SameCode
  <1>3. CASE \/ DefineRejected \/ VariableRejected \/ OperatorRejected
             \/ CallRejected \/ AssignRejected \/ CallStmtRejected
    <2>1. Fail
      BY <1>3 DEF DefineRejected, VariableRejected, OperatorRejected, CallRejected,
                  AssignRejected, CallStmtRejected
    <2> QED BY <2>1, FailKeeps, SameCode DEF Fail
  <1>4. CASE \/ BinaryExpr \/ NotExpr \/ CallArgument
             \/ compile_stmt \/ AssignStmt \/ Conditional \/ DropResult \/ OutOrReturn
    <2>1. UNCHANGED code
      BY <1>4 DEF BinaryExpr, NotExpr, CallArgument, compile_stmt, AssignStmt, Conditional,
                  DropResult, OutOrReturn
    <2> QED BY <1>4, <2>1, ExprKeeps, CallKeeps, StmtKeeps, SameCode
  <1> QED BY <1>1, <1>2, <1>3, <1>4

(* Every step.                                                             *)
LEMMA StepRelas ==
    ASSUME CompilerInv, RelasInv, [Next]_vars
    PROVE  RelasInv'
  <1>1. CompilerInv'
    BY StepInv
  <1> QED BY <1>1, PlainHandlers, CallRelas, LoadElementRelas, StoreElementRelas, LoadRelas,
             AssignRelas, InOutRelas, PatchRelas, TestRelas, DefineRelas, StartRelas,
             SecondPassRelas, OtherRelas, Zenon DEF Next

(* The linker patches each address once; it patches all the instructions   *)
(* that access .bss or call the library, each with its own symbol, and     *)
(* nothing else.                                                           *)
THEOREM RelocationsCorrect == Spec => []RelocationsMatch
  <1>1. Init => RelasInv
    BY EmptyRelas DEF Init
  <1>2. CompilerInv /\ RelasInv /\ [Next]_vars => RelasInv'
    BY StepRelas
  <1>3. CompilerInv /\ RelasInv => RelocationsMatch
    <2> SUFFICES ASSUME CompilerInv, RelasInv
                 PROVE  RelocationsMatch
      OBVIOUS
    <2>1. /\ text \in Seq(InstrType) /\ relas \in Seq(RelaType) /\ Match(text, relas, 0)
          /\ Len(text) \in Nat
      BY LenProperties DEF CompilerInv, TypeOK, RelasInv
    <2>2. ASSUME NEW i \in 1..Len(relas)
          PROVE  /\ relas[i].at \in Nat /\ relas[i].sym \in {"bss", "scan", "print"}
                 /\ relas[i].at + 1 \in 1..Len(text) /\ relas[i].at \in Addresses
                 /\ Right(Instr(relas[i].at), relas[i])
      <3>1. relas[i] \in RelaType
        BY <2>1
      <3>2. relas[i].at \in Nat /\ relas[i].sym \in {"bss", "scan", "print"}
        BY <3>1 DEF RelaType
      <3>3. relas[i].at - 0 + 1 \in 1..Len(text) /\ Right(text[relas[i].at - 0 + 1], relas[i])
        BY <2>1 DEF Match
      <3>4. relas[i].at - 0 + 1 = relas[i].at + 1
        BY <3>2
      <3>5. relas[i].at \in Addresses
        BY <2>1, <3>2, <3>3, <3>4 DEF Addresses
      <3> QED BY <3>2, <3>3, <3>4, <3>5 DEF Instr
    <2>3. ASSUME NEW a \in With(Needs)
          PROVE  \E i \in 1..Len(relas) : relas[i].at = a
      <3>1. a \in 0..(Len(text) - 1) /\ text[a + 1].op \in Needs
        BY DEF With, Addresses, Instr
      <3>2. a + 1 \in 1..Len(text) /\ a + 1 + 0 - 1 = a
        BY <2>1, <3>1
      <3> QED BY <2>1, <3>1, <3>2 DEF Match
    <2>4. {relas[i].at : i \in 1..Len(relas)} = With(Needs)
      <3>1. \A i \in 1..Len(relas) : relas[i].at \in With(Needs)
        BY <2>2 DEF With, Right
      <3> QED BY <2>3, <3>1
    <2>5. \A i, j \in 1..Len(relas) : relas[i].at = relas[j].at => i = j
      BY <2>1 DEF Match
    <2> QED BY <2>2, <2>4, <2>5 DEF RelocationsMatch, Right, Needs
  <1> QED BY <1>1, <1>2, <1>3, Invariant, PTL DEF Spec

====
