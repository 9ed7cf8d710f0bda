---- MODULE CompilerPasses_proofs ----
(****************************************************************************)
(* The two passes of compile_tree, for every tree.  A step of a pass is a   *)
(* function of the node it reads and of a part of the state, the core: the  *)
(* symbols without their offsets, the control stack, and sizes.  The second *)
(* pass begins with the core of the first and reads the same nodes, so it   *)
(* goes through the same cores, refuses nothing, and leaves the functions   *)
(* where they were: so its calls, those ahead of their function included,   *)
(* go to the function's prologue.                                           *)
(****************************************************************************)
EXTENDS CompilerCode_proofs

(* Two passes.  A pass over a tree is a function of the nodes it reads: so *)
(* the second, which reads the nodes of the first, does what it did.       *)

(* What the walk depends on: the symbols, but for their offsets, ...       *)
Bare(x)      == [x EXCEPT !.offset = 0]
BareTable(t) == [j \in 1..Len(t) |-> Bare(t[j])]
BareOf(s)    == [i \in 1..Len(s) |-> BareTable(s[i])]

(* ... what is still to be compiled, and sizes.                            *)
Core == [top |-> top, todo |-> todo, tables |-> BareOf(scopes), reg |-> reg, level |-> level,
         rip |-> Len(text), bss |-> bss, frame |-> frame]

(* find_symbol in the tables s.                                            *)
PlacesIn(s)   == UNION {{<<i, j>> : j \in 1..Len(s[i])} : i \in 1..Len(s)}
HitsIn(s, id) == {p \in PlacesIn(s) : s[p[1]][p[2]].id = id}
FirstOf(hits) == CHOOSE p \in hits : \A q \in hits :
                    p[1] < q[1] \/ (p[1] = q[1] /\ p[2] <= q[2])
FoundIn(s, id)  == HitsIn(s, id) # {}
SymbolIn(s, id) == s[FirstOf(HitsIn(s, id))[1]][FirstOf(HitsIn(s, id))[2]]
CallableIn(s, id) == FoundIn(s, id) /\ SymbolIn(s, id).type = "func"

(* The core after a step: the head makes room for `items', r registers and *)
(* l instructions are added, and the tables are s, in b and f bytes.       *)
GoTo(c, items, r, l, s, b, f) ==
    [top |-> c.top, todo |-> items \o Tail(c.todo), tables |-> s, reg |-> c.reg + r,
     level |-> c.level + r, rip |-> c.rip + l, bss |-> b, frame |-> f]
Go(c, items, r, l) == GoTo(c, items, r, l, c.tables, c.bss, c.frame)

(* The same, when a operands of the node read are absent.                  *)
Lack(c, a) == [c EXCEPT !.level = @ + a]
BinItems(h, d, n) == SubSeq(<< Expr(h, d), Expr(h + 1, d) >>, n.n + 1, 2) \o << Bin(h + 2, d, n.id) >>
NotItems(h, d, n) == SubSeq(<< Expr(h, d) >>, n.n + 1, 1) \o << It("not", h + 1, d) >>

(* What each handler makes of the core c when the node it reads is n.      *)
CallOf(c, n, after) ==
    LET info == SymbolIn(c.tables, n.id).info IN
    Go(c, << Args(c.level, Len(c.tables), n.id, info, n.n, compile_call_begin(info), Mask(c.reg)) >> \o after,
       0, Mask(c.reg) + Len(PadCode(info)))
ExprOf(c, n) ==
    LET h == c.level
        d == Len(c.tables)
    IN  CASE n.k = "num"  -> Go(c, <<>>, 1, 1)
          [] n.k = "var"  -> IF n.n = NoIndex THEN Go(c, <<>>, 1, 1)
                             ELSE Go(c, << Expr(h, d), Access("load", h + 1, d, SymbolIn(c.tables, n.id)) >>, 0, 0)
          [] n.k = "bin"  -> Lack(Go(c, BinItems(h, d, n), 0, 0), n.n)
          [] n.k = "not"  -> Lack(Go(c, NotItems(h, d, n), 0, 0), n.n)
          [] n.k = "call" -> CallOf(c, n, <<>>)
          [] OTHER        -> Go(c, <<>>, 1, Len(PadCode(0)) + 3)
StmtOf(c, n) ==
    LET h == c.level
        d == Len(c.tables)
    IN  CASE n.k = "assign" -> Go(c, << Expr(h, d), Assign(h + 1, d, n.id, n.n, c.rip) >>, 0, 0)
          [] n.k = "call"   -> CallOf(c, n, << It("drop", h + 1, d) >>)
          [] n.k \in {"while", "if"} ->
                GoTo(c, << Expr(h, d + 1),
                           Jump(IF n.k = "while" THEN "test while"
                                ELSE IF n.n = 1 THEN "test if else" ELSE "test if",
                                h + 1, d + 1, c.rip, 0) >>,
                     0, 0, Append(c.tables, <<>>), c.bss, c.frame)
          [] OTHER          -> Go(c, << Expr(h, d), It(n.k, h + 1, d) >>, 0, 0)
ArgsOf(c) ==
    LET a == Head(c.todo)
        h == c.level
        d == Len(c.tables)
    IN  IF a.left > 0
        THEN Go(c, << Expr(h, d), It("push", h + 1, d),
                      Args(h, d, a.id, a.left - 1, a.given - 1, a.pushed, a.saved) >>, 0, 0)
        ELSE Go(c, <<>>, 1, 3 + a.saved)
RetSize(s, vis)  == IF vis = "global" /\ Len(s) <= 2 THEN 1 ELSE 0
StoreSize(s, vis, n) == (IF n = NoIndex THEN 1 ELSE 2) + RetSize(s, vis)
AssignOf(c) ==
    LET it   == Head(c.todo)
        s    == SymbolIn(c.tables, it.id)
        info == Extent(it.n)
        d    == Len(c.tables)
        x    == IF d <= 2 THEN Sym("var", "global", it.id, Imm(c.bss), 0, info)
                          ELSE Sym("var", "local", it.id, Imm(-(c.frame + info)), 0, info)
    IN  IF FoundIn(c.tables, it.id)
        THEN IF it.n = Computed
             THEN Go(c, << Expr(c.level, d), Access("store", c.level + 1, d, s) >>, 0, 0)
             ELSE Go(c, <<>>, -1, StoreSize(c.tables, s.vis, it.n))
        ELSE GoTo(c, <<>>, -1, StoreSize(c.tables, x.vis, it.n),
                  [c.tables EXCEPT ![d] = Append(@, x)],
                  IF d <= 2 THEN c.bss + info ELSE c.bss,
                  IF d <= 2 THEN c.frame ELSE c.frame + info)
TestOf(c) ==
    LET it == Head(c.todo)
        d  == Len(c.tables)
        then == CASE it.k = "test while"   -> "endwhile"
                  [] it.k = "test if else" -> "else"
                  [] OTHER                 -> "endif"
    IN  Go(c, Body(c.level - 1, d) \o << Jump(then, c.level - 1, d, it.cond, c.rip + 1) >>, -1, 2)
ElseOf(c) ==
    LET d == Len(c.tables) IN
    Go(c, Body(c.level, d) \o << Jump("endif", c.level, d, Head(c.todo).cond, c.rip) >>, 0, 1)
Close(c, l, f) == GoTo(c, <<>>, 0, l, SubSeq(c.tables, 1, Len(c.tables) - 1), c.bss, f)
TopOf(t, c) ==
    LET f == t[c.top]
        d == Len(c.tables)
    IN  IF f.k = "define"
        THEN [top |-> c.top + 1,
              todo |-> Body(c.level, d + 1) \o << Jump("enddefine", c.level, d + 1, 0, c.rip + 2) >>,
              tables |-> Append(c.tables, Params(f, Len(f.params))), reg |-> c.reg, level |-> c.level,
              rip |-> c.rip + 3, bss |-> c.bss, frame |-> c.frame]
        ELSE [top |-> c.top + 1,
              todo |-> << Expr(c.level, d), Assign(c.level + 1, d, f.id, f.n, c.rip) >>,
              tables |-> c.tables, reg |-> c.reg, level |-> c.level, rip |-> c.rip, bss |-> c.bss, frame |-> c.frame]

Effect(t, c, n) ==
    IF c.todo = <<>> THEN TopOf(t, c)
    ELSE LET it == Head(c.todo) IN
         CASE it.k = "expr"   -> ExprOf(c, n)
           [] it.k = "stmt"   -> StmtOf(c, n)
           [] it.k = "more"   -> Go(c, IF n = Next1 THEN Body(c.level, Len(c.tables)) ELSE <<>>, 0, 0)
           [] it.k = "load"   -> Go(c, <<>>, 0, 1)
           [] it.k = "bin"    -> Go(c, <<>>, -1, IF it.op \in {"div", "cmp"} THEN 4 ELSE 1)
           [] it.k = "not"    -> Go(c, <<>>, 0, 1)
           [] it.k = "args"   -> ArgsOf(c)
           [] it.k = "push"   -> Go(c, <<>>, -1, 1)
           [] it.k = "assign" -> AssignOf(c)
           [] it.k = "store"  -> Go(c, <<>>, -2, 1 + RetSize(c.tables, it.vis))
           [] it.k = "drop"   -> Go(c, <<>>, -1, 0)
           [] it.k = "out"    -> Go(c, <<>>, -1, Len(PadCode(1)) + 4)
           [] it.k = "return" -> Go(c, <<>>, -1, 4)
           [] it.k \in Tests  -> TestOf(c)
           [] it.k = "else"   -> ElseOf(c)
           [] it.k = "endwhile" -> Close(c, 1, c.frame)
           [] it.k = "endif"    -> Close(c, 0, c.frame)
           [] OTHER             -> Close(c, 0, 0)

(* Whether the handler reads a node, and whether it goes on with it.       *)
Reads(c) == c.todo # <<>> /\ Head(c.todo).k \in {"expr", "stmt", "more"}
FailsIn(s, f) ==
    \/ ~FoundIn(s, f.id) \/ SymbolIn(s, f.id).info # Len(f.params)
    \/ \E j \in 1..Len(f.params) :
          FoundIn(s, f.params[j]) \/ \E i \in 1..(j - 1) : f.params[i] = f.params[j]
Accepts(t, c, n) ==
    IF c.todo = <<>>
    THEN c.top <= Len(t) /\ (t[c.top].k = "define" => ~FailsIn(c.tables, t[c.top]))
    ELSE LET it == Head(c.todo) IN
         /\ it.k = "expr" /\ n.k = "var" => FoundIn(c.tables, n.id)
         /\ it.k \in {"expr", "stmt"} /\ n.k = "call" => CallableIn(c.tables, n.id)
         /\ it.k = "bin" => it.op \in Compiled
         /\ it.k = "args" => it.left = 0 \/ it.given # 0
         /\ it.k = "assign" => IF FoundIn(c.tables, it.id) THEN Len(c.tables) > 2 ELSE it.n # Computed

(* The node n is the one that a step reads; Stop stands for none.          *)
Given(n) == phase = "pass2" => n = IF Reads(Core) THEN prog[pc] ELSE Stop
Took(n)  == IF Reads(Core)
            THEN \/ phase = "pass1" /\ prog' = Append(prog, n) /\ pc' = pc
                 \/ phase = "pass2" /\ pc <= Len(prog) /\ prog' = prog /\ pc' = pc + 1
            ELSE prog' = prog /\ pc' = pc /\ n = Stop
Regular == \E n : /\ Given(n) /\ Took(n) /\ Accepts(tree, Core, n)
                  /\ Core' = Effect(tree, Core, n)
Refused == \E n : Given(n) /\ (Reads(Core) \/ n = Stop) /\ ~Accepts(tree, Core, n)

(* The tables without their offsets.                                       *)
LEMMA TablesEqual ==
    ASSUME NEW s \in Seq(Seq(Symbol)), NEW u \in Seq(Seq(Symbol)), Len(u) = Len(s),
           \A i \in 1..Len(s) : /\ Len(u[i]) = Len(s[i])
                                /\ \A j \in 1..Len(s[i]) : u[i][j] = s[i][j]
    PROVE  u = s
  <1>1. ASSUME NEW i \in 1..Len(s)
        PROVE  u[i] = s[i]
    <2>1. s[i] \in Seq(Symbol) /\ u[i] \in Seq(Symbol) /\ Len(u[i]) = Len(s[i])
      OBVIOUS
    <2>2. \A j \in 1..Len(s[i]) : u[i][j] = s[i][j]
      OBVIOUS
    <2> QED BY <2>1, <2>2, SeqEqual
  <1> DEFINE S == Seq(Symbol)
  <1>2. s \in Seq(S) /\ u \in Seq(S)
    OBVIOUS
  <1> HIDE DEF S
  <1> QED BY <1>1, <1>2, SeqEqual

LEMMA BareSymbol ==
    ASSUME NEW x \in Symbol
    PROVE  /\ Bare(x) \in Symbol /\ Same(Bare(x), x) /\ Bare(x).offset = 0
  BY DEF Bare, Same, Symbol

LEMMA BareAlike ==
    ASSUME NEW x \in Symbol, NEW y \in Symbol, Same(x, y)
    PROVE  Bare(x) = Bare(y)
  BY DEF Bare, Same, Symbol

LEMMA BareTableIs ==
    ASSUME NEW t \in Seq(Symbol)
    PROVE  /\ BareTable(t) \in Seq(Symbol) /\ Len(BareTable(t)) = Len(t)
           /\ \A j \in 1..Len(t) : BareTable(t)[j] = Bare(t[j])
  <1>1. Len(t) \in Nat /\ \A j \in 1..Len(t) : Bare(t[j]) \in Symbol
    BY BareSymbol
  <1> QED BY <1>1 DEF BareTable

LEMMA BareIs ==
    ASSUME NEW s \in Seq(Seq(Symbol))
    PROVE  /\ BareOf(s) \in Seq(Seq(Symbol)) /\ Len(BareOf(s)) = Len(s)
           /\ \A i \in 1..Len(s) : /\ BareOf(s)[i] = BareTable(s[i])
                                   /\ Len(BareOf(s)[i]) = Len(s[i])
                                   /\ \A j \in 1..Len(s[i]) : BareOf(s)[i][j] = Bare(s[i][j])
  <1>1. Len(s) \in Nat /\ \A i \in 1..Len(s) : s[i] \in Seq(Symbol)
    OBVIOUS
  <1>2. \A i \in 1..Len(s) : BareTable(s[i]) \in Seq(Symbol)
    BY <1>1, BareTableIs
  <1> DEFINE S == Seq(Symbol)
  <1>3. BareOf(s) \in Seq(S) /\ Len(BareOf(s)) = Len(s) /\ \A i \in 1..Len(s) : BareOf(s)[i] = BareTable(s[i])
    <2> HIDE DEF S
    <2>1. \A i \in 1..Len(s) : BareTable(s[i]) \in S
      BY <1>2 DEF S
    <2> QED BY <1>1, <2>1 DEF BareOf
  <1>4. ASSUME NEW i \in 1..Len(s)
        PROVE  /\ Len(BareOf(s)[i]) = Len(s[i])
               /\ \A j \in 1..Len(s[i]) : BareOf(s)[i][j] = Bare(s[i][j])
    BY <1>1, <1>3, BareTableIs
  <1> QED BY <1>3, <1>4

(* Only offsets differ.                                                    *)
LEMMA BareKept ==
    ASSUME NEW s \in Seq(Seq(Symbol)), NEW u \in Seq(Seq(Symbol)), Len(u) = Len(s),
           \A i \in 1..Len(s) : /\ Len(u[i]) = Len(s[i])
                                /\ \A j \in 1..Len(s[i]) : Same(u[i][j], s[i][j])
    PROVE  BareOf(u) = BareOf(s)
  <1> DEFINE a == BareOf(s)
             b == BareOf(u)
  <1>1. /\ a \in Seq(Seq(Symbol)) /\ b \in Seq(Seq(Symbol)) /\ Len(a) = Len(s) /\ Len(b) = Len(s)
        /\ \A i \in 1..Len(s) : /\ Len(a[i]) = Len(s[i]) /\ Len(b[i]) = Len(u[i])
                                /\ \A j \in 1..Len(s[i]) : a[i][j] = Bare(s[i][j])
                                /\ \A j \in 1..Len(u[i]) : b[i][j] = Bare(u[i][j])
    BY BareIs
  <1>2. \A i \in 1..Len(s) : \A j \in 1..Len(s[i]) : Bare(u[i][j]) = Bare(s[i][j])
    <2> TAKE i \in 1..Len(s)
    <2> TAKE j \in 1..Len(s[i])
    <2>1. s[i] \in Seq(Symbol) /\ u[i] \in Seq(Symbol) /\ j \in 1..Len(u[i])
      OBVIOUS
    <2>2. s[i][j] \in Symbol /\ u[i][j] \in Symbol
      BY <2>1
    <2> QED BY <2>2, BareAlike
  <1> HIDE DEF a, b
  <1>3. b = a
    <2>1. Len(b) = Len(a) /\ \A i \in 1..Len(a) : /\ Len(b[i]) = Len(a[i])
                                                  /\ \A j \in 1..Len(a[i]) : b[i][j] = a[i][j]
      BY <1>1, <1>2
    <2> QED BY <1>1, <2>1, TablesEqual
  <1> QED BY <1>3 DEF a, b

LEMMA SeqOfSeq ==
    ASSUME NEW s \in Seq(Seq(Symbol)), NEW t \in Seq(Symbol)
    PROVE  /\ Append(s, t) \in Seq(Seq(Symbol)) /\ Len(Append(s, t)) = Len(s) + 1
           /\ \A i \in 1..Len(s) : Append(s, t)[i] = s[i]
           /\ Append(s, t)[Len(s) + 1] = t
  <1> DEFINE S == Seq(Symbol)
  <1>1. s \in Seq(S) /\ t \in S
    OBVIOUS
  <1> HIDE DEF S
  <1>2. /\ Append(s, t) \in Seq(S) /\ Len(Append(s, t)) = Len(s) + 1
        /\ \A i \in 1..Len(s) : Append(s, t)[i] = s[i]
        /\ Append(s, t)[Len(s) + 1] = t
    BY <1>1, AddEntry
  <1> QED BY <1>2 DEF S

(* A scope is opened.                                                      *)
LEMMA BareOpened ==
    ASSUME NEW s \in Seq(Seq(Symbol)), NEW t \in Seq(Symbol)
    PROVE  BareOf(Append(s, t)) = Append(BareOf(s), BareTable(t))
  <1> DEFINE w == Append(s, t)
             a == BareOf(w)
             b == BareOf(s)
             c == Append(b, BareTable(t))
  <1>1. /\ w \in Seq(Seq(Symbol)) /\ Len(w) = Len(s) + 1 /\ Len(s) \in Nat
        /\ \A i \in 1..Len(s) : w[i] = s[i]
        /\ w[Len(s) + 1] = t
    BY SeqOfSeq
  <1> HIDE DEF w
  <1>2. /\ a \in Seq(Seq(Symbol)) /\ Len(a) = Len(w)
        /\ \A i \in 1..Len(w) : a[i] = BareTable(w[i])
        /\ b \in Seq(Seq(Symbol)) /\ Len(b) = Len(s)
        /\ \A i \in 1..Len(s) : b[i] = BareTable(s[i])
    BY <1>1, BareIs
  <1>3. BareTable(t) \in Seq(Symbol)
    BY BareTableIs
  <1>4. /\ c \in Seq(Seq(Symbol)) /\ Len(c) = Len(b) + 1
        /\ \A i \in 1..Len(b) : c[i] = b[i]
        /\ c[Len(b) + 1] = BareTable(t)
    BY <1>2, <1>3, SeqOfSeq
  <1> HIDE DEF a, b, c
  <1>5. Len(a) = Len(c) /\ \A i \in 1..Len(a) : a[i] = c[i]
    <2> SUFFICES ASSUME NEW i \in 1..Len(a) PROVE a[i] = c[i]
      BY <1>1, <1>2, <1>4
    <2>1. i \in 1..Len(s) \/ i = Len(s) + 1
      BY <1>1, <1>2
    <2> QED BY <1>1, <1>2, <1>4, <2>1
  <1>6. a = c
    BY <1>2, <1>4, <1>5, TablesEqual
  <1> QED BY <1>6 DEF a, b, c, w

(* A scope is closed.                                                      *)
LEMMA Shorter ==
    ASSUME NEW s \in Seq(Seq(Symbol)), Len(s) >= 1
    PROVE  LET u == SubSeq(s, 1, Len(s) - 1) IN
           /\ u \in Seq(Seq(Symbol)) /\ Len(u) = Len(s) - 1
           /\ \A i \in 1..(Len(s) - 1) : u[i] = s[i]
  <1> DEFINE S == Seq(Symbol)
             u == SubSeq(s, 1, Len(s) - 1)
  <1>1. s \in Seq(S) /\ Len(s) \in Nat
    OBVIOUS
  <1> HIDE DEF S
  <1> DEFINE m == Len(s) - 1
  <1>2. m \in Int /\ 1 \in Int /\ \A i \in 1..m : s[i] \in S
    BY <1>1
  <1>3. m \in Nat /\ m = Len(s) - 1 /\ u = SubSeq(s, 1, m)
    BY <1>1
  <1> HIDE DEF m, u
  <1>4. /\ SubSeq(s, 1, m) \in Seq(S) /\ Len(SubSeq(s, 1, m)) = IF 1 <= m THEN m - 1 + 1 ELSE 0
        /\ \A i \in 1..(m - 1 + 1) : SubSeq(s, 1, m)[i] = s[1 + i - 1]
    BY <1>2, SubSeqProperties
  <1>5. Len(u) = m /\ u \in Seq(S)
    BY <1>3, <1>4
  <1>6. \A i \in 1..m : u[i] = s[i]
    <2> TAKE i \in 1..m
    <2>1. i \in 1..(m - 1 + 1) /\ 1 + i - 1 = i
      BY <1>3
    <2> QED BY <1>3, <1>4, <2>1
  <1> QED BY <1>3, <1>5, <1>6 DEF S, u

LEMMA BareClosed ==
    ASSUME NEW s \in Seq(Seq(Symbol)), Len(s) >= 1
    PROVE  BareOf(SubSeq(s, 1, Len(s) - 1)) = SubSeq(BareOf(s), 1, Len(BareOf(s)) - 1)
  <1> DEFINE w == SubSeq(s, 1, Len(s) - 1)
             a == BareOf(w)
             b == BareOf(s)
             c == SubSeq(b, 1, Len(b) - 1)
  <1>1. /\ w \in Seq(Seq(Symbol)) /\ Len(w) = Len(s) - 1 /\ Len(s) \in Nat
        /\ \A i \in 1..(Len(s) - 1) : w[i] = s[i]
    BY Shorter
  <1> HIDE DEF w
  <1>2. /\ a \in Seq(Seq(Symbol)) /\ Len(a) = Len(w)
        /\ \A i \in 1..Len(w) : a[i] = BareTable(w[i])
        /\ b \in Seq(Seq(Symbol)) /\ Len(b) = Len(s)
        /\ \A i \in 1..Len(s) : b[i] = BareTable(s[i])
    BY <1>1, BareIs
  <1> HIDE DEF b
  <1>4. /\ c \in Seq(Seq(Symbol)) /\ Len(c) = Len(b) - 1
        /\ \A i \in 1..(Len(b) - 1) : c[i] = b[i]
    BY <1>2, Shorter
  <1> HIDE DEF a, c
  <1>5. Len(a) = Len(c) /\ \A i \in 1..Len(a) : a[i] = c[i]
    BY <1>1, <1>2, <1>4
  <1>6. a = c
    BY <1>2, <1>4, <1>5, TablesEqual
  <1> QED BY <1>6 DEF a, b, c, w

(* A symbol is declared in the innermost scope.                            *)
LEMMA BareDeclared ==
    ASSUME NEW s \in Seq(Seq(Symbol)), NEW n \in 1..Len(s), NEW x \in Symbol
    PROVE  BareOf([s EXCEPT ![n] = Append(@, x)]) = [BareOf(s) EXCEPT ![n] = Append(@, Bare(x))]
  <1> DEFINE t == Append(s[n], x)
             w == [s EXCEPT ![n] = t]
             b == BareOf(s)
             d == Append(b[n], Bare(x))
             a == BareOf(w)
             c == [b EXCEPT ![n] = d]
  <1>1. s[n] \in Seq(Symbol) /\ Len(s[n]) \in Nat
    OBVIOUS
  <1>2. /\ t \in Seq(Symbol) /\ Len(t) = Len(s[n]) + 1
        /\ \A j \in 1..Len(s[n]) : t[j] = s[n][j]
        /\ t[Len(s[n]) + 1] = x
    BY <1>1, AddEntry
  <1>3. Bare(x) \in Symbol
    BY BareSymbol
  <1>4. /\ b \in Seq(Seq(Symbol)) /\ Len(b) = Len(s)
        /\ \A i \in 1..Len(s) : /\ b[i] = BareTable(s[i]) /\ Len(b[i]) = Len(s[i])
                                /\ \A j \in 1..Len(s[i]) : b[i][j] = Bare(s[i][j])
    BY BareIs
  <1> HIDE DEF b
  <1>5. b[n] \in Seq(Symbol)
    BY <1>4
  <1>6. /\ d \in Seq(Symbol) /\ Len(d) = Len(b[n]) + 1
        /\ \A j \in 1..Len(b[n]) : d[j] = b[n][j]
        /\ d[Len(b[n]) + 1] = Bare(x)
    BY <1>3, <1>5, AddEntry
  <1> HIDE DEF t, d
  <1>7. /\ w \in Seq(Seq(Symbol)) /\ Len(w) = Len(s) /\ w[n] = t
        /\ \A i \in 1..Len(s) : i # n => w[i] = s[i]
    BY <1>2, SetTable
  <1>8. /\ c \in Seq(Seq(Symbol)) /\ Len(c) = Len(b) /\ c[n] = d
        /\ \A i \in 1..Len(b) : i # n => c[i] = b[i]
    BY <1>4, <1>6, SetTable
  <1> HIDE DEF w, c
  <1>9. /\ a \in Seq(Seq(Symbol)) /\ Len(a) = Len(w)
        /\ \A i \in 1..Len(w) : /\ a[i] = BareTable(w[i]) /\ Len(a[i]) = Len(w[i])
                                /\ \A j \in 1..Len(w[i]) : a[i][j] = Bare(w[i][j])
    BY <1>7, BareIs
  <1> HIDE DEF a
  <1>10. a[n] = d
    <2>1. a[n] \in Seq(Symbol) /\ Len(a[n]) = Len(d)
      BY <1>2, <1>4, <1>6, <1>7, <1>9
    <2>2. ASSUME NEW j \in 1..Len(d) PROVE a[n][j] = d[j]
      <3>1. j \in 1..Len(s[n]) \/ j = Len(s[n]) + 1
        BY <1>1, <1>4, <1>6
      <3>2. n \in 1..Len(w) /\ j \in 1..Len(w[n]) /\ w[n] = t
        BY <1>1, <1>2, <1>4, <1>6, <1>7
      <3>3. a[n][j] = Bare(t[j])
        BY <1>9, <3>2
      <3> QED BY <1>2, <1>4, <1>6, <3>1, <3>3
    <2> QED BY <1>6, <2>1, <2>2, SeqEqual
  <1>11. \A i \in 1..Len(s) : a[i] = c[i]
    BY <1>4, <1>7, <1>8, <1>9, <1>10
  <1>12. a = c
    <2>1. Len(c) = Len(a) /\ \A i \in 1..Len(a) : c[i] = a[i]
      BY <1>4, <1>7, <1>8, <1>9, <1>11
    <2>2. \A i \in 1..Len(a) : Len(c[i]) = Len(a[i]) /\ \A j \in 1..Len(a[i]) : c[i][j] = a[i][j]
      BY <2>1
    <2> QED BY <1>8, <1>9, <2>1, <2>2, TablesEqual
  <1> QED BY <1>12 DEF a, b, c, d, t, w
(* find_symbol finds in the bare tables what it finds in the tables.       *)
LEMMA SymbolsBare ==
    ASSUME scopes \in Seq(Seq(Symbol)), NEW id
    PROVE  /\ FoundIn(BareOf(scopes), id) <=> Found(id)
           /\ Found(id) => /\ find_symbol(id) \in Symbol
                           /\ SymbolIn(BareOf(scopes), id) = Bare(find_symbol(id))
  <1> DEFINE b == BareOf(scopes)
  <1>1. /\ Len(b) = Len(scopes)
        /\ \A i \in 1..Len(scopes) : /\ Len(b[i]) = Len(scopes[i])
                                     /\ \A j \in 1..Len(scopes[i]) : b[i][j] = Bare(scopes[i][j])
    BY BareIs
  <1> HIDE DEF b
  <1>2. \A i \in 1..Len(scopes) : \A j \in 1..Len(scopes[i]) : b[i][j].id = scopes[i][j].id
    <2> TAKE i \in 1..Len(scopes)
    <2> TAKE j \in 1..Len(scopes[i])
    <2>1. scopes[i][j] \in Symbol
      <3>1. scopes[i] \in Seq(Symbol)
        OBVIOUS
      <3> QED BY <3>1
    <2>2. Bare(scopes[i][j]).id = scopes[i][j].id
      BY <2>1, BareSymbol DEF Same
    <2> QED BY <1>1, <2>2
  <1>3. PlacesIn(b) = Places
    BY <1>1 DEF PlacesIn, Places
  <1>4. HitsIn(b, id) = Hits(id)
    <2>1. ASSUME NEW p \in Places
          PROVE  b[p[1]][p[2]].id = scopes[p[1]][p[2]].id
      <3>0. PICK i \in 1..Len(scopes) : p \in {<<i, j>> : j \in 1..Len(scopes[i])}
        BY DEF Places
      <3>1. PICK j \in 1..Len(scopes[i]) : p = <<i, j>>
        BY <3>0
      <3>2. p[1] = i /\ p[2] = j
        BY <3>1
      <3> QED BY <1>2, <3>2
    <2> QED BY <1>3, <2>1 DEF HitsIn, Hits
  <1>5. FirstOf(HitsIn(b, id)) = Place(id)
    BY <1>4 DEF FirstOf, Place
  <1>6. FoundIn(b, id) <=> Found(id)
    BY <1>4 DEF FoundIn, Found
  <1>7. ASSUME Found(id)
        PROVE  find_symbol(id) \in Symbol /\ SymbolIn(b, id) = Bare(find_symbol(id))
    <2>1. Place(id)[1] \in 1..Len(scopes) /\ Place(id)[2] \in 1..Len(scopes[Place(id)[1]])
      BY <1>7, PlaceFound
    <2>2. SymbolIn(b, id) = b[Place(id)[1]][Place(id)[2]]
      BY <1>5 DEF SymbolIn
    <2>3. find_symbol(id) \in Symbol
      BY <1>7, SymbolFound
    <2> QED BY <1>1, <2>1, <2>2, <2>3 DEF find_symbol
  <1> QED BY <1>6, <1>7 DEF b

(* What a handler reads of a symbol.                                       *)
LEMMA SymbolsSame ==
    ASSUME CompilerInv, NEW id
    PROVE  /\ FoundIn(Core.tables, id) <=> Found(id)
           /\ CallableIn(Core.tables, id) <=> IsFunction(id)
           /\ Found(id) => /\ SymbolIn(Core.tables, id).info = find_symbol(id).info
                           /\ SymbolIn(Core.tables, id).vis = find_symbol(id).vis
                           /\ SymbolIn(Core.tables, id).addend = find_symbol(id).addend
  <1>1. scopes \in Seq(Seq(Symbol)) /\ Core.tables = BareOf(scopes)
    BY DEF CompilerInv, TypeOK, Core
  <1>2. /\ FoundIn(Core.tables, id) <=> Found(id)
        /\ Found(id) => /\ find_symbol(id) \in Symbol
                        /\ SymbolIn(Core.tables, id) = Bare(find_symbol(id))
    BY <1>1, SymbolsBare
  <1>3. Found(id) => Same(SymbolIn(Core.tables, id), find_symbol(id))
    BY <1>2, BareSymbol
  <1> QED BY <1>2, <1>3 DEF Same, CallableIn, IsFunction

LEMMA CoreIs ==
    ASSUME CompilerInv
    PROVE  /\ Core.top = top /\ Core.todo = todo /\ Core.tables = BareOf(scopes) /\ Core.reg = reg /\ Core.level = level
           /\ Core.rip = Len(text) /\ Core.bss = bss /\ Core.frame = frame
           /\ Len(Core.tables) = Len(scopes) /\ Len(Core.tables) = depth
           /\ rip = Len(text) /\ Len(text) \in Nat /\ Len(scopes) \in Nat
  <1>1. scopes \in Seq(Seq(Symbol)) /\ text \in Seq(InstrType)
    BY DEF CompilerInv, TypeOK
  <1>2. Len(BareOf(scopes)) = Len(scopes) /\ Len(text) \in Nat /\ Len(scopes) \in Nat
    BY <1>1, BareIs
  <1> QED BY <1>2 DEF Core, depth, rip

LEMMA EffectIs ==
    ASSUME NEW t, NEW c, NEW n, NEW k, c.todo # <<>>, Head(c.todo).k = k
    PROVE  /\ k = "expr"   => Effect(t, c, n) = ExprOf(c, n)
           /\ k = "stmt"   => Effect(t, c, n) = StmtOf(c, n)
           /\ k = "more"   => Effect(t, c, n) = Go(c, IF n = Next1 THEN Body(c.level, Len(c.tables)) ELSE <<>>, 0, 0)
           /\ k = "load"   => Effect(t, c, n) = Go(c, <<>>, 0, 1)
           /\ k = "bin"    => Effect(t, c, n) = Go(c, <<>>, -1, IF Head(c.todo).op \in {"div", "cmp"} THEN 4 ELSE 1)
           /\ k = "not"    => Effect(t, c, n) = Go(c, <<>>, 0, 1)
           /\ k = "args"   => Effect(t, c, n) = ArgsOf(c)
           /\ k = "push"   => Effect(t, c, n) = Go(c, <<>>, -1, 1)
           /\ k = "assign" => Effect(t, c, n) = AssignOf(c)
           /\ k = "store"  => Effect(t, c, n) = Go(c, <<>>, -2, 1 + RetSize(c.tables, Head(c.todo).vis))
           /\ k = "drop"   => Effect(t, c, n) = Go(c, <<>>, -1, 0)
           /\ k = "out"    => Effect(t, c, n) = Go(c, <<>>, -1, Len(PadCode(1)) + 4)
           /\ k = "return" => Effect(t, c, n) = Go(c, <<>>, -1, 4)
           /\ k \in Tests  => Effect(t, c, n) = TestOf(c)
           /\ k = "else"   => Effect(t, c, n) = ElseOf(c)
           /\ k = "endwhile"  => Effect(t, c, n) = Close(c, 1, c.frame)
           /\ k = "endif"     => Effect(t, c, n) = Close(c, 0, c.frame)
           /\ k = "enddefine" => Effect(t, c, n) = Close(c, 0, 0)
  <1> DEFINE it == Head(c.todo)
             E == CASE it.k = "expr"   -> ExprOf(c, n)
           [] it.k = "stmt"   -> StmtOf(c, n)
           [] it.k = "more"   -> Go(c, IF n = Next1 THEN Body(c.level, Len(c.tables)) ELSE <<>>, 0, 0)
           [] it.k = "load"   -> Go(c, <<>>, 0, 1)
           [] it.k = "bin"    -> Go(c, <<>>, -1, IF it.op \in {"div", "cmp"} THEN 4 ELSE 1)
           [] it.k = "not"    -> Go(c, <<>>, 0, 1)
           [] it.k = "args"   -> ArgsOf(c)
           [] it.k = "push"   -> Go(c, <<>>, -1, 1)
           [] it.k = "assign" -> AssignOf(c)
           [] it.k = "store"  -> Go(c, <<>>, -2, 1 + RetSize(c.tables, it.vis))
           [] it.k = "drop"   -> Go(c, <<>>, -1, 0)
           [] it.k = "out"    -> Go(c, <<>>, -1, Len(PadCode(1)) + 4)
           [] it.k = "return" -> Go(c, <<>>, -1, 4)
           [] it.k \in Tests  -> TestOf(c)
           [] it.k = "else"   -> ElseOf(c)
           [] it.k = "endwhile" -> Close(c, 1, c.frame)
           [] it.k = "endif"    -> Close(c, 0, c.frame)
           [] OTHER             -> Close(c, 0, 0)
  <1>1. Effect(t, c, n) = E
    BY DEF Effect
  <1>2. it.k = k
    OBVIOUS
  <1> HIDE DEF it
  <1> QED BY <1>1, <1>2 DEF Tests, it
LEMMA ExprOfIs ==
    ASSUME NEW c, NEW n
    PROVE  /\ n.k = "num" => ExprOf(c, n) = Go(c, <<>>, 1, 1)
           /\ n.k = "var" /\ n.n = NoIndex => ExprOf(c, n) = Go(c, <<>>, 1, 1)
           /\ n.k = "var" /\ n.n # NoIndex =>
                 ExprOf(c, n) = Go(c, << Expr(c.level, Len(c.tables)),
                                         Access("load", c.level + 1, Len(c.tables), SymbolIn(c.tables, n.id)) >>, 0, 0)
           /\ n.k = "bin" => ExprOf(c, n) = Lack(Go(c, BinItems(c.level, Len(c.tables), n), 0, 0), n.n)
           /\ n.k = "not" => ExprOf(c, n) = Lack(Go(c, NotItems(c.level, Len(c.tables), n), 0, 0), n.n)
           /\ n.k = "call" => ExprOf(c, n) = CallOf(c, n, <<>>)
           /\ n.k = "in" => ExprOf(c, n) = Go(c, <<>>, 1, Len(PadCode(0)) + 3)
  BY DEF ExprOf

LEMMA AcceptsIs ==
    ASSUME NEW t, NEW c, NEW n, NEW k, c.todo # <<>>, Head(c.todo).k = k
    PROVE  /\ k = "expr" => (Accepts(t, c, n) <=> /\ n.k = "var" => FoundIn(c.tables, n.id)
                                                  /\ n.k = "call" => CallableIn(c.tables, n.id))
           /\ k = "stmt" => (Accepts(t, c, n) <=> (n.k = "call" => CallableIn(c.tables, n.id)))
           /\ k = "bin" => (Accepts(t, c, n) <=> Head(c.todo).op \in Compiled)
           /\ k = "args" => (Accepts(t, c, n) <=> Head(c.todo).left = 0 \/ Head(c.todo).given # 0)
           /\ k = "assign" => (Accepts(t, c, n) <=>
                  IF FoundIn(c.tables, Head(c.todo).id) THEN Len(c.tables) > 2 ELSE Head(c.todo).n # Computed)
           /\ k \notin {"expr", "stmt", "bin", "args", "assign"} => Accepts(t, c, n)
  BY DEF Accepts

LEMMA LevelMoves ==
    ASSUME CompilerInv, NEW r \in Int, reg' = reg + r
    PROVE  /\ absent' = absent => level' = level + r
           /\ UNCHANGED source => level' = level + r
           /\ \A n, C : Read(n, C) /\ n.k \notin {"bin", "not"} => level' = level + r
  <1>1. reg \in Int /\ absent \in Nat
    BY DEF CompilerInv, TypeOK
  <1>2. absent' = absent => level' = level + r
    BY <1>1 DEF level
  <1>3. UNCHANGED source => absent' = absent
    BY DEF source
  <1>4. ASSUME NEW n, NEW C, Read(n, C), n.k \notin {"bin", "not"}
        PROVE  absent' = absent
    <2>1. absent' = absent + Absent(n)
      BY <1>4 DEF Read
    <2>2. Absent(n) = 0
      BY <1>4 DEF Absent
    <2> QED BY <1>1, <2>1, <2>2
  <1> QED BY <1>2, <1>3, <1>4

LEMMA GoneOn ==
    ASSUME CompilerInv, NEW items, NEW r \in Int, NEW l, Do(items), reg' = reg + r, UNCHANGED source,
           Len(text') = Len(text) + l, UNCHANGED <<top, scopes, bss, frame>>
    PROVE  Core' = Go(Core, items, r, l)
  <1>1. level' = level + r
    BY LevelMoves
  <1> QED BY <1>1 DEF Core, Go, GoTo, Do

LEMMA GoneRead ==
    ASSUME CompilerInv, NEW n, NEW C, Read(n, C), n.k \notin {"bin", "not"},
           NEW items, NEW r \in Int, NEW l, Do(items), reg' = reg + r,
           Len(text') = Len(text) + l, UNCHANGED <<top, scopes, bss, frame>>
    PROVE  Core' = Go(Core, items, r, l)
  <1>1. level' = level + r
    BY LevelMoves
  <1> QED BY <1>1 DEF Core, Go, GoTo, Do

(* An operator: its operands may be absent.                                *)
LEMMA GoneLacking ==
    ASSUME CompilerInv, NEW n \in Exprs, NEW C, Read(n, C), n.k \in {"bin", "not"},
           NEW items, Do(items), reg' = reg, text' = text, UNCHANGED <<top, scopes, bss, frame>>
    PROVE  Core' = Lack(Go(Core, items, 0, 0), n.n)
  <1>1. reg \in Int /\ absent \in Nat /\ Len(text) \in Nat /\ n.n \in Int
    BY NodesAssumption, CoreIs DEF CompilerInv, TypeOK, Node
  <1>2. absent' = absent + n.n
    BY DEF Read, Absent
  <1>3. level' = level + 0 + n.n /\ reg' = reg + 0 /\ Len(text') = Len(text) + 0
    BY <1>1, <1>2 DEF level
  <1> DEFINE c == [top |-> top, todo |-> items \o Tail(todo), tables |-> BareOf(scopes), reg |-> reg + 0,
                   level |-> level + 0, rip |-> Len(text) + 0, bss |-> bss, frame |-> frame]
  <1>4. Go(Core, items, 0, 0) = c
    BY DEF Core, Go, GoTo
  <1>5. Core' = [top |-> top, todo |-> items \o Tail(todo), tables |-> BareOf(scopes), reg |-> reg + 0,
                 level |-> level + 0 + n.n, rip |-> Len(text) + 0, bss |-> bss, frame |-> frame]
    BY <1>3 DEF Core, Do
  <1>6. Core' = [c EXCEPT !.level = @ + n.n]
    <2>1. PICK x, y, l : x = reg + 0 /\ y = Len(text) + 0 /\ l = level + 0
      OBVIOUS
    <2>2. PICK z, u, v : z = items \o Tail(todo) /\ u = BareOf(scopes) /\ v = n.n
      OBVIOUS
    <2>3. /\ Core' = [top |-> top, todo |-> z, tables |-> u, reg |-> x,
                      level |-> l + v, rip |-> y, bss |-> bss, frame |-> frame]
          /\ c = [top |-> top, todo |-> z, tables |-> u, reg |-> x,
                  level |-> l, rip |-> y, bss |-> bss, frame |-> frame]
      BY <1>5, <2>1, <2>2
    <2> HIDE DEF c
    <2>4. [c EXCEPT !.level = @ + v] = [top |-> top, todo |-> z, tables |-> u, reg |-> x,
                      level |-> l + v, rip |-> y, bss |-> bss, frame |-> frame]
      BY ONLY <2>3
    <2> QED BY <2>2, <2>3, <2>4
  <1> HIDE DEF c
  <1> QED BY <1>4, <1>6 DEF Lack

LEMMA KeepsCore ==
    ASSUME Keep
    PROVE  UNCHANGED <<tree, phase, outcome, top, scopes, bss, frame>>
  BY DEF Keep, control, storage

(* A step that reads a node, and one that does not.                        *)
LEMMA OnNode ==
    ASSUME CompilerInv, NEW k, At(k), k \in {"expr", "stmt", "more"}, NEW n, NEW C, Read(n, C),
           Core' = Effect(tree, Core, n), Accepts(tree, Core, n)
    PROVE  Regular
  <1>1. Reads(Core)
    BY DEF Reads, Core, At
  <1>2. Given(n) /\ Took(n)
    BY <1>1 DEF Given, Took, Read
  <1> QED BY <1>2 DEF Regular

LEMMA OnItem ==
    ASSUME CompilerInv, NEW k, At(k), k \notin {"expr", "stmt", "more"}, UNCHANGED source,
           Core' = Effect(tree, Core, Stop), Accepts(tree, Core, Stop)
    PROVE  Regular
  <1>1. ~Reads(Core)
    BY DEF Reads, Core, At
  <1>2. Given(Stop) /\ Took(Stop)
    BY <1>1 DEF Given, Took, source
  <1> QED BY <1>2 DEF Regular

LEMMA LongerBy ==
    ASSUME CompilerInv, NEW S, NEW list \in Seq(S), Emit(list)
    PROVE  Len(text') = Len(text) + Len(list)
  <1>1. text \in Seq(InstrType) /\ text' = text \o list
    BY DEF CompilerInv, TypeOK, Emit
  <1> QED BY <1>1

LEMMA LongerByFew ==
    ASSUME CompilerInv, NEW w, NEW x, NEW y, NEW z
    PROVE  /\ Emit(<<w>>) => Len(text') = Len(text) + 1
           /\ Emit(<<w, x>>) => Len(text') = Len(text) + 2
           /\ Emit(<<w, x, y>>) => Len(text') = Len(text) + 3
           /\ Emit(<<w, x, y, z>>) => Len(text') = Len(text) + 4
  <1> DEFINE S == {w, x, y, z}
  <1>1. /\ <<w>> \in Seq(S) /\ Len(<<w>>) = 1 /\ <<w, x>> \in Seq(S) /\ Len(<<w, x>>) = 2
        /\ <<w, x, y>> \in Seq(S) /\ Len(<<w, x, y>>) = 3
        /\ <<w, x, y, z>> \in Seq(S) /\ Len(<<w, x, y, z>>) = 4
    OBVIOUS
  <1> HIDE DEF S
  <1>2. \A list \in Seq(S) : Emit(list) => Len(text') = Len(text) + Len(list)
    BY LongerBy
  <1> QED BY <1>1, <1>2

LEMMA CoreAt ==
    ASSUME CompilerInv, NEW k, At(k)
    PROVE  /\ Core.todo # <<>> /\ Head(Core.todo).k = k /\ Core.todo = todo /\ Core.reg = reg /\ Core.level = level
           /\ Core.tables = BareOf(scopes) /\ Core.rip = Len(text) /\ Core.bss = bss /\ Core.frame = frame
           /\ Len(Core.tables) = depth /\ reg \in Int /\ depth = Len(scopes) /\ depth \in Nat
           /\ rip = Len(text) /\ Len(text) \in Nat
  BY CoreIs, HeadFacts DEF depth

LEMMA OneLonger ==
    ASSUME CompilerInv, NEW w, Emit(<<w>>)
    PROVE  Len(text') = Len(text) + 1
  BY LongerByFew

LEMMA EffectAt ==
    ASSUME CompilerInv, NEW k, At(k), NEW n
    PROVE  /\ k = "expr"   => Effect(tree, Core, n) = ExprOf(Core, n)
           /\ k = "stmt"   => Effect(tree, Core, n) = StmtOf(Core, n)
           /\ k = "more"   => Effect(tree, Core, n) = Go(Core, IF n = Next1 THEN Body(level, depth) ELSE <<>>, 0, 0)
           /\ k = "bin"    => Effect(tree, Core, n) = Go(Core, <<>>, -1, IF Head(todo).op \in {"div", "cmp"} THEN 4 ELSE 1)
           /\ k \in {"load", "not"} => Effect(tree, Core, n) = Go(Core, <<>>, 0, 1)
           /\ k = "args"   => Effect(tree, Core, n) = ArgsOf(Core)
           /\ k = "push"   => Effect(tree, Core, n) = Go(Core, <<>>, -1, 1)
           /\ k = "assign" => Effect(tree, Core, n) = AssignOf(Core)
           /\ k = "store"  => Effect(tree, Core, n) = Go(Core, <<>>, -2, 1 + RetSize(Core.tables, Head(todo).vis))
           /\ k = "drop"   => Effect(tree, Core, n) = Go(Core, <<>>, -1, 0)
           /\ k = "out"    => Effect(tree, Core, n) = Go(Core, <<>>, -1, Len(PadCode(1)) + 4)
           /\ k = "return" => Effect(tree, Core, n) = Go(Core, <<>>, -1, 4)
           /\ k \in Tests  => Effect(tree, Core, n) = TestOf(Core)
           /\ k = "else"   => Effect(tree, Core, n) = ElseOf(Core)
           /\ k = "endwhile"  => Effect(tree, Core, n) = Close(Core, 1, Core.frame)
           /\ k = "endif"     => Effect(tree, Core, n) = Close(Core, 0, Core.frame)
           /\ k = "enddefine" => Effect(tree, Core, n) = Close(Core, 0, 0)
  <1> DEFINE c == Core
             t == tree
  <1>1. /\ c.todo # <<>> /\ Head(c.todo).k = k /\ c.todo = todo /\ c.reg = reg /\ c.level = level /\ Len(c.tables) = depth
    BY CoreAt
  <1> HIDE DEF c, t
  <1>2. /\ k = "expr"   => Effect(t, c, n) = ExprOf(c, n)
        /\ k = "stmt"   => Effect(t, c, n) = StmtOf(c, n)
        /\ k = "more"   => Effect(t, c, n) = Go(c, IF n = Next1 THEN Body(c.level, Len(c.tables)) ELSE <<>>, 0, 0)
        /\ k = "load"   => Effect(t, c, n) = Go(c, <<>>, 0, 1)
        /\ k = "bin"    => Effect(t, c, n) = Go(c, <<>>, -1, IF Head(c.todo).op \in {"div", "cmp"} THEN 4 ELSE 1)
        /\ k = "not"    => Effect(t, c, n) = Go(c, <<>>, 0, 1)
        /\ k = "args"   => Effect(t, c, n) = ArgsOf(c)
        /\ k = "push"   => Effect(t, c, n) = Go(c, <<>>, -1, 1)
        /\ k = "assign" => Effect(t, c, n) = AssignOf(c)
        /\ k = "store"  => Effect(t, c, n) = Go(c, <<>>, -2, 1 + RetSize(c.tables, Head(c.todo).vis))
        /\ k = "drop"   => Effect(t, c, n) = Go(c, <<>>, -1, 0)
        /\ k = "out"    => Effect(t, c, n) = Go(c, <<>>, -1, Len(PadCode(1)) + 4)
        /\ k = "return" => Effect(t, c, n) = Go(c, <<>>, -1, 4)
        /\ k \in Tests  => Effect(t, c, n) = TestOf(c)
        /\ k = "else"   => Effect(t, c, n) = ElseOf(c)
        /\ k = "endwhile"  => Effect(t, c, n) = Close(c, 1, c.frame)
        /\ k = "endif"     => Effect(t, c, n) = Close(c, 0, c.frame)
        /\ k = "enddefine" => Effect(t, c, n) = Close(c, 0, 0)
    BY ONLY <1>1, EffectIs
  <1> QED BY ONLY <1>1, <1>2 DEF c, t

LEMMA AcceptsAt ==
    ASSUME CompilerInv, NEW k, At(k), NEW n
    PROVE  /\ k = "expr" => (Accepts(tree, Core, n) <=> /\ n.k = "var" => Found(n.id)
                                                        /\ n.k = "call" => IsFunction(n.id))
           /\ k = "stmt" => (Accepts(tree, Core, n) <=> (n.k = "call" => IsFunction(n.id)))
           /\ k = "bin" => (Accepts(tree, Core, n) <=> Head(todo).op \in Compiled)
           /\ k = "args" => (Accepts(tree, Core, n) <=> Head(todo).left = 0 \/ Head(todo).given # 0)
           /\ k = "assign" => (Accepts(tree, Core, n) <=>
                  IF Found(Head(todo).id) THEN depth > 2 ELSE Head(todo).n # Computed)
           /\ k \notin {"expr", "stmt", "bin", "args", "assign"} => Accepts(tree, Core, n)
  <1> DEFINE c == Core
             t == tree
  <1>1. /\ c.todo # <<>> /\ Head(c.todo).k = k /\ c.todo = todo /\ Len(c.tables) = depth
    BY CoreAt
  <1>2. /\ FoundIn(c.tables, n.id) <=> Found(n.id)
        /\ CallableIn(c.tables, n.id) <=> IsFunction(n.id)
        /\ FoundIn(c.tables, Head(todo).id) <=> Found(Head(todo).id)
    BY SymbolsSame
  <1> HIDE DEF c, t
  <1>3. /\ k = "expr" => (Accepts(t, c, n) <=> /\ n.k = "var" => FoundIn(c.tables, n.id)
                                               /\ n.k = "call" => CallableIn(c.tables, n.id))
        /\ k = "stmt" => (Accepts(t, c, n) <=> (n.k = "call" => CallableIn(c.tables, n.id)))
        /\ k = "bin" => (Accepts(t, c, n) <=> Head(c.todo).op \in Compiled)
        /\ k = "args" => (Accepts(t, c, n) <=> Head(c.todo).left = 0 \/ Head(c.todo).given # 0)
        /\ k = "assign" => (Accepts(t, c, n) <=>
               IF FoundIn(c.tables, Head(c.todo).id) THEN Len(c.tables) > 2 ELSE Head(c.todo).n # Computed)
        /\ k \notin {"expr", "stmt", "bin", "args", "assign"} => Accepts(t, c, n)
    BY ONLY <1>1, AcceptsIs
  <1> QED BY ONLY <1>1, <1>2, <1>3 DEF c, t

(* What the node of an expression, and that of a statement, lead to.       *)
LEMMA ExprAt ==
    ASSUME CompilerInv, At("expr"), NEW n
    PROVE  /\ n.k = "num" => Effect(tree, Core, n) = Go(Core, <<>>, 1, 1)
           /\ n.k = "var" /\ n.n = NoIndex => Effect(tree, Core, n) = Go(Core, <<>>, 1, 1)
           /\ n.k = "var" /\ n.n # NoIndex =>
                 Effect(tree, Core, n) = Go(Core, << Expr(level, depth),
                                                    Access("load", level + 1, depth, SymbolIn(Core.tables, n.id)) >>, 0, 0)
           /\ n.k = "bin" => Effect(tree, Core, n) = Lack(Go(Core, BinItems(level, depth, n), 0, 0), n.n)
           /\ n.k = "not" => Effect(tree, Core, n) = Lack(Go(Core, NotItems(level, depth, n), 0, 0), n.n)
           /\ n.k = "call" => Effect(tree, Core, n) = CallOf(Core, n, <<>>)
           /\ n.k = "in" => Effect(tree, Core, n) = Go(Core, <<>>, 1, Len(PadCode(0)) + 3)
           /\ n.k \notin {"var", "call"} => Accepts(tree, Core, n)
  <1> DEFINE c == Core
  <1>1. c.reg = reg /\ c.level = level /\ Len(c.tables) = depth
    BY CoreAt
  <1>2. Effect(tree, c, n) = ExprOf(c, n)
    BY EffectAt
  <1>3. n.k \notin {"var", "call"} => Accepts(tree, c, n)
    BY AcceptsAt
  <1> HIDE DEF c
  <1>4. /\ n.k = "num" => ExprOf(c, n) = Go(c, <<>>, 1, 1)
        /\ n.k = "var" /\ n.n = NoIndex => ExprOf(c, n) = Go(c, <<>>, 1, 1)
        /\ n.k = "var" /\ n.n # NoIndex =>
              ExprOf(c, n) = Go(c, << Expr(c.level, Len(c.tables)),
                                      Access("load", c.level + 1, Len(c.tables), SymbolIn(c.tables, n.id)) >>, 0, 0)
        /\ n.k = "bin" => ExprOf(c, n) = Lack(Go(c, BinItems(c.level, Len(c.tables), n), 0, 0), n.n)
        /\ n.k = "not" => ExprOf(c, n) = Lack(Go(c, NotItems(c.level, Len(c.tables), n), 0, 0), n.n)
        /\ n.k = "call" => ExprOf(c, n) = CallOf(c, n, <<>>)
        /\ n.k = "in" => ExprOf(c, n) = Go(c, <<>>, 1, Len(PadCode(0)) + 3)
    BY ONLY ExprOfIs
  <1> QED BY ONLY <1>1, <1>2, <1>3, <1>4 DEF c

LEMMA OperandsRegular ==
    ASSUME CompilerInv, compile_load_num \/ LoadVariable \/ LoadElement
    PROVE  Regular
  <1>1. CASE compile_load_num
    <2>1. PICK n \in Exprs : /\ n.k = "num" /\ At("expr") /\ Read(n, Bounded(Exprs)) /\ reg' = reg + 1
                             /\ Emit(<< I("mov imm", Mask(reg + 1), 0, n.n) >>) /\ Do(<<>>) /\ Keep
      BY <1>1 DEF compile_load_num, ReadExpr
    <2>2. Len(text') = Len(text) + 1
      BY <2>1, OneLonger
    <2>6. Read(n, Bounded(Exprs)) /\ n.k = "num" /\ Do(<<>>) /\ reg' = reg + 1 /\ Keep
      BY <2>1
    <2>7. n.k \notin {"bin", "not"}
      BY ONLY <2>6
    <2>3. Core' = Go(Core, <<>>, 1, 1)
      BY ONLY CompilerInv, <2>2, <2>6, <2>7, KeepsCore, GoneRead
    <2>4. Core.todo # <<>> /\ Head(Core.todo).k = "expr"
      BY <2>1, CoreAt
    <2>5. Effect(tree, Core, n) = Go(Core, <<>>, 1, 1) /\ Accepts(tree, Core, n)
      BY <2>1, ExprAt
    <2> QED BY <2>1, <2>3, <2>5, OnNode
  <1>2. CASE LoadVariable
    <2>1. PICK n \in Exprs :
          /\ n.k = "var" /\ At("expr") /\ Read(n, Bounded(Exprs)) /\ Found(n.id)
          /\ LET s == find_symbol(n.id) IN
             IF n.n = NoIndex
             THEN /\ reg' = reg + 1
                  /\ Emit(<< I(Load[s.vis], Mask(reg + 1), 0, s.addend) >>)
                  /\ Do(<<>>)
             ELSE /\ Do(<< Expr(level, depth), Access("load", level + 1, depth, s) >>)
                  /\ UNCHANGED <<reg, code, sp>>
          /\ Keep
      BY <1>2 DEF LoadVariable, ReadExpr
    <2> DEFINE s == find_symbol(n.id)
               z == SymbolIn(Core.tables, n.id)
    <2>2. /\ Core.todo # <<>> /\ Head(Core.todo).k = "expr" /\ Core.reg = reg /\ Core.level = level /\ Len(Core.tables) = depth
          /\ reg \in Int /\ Len(text) \in Nat
      BY <2>1, CoreAt
    <2>3. Accepts(tree, Core, n) /\ z.vis = s.vis /\ z.addend = s.addend
      BY <2>1, <2>2, AcceptsAt, SymbolsSame
    <2>4. CASE n.n = NoIndex
      <3>1. reg' = reg + 1 /\ Do(<<>>) /\ Len(text') = Len(text) + 1
        BY <2>1, <2>4, OneLonger
      <3>2. Core' = Go(Core, <<>>, 1, 1)
        BY <2>1, <3>1, KeepsCore, GoneRead
      <3>3. Effect(tree, Core, n) = Go(Core, <<>>, 1, 1)
        BY <2>1, <2>4, ExprAt
      <3> QED BY <2>1, <2>3, <3>2, <3>3, OnNode
    <2>5. CASE n.n # NoIndex
      <3> DEFINE items == << Expr(level, depth), Access("load", level + 1, depth, z) >>
      <3>1. Do(items)
        <4>1. Access("load", level + 1, depth, z) = Access("load", level + 1, depth, s)
          BY <2>3 DEF Access
        <4> QED BY <2>1, <2>5, <4>1
      <3>2. reg' = reg + 0 /\ Len(text') = Len(text) + 0
        BY <2>1, <2>2, <2>5 DEF code
      <3>3. Effect(tree, Core, n) = Go(Core, items, 0, 0)
        BY <2>1, <2>5, ExprAt
      <3> HIDE DEF items
      <3>4. Core' = Go(Core, items, 0, 0)
        BY <2>1, <3>1, <3>2, KeepsCore, GoneRead
      <3> QED BY <2>1, <2>3, <3>3, <3>4, OnNode
    <2> QED BY <2>4, <2>5
  <1>3. CASE LoadElement
    <2> DEFINE it == Head(todo)
    <2>1. /\ At("load") /\ Do(<<>>) /\ Keep /\ UNCHANGED source /\ reg' = reg
          /\ Emit(<< I(Loadx[it.vis], Mask(reg), Mask(reg), it.addend) >>)
      BY <1>3 DEF LoadElement
    <2>2. Core.todo # <<>> /\ Head(Core.todo).k = "load" /\ reg \in Int
      BY <2>1, CoreAt
    <2>3. Len(text') = Len(text) + 1 /\ reg' = reg + 0
      BY <2>1, <2>2, OneLonger
    <2>4. Core' = Go(Core, <<>>, 0, 1)
      BY <2>1, <2>3, KeepsCore, GoneOn
    <2>5. Effect(tree, Core, Stop) = Go(Core, <<>>, 0, 1) /\ Accepts(tree, Core, Stop)
      BY <2>1, EffectAt, AcceptsAt
    <2> QED BY <2>1, <2>4, <2>5, OnItem
  <1> QED BY <1>1, <1>2, <1>3

LEMMA OperatorsRegular ==
    ASSUME CompilerInv, BinaryExpr \/ compile_expr_bin \/ NotExpr \/ compile_expr_not
    PROVE  Regular
  <1>1. CASE BinaryExpr
    <2>1. PICK n \in Exprs :
            /\ n.k = "bin" /\ At("expr") /\ Read(n, Bounded(Exprs)) /\ Keep /\ UNCHANGED <<reg, code, sp>>
            /\ Do(BinItems(level, depth, n))
      BY <1>1 DEF BinaryExpr, ReadExpr, BinItems
    <2> DEFINE items == BinItems(level, depth, n)
    <2>2. Effect(tree, Core, n) = Lack(Go(Core, items, 0, 0), n.n) /\ Accepts(tree, Core, n)
      BY <2>1, ExprAt
    <2>3. Do(items) /\ reg' = reg /\ text' = text /\ n.k \in {"bin", "not"}
      BY <2>1 DEF code
    <2> HIDE DEF items
    <2>4. Core' = Lack(Go(Core, items, 0, 0), n.n)
      BY <2>1, <2>3, KeepsCore, GoneLacking
    <2> QED BY <2>1, <2>2, <2>4, OnNode
  <1>2. CASE compile_expr_bin
    <2> DEFINE op == Head(todo).op
               l  == IF op \in {"div", "cmp"} THEN 4 ELSE 1
    <2>1. /\ At("bin") /\ op \in Compiled /\ Emit(BinCode(op)) /\ reg' = reg - 1
          /\ Do(<<>>) /\ Keep /\ UNCHANGED source
      BY <1>2 DEF compile_expr_bin
    <2>2. Core.todo # <<>> /\ Head(Core.todo).k = "bin" /\ Head(Core.todo).op = op /\ reg \in Int
      BY <2>1, CoreAt
    <2>3. Len(text') = Len(text) + l
      <3> DEFINE a == Mask(reg)
                 b == Mask(reg - 1)
      <3>1. CASE op = "div"
        <4>1. BinCode(op) = << I("mov rax, r", 0, b, 0), Op("cqo"), I("idiv", 0, a, 0), I("mov r, rax", b, 0, 0) >>
          BY <3>1 DEF BinCode
        <4> QED BY <2>1, <3>1, <4>1, LongerByFew
      <3>2. CASE op = "cmp"
        <4>1. BinCode(op) = << I("cmp", b, a, 0), Op("mov rax, 1"), I("mov imm", b, 0, 0), I("cmov", b, 0, 0) >>
          BY <3>2 DEF BinCode
        <4> QED BY <2>1, <3>2, <4>1, LongerByFew
      <3>3. CASE op \notin {"div", "cmp"}
        <4>1. BinCode(op) = << I(op, b, a, 0) >>
          BY <3>3 DEF BinCode
        <4> QED BY <2>1, <3>3, <4>1, OneLonger
      <3> QED BY <3>1, <3>2, <3>3
    <2> HIDE DEF l
    <2>4. Core' = Go(Core, <<>>, -1, l)
      <3>1. reg' = reg + (-1)
        BY <2>1, <2>2
      <3> QED BY <2>1, <2>3, <3>1, KeepsCore, GoneOn
    <2>5. Effect(tree, Core, Stop) = Go(Core, <<>>, -1, l) /\ Accepts(tree, Core, Stop)
      BY <2>1, <2>2, EffectAt, AcceptsAt DEF l
    <2> QED BY <2>1, <2>4, <2>5, OnItem
  <1>3. CASE NotExpr
    <2>1. PICK n \in Exprs :
            /\ n.k = "not" /\ At("expr") /\ Read(n, Bounded(Exprs)) /\ Keep /\ UNCHANGED <<reg, code, sp>>
            /\ Do(NotItems(level, depth, n))
      BY <1>3 DEF NotExpr, ReadExpr, NotItems
    <2> DEFINE items == NotItems(level, depth, n)
    <2>2. Effect(tree, Core, n) = Lack(Go(Core, items, 0, 0), n.n) /\ Accepts(tree, Core, n)
      BY <2>1, ExprAt
    <2>3. Do(items) /\ reg' = reg /\ text' = text /\ n.k \in {"bin", "not"}
      BY <2>1 DEF code
    <2> HIDE DEF items
    <2>4. Core' = Lack(Go(Core, items, 0, 0), n.n)
      BY <2>1, <2>3, KeepsCore, GoneLacking
    <2> QED BY <2>1, <2>2, <2>4, OnNode
  <1>4. CASE compile_expr_not
    <2>1. /\ At("not") /\ Emit(<< I("xor 1", Mask(reg), 0, 1) >>) /\ Do(<<>>) /\ Keep
          /\ UNCHANGED source /\ reg' = reg
      BY <1>4 DEF compile_expr_not
    <2>2. reg \in Int /\ reg' = reg /\ UNCHANGED source /\ Do(<<>>) /\ Keep
      BY <2>1, CoreAt
    <2>0. Len(text') = Len(text) + 1
      BY <2>1, OneLonger
    <2>3. Len(text') = Len(text) + 1 /\ reg' = reg + 0
      BY <2>0, <2>2
    <2>4. Core' = Go(Core, <<>>, 0, 1)
      BY <2>2, <2>3, KeepsCore, GoneOn
    <2>5. PICK k \in {"not"} : At(k)
      BY <2>1, Zenon
    <2>6. k \in {"load", "not"} /\ k \notin {"expr", "stmt", "bin", "args", "assign", "more"}
      OBVIOUS
    <2> HIDE <2>1
    <2>7. Effect(tree, Core, Stop) = Go(Core, <<>>, 0, 1)
      BY <2>5, <2>6, EffectAt, Zenon
    <2>8. Accepts(tree, Core, Stop)
      BY <2>5, <2>6, AcceptsAt
    <2> QED BY <2>2, <2>4, <2>5, <2>6, <2>7, <2>8, OnItem
  <1> QED BY <1>1, <1>2, <1>3, <1>4
(* The sizes of what is emitted around a call.                             *)
LEMMA SaveSizes ==
    ASSUME NEW n \in Register
    PROVE  Len(SaveCode(n)) = n /\ Len(RestoreCode(n)) = n /\ n \in Nat
  <1>1. n \in Nat
    BY DEF Register
  <1> QED BY <1>1 DEF SaveCode, RestoreCode

LEMMA CallBeginCore ==
    ASSUME CompilerInv, NEW k, At(k), NEW n, NEW C, Read(n, C), n.k \notin {"bin", "not"},
           IsFunction(n.id), NEW after, CallBegin(n, after)
    PROVE  Core' = CallOf(Core, n, after)
  <1> DEFINE info  == find_symbol(n.id).info
             saved == Mask(reg)
             call  == Args(level, depth, n.id, info, n.n, compile_call_begin(info), saved)
             l     == saved + Len(PadCode(info))
  <1>1. /\ Emit(SaveCode(saved) \o PadCode(info)) /\ Do(<<call>> \o after) /\ Keep /\ reg' = reg
    BY DEF CallBegin
  <1>2. reg \in Int /\ Core.reg = reg /\ Core.level = level /\ Len(Core.tables) = depth
    BY CoreAt
  <1>3. info \in Nat /\ saved \in Register
    <2>1. find_symbol(n.id) \in Symbol
      BY SymbolFound DEF IsFunction, CompilerInv, TypeOK
    <2> QED BY <1>2, <2>1, MaskType DEF Symbol
  <1>4. SymbolIn(Core.tables, n.id).info = info
    BY SymbolsSame DEF IsFunction
  <1>5. CallOf(Core, n, after) = Go(Core, <<call>> \o after, 0, l)
    BY <1>2, <1>4 DEF CallOf
  <1> HIDE DEF info, call
  <1>6. Len(text') = Len(text) + l
    <2>1. SaveCode(saved) \in Seq(InstrType) /\ PadCode(info) \in Seq(InstrType)
      BY <1>3, SaveIs, PadIs
    <2>2. Len(SaveCode(saved)) = saved
      BY <1>3, SaveSizes
    <2> HIDE DEF saved
    <2>3. /\ SaveCode(saved) \o PadCode(info) \in Seq(InstrType)
          /\ Len(SaveCode(saved) \o PadCode(info)) = saved + Len(PadCode(info))
      BY <2>1, <2>2
    <2> QED BY <1>1, <2>3, LongerBy
  <1> HIDE DEF l, saved
  <1>7. reg' = reg + 0
    BY <1>1, <1>2
  <1>8. Core' = Go(Core, <<call>> \o after, 0, l)
    BY <1>1, <1>6, <1>7, KeepsCore, GoneRead
  <1> QED BY <1>5, <1>8

LEMMA StdcallSize ==
    ASSUME CompilerInv, NEW sym, NEW args \in {0, 1}, compile_stdcall(sym, args)
    PROVE  Len(text') = Len(text) + (Len(PadCode(args)) + args + 3)
  <1> DEFINE pushes == [i \in 1..args |-> I("push", Mask(reg - i + 1), 0, 0)]
             pad    == PadCode(args)
             before == pad \o pushes
             call   == I(Library[sym], 0, 0, 0)
             end    == compile_call_end(reg - args, compile_call_begin(args))
             a      == before \o <<call>> \o end
             S      == {pushes[i] : i \in 1..args} \union {call} \union {end[1], end[2]} \union InstrType
  <1>1. Emit(a)
    BY DEF compile_stdcall
  <1>2. end \in Seq(S) /\ Len(end) = 2
    <2> DEFINE x == I("mov r, rax", Mask(reg - args + 1), 0, 0)
               y == I("add rsp", 0, 0, WORD * compile_call_begin(args))
    <2>1. end = <<x, y>>
      BY DEF compile_call_end
    <2> HIDE DEF x, y, pushes, call, end
    <2>2. end[1] = x /\ end[2] = y
      BY <2>1
    <2>3. x \in S /\ y \in S
      BY <2>2
    <2> HIDE DEF S
    <2> QED BY <2>1, <2>3
  <1>3. pushes \in Seq(S) /\ Len(pushes) = args
    <2>1. args \in Nat /\ \A i \in 1..args : pushes[i] \in S
      OBVIOUS
    <2> HIDE DEF S
    <2> QED BY <2>1
  <1>4. pad \in Seq(S) /\ args \in Nat
    <2>1. pad \in Seq(InstrType) /\ InstrType \subseteq S
      BY PadIs
    <2> HIDE DEF S, pad
    <2> QED BY <2>1
  <1>5. call \in S
    OBVIOUS
  <1> HIDE DEF S, pushes, pad, call, end
  <1>6. before \in Seq(S) /\ Len(before) = Len(pad) + args /\ Len(pad) \in Nat
    BY <1>3, <1>4
  <1>7. <<call>> \in Seq(S) /\ Len(<<call>>) = 1
    BY <1>5
  <1> HIDE DEF before
  <1>8. before \o <<call>> \in Seq(S) /\ Len(before \o <<call>>) = Len(pad) + args + 1
    BY <1>6, <1>7, ConcatProperties
  <1>9. a \in Seq(S) /\ Len(a) = Len(pad) + args + 1 + 2
    <2>1. end \in Seq(S) /\ before \o <<call>> \in Seq(S)
      BY <1>2, <1>8
    <2>2. a \in Seq(S) /\ Len(a) = Len(before \o <<call>>) + Len(end)
      BY ONLY <2>1, ConcatProperties
    <2> QED BY <1>2, <1>8, <2>2
  <1> HIDE DEF a
  <1>10. Len(text') = Len(text) + Len(a)
    BY <1>1, <1>9, LongerBy
  <1> QED BY <1>4, <1>6, <1>9, <1>10 DEF pad

LEMMA ArgsTypes ==
    ASSUME NEW a \in ItemType, a.k = "args"
    PROVE  a.left \in Nat /\ a.given \in Int /\ a.pushed \in Nat /\ a.saved \in Register
  <1>1. a \in [k : {"args"}, h : Nat, d : Scopes, id : STRING, left : Nat, given : Int,
               pushed : Nat, saved : Register]
    BY DEF ItemType
  <1> QED BY <1>1

LEMMA CallEndSize ==
    ASSUME CompilerInv, CallEnd
    PROVE  Len(text') = Len(text) + (3 + Head(todo).saved)
  <1> DEFINE a    == Head(todo)
             call == I("call", 0, 0, Displace(find_symbol(a.id).offset, rip))
             end  == compile_call_end(reg, a.pushed)
             back == RestoreCode(a.saved)
             c    == <<call>> \o end \o back
  <1>1. At("args") /\ Emit(c)
    BY DEF CallEnd
  <1>2. a \in ItemType /\ a.k = "args" /\ reg \in Int
    BY <1>1, HeadFacts
  <1>3. a.pushed \in Nat /\ a.saved \in Register
    <2> HIDE DEF a
    <2> QED BY <1>2, ArgsTypes
  <1>4. end \in Seq(InstrType) /\ Len(end) = 2
    <2> HIDE DEF a
    <2>1. end \in Seq(InstrType)
      BY <1>2, <1>3, CallEndIs
    <2> QED BY <2>1 DEF compile_call_end
  <1>5. back \in Seq(InstrType) /\ Len(back) = a.saved /\ a.saved \in Nat
    <2> HIDE DEF a
    <2> QED BY <1>3, SaveIs, SaveSizes
  <1> DEFINE S == InstrType \union {call}
  <1>6. end \in Seq(S) /\ back \in Seq(S) /\ <<call>> \in Seq(S) /\ Len(<<call>>) = 1
    BY <1>4, <1>5
  <1> HIDE DEF S, call, end, back
  <1>7. <<call>> \o end \in Seq(S) /\ Len(<<call>> \o end) = 3
    <2>1. end \in Seq(S) /\ <<call>> \in Seq(S)
      BY <1>6
    <2>2. <<call>> \o end \in Seq(S) /\ Len(<<call>> \o end) = Len(<<call>>) + Len(end)
      BY ONLY <2>1, ConcatProperties
    <2> QED BY <1>4, <1>6, <2>2
  <1>8. c \in Seq(S) /\ Len(c) = 3 + a.saved
    BY <1>5, <1>6, <1>7, ConcatProperties
  <1> HIDE DEF c
  <1> QED BY <1>1, <1>8, LongerBy DEF a

LEMMA CallsRegular ==
    ASSUME CompilerInv, CallExpr \/ CallArgument \/ PushArgument \/ CallEnd \/ InExpr
    PROVE  Regular
  <1>1. CASE CallExpr
    <2>1. PICK n \in Exprs : /\ n.k = "call" /\ At("expr") /\ Read(n, Bounded(Exprs)) /\ IsFunction(n.id)
                             /\ CallBegin(n, <<>>)
      BY <1>1 DEF CallExpr, ReadExpr
    <2>2. Core' = CallOf(Core, n, <<>>)
      BY <2>1, CallBeginCore
    <2>3. Effect(tree, Core, n) = CallOf(Core, n, <<>>)
      BY <2>1, ExprAt
    <2>4. Accepts(tree, Core, n)
      BY <2>1, AcceptsAt
    <2> QED BY <2>1, <2>2, <2>3, <2>4, OnNode
  <1>2. CASE CallArgument
    <2> DEFINE a     == Head(todo)
               items == << Expr(level, depth), It("push", level + 1, depth),
                           Args(level, depth, a.id, a.left - 1, a.given - 1, a.pushed, a.saved) >>
    <2>1. /\ At("args") /\ a.left > 0 /\ a.given > 0 /\ Do(items) /\ Keep /\ UNCHANGED <<source, reg, code, sp>>
      BY <1>2 DEF CallArgument
    <2>2. /\ Core.reg = reg /\ Core.level = level /\ Len(Core.tables) = depth /\ reg \in Int /\ Len(text) \in Nat /\ Core.todo = todo
      BY <2>1, CoreAt
    <2>3. Effect(tree, Core, Stop) = ArgsOf(Core)
      BY <2>1, EffectAt
    <2>4. ArgsOf(Core) = Go(Core, items, 0, 0)
      BY <2>1, <2>2 DEF ArgsOf
    <2>5. Accepts(tree, Core, Stop)
      <3>1. a.given # 0
        BY <2>1
      <3> QED BY <2>1, <3>1, AcceptsAt
    <2> HIDE DEF items
    <2>6. reg' = reg + 0 /\ Len(text') = Len(text) + 0 /\ UNCHANGED source
      BY <2>1, <2>2 DEF code
    <2>7. Core' = Go(Core, items, 0, 0)
      BY <2>1, <2>6, KeepsCore, GoneOn
    <2> QED BY <2>1, <2>3, <2>4, <2>5, <2>6, <2>7, OnItem
  <1>3. CASE PushArgument
    <2>1. /\ At("push") /\ Emit(<< I("push", Mask(reg), 0, 0) >>) /\ reg' = reg - 1 /\ Do(<<>>) /\ Keep
          /\ UNCHANGED source
      BY <1>3 DEF PushArgument
    <2>2. reg \in Int
      BY <2>1, CoreAt
    <2>3. reg' = reg + (-1)
      BY <2>1, <2>2
    <2>4. Len(text') = Len(text) + 1
      BY <2>1, OneLonger
    <2>5. Core' = Go(Core, <<>>, -1, 1)
      BY <2>1, <2>3, <2>4, KeepsCore, GoneOn
    <2>6. Effect(tree, Core, Stop) = Go(Core, <<>>, -1, 1) /\ Accepts(tree, Core, Stop)
      BY <2>1, EffectAt, AcceptsAt
    <2> QED BY <2>1, <2>5, <2>6, OnItem
  <1>4. CASE CallEnd
    <2>1. /\ At("args") /\ Head(todo).left = 0 /\ reg' = reg + 1 /\ Do(<<>>)
          /\ UNCHANGED <<top, scopes, bss, frame>> /\ UNCHANGED source
      BY <1>4 DEF CallEnd, control, storage
    <2>2. Core.todo = todo
      BY <2>1, CoreAt
    <2>3. Len(text') = Len(text) + (3 + Head(todo).saved)
      BY <1>4, CallEndSize
    <2>4. Core' = Go(Core, <<>>, 1, 3 + Head(todo).saved)
      BY <2>1, <2>3, GoneOn
    <2>5. Effect(tree, Core, Stop) = ArgsOf(Core)
      BY <2>1, EffectAt
    <2>6. ArgsOf(Core) = Go(Core, <<>>, 1, 3 + Head(todo).saved)
      BY <2>1, <2>2 DEF ArgsOf
    <2>7. Accepts(tree, Core, Stop)
      BY <2>1, AcceptsAt
    <2> QED BY <2>1, <2>4, <2>5, <2>6, <2>7, OnItem
  <1>5. CASE InExpr
    <2>1. PICK n \in Exprs : /\ n.k = "in" /\ At("expr") /\ Read(n, Bounded(Exprs)) /\ compile_stdcall("scan", 0)
                             /\ reg' = reg + 1 /\ Do(<<>>) /\ UNCHANGED <<top, scopes, bss, frame>>
      BY <1>5 DEF InExpr, ReadExpr, control, storage
    <2>2. Len(PadCode(0)) \in Nat
      BY PadIs
    <2>3. Len(text') = Len(text) + (Len(PadCode(0)) + 0 + 3)
      BY <2>1, StdcallSize
    <2>4. Len(text') = Len(text) + (Len(PadCode(0)) + 3)
      BY <2>2, <2>3
    <2>5. Core' = Go(Core, <<>>, 1, Len(PadCode(0)) + 3)
      BY <2>1, <2>4, GoneRead
    <2>6. Effect(tree, Core, n) = Go(Core, <<>>, 1, Len(PadCode(0)) + 3) /\ Accepts(tree, Core, n)
      BY <2>1, ExprAt
    <2> QED BY <2>1, <2>5, <2>6, OnNode
  <1> QED BY <1>1, <1>2, <1>3, <1>4, <1>5

LEMMA ExprsRegular ==
    ASSUME CompilerInv, ExprHandlers
    PROVE  Regular
  BY OperandsRegular, OperatorsRegular, CallsRegular DEF ExprHandlers

(* Statements.                                                             *)
LEMMA GoneTo ==
    ASSUME NEW items, NEW r, NEW l, Do(items), reg' = reg + r, level' = level + r,
           Len(text') = Len(text) + l, top' = top
    PROVE  Core' = GoTo(Core, items, r, l, BareOf(scopes'), bss', frame')
  BY DEF Core, GoTo, Do

LEMMA StmtOfIs ==
    ASSUME NEW c, NEW n
    PROVE  /\ n.k = "assign" => StmtOf(c, n) = Go(c, << Expr(c.level, Len(c.tables)),
                  Assign(c.level + 1, Len(c.tables), n.id, n.n, c.rip) >>, 0, 0)
           /\ n.k = "call" => StmtOf(c, n) = CallOf(c, n, << It("drop", c.level + 1, Len(c.tables)) >>)
           /\ n.k \in {"while", "if"} => StmtOf(c, n) =
                GoTo(c, << Expr(c.level, Len(c.tables) + 1),
                           Jump(IF n.k = "while" THEN "test while"
                                ELSE IF n.n = 1 THEN "test if else" ELSE "test if",
                                c.level + 1, Len(c.tables) + 1, c.rip, 0) >>,
                     0, 0, Append(c.tables, <<>>), c.bss, c.frame)
           /\ n.k \in {"out", "return"} => StmtOf(c, n) =
                Go(c, << Expr(c.level, Len(c.tables)), It(n.k, c.level + 1, Len(c.tables)) >>, 0, 0)
  BY DEF StmtOf

LEMMA StmtAt ==
    ASSUME CompilerInv, At("stmt"), NEW n
    PROVE  /\ n.k = "assign" => Effect(tree, Core, n) = Go(Core, << Expr(level, depth),
                  Assign(level + 1, depth, n.id, n.n, rip) >>, 0, 0)
           /\ n.k = "call" => Effect(tree, Core, n) = CallOf(Core, n, << It("drop", level + 1, depth) >>)
           /\ n.k \in {"while", "if"} => Effect(tree, Core, n) =
                GoTo(Core, << Expr(level, depth + 1),
                           Jump(IF n.k = "while" THEN "test while"
                                ELSE IF n.n = 1 THEN "test if else" ELSE "test if",
                                level + 1, depth + 1, rip, 0) >>,
                     0, 0, Append(Core.tables, <<>>), Core.bss, Core.frame)
           /\ n.k \in {"out", "return"} => Effect(tree, Core, n) =
                Go(Core, << Expr(level, depth), It(n.k, level + 1, depth) >>, 0, 0)
           /\ n.k # "call" => Accepts(tree, Core, n)
  <1> DEFINE c == Core
  <1>1. c.reg = reg /\ c.level = level /\ Len(c.tables) = depth /\ c.rip = rip
    BY CoreAt
  <1>2. Effect(tree, c, n) = StmtOf(c, n)
    BY EffectAt
  <1>3. n.k # "call" => Accepts(tree, c, n)
    BY AcceptsAt
  <1> HIDE DEF c
  <1>4. /\ n.k = "assign" => StmtOf(c, n) = Go(c, << Expr(c.level, Len(c.tables)),
                  Assign(c.level + 1, Len(c.tables), n.id, n.n, c.rip) >>, 0, 0)
        /\ n.k = "call" => StmtOf(c, n) = CallOf(c, n, << It("drop", c.level + 1, Len(c.tables)) >>)
        /\ n.k \in {"while", "if"} => StmtOf(c, n) =
                GoTo(c, << Expr(c.level, Len(c.tables) + 1),
                           Jump(IF n.k = "while" THEN "test while"
                                ELSE IF n.n = 1 THEN "test if else" ELSE "test if",
                                c.level + 1, Len(c.tables) + 1, c.rip, 0) >>,
                     0, 0, Append(c.tables, <<>>), c.bss, c.frame)
        /\ n.k \in {"out", "return"} => StmtOf(c, n) =
                Go(c, << Expr(c.level, Len(c.tables)), It(n.k, c.level + 1, Len(c.tables)) >>, 0, 0)
    BY ONLY StmtOfIs
  <1> QED BY ONLY <1>1, <1>2, <1>3, <1>4 DEF c

(* Statements that emit nothing.                                           *)
LEMMA BegunRegular ==
    ASSUME CompilerInv, compile_stmt \/ AssignStmt \/ OutOrReturn \/ CallStmt \/ Conditional
    PROVE  Regular
  <1>1. CASE compile_stmt
    <2>1. PICK n \in {Next1, Stop} :
            /\ At("more") /\ Read(n, IF More THEN {Next1, Stop} ELSE {Stop})
            /\ Do(IF n = Next1 THEN Body(level, depth) ELSE <<>>)
            /\ Keep /\ UNCHANGED <<reg, code, sp>>
      BY <1>1 DEF compile_stmt
    <2> DEFINE items == IF n = Next1 THEN Body(level, depth) ELSE <<>>
    <2>2. reg \in Int /\ Len(text) \in Nat
      BY <2>1, CoreAt
    <2>3. reg' = reg + 0 /\ Len(text') = Len(text) + 0
      BY <2>1, <2>2 DEF code
    <2>4. Effect(tree, Core, n) = Go(Core, items, 0, 0) /\ Accepts(tree, Core, n)
      BY <2>1, EffectAt, AcceptsAt
    <2>5. Do(items)
      BY <2>1
    <2> HIDE DEF items
    <2>8. n.k \notin {"bin", "not"}
      <3>1. Next1.k = "next" /\ Stop.k = "stop"
        BY Zenon DEF Next1, Stop, N
      <3> QED BY <3>1
    <2>6. Core' = Go(Core, items, 0, 0)
      BY <2>1, <2>3, <2>5, <2>8, KeepsCore, GoneRead
    <2> DEFINE C == IF More THEN {Next1, Stop} ELSE {Stop}
    <2>7. Read(n, C)
      BY <2>1
    <2> HIDE DEF C
    <2> QED BY <2>1, <2>4, <2>6, <2>7, OnNode
  <1>2. CASE AssignStmt
    <2>1. PICK n \in Stmts :
            /\ n.k = "assign" /\ At("stmt") /\ Read(n, Bounded(Stmts)) /\ Keep /\ UNCHANGED <<reg, code, sp>>
            /\ Do(<< Expr(level, depth), Assign(level + 1, depth, n.id, n.n, rip) >>)
      BY <1>2 DEF AssignStmt, ReadStmt
    <2> DEFINE items == << Expr(level, depth), Assign(level + 1, depth, n.id, n.n, rip) >>
    <2>2. reg \in Int /\ Len(text) \in Nat
      BY <2>1, CoreAt
    <2>3. reg' = reg + 0 /\ Len(text') = Len(text) + 0
      BY <2>1, <2>2 DEF code
    <2>4. Effect(tree, Core, n) = Go(Core, items, 0, 0) /\ Accepts(tree, Core, n)
      BY <2>1, StmtAt
    <2>5. Do(items)
      BY <2>1
    <2> HIDE DEF items
    <2>6. Core' = Go(Core, items, 0, 0)
      BY <2>1, <2>3, <2>5, KeepsCore, GoneRead
    <2> QED BY <2>1, <2>4, <2>6, OnNode
  <1>3. CASE OutOrReturn
    <2>1. PICK n \in Stmts :
            /\ n.k \in {"out", "return"} /\ At("stmt") /\ Read(n, Bounded(Stmts)) /\ Keep
            /\ UNCHANGED <<reg, code, sp>> /\ Do(<< Expr(level, depth), It(n.k, level + 1, depth) >>)
      BY <1>3 DEF OutOrReturn, ReadStmt
    <2> DEFINE items == << Expr(level, depth), It(n.k, level + 1, depth) >>
    <2>2. reg \in Int /\ Len(text) \in Nat
      BY <2>1, CoreAt
    <2>3. reg' = reg + 0 /\ Len(text') = Len(text) + 0
      BY <2>1, <2>2 DEF code
    <2>4. Effect(tree, Core, n) = Go(Core, items, 0, 0) /\ Accepts(tree, Core, n)
      BY <2>1, StmtAt
    <2>5. Do(items)
      BY <2>1
    <2> HIDE DEF items
    <2>6. Core' = Go(Core, items, 0, 0)
      BY <2>1, <2>3, <2>5, KeepsCore, GoneRead
    <2> QED BY <2>1, <2>4, <2>6, OnNode
  <1>4. CASE CallStmt
    <2>1. PICK n \in Stmts : /\ n.k = "call" /\ At("stmt") /\ Read(n, Bounded(Stmts)) /\ IsFunction(n.id)
                             /\ CallBegin(n, << It("drop", level + 1, depth) >>)
      BY <1>4 DEF CallStmt, ReadStmt
    <2> DEFINE after == << It("drop", level + 1, depth) >>
    <2>2. CallBegin(n, after)
      BY <2>1
    <2>3. Effect(tree, Core, n) = CallOf(Core, n, after)
      BY <2>1, StmtAt
    <2> HIDE DEF after
    <2>4. Core' = CallOf(Core, n, after)
      BY <2>1, <2>2, CallBeginCore
    <2>5. Accepts(tree, Core, n)
      BY <2>1, AcceptsAt
    <2> QED BY <2>1, <2>3, <2>4, <2>5, OnNode
  <1>5. CASE Conditional
    <2>1. PICK n \in Stmts :
            /\ n.k \in {"while", "if"} /\ At("stmt") /\ Read(n, Bounded(Stmts))
            /\ scopes' = Append(scopes, <<>>)
            /\ Do(<< Expr(level, depth + 1),
                     Jump(IF n.k = "while" THEN "test while"
                          ELSE IF n.n = 1 THEN "test if else" ELSE "test if",
                          level + 1, depth + 1, rip, 0) >>)
            /\ UNCHANGED <<control, bss, frame, reg, code>>
      BY <1>5 DEF Conditional, ReadStmt
    <2> DEFINE items == << Expr(level, depth + 1),
                           Jump(IF n.k = "while" THEN "test while"
                                ELSE IF n.n = 1 THEN "test if else" ELSE "test if",
                                level + 1, depth + 1, rip, 0) >>
    <2>2. /\ reg \in Int /\ Len(text) \in Nat /\ Core.tables = BareOf(scopes)
          /\ Core.bss = bss /\ Core.frame = frame
      BY <2>1, CoreAt
    <2>8. reg' = reg /\ text' = text /\ top' = top /\ bss' = bss /\ frame' = frame
      BY <2>1 DEF code, control
    <2>3. reg' = reg + 0 /\ Len(text') = Len(text) + 0 /\ top' = top /\ bss' = bss /\ frame' = frame
      BY ONLY <2>8, <2>2
    <2>4. /\ Effect(tree, Core, n) = GoTo(Core, items, 0, 0, Append(Core.tables, <<>>), Core.bss, Core.frame)
          /\ Accepts(tree, Core, n)
      BY <2>1, StmtAt
    <2>5. Do(items)
      BY <2>1
    <2> HIDE DEF items
    <2>11. Read(n, Bounded(Stmts)) /\ n.k \in {"while", "if"}
      BY <2>1
    <2>10. Read(n, Bounded(Stmts)) /\ n.k \notin {"bin", "not"} /\ reg' = reg + 0 /\ 0 \in Int
      BY ONLY <2>11, <2>3
    <2>9. level' = level + 0
      BY ONLY CompilerInv, <2>10, LevelMoves
    <2>6. Core' = GoTo(Core, items, 0, 0, BareOf(scopes'), bss', frame')
      BY <2>3, <2>5, <2>9, GoneTo
    <2>7. BareOf(scopes') = Append(BareOf(scopes), <<>>)
      <3>1. scopes \in Seq(Seq(Symbol)) /\ <<>> \in Seq(Symbol)
        BY EmptySeq DEF CompilerInv, TypeOK
      <3>2. BareTable(<<>>) = <<>>
        BY DEF BareTable
      <3> QED BY <2>1, <3>1, <3>2, BareOpened
    <2> QED BY <2>1, <2>2, <2>3, <2>4, <2>6, <2>7, OnNode
  <1> QED BY <1>1, <1>2, <1>3, <1>4, <1>5

(* Stores.                                                                 *)
LEMMA RetSizeIs ==
    ASSUME CompilerInv, NEW vis
    PROVE  RetCode(vis) \in Seq(InstrType) /\ Len(RetCode(vis)) = RetSize(Core.tables, vis)
  <1>1. RetCode(vis) \in Seq(InstrType)
    BY RetIs
  <1>2. Len(Core.tables) = Len(scopes)
    BY CoreIs
  <1>3. vis = "global" /\ is_global_scope <=> vis = "global" /\ Len(Core.tables) <= 2
    BY <1>2 DEF is_global_scope
  <1>4. CASE vis = "global" /\ is_global_scope
    <2>1. RetCode(vis) = << Op("ret") >> /\ RetSize(Core.tables, vis) = 1
      BY <1>3, <1>4 DEF RetCode, RetSize
    <2>2. Len(<< Op("ret") >>) = 1
      OBVIOUS
    <2> QED BY <1>1, <2>1, <2>2
  <1>5. CASE ~(vis = "global" /\ is_global_scope)
    <2>1. RetCode(vis) = <<>> /\ RetSize(Core.tables, vis) = 0
      BY <1>3, <1>5 DEF RetCode, RetSize
    <2> QED BY <1>1, <2>1, EmptySeq
  <1> QED BY <1>4, <1>5

LEMMA StoreSizeIs ==
    ASSUME CompilerInv, NEW s, NEW n, compile_store(s, n)
    PROVE  Len(text') = Len(text) + StoreSize(Core.tables, s.vis, n)
  <1> DEFINE mov    == I("mov imm", Mask(reg + 1), 0, n)
             store  == I(Store[s.vis], 0, Mask(reg), s.addend)
             storex == I(Storex[s.vis], Mask(reg + 1), Mask(reg), s.addend)
             ret    == RetCode(s.vis)
             r      == RetSize(Core.tables, s.vis)
             S      == {mov, store, storex} \union InstrType
  <1>1. IF n = NoIndex THEN Emit(<<store>> \o ret) ELSE Emit(<<mov, storex>> \o ret)
    BY DEF compile_store
  <1>2. ret \in Seq(InstrType) /\ Len(ret) = r /\ Len(ret) \in Nat
    BY RetSizeIs
  <1>3. /\ <<store>> \in Seq(S) /\ Len(<<store>>) = 1
        /\ <<mov, storex>> \in Seq(S) /\ Len(<<mov, storex>>) = 2
    <2>1. mov \in S /\ store \in S /\ storex \in S
      OBVIOUS
    <2> HIDE DEF S, mov, store, storex
    <2> QED BY <2>1
  <1>4. ret \in Seq(S)
    <2>1. InstrType \subseteq S
      OBVIOUS
    <2> HIDE DEF S, ret
    <2> QED BY <1>2, <2>1
  <1>5. StoreSize(Core.tables, s.vis, n) = (IF n = NoIndex THEN 1 ELSE 2) + r
    BY DEF StoreSize
  <1> HIDE DEF S, mov, store, storex, ret, r
  <1>6. /\ <<store>> \o ret \in Seq(S) /\ Len(<<store>> \o ret) = Len(<<store>>) + Len(ret)
        /\ <<mov, storex>> \o ret \in Seq(S) /\ Len(<<mov, storex>> \o ret) = Len(<<mov, storex>>) + Len(ret)
    BY <1>3, <1>4, ConcatProperties
  <1>7. CASE n = NoIndex
    <2>1. Len(text') = Len(text) + Len(<<store>> \o ret)
      BY <1>1, <1>6, <1>7, LongerBy
    <2> QED BY <1>2, <1>3, <1>5, <1>6, <1>7, <2>1
  <1>8. CASE n # NoIndex
    <2>1. Len(text') = Len(text) + Len(<<mov, storex>> \o ret)
      BY <1>1, <1>6, <1>8, LongerBy
    <2> QED BY <1>2, <1>3, <1>5, <1>6, <1>8, <2>1
  <1> QED BY <1>7, <1>8

LEMMA ReassignRegular ==
    ASSUME CompilerInv, Reassign
    PROVE  Regular
  <1> DEFINE it == Head(todo)
             s  == find_symbol(it.id)
             z  == SymbolIn(Core.tables, it.id)
             d  == Len(Core.tables)
  <1>1. /\ At("assign") /\ Found(it.id) /\ ~is_global_scope /\ Keep /\ UNCHANGED source
        /\ IF it.n = Computed
           THEN /\ Do(<< Expr(level, depth), Access("store", level + 1, depth, s) >>)
                /\ UNCHANGED <<reg, code, sp>>
           ELSE compile_store(s, it.n) /\ reg' = reg - 1 /\ Do(<<>>)
    BY DEF Reassign
  <1>2. /\ Core.todo = todo /\ Core.reg = reg /\ Core.level = level /\ d = depth /\ reg \in Int /\ depth \in Nat
        /\ Len(text) \in Nat /\ depth = Len(scopes)
    BY <1>1, CoreAt
  <1>3. z.vis = s.vis /\ z.addend = s.addend /\ FoundIn(Core.tables, it.id)
    BY <1>1, SymbolsSame
  <1>4. Effect(tree, Core, Stop) = AssignOf(Core)
    BY <1>1, EffectAt
  <1>5. AssignOf(Core) = IF it.n = Computed
                         THEN Go(Core, << Expr(level, depth), Access("store", level + 1, depth, z) >>, 0, 0)
                         ELSE Go(Core, <<>>, -1, StoreSize(Core.tables, s.vis, it.n))
    BY <1>2, <1>3 DEF AssignOf
  <1>6. Accepts(tree, Core, Stop)
    <2>1. depth > 2
      BY <1>1, <1>2 DEF is_global_scope
    <2> QED BY <1>1, <2>1, AcceptsAt
  <1>7. UNCHANGED source
    BY <1>1
  <1>8. CASE it.n = Computed
    <2> DEFINE items == << Expr(level, depth), Access("store", level + 1, depth, z) >>
    <2>1. Access("store", level + 1, depth, z) = Access("store", level + 1, depth, s)
      BY <1>3 DEF Access
    <2>2. Do(items)
      BY <1>1, <1>8, <2>1
    <2>3. reg' = reg + 0 /\ Len(text') = Len(text) + 0
      BY <1>1, <1>2, <1>8 DEF code
    <2>4. Effect(tree, Core, Stop) = Go(Core, items, 0, 0)
      BY <1>4, <1>5, <1>8
    <2> HIDE DEF items
    <2>5. Core' = Go(Core, items, 0, 0)
      BY <1>1, <2>2, <2>3, KeepsCore, GoneOn
    <2> QED BY <1>1, <1>6, <1>7, <2>4, <2>5, OnItem
  <1>9. CASE it.n # Computed
    <2> DEFINE l == StoreSize(Core.tables, s.vis, it.n)
    <2>1. compile_store(s, it.n) /\ reg' = reg - 1 /\ Do(<<>>)
      BY <1>1, <1>9
    <2>2. Len(text') = Len(text) + l
      BY <2>1, StoreSizeIs
    <2>3. reg' = reg + (-1)
      BY <1>2, <2>1
    <2>4. Effect(tree, Core, Stop) = Go(Core, <<>>, -1, l)
      BY <1>4, <1>5, <1>9
    <2> HIDE DEF l
    <2>5. Core' = Go(Core, <<>>, -1, l)
      BY <1>1, <2>1, <2>2, <2>3, KeepsCore, GoneOn
    <2> QED BY <1>1, <1>6, <1>7, <2>4, <2>5, OnItem
  <1> QED BY <1>8, <1>9

LEMMA StoreElementRegular ==
    ASSUME CompilerInv, StoreElement
    PROVE  Regular
  <1> DEFINE it  == Head(todo)
             x   == I(Storex[it.vis], Mask(reg), Mask(reg - 1), it.addend)
             ret == RetCode(it.vis)
             l   == 1 + RetSize(Core.tables, it.vis)
             S   == {x} \union InstrType
  <1>1. /\ At("store") /\ Do(<<>>) /\ Keep /\ UNCHANGED source /\ reg' = reg - 2 /\ Emit(<<x>> \o ret)
    BY DEF StoreElement
  <1>2. reg \in Int
    BY <1>1, CoreAt
  <1>3. reg' = reg + (-2)
    BY <1>1, <1>2
  <1>4. Effect(tree, Core, Stop) = Go(Core, <<>>, -2, l) /\ Accepts(tree, Core, Stop)
    BY <1>1, EffectAt, AcceptsAt
  <1>5. ret \in Seq(InstrType) /\ l = 1 + Len(ret) /\ Len(ret) \in Nat
    BY RetSizeIs
  <1>6. ret \in Seq(S) /\ <<x>> \in Seq(S) /\ Len(<<x>>) = 1
    <2>1. x \in S /\ InstrType \subseteq S
      OBVIOUS
    <2> HIDE DEF S, x, ret
    <2> QED BY <1>5, <2>1
  <1> HIDE DEF x, ret, l, S
  <1>7. <<x>> \o ret \in Seq(S) /\ Len(<<x>> \o ret) = Len(<<x>>) + Len(ret)
    BY <1>6, ConcatProperties
  <1>8. Len(text') = Len(text) + Len(<<x>> \o ret)
    BY <1>1, <1>7, LongerBy
  <1>9. Len(text') = Len(text) + l
    BY <1>5, <1>6, <1>7, <1>8
  <1>10. Core' = Go(Core, <<>>, -2, l)
    BY <1>1, <1>3, <1>9, KeepsCore, GoneOn
  <1> QED BY <1>1, <1>4, <1>10, OnItem

LEMMA DeclareRegular ==
    ASSUME CompilerInv, DeclareVariable
    PROVE  Regular
  <1> DEFINE it   == Head(todo)
             info == Extent(it.n)
             n    == Len(scopes)
             s    == IF is_global_scope
                     THEN Sym("var", "global", it.id, Imm(bss), it.at, info)
                     ELSE Sym("var", "local", it.id, LocalAddend(info), it.at, info)
             c    == Core
             x    == IF n <= 2 THEN Sym("var", "global", it.id, Imm(c.bss), 0, info)
                               ELSE Sym("var", "local", it.id, Imm(-(c.frame + info)), 0, info)
             b    == IF n <= 2 THEN c.bss + info ELSE c.bss
             f    == IF n <= 2 THEN c.frame ELSE c.frame + info
             t    == [c.tables EXCEPT ![n] = Append(@, x)]
             l    == StoreSize(c.tables, x.vis, it.n)
  <1>1. /\ At("assign") /\ ~Found(it.id) /\ it.n # Computed
        /\ scopes' = [scopes EXCEPT ![n] = Append(@, s)]
        /\ IF is_global_scope THEN bss' = bss + info /\ frame' = frame
                              ELSE frame' = frame + info /\ bss' = bss
        /\ compile_store(s, it.n) /\ reg' = reg - 1 /\ Do(<<>>)
        /\ UNCHANGED <<control, source, start, aux>>
    BY DEF DeclareVariable
  <1>2. /\ c.todo = todo /\ c.reg = reg /\ c.level = level /\ Len(c.tables) = n /\ reg \in Int
        /\ c.bss = bss /\ c.frame = frame /\ c.tables = BareOf(scopes) /\ bss \in Nat /\ frame \in Nat
    BY <1>1, CoreAt DEF CompilerInv, TypeOK
  <1>3. scopes \in Seq(Seq(Symbol)) /\ n \in Nat /\ n >= 2 /\ n \in 1..Len(scopes)
    BY <1>1, RunningTables, LenProperties DEF Tables, At, CompilerInv, TypeOK
  <1>4. it.id \in STRING /\ it.n \in Index /\ it.n \in Int /\ it.at \in Nat
    BY <1>1, AssignHead
  <1>5. ~FoundIn(c.tables, it.id)
    BY <1>1, SymbolsSame
  <1>6. Effect(tree, c, Stop) = AssignOf(c)
    BY <1>1, EffectAt
  <1>7. AssignOf(c) = GoTo(c, <<>>, -1, l, t, b, f)
    <2>1. it = Head(c.todo) /\ Len(c.tables) = n
      BY <1>2
    <2> HIDE DEF c
    <2> QED BY <1>5, <2>1 DEF AssignOf
  <1>8. Accepts(tree, c, Stop)
    BY <1>1, AcceptsAt
  <1> HIDE DEF it
  <1>9. info \in Nat
    BY <1>1, <1>4 DEF Extent, Index, NoIndex, Computed, WORD
  <1> HIDE DEF info
  <1>10. s \in Symbol /\ Bare(s) = x /\ s.vis = x.vis
    <2>1. LocalAddend(info) \in Int /\ Imm(bss) \in Int /\ LocalAddend(info) = Imm(-(c.frame + info))
      <3>1. bss \in Int /\ -(frame + info) \in Int
        BY <1>2, <1>9
      <3> QED BY <1>2, <3>1, ImmIs DEF LocalAddend
    <2>2. CASE is_global_scope
      <3> DEFINE a == Imm(bss)
      <3>1. s = Sym("var", "global", it.id, a, it.at, info) /\ x = Sym("var", "global", it.id, a, 0, info)
        BY <1>2, <2>2 DEF is_global_scope
      <3>2. a \in Int
        BY <2>1
      <3> HIDE DEF s, x, a
      <3> QED BY <1>4, <1>9, <3>1, <3>2 DEF Sym, Symbol, Bare
    <2>3. CASE ~is_global_scope
      <3> DEFINE a == LocalAddend(info)
      <3>1. s = Sym("var", "local", it.id, a, it.at, info) /\ x = Sym("var", "local", it.id, a, 0, info)
        BY <2>1, <2>3 DEF is_global_scope
      <3>2. a \in Int
        BY <2>1
      <3> HIDE DEF s, x, a
      <3> QED BY <1>4, <1>9, <3>1, <3>2 DEF Sym, Symbol, Bare
    <2> QED BY <2>2, <2>3
  <1>11. bss' = b /\ frame' = f
    <2>1. is_global_scope <=> n <= 2
      BY DEF is_global_scope
    <2> QED BY <1>1, <1>2, <2>1
  <1> HIDE DEF s, x, b, f
  <1>12. BareOf(scopes') = t
    <2>0. scopes \in Seq(Seq(Symbol)) /\ n \in 1..Len(scopes) /\ s \in Symbol
      BY <1>3, <1>10
    <2> HIDE DEF n
    <2>1. BareOf([scopes EXCEPT ![n] = Append(@, s)]) = [BareOf(scopes) EXCEPT ![n] = Append(@, Bare(s))]
      BY ONLY <2>0, BareDeclared
    <2> QED BY <1>1, <1>2, <1>10, <2>1 DEF n
  <1>13. Len(text') = Len(text) + l
    <2>1. Len(text') = Len(text) + StoreSize(Core.tables, s.vis, it.n)
      BY <1>1, StoreSizeIs
    <2> QED BY <1>10, <2>1
  <1>14. reg' = reg + (-1) /\ top' = top /\ UNCHANGED source /\ Do(<<>>)
    BY <1>1, <1>2 DEF control
  <1>17. level' = level + (-1)
    BY <1>14, LevelMoves
  <1> HIDE DEF l, t, n
  <1>15. Core' = GoTo(Core, <<>>, -1, l, BareOf(scopes'), bss', frame')
    BY <1>13, <1>14, <1>17, GoneTo
  <1>16. Core' = Effect(tree, Core, Stop) /\ Accepts(tree, Core, Stop)
    BY <1>6, <1>7, <1>8, <1>11, <1>12, <1>15
  <1> QED BY <1>1, <1>14, <1>16, OnItem

(* What ends a statement, and what ends a construct.                       *)
LEMMA EndsRegular ==
    ASSUME CompilerInv, DropResult \/ OutStmt \/ compile_return
    PROVE  Regular
  <1>1. CASE DropResult
    <2>1. /\ At("drop") /\ Do(<<>>) /\ Keep /\ UNCHANGED source /\ reg' = reg - 1 /\ text' = text
      BY <1>1 DEF DropResult, code
    <2>2. reg \in Int /\ Len(text) \in Nat
      BY <2>1, CoreAt
    <2>3. reg' = reg + (-1) /\ Len(text') = Len(text) + 0
      BY <2>1, <2>2
    <2>4. Core' = Go(Core, <<>>, -1, 0)
      BY <2>1, <2>3, KeepsCore, GoneOn
    <2>5. Effect(tree, Core, Stop) = Go(Core, <<>>, -1, 0) /\ Accepts(tree, Core, Stop)
      BY <2>1, EffectAt, AcceptsAt
    <2> QED BY <2>1, <2>4, <2>5, OnItem
  <1>2. CASE OutStmt
    <2> DEFINE l == Len(PadCode(1)) + 4
    <2>1. /\ At("out") /\ Do(<<>>) /\ UNCHANGED source /\ reg' = reg - 1 /\ compile_stdcall("print", 1)
          /\ UNCHANGED <<top, scopes, bss, frame>>
      BY <1>2 DEF OutStmt, control, storage
    <2>2. reg \in Int /\ Len(text) \in Nat /\ Len(PadCode(1)) \in Nat
      BY <2>1, CoreAt, PadIs
    <2>3. Len(text') = Len(text) + (Len(PadCode(1)) + 1 + 3)
      BY <2>1, StdcallSize
    <2>4. reg' = reg + (-1) /\ Len(text') = Len(text) + l
      BY <2>1, <2>2, <2>3
    <2>5. Effect(tree, Core, Stop) = Go(Core, <<>>, -1, l) /\ Accepts(tree, Core, Stop)
      BY <2>1, EffectAt, AcceptsAt
    <2> HIDE DEF l
    <2>6. Core' = Go(Core, <<>>, -1, l)
      BY <2>1, <2>4, GoneOn
    <2> QED BY <2>1, <2>5, <2>6, OnItem
  <1>3. CASE compile_return
    <2> DEFINE a == I("mov rax, r", 0, Mask(reg), 0)
               b == Op("mov rsp, rbp")
               c == Op("pop rbp")
               e == Op("ret")
    <2>1. /\ At("return") /\ Do(<<>>) /\ Keep /\ UNCHANGED source /\ reg' = reg - 1
          /\ Emit(<<a, b, c, e>>)
      BY <1>3 DEF compile_return
    <2> HIDE DEF a, b, c, e
    <2>2. reg \in Int
      BY <2>1, CoreAt
    <2>3. Len(text') = Len(text) + 4
      BY <2>1, LongerByFew
    <2>4. reg' = reg + (-1)
      BY <2>1, <2>2
    <2>5. Core' = Go(Core, <<>>, -1, 4)
      BY <2>1, <2>3, <2>4, KeepsCore, GoneOn
    <2>6. Effect(tree, Core, Stop) = Go(Core, <<>>, -1, 4) /\ Accepts(tree, Core, Stop)
      BY <2>1, EffectAt, AcceptsAt
    <2> QED BY <2>1, <2>5, <2>6, OnItem
  <1> QED BY <1>1, <1>2, <1>3

LEMMA TestRegular ==
    ASSUME CompilerInv, TestCondition
    PROVE  Regular
  <1> DEFINE it   == Head(todo)
             then == CASE it.k = "test while"   -> "endwhile"
                       [] it.k = "test if else" -> "else"
                       [] OTHER                 -> "endif"
             items == Body(level - 1, depth) \o << Jump(then, level - 1, depth, it.cond, rip + 1) >>
  <1>1. /\ At("test while") \/ At("test if") \/ At("test if else")
        /\ Do(items) /\ Keep /\ UNCHANGED source /\ reg' = reg - 1
    BY DEF TestCondition
  <1>2. PICK k \in Tests : At(k)
    BY <1>1 DEF Tests
  <1>3. Len(text') = Len(text) + 2
    BY TestIs
  <1>4. /\ Core.todo = todo /\ Core.reg = reg /\ Core.level = level /\ Len(Core.tables) = depth /\ Core.rip = rip /\ reg \in Int
    BY <1>2, CoreAt
  <1>5. Effect(tree, Core, Stop) = TestOf(Core)
    BY <1>2, EffectAt
  <1>6. TestOf(Core) = Go(Core, items, -1, 2)
    BY <1>4 DEF TestOf
  <1>7. k \notin {"expr", "stmt", "more", "bin", "args", "assign"}
    BY <1>2 DEF Tests
  <1>8. Accepts(tree, Core, Stop)
    BY <1>2, <1>7, AcceptsAt
  <1> HIDE DEF items
  <1>9. reg' = reg + (-1) /\ Do(items) /\ Keep /\ UNCHANGED source
    BY <1>1, <1>4
  <1>10. Core' = Go(Core, items, -1, 2)
    BY <1>3, <1>9, KeepsCore, GoneOn
  <1> QED BY <1>2, <1>5, <1>6, <1>7, <1>8, <1>9, <1>10, OnItem

LEMMA MarkFound ==
    ASSUME CompilerInv, RelasInv, NEW k \in Marks, At(k)
    PROVE  todo[1].at < Len(text)
  BY MarkInside

LEMMA ElseRegular ==
    ASSUME CompilerInv, RelasInv, Else
    PROVE  Regular
  <1> DEFINE items == Body(level, depth) \o << Jump("endif", level, depth, Head(todo).cond, rip) >>
  <1>1. /\ At("else") /\ Do(items) /\ Keep /\ UNCHANGED source /\ reg' = reg
    BY DEF Else
  <1>2. todo[1].at < Len(text)
    BY <1>1, MarkFound DEF Marks
  <1>3. Len(text') = Len(text) + 1
    BY <1>2, ElseIs
  <1>4. /\ Core.todo = todo /\ Core.reg = reg /\ Core.level = level /\ Len(Core.tables) = depth /\ Core.rip = rip /\ reg \in Int
    BY <1>1, CoreAt
  <1>5. Effect(tree, Core, Stop) = ElseOf(Core) /\ Accepts(tree, Core, Stop)
    BY <1>1, EffectAt, AcceptsAt
  <1>6. ElseOf(Core) = Go(Core, items, 0, 1)
    BY <1>4 DEF ElseOf
  <1> HIDE DEF items
  <1>7. reg' = reg + 0
    BY <1>1, <1>4
  <1>8. Core' = Go(Core, items, 0, 1)
    BY <1>1, <1>3, <1>7, KeepsCore, GoneOn
  <1> QED BY <1>1, <1>5, <1>6, <1>8, OnItem

LEMMA ClosedCore ==
    ASSUME CompilerInv, NEW k, At(k), k \notin {"expr", "stmt", "more", "bin", "args", "assign"},
           scopes' = PopScope, Do(<<>>), UNCHANGED <<top, bss, reg>>, UNCHANGED source,
           NEW l, Len(text') = Len(text) + l, Effect(tree, Core, Stop) = Close(Core, l, frame')
    PROVE  Regular
  <1>1. /\ Core.tables = BareOf(scopes) /\ Core.bss = bss /\ reg \in Int /\ Running
    BY CoreAt DEF At
  <1>2. scopes \in Seq(Seq(Symbol)) /\ Len(scopes) >= 1
    BY <1>1, RunningTables, LenProperties DEF Tables, CompilerInv, TypeOK
  <1>3. BareOf(scopes') = SubSeq(Core.tables, 1, Len(Core.tables) - 1)
    BY <1>1, <1>2, BareClosed DEF PopScope
  <1>4. reg' = reg + 0 /\ level' = level + 0
    <2>1. reg' = reg + 0
      BY <1>1
    <2> QED BY <2>1, LevelMoves
  <1>5. Core' = GoTo(Core, <<>>, 0, l, BareOf(scopes'), bss', frame')
    BY <1>4, GoneTo
  <1>6. Core' = Close(Core, l, frame')
    BY <1>1, <1>3, <1>5 DEF Close
  <1>7. Accepts(tree, Core, Stop)
    BY AcceptsAt
  <1> QED BY <1>6, <1>7, OnItem

LEMMA ClosesRegular ==
    ASSUME CompilerInv, RelasInv, EndWhile \/ EndIf \/ EndDefine
    PROVE  Regular
  <1>1. CASE EndWhile
    <2>1. /\ At("endwhile") /\ scopes' = PopScope /\ Do(<<>>) /\ UNCHANGED <<top, bss, reg>> /\ UNCHANGED source
          /\ frame' = frame
      BY <1>1 DEF EndWhile, control
    <2>2. todo[1].at < Len(text)
      BY <2>1, MarkFound DEF Marks
    <2>3. Len(text') = Len(text) + 1
      BY <1>1, <2>2, EndWhileIs
    <2>4. Effect(tree, Core, Stop) = Close(Core, 1, frame')
      BY <2>1, EffectAt, CoreAt
    <2> QED BY <2>1, <2>3, <2>4, ClosedCore
  <1>2. CASE EndIf
    <2>1. /\ At("endif") /\ scopes' = PopScope /\ Do(<<>>) /\ UNCHANGED <<top, bss, reg>> /\ UNCHANGED source
          /\ frame' = frame
      BY <1>2 DEF EndIf, control
    <2>2. todo[1].at < Len(text) /\ Len(text) \in Nat
      BY <2>1, MarkFound, CoreAt DEF Marks
    <2>3. Len(text') = Len(text) + 0
      BY <1>2, <2>2, EndIfIs
    <2>4. Effect(tree, Core, Stop) = Close(Core, 0, frame')
      BY <2>1, EffectAt, CoreAt
    <2> QED BY <2>1, <2>3, <2>4, ClosedCore
  <1>3. CASE EndDefine
    <2>1. /\ At("enddefine") /\ scopes' = PopScope /\ Do(<<>>) /\ UNCHANGED <<top, bss, reg>> /\ UNCHANGED source
          /\ frame' = 0
      BY <1>3 DEF EndDefine, control
    <2>2. Len(text) \in Nat
      BY <2>1, CoreAt
    <2>3. Len(text') = Len(text) + 0
      BY <1>3, <2>2, EndDefineIs
    <2>4. Effect(tree, Core, Stop) = Close(Core, 0, frame')
      BY <2>1, EffectAt
    <2> QED BY <2>1, <2>3, <2>4, ClosedCore
  <1> QED BY <1>1, <1>2, <1>3

(* The top level.                                                          *)
LEMMA ParamsBare ==
    ASSUME NEW f \in TopNode, NEW n \in Nat
    PROVE  BareTable(Params(f, n)) = Params(f, n)
  <1> DEFINE t == Params(f, n)
             b == BareTable(t)
  <1>1. t \in Seq(Symbol)
    BY ParamsAre
  <1>2. Len(f.params) \in Nat
    BY LenProperties DEF TopNode
  <1>3. Len(t) = Len(f.params) /\ \A j \in 1..Len(t) : t[j].offset = 0
    <2>1. Len(t) = Len(f.params)
      BY <1>2 DEF Params
    <2>2. ASSUME NEW j \in 1..Len(f.params)
          PROVE  t[j].offset = 0
      BY DEF Params, Sym
    <2> QED BY <2>1, <2>2
  <1> HIDE DEF t
  <1>4. b \in Seq(Symbol) /\ Len(b) = Len(t) /\ \A j \in 1..Len(t) : b[j] = Bare(t[j])
    BY <1>1, BareTableIs
  <1>5. ASSUME NEW j \in 1..Len(t)
        PROVE  b[j] = t[j]
    <2>1. t[j] \in Symbol /\ t[j].offset = 0
      BY <1>1, <1>3
    <2>2. Bare(t[j]) = t[j]
      BY <2>1 DEF Bare, Symbol
    <2> QED BY <1>4, <2>2
  <1> HIDE DEF b
  <1>6. b = t
    <2>1. b \in Seq(Symbol) /\ t \in Seq(Symbol) /\ Len(b) = Len(t) /\ \A j \in 1..Len(t) : b[j] = t[j]
      BY <1>1, <1>4, <1>5
    <2> QED BY ONLY <2>1, SeqEqual
  <1> QED BY <1>6 DEF b, t

(* A function's offset is noted, and the table of its parameters opened.   *)
LEMMA DefinedTables ==
    ASSUME CompilerInv, compile_define
    PROVE  LET f == tree[top]
               p == Place(f.id)
           IN  /\ Running /\ todo = <<>> /\ f \in TopNode /\ f.k = "define" /\ p \in Hits(f.id)
               /\ p[1] \in 1..Len(scopes) /\ p[2] \in 1..Len(scopes[p[1]])
               /\ \A q \in Hits(f.id) : p[1] < q[1] \/ (p[1] = q[1] /\ p[2] <= q[2])
               /\ \E u \in Seq(Seq(Symbol)) :
                     /\ scopes' = Append(u, Params(f, Len(f.params))) /\ Len(u) = Len(scopes)
                     /\ \A i \in 1..Len(scopes) : Len(u[i]) = Len(scopes[i])
                     /\ \A i \in 1..Len(scopes) : \A j \in 1..Len(scopes[i]) :
                           /\ Same(u[i][j], scopes[i][j])
                           /\ i # p[1] \/ j # p[2] => u[i][j] = scopes[i][j]
                           /\ i = p[1] /\ j = p[2] => u[i][j].offset = Len(text)
  <1> DEFINE f      == tree[top]
             p      == Place(f.id)
             i      == p[1]
             j      == p[2]
             x      == [scopes[i][j] EXCEPT !.offset = rip]
             t      == [scopes[i] EXCEPT ![j] = x]
             u      == [scopes EXCEPT ![i] = t]
  <1>1. /\ AtTop("define") /\ Found(f.id) /\ scopes' = Append(u, Params(f, find_symbol(f.id).info))
        /\ find_symbol(f.id).info = Len(f.params)
    BY DEF compile_define, DefineFails
  <1>2. /\ Running /\ todo = <<>> /\ f \in TopNode /\ f.k = "define"
        /\ scopes \in Seq(Seq(Symbol)) /\ rip \in Nat /\ rip = Len(text)
    BY <1>1, TopNodeIs, AddressIs DEF CompilerInv, TypeOK, rip
  <1>3. /\ p \in Hits(f.id) /\ i \in 1..Len(scopes) /\ j \in 1..Len(scopes[i])
        /\ \A q \in Hits(f.id) : i < q[1] \/ (i = q[1] /\ j <= q[2])
    BY <1>1, <1>2, FirstPlace
  <1>4. scopes[i] \in Seq(Symbol) /\ scopes[i][j] \in Symbol
    BY <1>2, <1>3
  <1>5. x \in Symbol /\ Same(x, scopes[i][j]) /\ x.offset = Len(text)
    <2> DEFINE y == scopes[i][j]
    <2>1. y \in Symbol /\ rip \in Nat /\ rip = Len(text) /\ x = [y EXCEPT !.offset = rip]
      BY <1>2, <1>4
    <2> HIDE DEF y, x
    <2>2. x \in Symbol /\ Same(x, y) /\ x.offset = Len(text)
      BY <2>1 DEF Symbol, Same
    <2> QED BY <2>2 DEF y
  <1> HIDE DEF x
  <1>6. /\ t \in Seq(Symbol) /\ Len(t) = Len(scopes[i]) /\ t[j] = x
        /\ \A l \in 1..Len(scopes[i]) : l # j => t[l] = scopes[i][l]
    BY <1>3, <1>4, <1>5, SetEntry
  <1> HIDE DEF t
  <1>7. /\ u \in Seq(Seq(Symbol)) /\ Len(u) = Len(scopes) /\ u[i] = t
        /\ \A l \in 1..Len(scopes) : l # i => u[l] = scopes[l]
    <2>1. PICK k \in 1..Len(scopes) : k = i
      BY <1>3
    <2>2. u = [scopes EXCEPT ![k] = t]
      BY <2>1
    <2> HIDE DEF u, i, j
    <2>3. /\ u \in Seq(Seq(Symbol)) /\ Len(u) = Len(scopes) /\ u[k] = t
          /\ \A l \in 1..Len(scopes) : l # k => u[l] = scopes[l]
      <3>1. scopes \in Seq(Seq(Symbol)) /\ t \in Seq(Symbol) /\ k \in 1..Len(scopes) /\ u = [scopes EXCEPT ![k] = t]
        BY <1>2, <1>6, <2>1, <2>2
      <3> QED BY ONLY <3>1, SetTable
    <2> QED BY <2>1, <2>3
  <1> HIDE DEF u, i, j
  <1>8. ASSUME NEW a \in 1..Len(scopes)
        PROVE  /\ Len(u[a]) = Len(scopes[a])
               /\ \A b \in 1..Len(scopes[a]) :
                     /\ Same(u[a][b], scopes[a][b])
                     /\ a # i \/ b # j => u[a][b] = scopes[a][b]
                     /\ a = i /\ b = j => u[a][b].offset = Len(text)
    <2>1. CASE a # i
      <3>1. u[a] = scopes[a]
        BY <1>7, <2>1
      <3> QED BY <2>1, <3>1 DEF Same
    <2>2. CASE a = i
      <3>1. u[a] = t /\ Len(u[a]) = Len(scopes[a])
        BY <1>6, <1>7, <2>2
      <3>2. ASSUME NEW b \in 1..Len(scopes[a])
            PROVE  /\ Same(u[a][b], scopes[a][b])
                   /\ b # j => u[a][b] = scopes[a][b]
                   /\ b = j => u[a][b].offset = Len(text)
        <4>1. CASE b = j
          BY <1>5, <1>6, <2>2, <3>1, <4>1
        <4>2. CASE b # j
          <5>1. u[a][b] = scopes[a][b]
            BY <1>6, <2>2, <3>1, <4>2
          <5> QED BY <4>2, <5>1 DEF Same
        <4> QED BY <4>1, <4>2
      <3> QED BY <2>2, <3>1, <3>2
    <2> QED BY <2>1, <2>2
  <1>9. scopes' = Append(u, Params(f, Len(f.params)))
    BY <1>1
  <1> HIDE DEF p, f
  <1> DEFINE w == Params(f, Len(f.params))
             n == Len(text)
  <1>10. \E v \in Seq(Seq(Symbol)) :
           /\ scopes' = Append(v, w) /\ Len(v) = Len(scopes)
           /\ \A a \in 1..Len(scopes) : Len(v[a]) = Len(scopes[a])
           /\ \A a \in 1..Len(scopes) : \A b \in 1..Len(scopes[a]) :
                 /\ Same(v[a][b], scopes[a][b])
                 /\ a # i \/ b # j => v[a][b] = scopes[a][b]
                 /\ a = i /\ b = j => v[a][b].offset = n
    <2> HIDE DEF w
    <2> u \in Seq(Seq(Symbol))
      BY <1>7
    <2>1. WITNESS u \in Seq(Seq(Symbol))
    <2> QED BY <1>7, <1>8, <1>9 DEF w, n
  <1> QED BY <1>2, <1>3, <1>10 DEF f, p, i, j

LEMMA FailsSame ==
    ASSUME CompilerInv, NEW f
    PROVE  FailsIn(Core.tables, f) <=> DefineFails(f)
  <1>1. /\ FoundIn(Core.tables, f.id) <=> Found(f.id)
        /\ Found(f.id) => SymbolIn(Core.tables, f.id).info = find_symbol(f.id).info
        /\ \A j \in 1..Len(f.params) : FoundIn(Core.tables, f.params[j]) <=> Found(f.params[j])
    BY SymbolsSame
  <1>2. DefineFails(f) <=> \/ Found(f.id) => find_symbol(f.id).info # Len(f.params)
                           \/ ParamsVisible(f.params)
    BY DEF DefineFails
  <1>3. ParamsVisible(f.params) <=>
            \E j \in 1..Len(f.params) :
               FoundIn(Core.tables, f.params[j]) \/ \E i \in 1..(j - 1) : f.params[i] = f.params[j]
    BY <1>1 DEF ParamsVisible
  <1> QED BY <1>1, <1>2, <1>3 DEF FailsIn

LEMMA TopCore ==
    ASSUME CompilerInv, NEW k, AtTop(k)
    PROVE  /\ Core.todo = <<>> /\ Core.top = top /\ Core.reg = reg /\ Core.level = level /\ Core.rip = Len(text)
           /\ Core.bss = bss /\ Core.frame = frame /\ Core.tables = BareOf(scopes)
           /\ Len(Core.tables) = depth /\ rip = Len(text) /\ Len(text) \in Nat
           /\ top <= Len(tree) /\ tree[top].k = k /\ tree[top] \in TopNode
  BY CoreIs, TopNodeIs DEF AtTop

LEMMA OnTop ==
    ASSUME CompilerInv, NEW k, AtTop(k), UNCHANGED source,
           Core' = TopOf(tree, Core), k = "define" => ~DefineFails(tree[top])
    PROVE  Regular
  <1>1. /\ Core.todo = <<>> /\ Core.top = top /\ top <= Len(tree) /\ tree[top].k = k
    BY TopCore
  <1>2. ~Reads(Core)
    BY <1>1 DEF Reads
  <1>3. Given(Stop) /\ Took(Stop)
    BY <1>2 DEF Given, Took, source
  <1>4. Effect(tree, Core, Stop) = TopOf(tree, Core)
    BY <1>1 DEF Effect
  <1>5. ~FailsIn(Core.tables, tree[top]) <=> ~DefineFails(tree[top])
    BY FailsSame
  <1>6. Accepts(tree, Core, Stop)
    BY <1>1, <1>5 DEF Accepts
  <1> QED BY <1>3, <1>4, <1>6 DEF Regular

LEMMA TopsRegular ==
    ASSUME CompilerInv, compile_define \/ GlobalAssign
    PROVE  Regular
  <1>1. CASE GlobalAssign
    <2> DEFINE f == tree[top]
    <2>1. /\ AtTop("assign") /\ UNCHANGED source /\ top' = top + 1
          /\ todo' = << Expr(level, depth), Assign(level + 1, depth, f.id, f.n, rip) >>
          /\ scopes' = scopes /\ bss' = bss /\ frame' = frame /\ reg' = reg /\ text' = text
      BY <1>1 DEF GlobalAssign, storage, code
    <2>2. /\ Core.top = top /\ Core.reg = reg /\ Core.level = level /\ Core.rip = rip /\ rip = Len(text)
          /\ Core.bss = bss /\ Core.frame = frame /\ Core.tables = BareOf(scopes)
          /\ Len(Core.tables) = depth /\ f.k = "assign"
      BY <2>1, TopCore
    <2> DEFINE items == << Expr(level, depth), Assign(level + 1, depth, f.id, f.n, rip) >>
    <2>3. TopOf(tree, Core) =
             [top |-> top + 1, todo |-> items, tables |-> BareOf(scopes), reg |-> reg, level |-> level,
              rip |-> Len(text), bss |-> bss, frame |-> frame]
      BY <2>2 DEF TopOf
    <2>4. todo' = items
      BY <2>1
    <2> HIDE DEF items
    <2>6. level' = level
      BY <2>1 DEF level, source
    <2>5. Core' = TopOf(tree, Core)
      BY <2>1, <2>3, <2>4, <2>6 DEF Core
    <2> QED BY <2>1, <2>5, OnTop
  <1>2. CASE compile_define
    <2> DEFINE f == tree[top]
               w == Params(f, Len(f.params))
               items == Body(level, depth + 1) \o << Jump("enddefine", level, depth + 1, 0, rip + 2) >>
    <2>1. /\ AtTop("define") /\ ~DefineFails(f) /\ UNCHANGED source /\ top' = top + 1 /\ todo' = items
          /\ bss' = bss /\ frame' = frame /\ reg' = reg
      BY <1>2 DEF compile_define
    <2>2. /\ Core.top = top /\ Core.reg = reg /\ Core.level = level /\ Core.rip = rip /\ rip = Len(text)
          /\ Core.bss = bss /\ Core.frame = frame /\ Core.tables = BareOf(scopes)
          /\ Len(Core.tables) = depth /\ f.k = "define" /\ f \in TopNode
      BY <2>1, TopCore
    <2>3. Len(text') = Len(text) + 3
      BY <1>2, DefineIs
    <2>4. TopOf(tree, Core) =
             [top |-> top + 1, todo |-> items, tables |-> Append(BareOf(scopes), w), reg |-> reg, level |-> level,
              rip |-> Len(text) + 3, bss |-> bss, frame |-> frame]
      BY <2>2 DEF TopOf
    <2> HIDE DEF items
    <2>5. PICK u \in Seq(Seq(Symbol)) :
             /\ scopes' = Append(u, w) /\ Len(u) = Len(scopes)
             /\ \A i \in 1..Len(scopes) : Len(u[i]) = Len(scopes[i])
             /\ \A i \in 1..Len(scopes) : \A j \in 1..Len(scopes[i]) : Same(u[i][j], scopes[i][j])
      BY <1>2, DefinedTables
    <2>6. w \in Seq(Symbol) /\ BareTable(w) = w
      <3>1. Len(f.params) \in Nat
        BY <2>2, LenProperties DEF TopNode
      <3> HIDE DEF f
      <3> QED BY <2>2, <3>1, ParamsAre, ParamsBare
    <2> HIDE DEF w, f
    <2>7. BareOf(scopes') = Append(BareOf(scopes), w)
      <3>1. scopes \in Seq(Seq(Symbol))
        BY DEF CompilerInv, TypeOK
      <3>2. BareOf(u) = BareOf(scopes)
        BY <2>5, <3>1, BareKept
      <3> QED BY <2>5, <2>6, <3>2, BareOpened
    <2>9. level' = level
      BY <2>1 DEF level, source
    <2>8. Core' = TopOf(tree, Core)
      BY <2>1, <2>3, <2>4, <2>7, <2>9 DEF Core
    <2> QED BY <2>1, <2>8, OnTop DEF f
  <1> QED BY <1>1, <1>2

(* Every step of a pass, and every rejection.                              *)
LEMMA RefusedNode ==
    ASSUME CompilerInv, NEW k, At(k), k \in {"expr", "stmt"}, NEW n, NEW C, Read(n, C),
           ~Accepts(tree, Core, n)
    PROVE  Refused
  <1>1. Reads(Core)
    BY DEF Reads, Core, At
  <1>2. Given(n)
    BY <1>1 DEF Given, Read
  <1> QED BY <1>1, <1>2 DEF Refused

LEMMA RefusedItem ==
    ASSUME CompilerInv, NEW k, At(k), k \notin {"expr", "stmt", "more"}, ~Accepts(tree, Core, Stop)
    PROVE  Refused
  <1>1. ~Reads(Core)
    BY DEF Reads, Core, At
  <1> QED BY <1>1 DEF Refused, Given

LEMMA RejectionsRefused ==
    ASSUME CompilerInv, Rejections
    PROVE  Refused
  <1>1. CASE DefineRejected
    <2>1. AtTop("define") /\ DefineFails(tree[top])
      BY <1>1 DEF DefineRejected
    <2>2. Core.todo = <<>> /\ Core.top = top /\ tree[top].k = "define"
      BY <2>1, TopCore
    <2>3. FailsIn(Core.tables, tree[top])
      BY <2>1, FailsSame
    <2>4. ~Accepts(tree, Core, Stop) /\ ~Reads(Core)
      BY <2>2, <2>3 DEF Accepts, Reads
    <2> QED BY <2>4 DEF Refused, Given
  <1>2. CASE VariableRejected
    <2>1. PICK n \in Exprs : n.k = "var" /\ At("expr") /\ Read(n, Bounded(Exprs)) /\ ~Found(n.id)
      BY <1>2 DEF VariableRejected, ReadExpr
    <2>2. ~Accepts(tree, Core, n)
      BY <2>1, AcceptsAt
    <2> QED BY <2>1, <2>2, RefusedNode
  <1>3. CASE OperatorRejected
    <2>1. At("bin") /\ Head(todo).op \notin Compiled
      BY <1>3 DEF OperatorRejected
    <2>2. ~Accepts(tree, Core, Stop)
      BY <2>1, AcceptsAt
    <2> QED BY <2>1, <2>2, RefusedItem
  <1>4. CASE CallRejected
    <2>1. CASE \E n \in Exprs : n.k = "call" /\ ReadExpr(n) /\ ~IsFunction(n.id) /\ Fail
      <3>1. PICK n \in Exprs : n.k = "call" /\ At("expr") /\ Read(n, Bounded(Exprs)) /\ ~IsFunction(n.id)
        BY <2>1 DEF ReadExpr
      <3>2. ~Accepts(tree, Core, n)
        BY <3>1, AcceptsAt
      <3> QED BY <3>1, <3>2, RefusedNode
    <2>2. CASE At("args") /\ Head(todo).left > 0 /\ Head(todo).given = 0 /\ UNCHANGED source /\ Fail
      <3>1. At("args") /\ ~(Head(todo).left = 0) /\ Head(todo).given = 0
        BY <2>2
      <3>2. ~Accepts(tree, Core, Stop)
        BY <3>1, AcceptsAt
      <3> QED BY <3>1, <3>2, RefusedItem
    <2> QED BY <1>4, <2>1, <2>2 DEF CallRejected
  <1>5. CASE AssignRejected
    <2>1. At("assign") /\ IF Found(Head(todo).id) THEN is_global_scope ELSE Head(todo).n = Computed
      BY <1>5 DEF AssignRejected
    <2>2. depth \in Nat /\ depth = Len(scopes)
      BY <2>1, CoreAt
    <2>3. is_global_scope <=> ~(depth > 2)
      BY <2>2 DEF is_global_scope
    <2>4. ~Accepts(tree, Core, Stop)
      BY <2>1, <2>3, AcceptsAt
    <2> QED BY <2>1, <2>4, RefusedItem
  <1>6. CASE CallStmtRejected
    <2>1. PICK n \in Stmts : n.k = "call" /\ At("stmt") /\ Read(n, Bounded(Stmts)) /\ ~IsFunction(n.id)
      BY <1>6 DEF CallStmtRejected, ReadStmt
    <2>2. ~Accepts(tree, Core, n)
      BY <2>1, AcceptsAt
    <2> QED BY <2>1, <2>2, RefusedNode
  <1> QED BY <1>1, <1>2, <1>3, <1>4, <1>5, <1>6 DEF Rejections

(* The steps that walk the tree.                                           *)
PassStep == \/ ExprHandlers \/ StmtHandlers \/ AssignStmt
            \/ Conditional \/ TestCondition \/ Else \/ EndWhile \/ EndIf \/ EndDefine
            \/ compile_define \/ GlobalAssign
LEMMA PassRegular ==
    ASSUME CompilerInv, RelasInv, PassStep
    PROVE  Regular
  BY ExprsRegular, BegunRegular, ReassignRegular, StoreElementRegular, DeclareRegular, EndsRegular,
     TestRegular, ElseRegular, ClosesRegular, TopsRegular DEF PassStep, StmtHandlers

(* Such a step stays in its pass.                                          *)
LEMMA PassKeeps ==
    ASSUME PassStep
    PROVE  Running /\ UNCHANGED <<tree, phase, outcome>>
  <1>1. CASE ExprHandlers
    BY <1>1 DEF ExprHandlers, compile_load_num, LoadVariable, LoadElement, BinaryExpr, compile_expr_bin,
       NotExpr, compile_expr_not, CallExpr, CallBegin, CallArgument, PushArgument, CallEnd, InExpr,
       ReadExpr, At, Keep, control
  <1>2. CASE StmtHandlers
    BY <1>2 DEF StmtHandlers, Reassign, StoreElement, DeclareVariable, compile_stmt, CallStmt, CallBegin,
       DropResult, OutOrReturn, OutStmt, compile_return, ReadStmt, At, Keep, control
  <1>3. CASE AssignStmt \/ Conditional
    BY <1>3 DEF AssignStmt, Conditional, ReadStmt, At, Keep, control
  <1>4. CASE TestCondition \/ Else \/ EndWhile \/ EndIf \/ EndDefine
    BY <1>4 DEF TestCondition, Else, EndWhile, EndIf, EndDefine, At, Keep, control
  <1>5. CASE compile_define \/ GlobalAssign
    BY <1>5 DEF compile_define, GlobalAssign, AtTop
  <1> QED BY <1>1, <1>2, <1>3, <1>4, <1>5 DEF PassStep

(* The frame is empty outside functions.                                   *)

(* What is left to be compiled ends a function, or is the initialiser of a *)
(* global.                                                                 *)
InitialiserKinds == ExprKinds \union {"assign", "store"}
InFunction == todo # <<>> /\ todo[Len(todo)].k = "enddefine"
Outside    == /\ frame = 0 /\ Len(scopes) = 2
              /\ \A l \in 1..Len(todo) : todo[l].k \in InitialiserKinds
FramesInv  == /\ phase = "declare" => frame = 0
              /\ Running => InFunction \/ Outside

LEMMA StaysIn ==
    ASSUME NEW n, Shift(n), InFunction, todo[1].k # "enddefine"
    PROVE  InFunction'
  <1>1. /\ n \in Nat /\ Len(todo) \in Nat \ {0} /\ Len(todo') \in Nat
        /\ \A m \in 2..Len(todo) :
                 /\ m + n - 1 \in 1..Len(todo') /\ todo'[m + n - 1] = todo[m]
    BY Shifted
  <1>2. Len(todo) # 1
    BY DEF InFunction
  <1>3. Len(todo) \in 2..Len(todo) /\ Len(todo') = n + Len(todo) - 1
    <2>1. Len(todo') = n + Len(todo) - 1
      BY DEF Shift
    <2>2. Len(todo) \in Nat \ {0}
      BY <1>1
    <2>3. ASSUME NEW m \in Nat \ {0}, m # 1
          PROVE  m \in 2..m
      BY <2>3
    <2>4. Len(todo) \in 2..Len(todo)
      BY <1>2, <2>2, <2>3
    <2> QED BY <2>1, <2>4
  <1>4. todo'[Len(todo')] = todo[Len(todo)] /\ Len(todo') \in 1..Len(todo')
    <2>1. Len(todo) + n - 1 \in 1..Len(todo') /\ todo'[Len(todo) + n - 1] = todo[Len(todo)]
      BY <1>1, <1>3
    <2>2. Len(todo) + n - 1 = Len(todo')
      BY <1>1, <1>3
    <2> QED BY <2>1, <2>2
  <1>5. todo' # <<>>
    <2>1. Len(<<>>) = 0
      BY EmptySeq
    <2> QED BY <1>4, <2>1
  <1> QED BY <1>4, <1>5 DEF InFunction

LEMMA StaysOut ==
    ASSUME NEW n, Shift(n), Outside, frame' = frame, Len(scopes') = Len(scopes),
           \A i \in 1..n : todo'[i].k \in InitialiserKinds
    PROVE  Outside'
  <1>1. \A l \in 1..Len(todo') :
            l \in 1..n \/ (l - n + 1 \in 2..Len(todo) /\ todo'[l] = todo[l - n + 1])
    BY Shifted
  <1>2. \A m : m \in 2..Len(todo) => m \in 1..Len(todo)
    BY Shifted
  <1> QED BY <1>1, <1>2 DEF Outside

LEMMA FramesStmt ==
    ASSUME CompilerInv, ScopesInv, WalkInv, Outside, StmtHandlers
    PROVE  Outside'
  <1>0. /\ \A k : k \in {"stmt", "more", "drop", "out", "return"} => k \notin InitialiserKinds
        /\ Len(todo) \in Nat /\ Len(<<>>) = 0 /\ 1..0 = {}
    BY ItemTypes, EmptySeq DEF InitialiserKinds, ExprKinds
  <1>1. ASSUME NEW k, At(k)
        PROVE  k \in InitialiserKinds /\ k \notin {"stmt", "more", "drop", "out", "return"}
    <2>1. Len(todo) \in Nat \ {0} /\ todo[1].k = k
      BY <1>1, HeadFirst
    <2>2. 1 \in 1..Len(todo)
      BY <2>1
    <2>3. k \in InitialiserKinds
      BY <2>1, <2>2 DEF Outside
    <2> QED BY <1>0, <2>3
  <1>2. ~(compile_stmt \/ CallStmt \/ DropResult \/ OutOrReturn \/ OutStmt \/ compile_return)
    BY <1>1 DEF compile_stmt, CallStmt, DropResult, OutOrReturn, OutStmt, compile_return, ReadStmt
  <1>3. is_global_scope /\ ~Reassign
    BY DEF Reassign, is_global_scope, Outside
  <1>4. CASE StoreElement
    <2>1. At("store") /\ Do(<<>>) /\ frame' = frame /\ scopes' = scopes
      BY <1>4 DEF StoreElement, Keep, storage
    <2>2. <<>> \in Seq({})
      BY EmptySeq
    <2>3. Shift(0)
      BY <1>0, <2>1, <2>2, DoShift
    <2> QED BY <1>0, <2>1, <2>3, StaysOut
  <1>5. CASE DeclareVariable
    <2>1. At("assign") /\ Do(<<>>) /\ frame' = frame
      BY <1>3, <1>5 DEF DeclareVariable
    <2>2. <<>> \in Seq({})
      BY EmptySeq
    <2>3. Shift(0)
      BY <1>0, <2>1, <2>2, DoShift
    <2>4. PICK x \in Symbol : scopes' = [scopes EXCEPT ![Len(scopes)] = Append(@, x)]
      BY <1>5, Declaration
    <2>5. Len(scopes') = Len(scopes)
      <3>1. scopes \in Seq(Seq(Symbol))
        BY DEF CompilerInv, TypeOK
      <3> QED BY <2>4, <3>1
    <2> QED BY <1>0, <2>1, <2>3, <2>5, StaysOut
  <1> QED BY <1>2, <1>3, <1>4, <1>5 DEF StmtHandlers

LEMMA FramesStep ==
    ASSUME CompilerInv, ScopesInv, RelasInv, WalkInv, FramesInv, [Next]_vars
    PROVE  FramesInv'
  <1>0. CompilerInv'
    BY StepInv
  <1>1. Len(todo) \in Nat /\ Len(todo') \in Nat /\ Len(<<>>) = 0 /\ 1..0 = {}
    BY <1>0, EmptySeq DEF CompilerInv, TypeOK
  <1>2. ASSUME Running', todo' = <<>>, frame' = 0
        PROVE  Outside'
    <2>1. Len(scopes') = 2
      BY <1>0, <1>2 DEF CompilerInv, ControlLinked, Linked, depth
    <2> QED BY <1>1, <1>2, <2>1 DEF Outside
  <1>3. /\ "enddefine" \notin ExprKinds /\ "enddefine" \notin StmtKinds /\ "enddefine" \notin Branches
        /\ "enddefine" \notin InitialiserKinds
        /\ \A k \in Branches : k \notin InitialiserKinds
        /\ "stmt" \notin InitialiserKinds /\ ExprKinds \subseteq InitialiserKinds
        /\ "expr" \in InitialiserKinds /\ "assign" \in InitialiserKinds
    BY DEF ExprKinds, StmtKinds, Branches, Tests, Owed, InitialiserKinds
  <1>4. ASSUME Outside, todo # <<>>
        PROVE  todo[1].k \in InitialiserKinds
    <2>1. Len(todo) # 0
      BY <1>4 DEF CompilerInv, TypeOK
    <2>2. 1 \in 1..Len(todo)
      BY <1>1, <2>1
    <2> QED BY <1>4, <2>2 DEF Outside
  <1>5. ASSUME todo = <<>>
        PROVE  ~InFunction
    BY <1>5 DEF InFunction
  <1>6. ASSUME Running, phase' = phase, InFunction' \/ Outside'
        PROVE  FramesInv'
    BY <1>6 DEF FramesInv, Running
  <1>7. CASE ExprHandlers
    <2>1. ExprHandled /\ Head(todo) = todo[1]
      BY <1>7, ExprsHandled DEF WalkInv, ExprHandled, Calm, CompilerInv, TypeOK
    <2>2. /\ Running /\ phase' = phase /\ frame' = frame /\ scopes' = scopes /\ Moves(ExprKinds)
          /\ todo[1].k \in ExprKinds
      BY <2>1 DEF ExprHandled, Calm
    <2>3. PICK n \in Nat : Shift(n) /\ \A i \in 1..n : todo'[i].k \in ExprKinds
      BY <2>2 DEF Moves
    <2>4. CASE InFunction
      BY <1>3, <1>6, <2>2, <2>3, <2>4, StaysIn
    <2>5. CASE Outside
      BY <1>3, <1>6, <2>2, <2>3, <2>5, StaysOut
    <2> QED BY <2>2, <2>4, <2>5 DEF FramesInv
  <1>8. CASE StmtHandlers
    <2>1. StmtHandled /\ Head(todo) = todo[1]
      BY <1>8, StmtsHandled DEF WalkInv, StmtHandled, Calm, CompilerInv, TypeOK
    <2>2. Running /\ phase' = phase /\ Moves(BodyKinds) /\ todo[1].k \in StmtKinds
      BY <2>1 DEF StmtHandled, Calm
    <2>3. PICK n \in Nat : Shift(n)
      BY <2>2 DEF Moves
    <2>4. CASE InFunction
      BY <1>3, <1>6, <2>2, <2>3, <2>4, StaysIn
    <2>5. CASE Outside
      BY <1>6, <1>8, <2>2, <2>5, FramesStmt
    <2> QED BY <2>2, <2>4, <2>5 DEF FramesInv
  <1>9. ASSUME Running, phase' = phase, todo # <<>>, NEW n, Shift(n), todo[1].k \in Branches \union {"stmt"}
        PROVE  FramesInv'
    <2>1. todo[1].k \notin InitialiserKinds /\ todo[1].k # "enddefine"
      BY <1>3, <1>9 DEF StmtKinds
    <2>2. InFunction
      BY <1>4, <1>9, <2>1 DEF FramesInv
    <2> QED BY <1>6, <1>9, <2>1, <2>2, StaysIn
  <1>10. CASE AssignStmt
    <2>1. Shift(2) /\ todo[1].k = "stmt" /\ Running /\ todo # <<>> /\ phase' = phase
      BY <1>10, AssignHandled DEF AssignBegun, Calm
    <2> QED BY <1>9, <2>1
  <1>11. CASE Conditional
    <2>1. Shift(2) /\ todo[1].k = "stmt" /\ Running /\ todo # <<>> /\ phase' = phase
      BY <1>11, ConditionalIs DEF Shift
    <2> QED BY <1>9, <2>1
  <1>12. CASE TestCondition
    <2>1. Shift(3) /\ todo[1].k \in Tests /\ Running /\ todo # <<>> /\ phase' = phase
      BY <1>12, TestIs DEF Shift
    <2> QED BY <1>9, <2>1 DEF Branches
  <1>13. ASSUME NEW k \in Owed, At(k)
         PROVE  todo[1].at < Len(text)
    BY <1>13, MarkInside DEF Owed, Marks
  <1>14. CASE Else
    <2>1. todo[1].at < Len(text)
      BY <1>13, <1>14 DEF Else, Owed
    <2>2. Shift(3) /\ todo[1].k = "else" /\ Running /\ todo # <<>> /\ phase' = phase
      BY <1>14, <2>1, ElseIs DEF Shift
    <2> QED BY <1>9, <2>2 DEF Branches, Owed
  <1>15. CASE EndWhile
    <2>1. todo[1].at < Len(text)
      BY <1>13, <1>15 DEF EndWhile, Owed
    <2>2. Shift(0) /\ todo[1].k = "endwhile" /\ Running /\ todo # <<>> /\ phase' = phase
      BY <1>15, <2>1, EndWhileIs DEF Shift
    <2> QED BY <1>9, <2>2 DEF Branches, Owed
  <1>16. CASE EndIf
    <2>1. todo[1].at < Len(text)
      BY <1>13, <1>16 DEF EndIf, Owed
    <2>2. Shift(0) /\ todo[1].k = "endif" /\ Running /\ todo # <<>> /\ phase' = phase
      BY <1>16, <2>1, EndIfIs DEF Shift
    <2> QED BY <1>9, <2>2 DEF Branches, Owed
  <1>17. CASE EndDefine
    <2>1. Running /\ phase' = phase /\ Shift(0) /\ todo[1].k = "enddefine" /\ frame' = 0
      BY <1>17, EndDefineIs
    <2>2. Len(todo') = 0
      BY <2>1 DEF Shift, WalkInv, EndLast
    <2>3. todo' = <<>>
      BY <1>0, <2>2, EmptySeq DEF CompilerInv, TypeOK
    <2> QED BY <1>2, <1>6, <2>1, <2>3 DEF Running
  <1>18. CASE compile_define
    <2>1. Running /\ phase' = phase /\ Len(todo') = 3 /\ todo'[3].k = "enddefine"
      BY <1>18, DefineIs
    <2>2. todo' # <<>>
      BY <1>1, <2>1
    <2> QED BY <1>6, <2>1, <2>2 DEF InFunction
  <1>19. CASE GlobalAssign
    <2>1. /\ Running /\ todo = <<>> /\ Len(todo') = 2 /\ phase' = phase /\ frame' = frame /\ scopes' = scopes
          /\ todo'[1].k = "expr" /\ todo'[2].k = "assign"
      BY <1>19, GlobalAssignIs DEF AssignBegun
    <2>2. \A l \in 1..2 : l = 1 \/ l = 2
      OBVIOUS
    <2>3. Outside
      BY <1>5, <2>1 DEF FramesInv
    <2>4. Outside'
      BY <1>3, <2>1, <2>2, <2>3 DEF Outside
    <2> QED BY <1>6, <2>1, <2>4
  <1>20. CASE SecondPass
    <2>1. phase = "pass1" /\ todo = <<>> /\ todo' = <<>> /\ frame' = frame /\ phase' # "declare"
      BY <1>20, SecondPassIs
    <2>2. frame = 0
      BY <1>5, <2>1 DEF FramesInv, Running, Outside
    <2> QED BY <1>2, <2>1, <2>2 DEF FramesInv
  <1>21. CASE compile_start
    BY <1>21, StartIs DEF FramesInv, Running
  <1>22. CASE Rejections
    <2>1. phase' \in {"end", "start"}
      BY <1>22, RejectedIs
    <2> QED BY <2>1 DEF FramesInv, Running
  <1>23. CASE Declare
    <2>1. phase = "declare" /\ phase' = "declare" /\ frame' = frame
      BY <1>23 DEF Declare
    <2> QED BY <2>1 DEF FramesInv, Running
  <1>24. CASE Declared
    <2>1. phase = "declare" /\ phase' # "declare" /\ frame' = frame /\ todo' = todo
      BY <1>24 DEF Declared
    <2>2. todo = <<>> /\ frame = 0
      BY <2>1 DEF CompilerInv, TablesOpen, FramesInv
    <2> QED BY <1>2, <2>1, <2>2 DEF FramesInv
  <1>25. CASE CompilePassEnd
    BY <1>25 DEF CompilePassEnd, FramesInv, Running
  <1>26. CASE Terminating \/ UNCHANGED vars
    BY <1>26 DEF Terminating, vars, control, storage, FramesInv, Running, InFunction, Outside
  <1> QED BY <1>7, <1>8, <1>10, <1>11, <1>12, <1>14, <1>15, <1>16, <1>17, <1>18, <1>19, <1>20,
             <1>21, <1>22, <1>23, <1>24, <1>25, <1>26, StepCases

(* The table of functions.                                                 *)
LEMMA FirstTable ==
    ASSUME CompilerInv, ScopesInv, RelasInv, WalkInv, PassStep, ~compile_define
    PROVE  scopes'[1] = scopes[1]
  <1>1. /\ scopes \in Seq(Seq(Symbol)) /\ Len(scopes) \in Nat /\ Len(scopes) >= 2
        /\ <<>> \in Seq(Symbol) /\ 1 \in 1..Len(scopes)
    BY PassKeeps, RunningTables, LenProperties, EmptySeq DEF Tables
  <1>2. CASE ExprHandlers
    BY <1>2, ExprsHandled DEF WalkInv, ExprHandled
  <1>3. CASE DeclareVariable
    <2>1. PICK x \in Symbol : scopes' = [scopes EXCEPT ![Len(scopes)] = Append(@, x)]
      BY <1>3, Declaration
    <2> DEFINE n == Len(scopes)
               t == Append(scopes[n], x)
    <2>2. n \in 1..Len(scopes) /\ scopes[n] \in Seq(Symbol)
      BY <1>1
    <2>3. t \in Seq(Symbol)
      BY <2>1, <2>2, AddEntry
    <2>4. scopes' = [scopes EXCEPT ![n] = t] /\ n # 1
      BY <1>1, <2>1
    <2> HIDE DEF t, n
    <2>5. \A j \in 1..Len(scopes) : j # n => scopes'[j] = scopes[j]
      BY <1>1, <2>2, <2>3, <2>4, SetTable
    <2> QED BY <1>1, <2>4, <2>5
  <1>4. CASE StmtHandlers /\ ~DeclareVariable
    BY <1>4, StmtsHandled DEF WalkInv, StmtHandled
  <1>5. CASE AssignStmt \/ GlobalAssign
    BY <1>5, AssignHandled, GlobalAssignIs DEF AssignBegun
  <1>6. CASE Conditional
    <2>1. scopes' = Append(scopes, <<>>)
      BY <1>6, ConditionalIs
    <2>2. PICK none \in Seq(Symbol) : none = <<>>
      BY <1>1
    <2>3. scopes' = Append(scopes, none)
      BY <2>1, <2>2
    <2>4. \A i \in 1..Len(scopes) : scopes'[i] = scopes[i]
      BY ONLY <1>1, <2>3, SeqOfSeq
    <2> QED BY <1>1, <2>4
  <1>7. CASE TestCondition
    BY <1>7, TestIs
  <1>8. CASE Else
    BY <1>8 DEF Else, Keep, storage
  <1>9. CASE EndWhile \/ EndIf \/ EndDefine
    <2>1. /\ scopes' = PopScope /\ Running
          /\ At("enddefine") \/ At("endwhile") \/ At("endif")
      BY <1>9 DEF EndWhile, EndIf, EndDefine, At
    <2>2. ASSUME NEW k \in {"enddefine", "endwhile", "endif"}, At(k)
          PROVE  Len(scopes) >= 3
      <3>1. depth + NetScopes(k) \in Scopes /\ depth \in Nat /\ depth = Len(scopes)
        BY <2>2, HeadFacts DEF depth
      <3>2. NetScopes(k) = -1
        BY NetTable
      <3> QED BY <3>1, <3>2 DEF Scopes
    <2>3. Len(scopes) >= 3
      BY <2>1, <2>2
    <2>4. scopes' = SubSeq(scopes, 1, Len(scopes) - 1) /\ Len(scopes) >= 1
      BY <1>1, <2>1 DEF PopScope
    <2>5. \A i \in 1..(Len(scopes) - 1) : scopes'[i] = scopes[i]
      BY <1>1, <2>4, Shorter
    <2>6. 1 \in 1..(Len(scopes) - 1)
      BY <1>1, <2>3
    <2> QED BY <2>5, <2>6
  <1> QED BY <1>2, <1>3, <1>4, <1>5, <1>6, <1>7, <1>8, <1>9 DEF PassStep

(* compile_define changes offsets at most.                                 *)
LEMMA FirstDefined ==
    ASSUME CompilerInv, compile_define
    PROVE  LET p == Place(tree[top].id) IN
           /\ 1 \in 1..Len(scopes) /\ scopes[1] \in Seq(Symbol) /\ scopes'[1] \in Seq(Symbol)
           /\ Len(scopes'[1]) = Len(scopes[1])
           /\ BareTable(scopes'[1]) = BareTable(scopes[1])
           /\ \A j \in 1..Len(scopes[1]) :
                 /\ Same(scopes'[1][j], scopes[1][j])
                 /\ p[1] # 1 \/ j # p[2] => scopes'[1][j] = scopes[1][j]
                 /\ p[1] = 1 /\ j = p[2] => scopes'[1][j].offset = Len(text)
  <1> DEFINE f == tree[top]
             p == Place(f.id)
  <1>1. /\ Running /\ f \in TopNode
        /\ \E u \in Seq(Seq(Symbol)) :
              /\ scopes' = Append(u, Params(f, Len(f.params))) /\ Len(u) = Len(scopes)
              /\ \A i \in 1..Len(scopes) : Len(u[i]) = Len(scopes[i])
              /\ \A i \in 1..Len(scopes) : \A j \in 1..Len(scopes[i]) :
                    /\ Same(u[i][j], scopes[i][j])
                    /\ i # p[1] \/ j # p[2] => u[i][j] = scopes[i][j]
                    /\ i = p[1] /\ j = p[2] => u[i][j].offset = Len(text)
    BY DefinedTables
  <1>2. /\ scopes \in Seq(Seq(Symbol)) /\ Len(scopes) \in Nat /\ Len(scopes) >= 2
        /\ 1 \in 1..Len(scopes) /\ scopes[1] \in Seq(Symbol)
    <2>1. scopes \in Seq(Seq(Symbol)) /\ Len(scopes) \in Nat /\ Len(scopes) >= 2
      BY <1>1, RunningTables, LenProperties DEF Tables
    <2> QED BY <2>1
  <1>3. Params(f, Len(f.params)) \in Seq(Symbol)
    BY <1>1, ParamsAre, LenProperties DEF TopNode
  <1> HIDE DEF p, f
  <1>4. PICK w : w = Params(f, Len(f.params))
    OBVIOUS
  <1>5. PICK u \in Seq(Seq(Symbol)) :
              /\ scopes' = Append(u, w) /\ Len(u) = Len(scopes)
              /\ \A i \in 1..Len(scopes) : Len(u[i]) = Len(scopes[i])
              /\ \A i \in 1..Len(scopes) : \A j \in 1..Len(scopes[i]) :
                    /\ Same(u[i][j], scopes[i][j])
                    /\ i # p[1] \/ j # p[2] => u[i][j] = scopes[i][j]
                    /\ i = p[1] /\ j = p[2] => u[i][j].offset = Len(text)
    BY <1>1, <1>4
  <1>6. scopes'[1] = u[1] /\ u[1] \in Seq(Symbol)
    <2>1. w \in Seq(Symbol) /\ u \in Seq(Seq(Symbol))
      BY <1>3, <1>4
    <2>2. \A i \in 1..Len(u) : Append(u, w)[i] = u[i]
      BY ONLY <2>1, SeqOfSeq
    <2>3. 1 \in 1..Len(u)
      BY <1>2, <1>5
    <2> QED BY <1>5, <2>1, <2>2, <2>3
  <1>7. BareTable(u[1]) = BareTable(scopes[1])
    <2>1. BareOf(u) = BareOf(scopes)
      BY <1>2, <1>5, BareKept
    <2>2. BareOf(u)[1] = BareTable(u[1]) /\ BareOf(scopes)[1] = BareTable(scopes[1])
      <3>1. 1 \in 1..Len(u)
        BY <1>2, <1>5
      <3> QED BY <1>2, <3>1, BareIs
    <2> QED BY <2>1, <2>2
  <1>8. \A j \in 1..Len(scopes[1]) :
                 /\ Same(scopes'[1][j], scopes[1][j])
                 /\ p[1] # 1 \/ j # p[2] => scopes'[1][j] = scopes[1][j]
                 /\ p[1] = 1 /\ j = p[2] => scopes'[1][j].offset = Len(text)
    BY <1>2, <1>5, <1>6
  <1>9. Len(scopes'[1]) = Len(scopes[1])
    BY <1>2, <1>5, <1>6
  <1> QED BY <1>2, <1>6, <1>7, <1>8, <1>9 DEF p, f

LEMMA FirstBare ==
    ASSUME CompilerInv, ScopesInv, RelasInv, WalkInv, PassStep
    PROVE  BareTable(scopes'[1]) = BareTable(scopes[1])
  <1>1. CASE compile_define
    BY <1>1, FirstDefined
  <1>2. CASE ~compile_define
    <2>1. scopes'[1] = scopes[1]
      BY <1>2, FirstTable
    <2> QED BY <2>1
  <1> QED BY <1>1, <1>2

(* A pass goes through the tree from the first statement to the last.      *)
LEMMA TopMoves ==
    ASSUME CompilerInv, PassStep
    PROVE  top' = IF todo = <<>> THEN top + 1 ELSE top
  <1>0. \A k : At(k) => todo # <<>>
    BY DEF At
  <1>1. CASE ExprHandlers
    BY <1>0, <1>1 DEF ExprHandlers, compile_load_num, LoadVariable, LoadElement, BinaryExpr, compile_expr_bin,
       NotExpr, compile_expr_not, CallExpr, CallBegin, CallArgument, PushArgument, CallEnd, InExpr,
       ReadExpr, Keep, control
  <1>2. CASE StmtHandlers
    BY <1>0, <1>2 DEF StmtHandlers, Reassign, StoreElement, DeclareVariable, compile_stmt, CallStmt, CallBegin,
       DropResult, OutOrReturn, OutStmt, compile_return, ReadStmt, Keep, control
  <1>3. CASE AssignStmt \/ Conditional
    BY <1>0, <1>3 DEF AssignStmt, Conditional, ReadStmt, Keep, control
  <1>4. CASE TestCondition \/ Else \/ EndWhile \/ EndIf \/ EndDefine
    BY <1>0, <1>4 DEF TestCondition, Else, EndWhile, EndIf, EndDefine, Keep, control
  <1>5. CASE compile_define \/ GlobalAssign
    BY <1>5 DEF compile_define, GlobalAssign, AtTop
  <1> QED BY <1>1, <1>2, <1>3, <1>4, <1>5 DEF PassStep

(* The steps of the first pass, which the second takes again.              *)

(* What a pass begins with.                                                *)
Begin == [top |-> 1, todo |-> <<>>, tables |-> << BareTable(scopes[1]), <<>> >>, reg |-> 0,
          level |-> 0, rip |-> 0, bss |-> 0, frame |-> 0]

(* The node of p that a step reads at the core c, a nodes having been read. *)
Told(c, p, a) == IF Reads(c) THEN p[a + 1] ELSE Stop

(* A step from core c, after a nodes of p, to core d, after b of them.     *)
Step(t, p, c, a, d, b) ==
    /\ Accepts(t, c, Told(c, p, a)) /\ d = Effect(t, c, Told(c, p, a))
    /\ b = IF Reads(c) THEN a + 1 ELSE a
    /\ b <= Len(p)

(* m steps, from the beginning: the cores h, after at nodes each.          *)
Path(t, p, c, m, h, at) ==
    /\ m \in Nat /\ h[0] = c /\ at[0] = 0
    /\ \A i \in 0..m : at[i] \in Nat
    /\ \A i \in 0..(m - 1) : Step(t, p, h[i], at[i], h[i + 1], at[i + 1])

(* The first pass has come to the end of such steps; the second is         *)
(* somewhere on the way.                                                   *)
First(m, h, at)  == Path(tree, prog, Begin, m, h, at) /\ h[m] = Core /\ at[m] = Len(prog)
Second(m, h, at) == /\ Path(tree, prog, Begin, m, h, at)
                    /\ h[m].todo = <<>> /\ h[m].top > Len(tree)
                    /\ \E i \in 0..m : Core = h[i] /\ pc = at[i] + 1

LEMMA StepLonger ==
    ASSUME NEW S, NEW p \in Seq(S), NEW n \in S, NEW t, NEW c, NEW a \in Nat, NEW d, NEW b,
           Step(t, p, c, a, d, b)
    PROVE  Step(t, Append(p, n), c, a, d, b)
  <1>1. /\ Len(p) \in Nat /\ Len(Append(p, n)) = Len(p) + 1
        /\ \A i \in 1..Len(p) : Append(p, n)[i] = p[i]
    OBVIOUS
  <1>2. /\ b = IF Reads(c) THEN a + 1 ELSE a
        /\ b <= Len(p)
    BY DEF Step
  <1>3. Told(c, Append(p, n), a) = Told(c, p, a)
    <2>1. Reads(c) => a + 1 \in 1..Len(p)
      BY <1>1, <1>2
    <2> QED BY <1>1, <2>1 DEF Told
  <1>4. b <= Len(Append(p, n))
    BY <1>1, <1>2
  <1> QED BY <1>2, <1>3, <1>4 DEF Step

LEMMA PathLonger ==
    ASSUME NEW S, NEW p \in Seq(S), NEW n \in S, NEW t, NEW c, NEW m, NEW h, NEW at,
           Path(t, p, c, m, h, at)
    PROVE  Path(t, Append(p, n), c, m, h, at)
  <1>1. ASSUME NEW i \in 0..(m - 1)
        PROVE  Step(t, Append(p, n), h[i], at[i], h[i + 1], at[i + 1])
    <2>1. Step(t, p, h[i], at[i], h[i + 1], at[i + 1])
      BY DEF Path
    <2>2. at[i] \in Nat
      BY DEF Path
    <2> QED BY <2>1, <2>2, StepLonger
  <1> QED BY <1>1 DEF Path

(* One step more, to d and b.                                              *)
Extended(t, p, c, m, h, d, b) ==
    \E g, bt : /\ Path(t, p, c, m + 1, g, bt) /\ g[m + 1] = d /\ bt[m + 1] = b
               /\ \A i \in 0..m : g[i] = h[i]
LEMMA PathOn ==
    ASSUME NEW p, NEW t, NEW c, NEW m, NEW h, NEW at, Path(t, p, c, m, h, at),
           NEW x, h[m] = x, NEW y, at[m] = y,
           NEW d, NEW b \in Nat, Step(t, p, x, y, d, b)
    PROVE  Extended(t, p, c, m, h, d, b)
  <1> DEFINE g  == [i \in 0..(m + 1) |-> IF i = m + 1 THEN d ELSE h[i]]
             bt == [i \in 0..(m + 1) |-> IF i = m + 1 THEN b ELSE at[i]]
  <1>1. m \in Nat /\ m + 1 \in 0..(m + 1) /\ 0 \in 0..m
    BY DEF Path
  <1>2. /\ g[m + 1] = d /\ bt[m + 1] = b /\ \A i \in 0..m : g[i] = h[i] /\ bt[i] = at[i]
    BY <1>1
  <1> HIDE DEF g, bt
  <1>3. \A i \in 0..(m + 1) : bt[i] \in Nat
    <2> TAKE i \in 0..(m + 1)
    <2>1. i \in 0..m \/ i = m + 1
      BY <1>1
    <2> QED BY <1>2, <2>1 DEF Path
  <1>4. ASSUME NEW i \in 0..((m + 1) - 1)
        PROVE  Step(t, p, g[i], bt[i], g[i + 1], bt[i + 1])
    <2>1. CASE i = m
      BY <1>1, <1>2, <2>1
    <2>2. CASE i # m
      <3>1. i \in 0..(m - 1) /\ i \in 0..m /\ i + 1 \in 0..m
        BY <1>1, <2>2
      <3>2. Step(t, p, h[i], at[i], h[i + 1], at[i + 1])
        BY <3>1 DEF Path
      <3> QED BY <1>2, <3>1, <3>2
    <2> QED BY <2>1, <2>2
  <1>5. g[0] = c /\ bt[0] = 0 /\ m + 1 \in Nat
    BY <1>1, <1>2 DEF Path
  <1>6. Path(t, p, c, m + 1, g, bt)
    BY <1>3, <1>4, <1>5 DEF Path
  <1> QED BY <1>2, <1>6 DEF Extended

(* The tables a pass begins with.                                          *)
LEMMA BeginTables ==
    ASSUME NEW s \in Seq(Seq(Symbol)), Len(s) = 2, s[2] = <<>>
    PROVE  BareOf(s) = << BareTable(s[1]), <<>> >>
  <1> DEFINE b == BareOf(s)
  <1>1. /\ b \in Seq(Seq(Symbol)) /\ Len(b) = 2
        /\ \A i \in 1..Len(s) : b[i] = BareTable(s[i]) /\ Len(b[i]) = Len(s[i])
    BY BareIs
  <1> HIDE DEF b
  <1>2. 1 \in 1..Len(s) /\ 2 \in 1..Len(s) /\ Len(<<>>) = 0
    BY EmptySeq
  <1>3. b[2] = <<>>
    <2>1. b[2] \in Seq(Symbol)
      <3>1. b \in Seq(Seq(Symbol)) /\ 2 \in 1..Len(b)
        <4>1. b \in Seq(Seq(Symbol)) /\ Len(b) = 2
          BY <1>1
        <4> QED BY ONLY <4>1
      <3> DEFINE S == Seq(Symbol)
      <3>2. b \in Seq(S) /\ 2 \in 1..Len(b)
        BY <3>1
      <3> HIDE DEF S
      <3>3. b[2] \in S
        BY <3>2, ElementOfSeq
      <3> QED BY <3>3 DEF S
    <2>2. Len(b[2]) = Len(s[2]) /\ s[2] = <<>>
      BY <1>1, <1>2
    <2>3. Len(b[2]) = 0
      BY <1>2, <2>2
    <2> HIDE <2>2
    <2> QED BY <2>1, <2>3, EmptySeq
  <1>4. b[1] = BareTable(s[1])
    BY <1>1, <1>2
  <1> DEFINE S == Seq(Symbol)
  <1>5. b \in Seq(S)
    BY <1>1
  <1> HIDE DEF S
  <1>6. b = << b[1], b[2] >>
    BY <1>1, <1>5
  <1> QED BY <1>3, <1>4, <1>6 DEF b

(* A step of the first pass.                                               *)
LEMMA FirstStep ==
    ASSUME CompilerInv, ScopesInv, RelasInv, WalkInv, PassStep, phase = "pass1",
           NEW m, NEW h, NEW at, First(m, h, at)
    PROVE  \E k, g, bt : First(k, g, bt)' /\ k = m + 1 /\ \A i \in 0..m : g[i] = h[i]
  <1>1. PICK n : Given(n) /\ Took(n) /\ Accepts(tree, Core, n) /\ Core' = Effect(tree, Core, n)
    BY PassRegular DEF Regular
  <1>2. /\ Path(tree, prog, Begin, m, h, at) /\ h[m] = Core /\ at[m] = Len(prog)
        /\ tree' = tree /\ prog \in Seq(Exprs \union Stmts \union {Next1, Stop})
        /\ prog' \in Seq(Exprs \union Stmts \union {Next1, Stop}) /\ Begin' = Begin
    <2>1. tree' = tree
      BY PassKeeps
    <2>2. Begin' = Begin
      BY FirstBare DEF Begin
    <2>3. prog' \in Seq(Exprs \union Stmts \union {Next1, Stop})
      <3>1. CompilerInv'
        <4>1. [Next]_vars
          BY DEF PassStep, ExprHandlers, StmtHandlers, Next
        <4> QED BY <4>1, StepInv
      <3> QED BY <3>1 DEF CompilerInv, TypeOK
    <2> QED BY <2>1, <2>2, <2>3 DEF First, CompilerInv, TypeOK
  <1> PICK c : c = Core
    OBVIOUS
  <1> PICK d : d = Core'
    OBVIOUS
  <1> PICK e : e = Begin
    OBVIOUS
  <1> DEFINE S == Exprs \union Stmts \union {Next1, Stop}
             b == IF Reads(c) THEN Len(prog) + 1 ELSE Len(prog)
  <1>3. c = Core /\ Len(prog) \in Nat /\ prog \in Seq(S) /\ prog' \in Seq(S) /\ b \in Nat
    BY <1>2
  <1>4. IF Reads(c) THEN prog' = Append(prog, n) ELSE prog' = prog /\ n = Stop
    BY <1>1 DEF Took
  <1>5. Accepts(tree, c, n) /\ d = Effect(tree, c, n)
    BY <1>1
  <1>6. Path(tree, prog, e, m, h, at) /\ h[m] = c /\ at[m] = Len(prog)
    BY <1>2
  <1> HIDE DEF S
  <1>7. n \in S \/ ~Reads(c)
    <2> SUFFICES ASSUME Reads(c)
                 PROVE  n \in S
      OBVIOUS
    <2>1. prog' = Append(prog, n) /\ prog' \in Seq(S) /\ prog \in Seq(S)
      BY <1>3, <1>4
    <2>2. Len(prog') = Len(prog) + 1 /\ prog'[Len(prog) + 1] = n
      <3>1. prog \in Seq(S \union {n}) /\ n \in S \union {n}
        BY <1>3
      <3> QED BY <2>1, <3>1, AddEntry
    <2>3. Len(prog) + 1 \in 1..Len(prog')
      BY <1>3, <2>2
    <2>4. prog'[Len(prog) + 1] \in S
      BY <2>1, <2>3, ElementOfSeq
    <2> QED BY <2>2, <2>4
  <1>8. Path(tree, prog', e, m, h, at)
    <2>1. CASE Reads(c)
      <3>1. prog \in Seq(S) /\ n \in S /\ prog' = Append(prog, n) /\ Path(tree, prog, e, m, h, at)
        BY <1>3, <1>4, <1>6, <1>7, <2>1
      <3>2. Path(tree, Append(prog, n), e, m, h, at)
        BY ONLY <3>1, PathLonger
      <3> QED BY <3>1, <3>2
    <2>2. CASE ~Reads(c)
      BY <1>4, <1>6, <2>2
    <2> QED BY <2>1, <2>2
  <1>9. b = Len(prog') /\ Told(c, prog', Len(prog)) = n
    <2>1. CASE Reads(c)
      <3>1. prog \in Seq(S) /\ n \in S /\ prog' = Append(prog, n)
        BY <1>3, <1>4, <1>7, <2>1
      <3>2. Len(prog') = Len(prog) + 1 /\ prog'[Len(prog) + 1] = n
        BY <3>1, AddEntry
      <3> QED BY <2>1, <3>2 DEF Told
    <2>2. CASE ~Reads(c)
      BY <1>4, <2>2 DEF Told
    <2> QED BY <2>1, <2>2
  <1>10. Step(tree, prog', h[m], at[m], d, b)
    <2>1. Accepts(tree, c, Told(c, prog', Len(prog))) /\ d = Effect(tree, c, Told(c, prog', Len(prog)))
      BY <1>5, <1>9
    <2>2. Len(prog') \in Nat /\ b <= Len(prog')
      BY <1>3, <1>9
    <2> QED BY <1>6, <2>1, <2>2 DEF Step
  <1>11. PICK q : q = prog'
    OBVIOUS
  <1>12. PICK g, bt : /\ Path(tree, q, e, m + 1, g, bt) /\ g[m + 1] = d /\ bt[m + 1] = b
                      /\ \A i \in 0..m : g[i] = h[i]
    <2>1. PICK v : v = b
      OBVIOUS
    <2>0. PICK x, y : x = h[m] /\ y = at[m]
      OBVIOUS
    <2>2. Path(tree, q, e, m, h, at) /\ v \in Nat /\ h[m] = x /\ at[m] = y /\ Step(tree, q, x, y, d, v)
      BY <1>3, <1>8, <1>10, <1>11, <2>0, <2>1
    <2>3. Extended(tree, q, e, m, h, d, v)
      BY ONLY <2>2, PathOn
    <2> QED BY <2>1, <2>3 DEF Extended
  <1>13. Path(tree', prog', Begin', m + 1, g, bt)
    BY <1>2, <1>11, <1>12
  <1>14. Path(tree, prog, Begin, m + 1, g, bt)'
    BY <1>13 DEF Path, Step
  <1>15. First(m + 1, g, bt)'
    BY <1>9, <1>12, <1>14 DEF First
  <1> QED BY <1>12, <1>15

(* Where the functions are.                                                *)

(* A step at the top level compiles the next statement.                    *)
LEMMA TopStep ==
    ASSUME CompilerInv, PassStep
    PROVE  /\ compile_define => todo = <<>>
           /\ todo = <<>> => /\ top \in 1..Len(tree)
                             /\ tree[top].k = "define" => compile_define
           /\ compile_define => tree[top].k = "define"
  <1>1. CASE todo # <<>>
    BY <1>1 DEF compile_define, AtTop
  <1>2. CASE todo = <<>>
    <2>1. compile_define \/ GlobalAssign
      BY <1>2 DEF PassStep, ExprHandlers, StmtHandlers, compile_load_num, LoadVariable, LoadElement, BinaryExpr,
         compile_expr_bin, NotExpr, compile_expr_not, CallExpr, CallArgument, PushArgument, CallEnd, InExpr,
         Reassign, StoreElement, DeclareVariable, compile_stmt, CallStmt, DropResult, OutOrReturn, OutStmt,
         compile_return, AssignStmt, Conditional, TestCondition, Else, EndWhile, EndIf, EndDefine,
         ReadExpr, ReadStmt, At
    <2>2. top <= Len(tree) /\ top \in Nat \ {0} /\ Len(tree) \in Nat
      BY <2>1, TreesAssumption, LenProperties DEF compile_define, GlobalAssign, AtTop, CompilerInv, TypeOK
    <2>3. GlobalAssign => tree[top].k # "define"
      BY DEF GlobalAssign, AtTop
    <2>4. compile_define => tree[top].k = "define"
      BY DEF compile_define, AtTop
    <2> QED BY <1>2, <2>1, <2>2, <2>3, <2>4
  <1> QED BY <1>1, <1>2

(* With a function of that name in the table of functions, find_symbol     *)
(* finds that one.                                                         *)
LEMMA FunctionPlace ==
    ASSUME CompilerInv, ScopesInv, Running, NEW k \in 1..Len(scopes[1])
    PROVE  LET id == scopes[1][k].id IN Found(id) /\ Place(id)[1] = 1 /\ Place(id)[2] = k
  <1> DEFINE id == scopes[1][k].id
             p  == Place(id)
  <1>1. /\ scopes \in Seq(Seq(Symbol)) /\ 1 \in 1..Len(scopes)
    <2>1. scopes \in Seq(Seq(Symbol)) /\ Len(scopes) \in Nat /\ Len(scopes) >= 2
      BY RunningTables, LenProperties DEF Tables
    <2> QED BY <2>1
  <1>2. <<1, k>> \in Hits(id)
    <2>1. <<1, k>> \in Places
      BY <1>1 DEF Places
    <2> QED BY <2>1 DEF Hits
  <1>3. Found(id)
    BY <1>2 DEF Found
  <1> HIDE DEF id
  <1>4. /\ p \in Hits(id) /\ p[1] \in 1..Len(scopes) /\ p[2] \in 1..Len(scopes[p[1]])
        /\ \A q \in Hits(id) : p[1] < q[1] \/ (p[1] = q[1] /\ p[2] <= q[2])
    BY <1>1, <1>3, FirstPlace
  <1>5. p[1] = 1
    <2>1. p[1] < 1 \/ p[1] = 1
      BY <1>2, <1>4
    <2>2. p[1] \in 1..Len(scopes)
      BY <1>4
    <2> HIDE DEF p
    <2> QED BY <2>1, <2>2
  <1>6. p[2] \in 1..Len(scopes[1]) /\ scopes[1][p[2]].id = id
    <2>1. scopes[p[1]][p[2]].id = id
      BY <1>4 DEF Hits
    <2> QED BY <1>4, <1>5, <2>1
  <1> HIDE DEF p
  <1>7. p[2] = k
    <2>1. ASSUME p[2] # k
          PROVE  FALSE
      <3>1. PICK l \in 1..Len(scopes[1]) : l = p[2]
        BY <1>6
      <3>2. <<1, l>> # <<1, k>>
        BY <2>1, <3>1
      <3>3. Differ(scopes, 1, l, 1, k, bss, frame)
        BY <1>1, <3>2 DEF ScopesInv, ScopesOK
      <3> QED BY <1>6, <3>1, <3>3 DEF Differ, id
    <2> QED BY <2>1
  <1> QED BY <1>3, <1>5, <1>7 DEF p, id

(* The functions compiled before the last of the cores h are where these   *)
(* say they are.                                                           *)
PlacedAt(id, address) ==
    \E k \in 1..Len(scopes[1]) : scopes[1][k].id = id /\ scopes[1][k].offset = address
Placed(m, h) ==
    \A i \in 0..(m - 1) : h[i].todo = <<>> =>
       /\ h[i].top \in 1..Len(tree) /\ h[i].top < h[m].top
       /\ tree[h[i].top].k = "define" => PlacedAt(tree[h[i].top].id, h[i].rip)

(* In the first pass a function is placed once;                            *)
LEMMA PlacedKept ==
    ASSUME CompilerInv, ScopesInv, RelasInv, WalkInv, PassStep, DistinctFunctions,
           NEW i \in 1..Len(tree), i < top, tree[i].k = "define",
           NEW address, PlacedAt(tree[i].id, address)
    PROVE  PlacedAt(tree[i].id, address)'
  <1>0. tree' = tree
    BY PassKeeps
  <1>1. CASE ~compile_define
    <2>1. scopes'[1] = scopes[1]
      BY <1>1, FirstTable
    <2> QED BY <1>0, <2>1 DEF PlacedAt
  <1>2. CASE compile_define
    <2>1. PICK k \in 1..Len(scopes[1]) : scopes[1][k].id = tree[i].id /\ scopes[1][k].offset = address
      BY DEF PlacedAt
    <2>2. Running /\ todo = <<>> /\ top \in 1..Len(tree) /\ tree[top].k = "define"
      BY <1>2, TopStep DEF compile_define, AtTop
    <2>3. tree[i].id # tree[top].id
      BY <2>2 DEF DistinctFunctions
    <2> DEFINE p == Place(tree[top].id)
    <2>4. ~(p[1] = 1 /\ p[2] = k)
      <3>1. p \in Hits(tree[top].id)
        BY <1>2, DefinedTables
      <3>2. scopes[p[1]][p[2]].id = tree[top].id
        BY <3>1 DEF Hits
      <3> HIDE DEF p
      <3> QED BY <2>1, <2>3, <3>2
    <2>5. /\ Len(scopes'[1]) = Len(scopes[1])
          /\ p[1] # 1 \/ k # p[2] => scopes'[1][k] = scopes[1][k]
      BY <1>2, FirstDefined
    <2>6. scopes'[1][k] = scopes[1][k] /\ k \in 1..Len(scopes'[1])
      BY <2>4, <2>5
    <2> QED BY <1>0, <2>1, <2>6 DEF PlacedAt
  <1> QED BY <1>1, <1>2

LEMMA PlacedNow ==
    ASSUME CompilerInv, ScopesInv, DeclaresOK, compile_define,
           NEW id, id = tree[top].id, NEW address, address = Len(text)
    PROVE  PlacedAt(id, address)'
  <1>1. Running /\ top \in 1..Len(tree) /\ tree[top].k = "define"
    BY TopStep DEF compile_define, AtTop, PassStep
  <1>2. tree[top].id \in FunctionNames
    BY <1>1 DEF DeclaresOK, DefinedIn
  <1>3. PICK k \in 1..Len(scopes[1]) : scopes[1][k].id = tree[top].id
    BY <1>2 DEF FunctionNames
  <1> DEFINE p == Place(tree[top].id)
  <1>4. p[1] = 1 /\ p[2] = k
    BY <1>1, <1>3, FunctionPlace
  <1>5. /\ Len(scopes'[1]) = Len(scopes[1]) /\ Same(scopes'[1][k], scopes[1][k])
        /\ p[1] = 1 /\ k = p[2] => scopes'[1][k].offset = Len(text)
    BY FirstDefined
  <1> QED BY <1>3, <1>4, <1>5 DEF PlacedAt, Same

(* In the second it is placed where it was.                                *)
LEMMA PlacedAgain ==
    ASSUME CompilerInv, ScopesInv, compile_define, PlacedAt(tree[top].id, Len(text))
    PROVE  scopes'[1] = scopes[1]
  <1>1. Running
    BY DEF compile_define, AtTop
  <1>2. PICK k \in 1..Len(scopes[1]) : scopes[1][k].id = tree[top].id /\ scopes[1][k].offset = Len(text)
    BY DEF PlacedAt
  <1> DEFINE p == Place(tree[top].id)
             s == scopes[1]
             u == scopes'[1]
  <1>3. p[1] = 1 /\ p[2] = k
    BY <1>1, <1>2, FunctionPlace
  <1>4. /\ s \in Seq(Symbol) /\ u \in Seq(Symbol) /\ Len(u) = Len(s)
        /\ \A j \in 1..Len(s) :
              /\ Same(u[j], s[j])
              /\ p[1] # 1 \/ j # p[2] => u[j] = s[j]
              /\ p[1] = 1 /\ j = p[2] => u[j].offset = Len(text)
    BY FirstDefined
  <1>5. k \in 1..Len(s) /\ s[k].offset = Len(text)
    BY <1>2
  <1> HIDE DEF p, s, u
  <1>6. ASSUME NEW j \in 1..Len(s)
        PROVE  u[j] = s[j]
    <2>1. CASE j # k
      BY <1>3, <1>4, <2>1
    <2>2. CASE j = k
      <3>1. PICK x \in Symbol : x = s[j]
        BY <1>4
      <3>2. PICK y \in Symbol : y = u[j]
        BY <1>4
      <3>3. Same(y, x) /\ y.offset = x.offset
        BY <1>3, <1>4, <1>5, <2>2, <3>1, <3>2
      <3>4. y = x
        BY <3>3 DEF Same, Symbol
      <3> QED BY <3>1, <3>2, <3>4
    <2> QED BY <2>1, <2>2
  <1>7. u = s
    BY <1>4, <1>6, SeqEqual
  <1> QED BY <1>7 DEF s, u

(* The second pass does what the first did.                                *)
OnPath(m, h) == DistinctFunctions => DeclaresOK /\ Placed(m, h)

LEMMA FirstOnPath ==
    ASSUME CompilerInv, ScopesInv, RelasInv, WalkInv, PassStep, phase = "pass1",
           NEW m, NEW h, NEW at, First(m, h, at), OnPath(m, h)
    PROVE  \E k, g, bt : First(k, g, bt)' /\ OnPath(k, g)'
  <1>1. PICK k, g, bt : First(k, g, bt)' /\ k = m + 1 /\ \A i \in 0..m : g[i] = h[i]
    BY FirstStep
  <1>2. /\ m \in Nat /\ h[m] = Core /\ tree' = tree /\ g[k] = Core'
    BY <1>1, PassKeeps DEF First, Path
  <1>3. h[m].todo = todo /\ h[m].top = top /\ h[m].rip = Len(text) /\ g[k].top = top' /\ top \in Nat
    BY <1>2 DEF Core, CompilerInv, TypeOK
  <1>4. top' = IF todo = <<>> THEN top + 1 ELSE top
    BY TopMoves
  <1>5. [Next]_vars
    BY DEF PassStep, ExprHandlers, StmtHandlers, Next
  <1>6. ASSUME DistinctFunctions
        PROVE  DeclaresOK' /\ Placed(k, g)'
    <2>1. DeclaresOK /\ Placed(m, h)
      BY <1>6 DEF OnPath
    <2>2. DeclaresOK'
      BY <1>5, <1>6, <2>1, DeclaresStep
    <2>3. ASSUME NEW i \in 0..(k - 1), g[i].todo = <<>>
          PROVE  /\ g[i].top \in 1..Len(tree) /\ g[i].top < g[k].top
                 /\ tree[g[i].top].k = "define" => PlacedAt(tree[g[i].top].id, g[i].rip)'
      <3>1. i \in 0..m /\ g[i] = h[i]
        BY <1>1, <1>2
      <3>2. CASE i = m
        <4>1. h[m].todo = <<>> /\ todo = <<>>
          BY <1>3, <2>3, <3>1, <3>2
        <4>2. top \in 1..Len(tree) /\ (tree[top].k = "define" => compile_define)
          BY <4>1, TopStep
        <4>3. g[i].top = top /\ g[i].rip = Len(text)
          BY <1>3, <3>1, <3>2
        <4>4. tree[top].k = "define" => PlacedAt(tree[g[i].top].id, g[i].rip)'
          <5>1. PICK id, address : id = tree[top].id /\ address = Len(text)
            OBVIOUS
          <5>2. tree[top].k = "define" => PlacedAt(id, address)'
            BY <2>1, <4>2, <5>1, PlacedNow
          <5>3. tree[g[i].top].id = id /\ g[i].rip = address
            BY <4>3, <5>1
          <5> QED BY <1>2, <5>2, <5>3 DEF PlacedAt
        <4> QED BY <1>3, <1>4, <4>1, <4>2, <4>3, <4>4
      <3>3. CASE i # m
        <4>1. i \in 0..(m - 1)
          BY <1>2, <3>1, <3>3
        <4>2. /\ h[i].top \in 1..Len(tree) /\ h[i].top < top
              /\ tree[h[i].top].k = "define" => PlacedAt(tree[h[i].top].id, h[i].rip)
          BY <1>3, <2>1, <2>3, <3>1, <4>1 DEF Placed
        <4>3. PICK j \in 1..Len(tree) : j = h[i].top
          BY <4>2
        <4>4. PICK address : address = h[i].rip
          OBVIOUS
        <4>5. j < top /\ (tree[j].k = "define" => PlacedAt(tree[j].id, address))
          BY <4>2, <4>3, <4>4
        <4>6. tree[j].k = "define" => PlacedAt(tree[j].id, address)'
          BY <1>6, <4>5, PlacedKept
        <4>7. j < top'
          BY <1>3, <1>4, <4>5
        <4> QED BY <1>2, <1>3, <3>1, <4>3, <4>4, <4>6, <4>7 DEF PlacedAt
      <3> QED BY <3>2, <3>3
    <2>4. Placed(k, g)'
      BY <1>2, <2>3 DEF Placed, PlacedAt
    <2> QED BY <2>2, <2>4
  <1>7. DistinctFunctions' => DistinctFunctions
    BY <1>2 DEF DistinctFunctions
  <1> QED BY <1>1, <1>6, <1>7 DEF OnPath

(* Where the second pass is, the first came by, and went on.               *)
LEMMA SecondIs ==
    ASSUME CompilerInv, phase = "pass2", NEW m, NEW h, NEW at, Second(m, h, at),
           todo # <<>> \/ top <= Len(tree)
    PROVE  \E i \in 0..(m - 1) :
              /\ Core = h[i] /\ pc = at[i] + 1
              /\ \A n : Given(n) /\ (Reads(Core) \/ n = Stop) => n = Told(h[i], prog, at[i])
              /\ Step(tree, prog, h[i], at[i], h[i + 1], at[i + 1])
  <1>1. PICK i \in 0..m : Core = h[i] /\ pc = at[i] + 1
    BY DEF Second
  <1>2. m \in Nat /\ h[m].todo = <<>> /\ h[m].top > Len(tree)
    BY DEF Second, Path
  <1>3. Core.todo = todo /\ Core.top = top /\ top \in Nat /\ Len(tree) \in Nat
    BY TreesAssumption, LenProperties DEF Core, CompilerInv, TypeOK
  <1>4. i # m
    <2>1. ASSUME i = m
          PROVE  FALSE
      <3>1. todo = <<>> /\ top > Len(tree)
        BY <1>1, <1>2, <1>3, <2>1
      <3> QED BY <1>3, <3>1
    <2> QED BY <2>1
  <1>5. i \in 0..(m - 1)
    BY <1>2, <1>4
  <1>6. Step(tree, prog, h[i], at[i], h[i + 1], at[i + 1])
    BY <1>5 DEF Second, Path
  <1>7. \A n : Given(n) /\ (Reads(Core) \/ n = Stop) => n = Told(h[i], prog, at[i])
    BY <1>1 DEF Given, Told
  <1> QED BY <1>1, <1>5, <1>6, <1>7

LEMMA SecondStep ==
    ASSUME CompilerInv, ScopesInv, RelasInv, WalkInv, PassStep, phase = "pass2",
           NEW m, NEW h, NEW at, Second(m, h, at), OnPath(m, h)
    PROVE  /\ Second(m, h, at)' /\ OnPath(m, h)'
           /\ DistinctFunctions => scopes'[1] = scopes[1]
  <1>1. PICK n : Given(n) /\ Took(n) /\ Accepts(tree, Core, n) /\ Core' = Effect(tree, Core, n)
    BY PassRegular DEF Regular
  <1>2. tree' = tree /\ Begin' = Begin /\ [Next]_vars
    BY PassKeeps, FirstBare DEF Begin, PassStep, ExprHandlers, StmtHandlers, Next
  <1>3. /\ prog' = prog /\ pc' = IF Reads(Core) THEN pc + 1 ELSE pc
        /\ Reads(Core) \/ n = Stop
    BY <1>1 DEF Took
  <1>4. todo # <<>> \/ top <= Len(tree)
    <2>1. todo = <<>> => top \in 1..Len(tree)
      BY TopStep
    <2> QED BY <2>1
  <1>5. PICK i \in 0..(m - 1) :
              /\ Core = h[i] /\ pc = at[i] + 1
              /\ n = Told(h[i], prog, at[i])
              /\ Step(tree, prog, h[i], at[i], h[i + 1], at[i + 1])
    BY <1>1, <1>3, <1>4, SecondIs
  <1>6. m \in Nat /\ i + 1 \in 0..m /\ at[i] \in Nat /\ i \in 0..m
    <2>1. m \in Nat
      BY DEF Second, Path
    <2>2. i + 1 \in 0..m /\ i \in 0..m
      BY <2>1
    <2> QED BY <2>1, <2>2 DEF Second, Path
  <1>7. Core' = h[i + 1] /\ pc' = at[i + 1] + 1
    <2>1. Core' = h[i + 1]
      BY <1>1, <1>5 DEF Step
    <2>2. at[i + 1] = IF Reads(h[i]) THEN at[i] + 1 ELSE at[i]
      BY <1>5 DEF Step
    <2>3. Reads(Core) <=> Reads(h[i])
      BY <1>5
    <2>4. pc' = at[i + 1] + 1
      BY <1>3, <1>5, <1>6, <2>2, <2>3
    <2> QED BY <2>1, <2>4
  <1>8. Second(m, h, at)'
    <2>1. Path(tree', prog', Begin', m, h, at)
      BY <1>2, <1>3 DEF Second
    <2>2. Path(tree, prog, Begin, m, h, at)'
      BY <2>1 DEF Path, Step
    <2> QED BY <1>2, <1>6, <1>7, <2>2 DEF Second
  <1>9. ASSUME DistinctFunctions
        PROVE  DeclaresOK' /\ Placed(m, h)' /\ scopes'[1] = scopes[1]
    <2>1. DeclaresOK /\ Placed(m, h)
      BY <1>9 DEF OnPath
    <2>2. DeclaresOK'
      BY <1>2, <1>9, <2>1, DeclaresStep
    <2>3. scopes'[1] = scopes[1]
      <3>1. CASE ~compile_define
        BY <3>1, FirstTable
      <3>2. CASE compile_define
        <4>1. todo = <<>> /\ tree[top].k = "define"
          BY <3>2, TopStep
        <4>2. h[i].todo = <<>> /\ h[i].top = top /\ h[i].rip = Len(text)
          BY <1>5, <4>1 DEF Core
        <4>3. PlacedAt(tree[top].id, Len(text))
          BY <2>1, <4>1, <4>2 DEF Placed
        <4> QED BY <3>2, <4>3, PlacedAgain
      <3> QED BY <3>1, <3>2
    <2>4. Placed(m, h)'
      BY <1>2, <2>1, <2>3 DEF Placed, PlacedAt
    <2> QED BY <2>2, <2>3, <2>4
  <1>10. DistinctFunctions' => DistinctFunctions
    BY <1>2 DEF DistinctFunctions
  <1> QED BY <1>8, <1>9, <1>10 DEF OnPath

(* It refuses nothing.                                                     *)
LEMMA SecondAccepts ==
    ASSUME CompilerInv, phase = "pass2", NEW m, NEW h, NEW at, Second(m, h, at)
    PROVE  ~Rejections
  <1> SUFFICES ASSUME Rejections
               PROVE  FALSE
    OBVIOUS
  <1>1. PICK n : Given(n) /\ (Reads(Core) \/ n = Stop) /\ ~Accepts(tree, Core, n)
    BY RejectionsRefused DEF Refused
  <1>2. todo # <<>> \/ top <= Len(tree)
    BY DEF Rejections, DefineRejected, VariableRejected, OperatorRejected, CallRejected, AssignRejected,
       CallStmtRejected, ReadExpr, ReadStmt, At, AtTop
  <1>3. PICK i \in 0..(m - 1) :
              /\ Core = h[i] /\ n = Told(h[i], prog, at[i])
              /\ Step(tree, prog, h[i], at[i], h[i + 1], at[i + 1])
    BY <1>1, <1>2, SecondIs
  <1>4. Accepts(tree, Core, n)
    BY <1>3 DEF Step
  <1> QED BY <1>1, <1>4

(* Until the second pass, what the first has done; then, that the second   *)
(* does it again.                                                          *)
FirstWay  == \E m, h, at : First(m, h, at) /\ OnPath(m, h)
SecondWay == \E m, h, at : Second(m, h, at) /\ OnPath(m, h)
PassInv ==
    /\ phase = "declare" => prog = <<>> /\ pc = 1 /\ text = <<>> /\ bss = 0
    /\ phase = "pass1" => pc = 1 /\ FirstWay
    /\ phase = "pass2" => SecondWay
    /\ outcome # "second"
    /\ DistinctFunctions => DeclaresOK

LEMMA AppendedTable ==
    ASSUME NEW S, NEW s \in Seq(S), NEW e \in S, Len(s) = 1
    PROVE  Append(s, e) \in Seq(S) /\ Len(Append(s, e)) = 2 /\ Append(s, e)[2] = e
  <1>1. /\ Append(s, e) \in Seq(S) /\ Len(Append(s, e)) = Len(s) + 1
        /\ Append(s, e)[Len(s) + 1] = e
    BY AppendProperties
  <1> QED BY <1>1

LEMMA DeclaredWay ==
    ASSUME CompilerInv, ScopesInv, RelasInv, WalkInv, FramesInv, PassInv, Declared, phase' = "pass1",
           DistinctFunctions => DeclaresOK'
    PROVE  pc' = 1 /\ FirstWay'
  <1>1. /\ phase = "declare" /\ scopes' = Append(scopes, <<>>) /\ top' = 1
        /\ UNCHANGED <<tree, prog, pc, absent, todo, reg, text, bss, frame>>
    BY DEF Declared, source, code
  <1>2. /\ prog = <<>> /\ pc = 1 /\ text = <<>> /\ bss = 0 /\ frame = 0 /\ reg = 0 /\ absent = 0 /\ todo = <<>>
        /\ scopes \in Seq(Seq(Symbol)) /\ Len(scopes) = 1
    BY <1>1 DEF PassInv, FramesInv, CompilerInv, TypeOK, TablesOpen, depth
  <1>3. /\ scopes' \in Seq(Seq(Symbol)) /\ Len(scopes') = 2 /\ scopes'[2] = <<>>
    <2> DEFINE S == Seq(Symbol)
    <2>1. scopes \in Seq(S) /\ <<>> \in S /\ Len(scopes) = 1
      BY <1>2
    <2> HIDE DEF S
    <2>2. Append(scopes, <<>>) \in Seq(S) /\ Len(Append(scopes, <<>>)) = 2 /\ Append(scopes, <<>>)[2] = <<>>
      BY ONLY <2>1, AppendedTable
    <2> QED BY <1>1, <2>2 DEF S
  <1>4. BareOf(scopes') = << BareTable(scopes'[1]), <<>> >>
    BY <1>3, BeginTables
  <1>5. Len(text') = 0 /\ Len(prog') = 0
    BY <1>1, <1>2, EmptySeq
  <1>13. level' = 0
    BY <1>1, <1>2 DEF level
  <1>6. Core' = Begin'
    BY <1>13, <1>1, <1>2, <1>4, <1>5 DEF Core, Begin
  <1>0. PICK e : e = Core'
    OBVIOUS
  <1> DEFINE h  == [i \in 0..0 |-> e]
             at == [i \in 0..0 |-> 0]
  <1>7. h[0] = e /\ at[0] = 0 /\ (\A i \in 0..0 : at[i] = 0)
    OBVIOUS
  <1> HIDE DEF h, at
  <1>8. 0..(0 - 1) = {}
    OBVIOUS
  <1>9. Path(tree', prog', Begin', 0, h, at)
    BY <1>0, <1>6, <1>7, <1>8 DEF Path
  <1>10. First(0, h, at)'
    <2>1. Path(tree, prog, Begin, 0, h, at)'
      BY <1>9 DEF Path, Step
    <2> QED BY <1>0, <1>5, <1>7, <2>1 DEF First
  <1>11. DistinctFunctions' => DistinctFunctions
    BY <1>1 DEF DistinctFunctions
  <1>12. OnPath(0, h)'
    <2>1. Placed(0, h)'
      BY <1>8 DEF Placed
    <2> QED BY <1>11, <2>1 DEF OnPath
  <1> QED BY <1>1, <1>2, <1>10, <1>12 DEF FirstWay

LEMMA AgainWay ==
    ASSUME CompilerInv, ScopesInv, RelasInv, WalkInv, FramesInv, PassInv, SecondPass, phase' = "pass2",
           DistinctFunctions => DeclaresOK'
    PROVE  SecondWay'
  <1>1. /\ phase = "pass1" /\ todo = <<>> /\ top > Len(tree) /\ text' = <<>> /\ bss' = 0 /\ top' = 1
        /\ scopes' = [scopes EXCEPT ![2] = <<>>]
        /\ UNCHANGED <<tree, prog, pc, absent, todo, reg, frame>> /\ reg = 0
    BY DEF SecondPass, section_free, free_array, source
  <1>2. scopes \in Seq(Seq(Symbol)) /\ Len(scopes) = 2 /\ reg = 0 /\ level = 0 /\ frame = 0 /\ pc = 1
    <2>1. Running
      BY <1>1 DEF Running
    <2>2. reg = 0 /\ level = 0 /\ Len(scopes) = 2
      BY <1>1, <2>1, TopFacts DEF depth
    <2>3. frame = 0
      BY <1>1, <2>1 DEF FramesInv, InFunction, Outside
    <2> QED BY <1>1, <2>2, <2>3 DEF CompilerInv, TypeOK, PassInv
  <1>3. /\ scopes' \in Seq(Seq(Symbol)) /\ Len(scopes') = 2 /\ scopes'[2] = <<>> /\ scopes'[1] = scopes[1]
    <2> DEFINE S == Seq(Symbol)
    <2>1. scopes \in Seq(S) /\ <<>> \in S /\ Len(scopes) = 2
      BY <1>2
    <2> HIDE DEF S
    <2>2. [scopes EXCEPT ![2] = <<>>] \in Seq(S) /\ Len([scopes EXCEPT ![2] = <<>>]) = 2
          /\ [scopes EXCEPT ![2] = <<>>][2] = <<>> /\ [scopes EXCEPT ![2] = <<>>][1] = scopes[1]
      BY <2>1
    <2> QED BY <1>1, <2>2 DEF S
  <1>4. BareOf(scopes') = << BareTable(scopes'[1]), <<>> >>
    BY <1>3, BeginTables
  <1>5. Len(text') = 0
    BY <1>1, EmptySeq
  <1>15. level' = 0
    BY <1>1, <1>2 DEF level
  <1>6. Core' = Begin' /\ Begin' = Begin
    BY <1>1, <1>2, <1>3, <1>4, <1>5, <1>15 DEF Core, Begin
  <1>7. PICK m, h, at : First(m, h, at) /\ OnPath(m, h)
    BY <1>1 DEF PassInv, FirstWay
  <1>8. /\ Path(tree, prog, Begin, m, h, at) /\ h[m] = Core
    BY <1>7 DEF First
  <1>9. h[0] = Begin /\ at[0] = 0 /\ m \in Nat
    BY <1>8 DEF Path
  <1>10. h[m].todo = <<>> /\ h[m].top > Len(tree)
    BY <1>1, <1>8 DEF Core
  <1>11. \E i \in 0..m : Core' = h[i] /\ pc' = at[i] + 1
    <2>1. 0 \in 0..m /\ pc' = at[0] + 1
      BY <1>1, <1>2, <1>9
    <2> QED BY <1>6, <1>9, <2>1
  <1>12. Path(tree, prog, Begin, m, h, at)'
    <2>1. Path(tree', prog', Begin', m, h, at)
      BY <1>1, <1>6, <1>8
    <2> QED BY <2>1 DEF Path, Step
  <1>13. Second(m, h, at)'
    BY <1>1, <1>10, <1>11, <1>12 DEF Second
  <1>14. OnPath(m, h)'
    <2>1. DistinctFunctions' => DistinctFunctions
      BY <1>1 DEF DistinctFunctions
    <2>2. Placed(m, h) => Placed(m, h)'
      BY <1>1, <1>3 DEF Placed, PlacedAt
    <2> QED BY <1>7, <2>1, <2>2 DEF OnPath
  <1> QED BY <1>13, <1>14 DEF SecondWay

(* Both passes together.                                                   *)
LEMMA PassesStep ==
    ASSUME CompilerInv, ScopesInv, RelasInv, WalkInv, FramesInv, PassInv, [Next]_vars
    PROVE  PassInv'
  <1>1. tree' = tree /\ (DistinctFunctions' => DistinctFunctions)
    BY TreeKept DEF DistinctFunctions
  <1>2. DistinctFunctions => DeclaresOK'
    BY DeclaresStep DEF PassInv
  <1>3. CASE PassStep
    <2>1. Running /\ phase' = phase /\ outcome' = outcome
      BY <1>3, PassKeeps
    <2>2. CASE phase = "pass1"
      <3>1. FirstWay'
        <4>1. PICK m, h, at : First(m, h, at) /\ OnPath(m, h)
          BY <2>2 DEF PassInv, FirstWay
        <4>2. PICK k, g, bt : First(k, g, bt)' /\ OnPath(k, g)'
          BY <1>3, <2>2, <4>1, FirstOnPath
        <4> QED BY <4>2 DEF FirstWay
      <3>2. pc' = pc
        <4>1. PICK n : Took(n)
          BY <1>3, PassRegular DEF Regular
        <4> QED BY <2>2, <4>1 DEF Took
      <3> QED BY <1>1, <1>2, <2>1, <2>2, <3>1, <3>2 DEF PassInv
    <2>3. CASE phase = "pass2"
      <3>1. PICK m, h, at : Second(m, h, at) /\ OnPath(m, h)
        BY <2>3 DEF PassInv, SecondWay
      <3>2. Second(m, h, at)' /\ OnPath(m, h)'
        BY <1>3, <2>3, <3>1, SecondStep
      <3>3. SecondWay'
        BY <3>2 DEF SecondWay
      <3> QED BY <1>1, <1>2, <2>1, <2>3, <3>3 DEF PassInv
    <2> QED BY <2>1, <2>2, <2>3 DEF Running
  <1>4. CASE Declare
    <2>1. phase = "declare" /\ UNCHANGED <<phase, outcome, prog, pc, text, bss>>
      BY <1>4 DEF Declare, source, code
    <2> QED BY <1>1, <1>2, <2>1 DEF PassInv
  <1>5. CASE Declared
    <2>1. phase' \in {"pass1", "end"} /\ outcome' \in {outcome, "nomain"}
      BY <1>5 DEF Declared
    <2>2. phase' = "pass1" => pc' = 1 /\ FirstWay'
      BY <1>2, <1>5, DeclaredWay
    <2> QED BY <1>1, <1>2, <2>1, <2>2 DEF PassInv
  <1>6. CASE SecondPass
    <2>1. (outcome' = outcome /\ phase' = "pass2") \/ (outcome' = "unbalanced" /\ phase' = "end")
      BY <1>6, SecondPassIs
    <2>2. phase' = "pass2" => SecondWay'
      BY <1>2, <1>6, AgainWay
    <2> QED BY <1>1, <1>2, <2>1, <2>2 DEF PassInv
  <1>7. CASE Rejections
    <2>1. Running /\ \/ phase' = "end" /\ outcome' = "syntax"
                     \/ phase' = "start" /\ outcome' = "second"
      BY <1>7, RejectedIs
    <2>2. phase # "pass2"
      <3>1. ASSUME phase = "pass2"
            PROVE  FALSE
        <4>1. PICK m, h, at : Second(m, h, at)
          BY <3>1 DEF PassInv, SecondWay
        <4> QED BY <1>7, <3>1, <4>1, SecondAccepts
      <3> QED BY <3>1
    <2>3. Fail
      BY <1>7 DEF Rejections, DefineRejected, VariableRejected, OperatorRejected, CallRejected,
         AssignRejected, CallStmtRejected
    <2>4. phase' = "end" /\ outcome' = "syntax"
      BY <2>1, <2>2, <2>3 DEF Fail, Running
    <2> QED BY <1>1, <1>2, <2>4 DEF PassInv
  <1>8. CASE CompilePassEnd
    <2>1. phase' = "start" /\ outcome' = outcome
      BY <1>8 DEF CompilePassEnd
    <2> QED BY <1>1, <1>2, <2>1 DEF PassInv
  <1>9. CASE compile_start
    <2>1. phase' = "end" /\ outcome' \in {outcome, "ok"}
      BY <1>9, StartIs
    <2> QED BY <1>1, <1>2, <2>1 DEF PassInv
  <1>10. CASE Terminating \/ UNCHANGED vars
    <2>1. UNCHANGED <<tree, phase, outcome, top, prog, pc, absent, todo, scopes, bss, frame, reg, text>>
      BY <1>10 DEF Terminating, vars, control, source, storage, code
    <2>2. Core' = Core /\ Begin' = Begin
      BY <2>1 DEF Core, Begin, level
    <2>3. ASSUME NEW m, NEW h, NEW at
          PROVE  /\ Path(tree, prog, Begin, m, h, at) => Path(tree, prog, Begin, m, h, at)'
                 /\ OnPath(m, h) => OnPath(m, h)'
      <3>1. Path(tree, prog, Begin, m, h, at) => Path(tree', prog', Begin', m, h, at)
        BY <2>1, <2>2
      <3>2. Path(tree', prog', Begin', m, h, at) => Path(tree, prog, Begin, m, h, at)'
        BY DEF Path, Step
      <3>3. Placed(m, h) => Placed(m, h)'
        BY <2>1 DEF Placed, PlacedAt
      <3> QED BY <1>1, <1>2, <3>1, <3>2, <3>3 DEF OnPath
    <2>4. ASSUME NEW m, NEW h, NEW at
          PROVE  /\ First(m, h, at) => First(m, h, at)'
                 /\ Second(m, h, at) => Second(m, h, at)'
      BY <2>1, <2>2, <2>3 DEF First, Second
    <2>5. FirstWay => FirstWay'
      BY <2>3, <2>4 DEF FirstWay
    <2>6. SecondWay => SecondWay'
      BY <2>3, <2>4 DEF SecondWay
    <2> QED BY <1>1, <1>2, <2>1, <2>5, <2>6 DEF PassInv
  <1> QED BY <1>3, <1>4, <1>5, <1>6, <1>7, <1>8, <1>9, <1>10, StepCases DEF PassStep

(* What the passes do of the program, in every state.                      *)
LEMMA AlwaysPasses == Spec => [](FramesInv /\ PassInv)
  <1> DEFINE Inv == FramesInv /\ PassInv
  <1>1. Init => Inv
    <2> SUFFICES ASSUME Init
                 PROVE  Inv
      OBVIOUS
    <2>1. /\ phase = "declare" /\ outcome = "none" /\ prog = <<>> /\ pc = 1 /\ top = 1
          /\ scopes = << <<>> >> /\ text = <<>> /\ bss = 0 /\ frame = 0
      BY DEF Init
    <2>2. FunctionNames = {}
      <3> DEFINE none == <<>>
      <3>1. scopes[1] = none /\ Len(none) = 0 /\ 1..0 = {}
        BY <2>1, EmptySeq
      <3> QED BY <2>1, <3>1 DEF FunctionNames
    <2>3. DeclaresOK
      <3>1. tree \in Seq(TopNode) /\ Len(tree) \in Nat
        BY TreesAssumption, LenProperties DEF Init
      <3>2. 1..(top - 1) = {} /\ top <= Len(tree) + 1
        BY <2>1, <3>1
      <3> QED BY <2>1, <2>2, <3>2 DEF DeclaresOK, DefinedIn, Running
    <2> QED BY <2>1, <2>3 DEF FramesInv, PassInv, Running
  <1>2. CodeInv /\ Inv /\ [Next]_vars => Inv'
    <2> SUFFICES ASSUME CodeInv, FramesInv, PassInv, [Next]_vars
                 PROVE  FramesInv' /\ PassInv'
      OBVIOUS
    <2>1. CompilerInv /\ ScopesInv /\ RelasInv /\ WalkInv
      BY DEF CodeInv
    <2> QED BY <2>1, FramesStep, PassesStep
  <1> QED BY <1>1, <1>2, AlwaysCode, PTL DEF Spec

(* What the first pass compiled, the second compiles: compile_tree loses   *)
(* no error by ignoring the result of its second compile_stmt.             *)
THEOREM SecondPassSucceeds == Spec => []SecondPassNeverFails
  <1>1. PassInv => SecondPassNeverFails
    BY DEF PassInv, SecondPassNeverFails
  <1> QED BY <1>1, AlwaysPasses, PTL

(* The second pass leaves every function where the first one placed it, so *)
(* the forward calls that it emits with the first pass's offsets are       *)
(* right, in every program that defines each function once.                *)
THEOREM PassesAgree == Spec => SecondPassMovesNothing
  <1>1. CodeInv /\ FramesInv /\ PassInv /\ [Next]_vars
           => [phase = "pass2" /\ DistinctFunctions => Offsets' = Offsets]_vars
    <2> SUFFICES ASSUME CodeInv, FramesInv, PassInv, [Next]_vars, phase = "pass2", DistinctFunctions
                 PROVE  Offsets' = Offsets
      OBVIOUS
    <2>1. CompilerInv /\ ScopesInv /\ RelasInv /\ WalkInv
      BY DEF CodeInv
    <2>2. scopes'[1] = scopes[1]
      <3>1. CASE PassStep
        <4>1. PICK m, h, at : Second(m, h, at) /\ OnPath(m, h)
          BY DEF PassInv, SecondWay
        <4> QED BY <2>1, <3>1, <4>1, SecondStep
      <3>2. CASE Rejections
        BY <3>2, RejectedIs
      <3>3. CASE CompilePassEnd
        BY <3>3 DEF CompilePassEnd, storage
      <3>4. CASE UNCHANGED vars
        BY <3>4 DEF vars, storage
      <3>5. CASE SecondPass \/ compile_start \/ Declare \/ Declared \/ Terminating
        BY <3>5 DEF SecondPass, compile_start, Declare, Declared, Terminating
      <3> QED BY <3>1, <3>2, <3>3, <3>4, <3>5, StepCases DEF PassStep
    <2> QED BY <2>2 DEF Offsets
  <1>2. []CodeInv /\ [](FramesInv /\ PassInv) /\ [][Next]_vars => SecondPassMovesNothing
    BY <1>1, PTL DEF SecondPassMovesNothing
  <1> QED BY <1>2, AlwaysCode, AlwaysPasses, PTL DEF Spec

(* The calls of the second pass.                                           *)

(* The call c in the code s goes to where the functions t have the one     *)
(* that it calls.                                                          *)
Resolved(c, s, t) ==
    /\ c.at \in 0..(Len(s) - 1) /\ s[c.at + 1].op = "call"
    /\ \E k \in 1..Len(t) : t[k].id = c.id /\ t[k].offset = c.at + 1 + s[c.at + 1].x
CallsOK == \A c \in UserCalls : Resolved(c, text, scopes[1])

(* The code of every function compiled so far begins where the table says. *)
Begins(id, s, t) ==
    \E k \in 1..Len(t) : /\ t[k].id = id /\ t[k].offset \in 0..(Len(s) - 1)
                         /\ s[t[k].offset + 1].op = "push rbp"
BegunOK == \A j \in 1..Len(tree) :
              j < top /\ tree[j].k = "define" => Begins(tree[j].id, text, scopes[1])

(* The inductive form of CallsResolved.                                    *)
Again == phase \in {"pass2", "start"} \/ Ok
ResolvedInv ==
    DistinctFunctions =>
       /\ phase = "pass1" \/ Again => FunctionNames \subseteq DefinedIn(Len(tree))
       /\ Again => CallsOK /\ BegunOK
       /\ phase = "start" \/ Ok => top > Len(tree) /\ Len(scopes) >= 2
       /\ Ok => phase = "end"

LEMMA ResolvedKept ==
    ASSUME NEW c, NEW s, NEW t, NEW u, NEW p \in Int, Resolved(c, s, t), Rewritten(s, u, p),
           p \in 0..(Len(s) - 1) => s[p + 1].op # "call"
    PROVE  Resolved(c, u, t)
  <1>1. /\ c.at \in 0..(Len(s) - 1) /\ c.at # p
    BY DEF Resolved
  <1>2. u[c.at + 1] = s[c.at + 1] /\ c.at \in 0..(Len(u) - 1)
    BY <1>1 DEF Rewritten
  <1> QED BY <1>2 DEF Resolved

LEMMA BeginsKept ==
    ASSUME NEW id, NEW s, NEW t, NEW u, NEW p \in Int, Begins(id, s, t), Rewritten(s, u, p)
    PROVE  Begins(id, u, t)
  <1>1. PICK k \in 1..Len(t) : /\ t[k].id = id /\ t[k].offset \in 0..(Len(s) - 1)
                               /\ s[t[k].offset + 1].op = "push rbp"
    BY DEF Begins
  <1>2. PICK a \in 0..(Len(s) - 1) : a = t[k].offset
    BY <1>1
  <1>3. s[a + 1].op = "push rbp"
    BY <1>1, <1>2
  <1>4. u[a + 1].op = s[a + 1].op /\ a \in 0..(Len(u) - 1)
    BY DEF Rewritten
  <1> QED BY <1>1, <1>2, <1>3, <1>4 DEF Begins

(* No call that was emitted is patched.                                    *)
LEMMA CallsStay ==
    ASSUME CompilerInv, ScopesInv, RelasInv, WalkInv, JumpsInv, PassStep
    PROVE  \E p \in Int : /\ Rewritten(text, text', p)
                          /\ p \in 0..(Len(text) - 1) => text[p + 1].op # "call"
  <1>0. /\ Len(text) \in Nat /\ Nowhere \in Int /\ Nowhere \notin 0..(Len(text) - 1)
    BY DEF CompilerInv, TypeOK, Nowhere
  <1>1. text' = text => Rewritten(text, text', Nowhere)
    BY <1>0 DEF Rewritten
  <1>2. MarksOK
    <2>1. Running
      BY PassKeeps
    <2> QED BY <2>1 DEF Running, WalkInv, RunsLive, Live, JumpsInv
  <1>3. CASE ExprHandlers
    <2>1. ExprHandled
      BY <1>3, ExprsHandled DEF WalkInv
    <2> QED BY <1>0, <2>1, EmitsAre DEF ExprHandled, Calm
  <1>4. CASE StmtHandlers
    <2>1. StmtHandled
      BY <1>4, StmtsHandled DEF WalkInv
    <2> QED BY <1>0, <2>1, EmitsAre DEF StmtHandled, Calm
  <1>5. CASE AssignStmt \/ Conditional \/ GlobalAssign
    BY <1>0, <1>1, <1>5, AssignHandled, ConditionalIs, GlobalAssignIs DEF AssignBegun
  <1>6. CASE TestCondition
    BY <1>0, <1>6, TestIs
  <1>7. ASSUME NEW k \in Marks, At(k)
        PROVE  /\ todo[1].at \in Int /\ todo[1].at < Len(text)
               /\ text[todo[1].at + 1].op # "call"
    <2>1. todo[1].k = k /\ todo[1].at \in Nat /\ todo[1].at < Len(text)
      BY <1>7, MarkInside
    <2>2. 1 \in 1..Len(todo)
      BY <1>7, HeadFirst
    <2>3. Marked(todo[1], text)
      BY <1>2, <2>2 DEF MarksOK
    <2>4. text[todo[1].at + 1].op \in {"je", "jmp", "sub rsp, frame"}
      BY <2>1, <2>3, Zenon DEF Marked, Marks, Owed
    <2>5. text[todo[1].at + 1].op # "call"
      BY <2>4
    <2> QED BY <2>1, <2>5
  <1>8. "else" \in Marks /\ "endwhile" \in Marks /\ "endif" \in Marks /\ "enddefine" \in Marks
    BY DEF Marks
  <1>9. CASE Else
    <2>1. At("else")
      BY <1>9 DEF Else
    <2> QED BY <1>7, <1>8, <1>9, <2>1, ElseIs
  <1>10. CASE EndWhile
    <2>1. At("endwhile")
      BY <1>10 DEF EndWhile
    <2> QED BY <1>7, <1>8, <1>10, <2>1, EndWhileIs
  <1>11. CASE EndIf
    <2>1. At("endif")
      BY <1>11 DEF EndIf
    <2> QED BY <1>7, <1>8, <1>11, <2>1, EndIfIs
  <1>12. CASE EndDefine
    <2>1. At("enddefine")
      BY <1>12 DEF EndDefine
    <2> QED BY <1>7, <1>8, <1>12, <2>1, EndDefineIs
  <1>13. CASE compile_define
    BY <1>0, <1>13, DefineIs
  <1> QED BY <1>3, <1>4, <1>5, <1>6, <1>9, <1>10, <1>11, <1>12, <1>13 DEF PassStep

(* A call of a function of the program is emitted where its arguments end. *)
LEMMA NewCalls ==
    ASSUME PassStep
    PROVE  \/ UserCalls' = UserCalls
           \/ /\ CallEnd
              /\ UserCalls' = UserCalls \union
                    {Site("user", Head(todo).id, Len(text), reg, Head(todo).saved)}
  <1>0. sites' = sites => UserCalls' = UserCalls
    BY DEF UserCalls
  <1>1. CASE CallEnd
    <2> DEFINE c == Site("user", Head(todo).id, Len(text), reg, Head(todo).saved)
    <2>1. sites' = sites \union {c}
      BY <1>1 DEF CallEnd, rip
    <2>2. c.kind = "user"
      BY DEF Site
    <2> HIDE DEF c
    <2>3. UserCalls' = UserCalls \union {c}
      BY <2>1, <2>2 DEF UserCalls
    <2> QED BY <1>1, <2>3 DEF c
  <1>2. CASE InExpr \/ OutStmt
    <2>1. \E sym, at, live : sites' = sites \union {Site("std", sym, at, live, 0)}
      BY <1>2 DEF InExpr, OutStmt, compile_stdcall
    <2>2. PICK sym, at, live : sites' = sites \union {Site("std", sym, at, live, 0)}
      BY <2>1
    <2>3. Site("std", sym, at, live, 0).kind = "std"
      BY DEF Site
    <2> QED BY <2>2, <2>3 DEF UserCalls
  <1>3. CASE /\ ExprHandlers /\ ~CallEnd /\ ~InExpr
    BY <1>0, <1>3 DEF ExprHandlers, compile_load_num, LoadVariable, LoadElement, BinaryExpr, compile_expr_bin,
       NotExpr, compile_expr_not, CallExpr, CallBegin, CallArgument, PushArgument, ReadExpr, Keep, aux
  <1>4. CASE StmtHandlers /\ ~OutStmt
    BY <1>0, <1>4 DEF StmtHandlers, Reassign, StoreElement, DeclareVariable, compile_stmt, CallStmt, CallBegin,
       DropResult, OutOrReturn, compile_return, ReadStmt, Keep, aux
  <1>5. CASE AssignStmt \/ Conditional
    BY <1>0, <1>5 DEF AssignStmt, Conditional, ReadStmt, Keep, aux
  <1>6. CASE TestCondition \/ Else \/ EndWhile \/ EndIf \/ EndDefine
    BY <1>0, <1>6 DEF TestCondition, Else, EndWhile, EndIf, EndDefine, Keep, aux
  <1>7. CASE compile_define \/ GlobalAssign
    BY <1>0, <1>7 DEF compile_define, GlobalAssign, Keep, aux
  <1> QED BY <1>1, <1>2, <1>3, <1>4, <1>5, <1>6, <1>7 DEF PassStep

LEMMA HeadEmitted ==
    ASSUME NEW D, NEW i \in D, NEW f \in Seq(D), NEW g \in Seq(D), NEW s \in Seq(D), NEW u,
           u = s \o (<< i >> \o f \o g)
    PROVE  u[Len(s) + 1] = i /\ Len(u) >= Len(s) + 1 /\ Len(u) \in Nat
  <1> DEFINE e == << i >> \o f \o g
  <1>1. << i >> \o f \in Seq(D) /\ (<< i >> \o f)[1] = i /\ Len(<< i >> \o f) >= 1
    OBVIOUS
  <1>2. PICK h \in Seq(D) : h = << i >> \o f
    BY <1>1
  <1>3. e \in Seq(D) /\ e[1] = i /\ Len(e) >= 1
    BY <1>1, <1>2
  <1> HIDE DEF e
  <1> QED BY <1>3 DEF e

(* It goes to the function, as the table has it.                           *)
LEMMA CallGoes ==
    ASSUME CompilerInv, ScopesInv, CallEnd
    PROVE  Resolved(Site("user", Head(todo).id, Len(text), reg, Head(todo).saved), text', scopes[1])
  <1> DEFINE a  == Head(todo)
             c  == Site("user", a.id, Len(text), reg, a.saved)
             to == find_symbol(a.id).offset
             i  == I("call", 0, 0, Displace(to, rip))
             f  == compile_call_end(reg, a.pushed)
             g  == RestoreCode(a.saved)
  <1>1. Running /\ text' = text \o (<< i >> \o f \o g) /\ At("args") /\ a.k = "args"
    BY DEF CallEnd, At, Emit
  <1>2. PICK k \in 1..Len(scopes[1]) : scopes[1][k].id = a.id
    <2>1. a = todo[1] /\ 1 \in 1..Len(todo)
      BY <1>1, HeadFirst
    <2> QED BY <1>1, <2>1 DEF CompilerInv, CallsPending, FunctionNames
  <1>3. to = scopes[1][k].offset
    BY <1>1, <1>2, FunctionPlace DEF find_symbol
  <1>4. c.at = Len(text) /\ c.id = a.id /\ i.op = "call" /\ i.x = to - Len(text) - 1
    BY DEF Site, I, Displace, rip
  <1>5. text \in Seq(InstrType) /\ Len(text) \in Nat
    BY DEF CompilerInv, TypeOK
  <1>6. to \in Nat
    <2>1. scopes[1] \in Seq(Symbol)
      <3>1. scopes \in Seq(Seq(Symbol)) /\ Len(scopes) \in Nat /\ Len(scopes) >= 2
        BY <1>1, RunningTables, LenProperties DEF Tables
      <3>2. 1 \in 1..Len(scopes)
        BY <3>1
      <3> QED BY <3>1, <3>2, TableIs
    <2>2. scopes[1][k] \in Symbol
      BY <2>1
    <2> QED BY <1>3, <2>2 DEF Symbol
  <1>7. text'[Len(text) + 1] = i /\ Len(text') >= Len(text) + 1 /\ Len(text') \in Nat
    <2>1. reg \in Int /\ a \in ItemType
      BY <1>1, HeadFacts
    <2>2. a.pushed \in Nat /\ a.saved \in Register
      <3>1. a \in [k : {"args"}, h : Nat, d : Scopes, id : STRING, left : Nat, given : Int,
                   pushed : Nat, saved : Register]
        <4>1. a.k = "args"
          BY <1>1
        <4> HIDE DEF a
        <4> QED BY <2>1, <4>1 DEF ItemType
      <3> HIDE DEF a
      <3> QED BY <3>1
    <2>3. i \in InstrType
      <3>1. Displace(to, rip) \in Int
        BY <1>6, AddressIs DEF Displace
      <3> HIDE DEF to
      <3> QED BY <3>1, OpcodesAre, Zero, InstrIs, Zenon
    <2>4. f \in Seq(InstrType) /\ g \in Seq(InstrType)
      BY <2>1, <2>2, CallEndIs, SaveIs
    <2> HIDE DEF i, f, g
    <2> QED BY <1>1, <1>5, <2>3, <2>4, HeadEmitted
  <1> HIDE DEF c, i, a, to, f, g
  <1>8. scopes[1][k].offset = c.at + 1 + text'[c.at + 1].x
    <2>1. PICK n \in Nat : n = Len(text)
      BY <1>5
    <2>2. c.at = n /\ text'[n + 1] = i /\ i.x = to - n - 1
      BY <1>4, <1>7, <2>1
    <2>3. text'[c.at + 1].x = to - n - 1
      BY <2>2
    <2>4. to = n + 1 + (to - n - 1)
      BY <1>6
    <2> QED BY <1>3, <2>2, <2>3, <2>4
  <1>9. c.at \in 0..(Len(text') - 1) /\ text'[c.at + 1].op = "call"
    BY <1>4, <1>5, <1>7
  <1>10. Resolved(c, text', scopes[1])
    BY <1>2, <1>4, <1>8, <1>9 DEF Resolved
  <1> QED BY <1>10 DEF c, a

(* The table of functions keeps its names.                                 *)
LEMMA SameNames ==
    ASSUME NEW s, NEW t, BareTable(s) = BareTable(t), Len(s) \in Nat, Len(t) \in Nat
    PROVE  Len(s) = Len(t) /\ \A k \in 1..Len(t) : s[k].id = t[k].id
  <1>1. Len(s) = Len(t)
    <2>1. DOMAIN BareTable(s) = 1..Len(s) /\ DOMAIN BareTable(t) = 1..Len(t)
      BY DEF BareTable
    <2> QED BY <2>1
  <1>2. ASSUME NEW k \in 1..Len(t)
        PROVE  s[k].id = t[k].id
    <2>1. Bare(s[k]) = Bare(t[k])
      BY <1>1 DEF BareTable
    <2>2. Bare(s[k]).id = s[k].id /\ Bare(t[k]).id = t[k].id
      BY DEF Bare
    <2> QED BY <2>1, <2>2
  <1> QED BY <1>1, <1>2

LEMMA NamesKept ==
    ASSUME CompilerInv, ScopesInv, RelasInv, WalkInv, PassStep
    PROVE  FunctionNames' = FunctionNames
  <1>1. BareTable(scopes'[1]) = BareTable(scopes[1])
    BY FirstBare
  <1>2. Len(scopes'[1]) = Len(scopes[1]) /\ \A k \in 1..Len(scopes[1]) : scopes'[1][k].id = scopes[1][k].id
    BY <1>1, SameNames
  <1> QED BY <1>2 DEF FunctionNames

LEMMA ResolvedPass ==
    ASSUME CompilerInv, ScopesInv, RelasInv, WalkInv, JumpsInv, PassInv, ResolvedInv, PassStep,
           phase = "pass2", DistinctFunctions
    PROVE  CallsOK' /\ BegunOK'
  <1>1. CallsOK /\ BegunOK /\ DeclaresOK
    BY DEF ResolvedInv, Again, PassInv
  <1>2. tree' = tree /\ (top' = IF todo = <<>> THEN top + 1 ELSE top) /\ top \in Nat
    BY PassKeeps, TopMoves DEF CompilerInv, TypeOK
  <1>3. scopes'[1] = scopes[1]
    <2>1. PICK m, h, at : Second(m, h, at) /\ OnPath(m, h)
      BY DEF PassInv, SecondWay
    <2> QED BY <2>1, SecondStep
  <1>4. PICK p \in Int : /\ Rewritten(text, text', p)
                         /\ p \in 0..(Len(text) - 1) => text[p + 1].op # "call"
    BY CallsStay
  <1>5. CallsOK'
    <2>1. ASSUME NEW c \in UserCalls
          PROVE  Resolved(c, text', scopes[1])
      <3>1. Resolved(c, text, scopes[1])
        BY <1>1 DEF CallsOK
      <3> QED BY <1>4, <3>1, ResolvedKept
    <2>2. ASSUME NEW c \in UserCalls'
          PROVE  Resolved(c, text', scopes[1])
      <3>1. CASE c \in UserCalls
        BY <2>1, <3>1
      <3>2. CASE c \notin UserCalls
        <4>1. CallEnd /\ c = Site("user", Head(todo).id, Len(text), reg, Head(todo).saved)
          BY <2>2, <3>2, NewCalls
        <4> QED BY <4>1, CallGoes
      <3> QED BY <3>1, <3>2
    <2> QED BY <1>3, <2>2 DEF CallsOK
  <1>6. BegunOK'
    <2> SUFFICES ASSUME NEW j \in 1..Len(tree), j < top', tree[j].k = "define"
                 PROVE  Begins(tree[j].id, text', scopes[1])
      BY <1>2, <1>3 DEF BegunOK
    <2>1. CASE j < top
      <3>1. Begins(tree[j].id, text, scopes[1])
        BY <1>1, <2>1 DEF BegunOK
      <3> QED BY <1>4, <3>1, BeginsKept
    <2>2. CASE ~(j < top)
      <3>1. j = top /\ todo = <<>>
        BY <1>2, <2>2
      <3>2. compile_define
        BY <3>1, TopStep
      <3>3. PICK id, address : id = tree[top].id /\ address = Len(text)
        OBVIOUS
      <3>4. PlacedAt(id, address)'
        BY <1>1, <3>2, <3>3, PlacedNow
      <3>5. PICK k \in 1..Len(scopes[1]) : scopes[1][k].id = id /\ scopes[1][k].offset = address
        BY <1>3, <3>4 DEF PlacedAt
      <3>6. Len(text') = Len(text) + 3 /\ text'[Len(text) + 1].op = "push rbp"
        BY <3>2, DefineIs
      <3>7. address \in 0..(Len(text') - 1) /\ text'[address + 1].op = "push rbp"
        <4>1. Len(text) \in Nat
          BY DEF CompilerInv, TypeOK
        <4>2. address \in 0..(Len(text') - 1)
          <5>1. address \in Nat /\ Len(text') = address + 3
            BY <3>3, <3>6, <4>1
          <5> HIDE <3>3
          <5> QED BY <5>1
        <4> QED BY <3>3, <3>6, <4>2
      <3>8. Begins(id, text', scopes[1])
        BY <3>5, <3>7 DEF Begins
      <3> QED BY <3>1, <3>3, <3>8
    <2> QED BY <2>1, <2>2
  <1> QED BY <1>5, <1>6

LEMMA ResolvedStep ==
    ASSUME CompilerInv, ScopesInv, RelasInv, WalkInv, JumpsInv, PassInv, ResolvedInv, CompilerInv',
           PassInv', [Next]_vars
    PROVE  ResolvedInv'
  <1>0. tree' = tree /\ (DistinctFunctions' => DistinctFunctions)
    BY TreeKept DEF DistinctFunctions
  <1> SUFFICES ASSUME DistinctFunctions
               PROVE  ResolvedInv'
    BY <1>0 DEF ResolvedInv
  <1>1. /\ phase = "pass1" \/ Again => FunctionNames \subseteq DefinedIn(Len(tree))
        /\ Again => CallsOK /\ BegunOK
        /\ phase = "start" \/ Ok => top > Len(tree) /\ Len(scopes) >= 2
        /\ Ok => phase = "end"
    BY DEF ResolvedInv
  <1>2. FunctionNames' = FunctionNames =>
           (FunctionNames \subseteq DefinedIn(Len(tree)) => (FunctionNames \subseteq DefinedIn(Len(tree)))')
    BY <1>0 DEF DefinedIn
  <1>3. CASE PassStep
    <2>1. Running /\ phase' = phase /\ outcome' = outcome
      BY <1>3, PassKeeps
    <2>2. ~Ok /\ ~Ok' /\ (Again <=> phase = "pass2") /\ (Again' <=> phase = "pass2")
          /\ phase \in {"pass1", "pass2"}
      BY <2>1 DEF Running, WalkInv, RunsLive, Ok, Again
    <2>3. FunctionNames' = FunctionNames
      BY <1>3, NamesKept
    <2>4. phase = "pass2" => CallsOK' /\ BegunOK'
      BY <1>3, ResolvedPass
    <2>5. phase' # "start"
      BY <2>1, <2>2
    <2> QED BY <1>1, <1>2, <2>1, <2>2, <2>3, <2>4, <2>5 DEF ResolvedInv
  <1>4. CASE SecondPass
    <2>1. (outcome' = outcome /\ phase' = "pass2") \/ (outcome' = "unbalanced" /\ phase' = "end")
      BY <1>4, SecondPassIs
    <2>2. CASE outcome' = "unbalanced" /\ phase' = "end"
      <3>1. ~Ok' /\ ~Again' /\ phase' # "start" /\ phase' # "pass1"
        BY <2>2 DEF Ok, Again
      <3> QED BY <3>1 DEF ResolvedInv
    <2>3. CASE outcome' = outcome /\ phase' = "pass2"
      <3>1. phase = "pass1" /\ ~Ok'
        BY <1>4, <2>3, SecondPassIs DEF SecondPass, WalkInv, RunsLive, Ok
      <3>2. sites' = {} /\ top' = 1 /\ scopes' = [scopes EXCEPT ![2] = <<>>]
        BY <1>4 DEF SecondPass, free_array
      <3>3. CallsOK' /\ BegunOK'
        <4>1. UserCalls' = {}
          BY <3>2 DEF UserCalls
        <4>2. \A j \in 1..Len(tree) : ~(j < top')
          BY <3>2
        <4> QED BY <1>0, <4>1, <4>2 DEF CallsOK, BegunOK
      <3>4. FunctionNames' = FunctionNames
        <4>1. scopes \in Seq(Seq(Symbol)) /\ Len(scopes) = 2
          BY <1>4, <3>1, TopFacts DEF SecondPass, Running, depth, CompilerInv, TypeOK
        <4>2. scopes'[1] = scopes[1]
          BY <3>2, <4>1
        <4> QED BY <4>2 DEF FunctionNames
      <3> QED BY <1>1, <1>2, <2>3, <3>1, <3>3, <3>4 DEF ResolvedInv
    <2> QED BY <2>1, <2>2, <2>3
  <1>5. CASE Declare
    <2>1. phase = "declare" /\ phase' = "declare" /\ outcome' = outcome
      BY <1>5 DEF Declare
    <2> QED BY <2>1 DEF ResolvedInv, Again, Ok, WalkInv, RunsLive
  <1>6. CASE Declared
    <2>1. /\ phase = "declare" /\ phase' \in {"pass1", "end"} /\ outcome' \in {outcome, "nomain"}
          /\ top > Len(tree) /\ scopes' = Append(scopes, <<>>)
      BY <1>6 DEF Declared
    <2>2. ~Ok' /\ ~Again'
      BY <2>1 DEF Ok, Again, WalkInv, RunsLive
    <2>3. top <= Len(tree) + 1 /\ FunctionNames = DefinedIn(top - 1)
      BY <2>1 DEF PassInv, DeclaresOK
    <2>4. FunctionNames = DefinedIn(Len(tree))
      <3>1. tree \in Seq(TopNode) /\ top \in Nat
        BY TreesAssumption DEF CompilerInv, TypeOK
      <3>2. PICK n \in Nat : n = Len(tree)
        BY <3>1, LenProperties
      <3>3. top - 1 = n
        BY <2>1, <2>3, <3>1, <3>2
      <3> QED BY <2>3, <3>2, <3>3
    <2>5. FunctionNames' = FunctionNames
      <3>1. scopes \in Seq(Seq(Symbol)) /\ Len(scopes) = 1
        BY <2>1 DEF CompilerInv, TypeOK, TablesOpen, depth
      <3>2. Append(scopes, <<>>)[1] = scopes[1]
        BY <3>1
      <3> QED BY <2>1, <3>2 DEF FunctionNames
    <2>6. phase' # "start"
      BY <2>1
    <2> QED BY <1>2, <2>2, <2>4, <2>5, <2>6 DEF ResolvedInv
  <1>7. CASE Rejections
    <2>1. Running /\ \/ phase' = "end" /\ outcome' = "syntax"
                     \/ phase' = "start" /\ outcome' = "second"
      BY <1>7, RejectedIs
    <2>2. outcome' # "second"
      BY DEF PassInv
    <2> QED BY <2>1, <2>2 DEF ResolvedInv, Again, Ok
  <1>8. CASE CompilePassEnd
    <2>1. /\ phase = "pass2" /\ phase' = "start" /\ todo = <<>> /\ top > Len(tree)
          /\ UNCHANGED <<outcome, top, scopes, text, sites>>
      BY <1>8 DEF CompilePassEnd, storage, code, aux
    <2>2. CallsOK' /\ BegunOK' /\ FunctionNames' = FunctionNames
      BY <1>0, <1>1, <2>1 DEF Again, CallsOK, BegunOK, UserCalls, FunctionNames
    <2>3. ~Ok'
      BY <2>1 DEF Ok, WalkInv, RunsLive
    <2>4. Len(scopes') >= 2
      <3>1. Len(scopes) = 2
        BY <2>1, TopFacts DEF Running, depth
      <3> QED BY <2>1, <3>1
    <2> QED BY <1>0, <1>1, <1>2, <2>1, <2>2, <2>3, <2>4 DEF ResolvedInv, Again
  <1>9. CASE compile_start
    <2>1. /\ phase = "start" /\ phase' = "end" /\ Emits(Flat(0)) /\ UNCHANGED <<top, scopes, sites>>
      BY <1>9, StartIs DEF compile_start, aux
    <2>2. Rewritten(text, text', Nowhere) /\ Nowhere \in Int /\ Nowhere \notin 0..(Len(text) - 1)
      <3>1. Nowhere \in Int /\ \A n \in Nat : Nowhere \notin 0..(n - 1)
        BY DEF Nowhere
      <3>2. Len(text) \in Nat
        BY DEF CompilerInv, TypeOK
      <3>3. Rewritten(text, text', Nowhere)
        BY <2>1, EmitsAre
      <3> QED BY <3>1, <3>2, <3>3
    <2>3. CallsOK /\ BegunOK
      BY <1>1, <2>1 DEF Again
    <2>4. CallsOK'
      <3>1. ASSUME NEW c \in UserCalls
            PROVE  Resolved(c, text', scopes[1])
        <4>1. Resolved(c, text, scopes[1])
          BY <2>3 DEF CallsOK
        <4> QED BY <2>2, <4>1, ResolvedKept
      <3> QED BY <2>1, <3>1 DEF CallsOK, UserCalls
    <2>5. BegunOK'
      <3>1. ASSUME NEW j \in 1..Len(tree), j < top, tree[j].k = "define"
            PROVE  Begins(tree[j].id, text', scopes[1])
        <4>1. Begins(tree[j].id, text, scopes[1])
          BY <2>3, <3>1 DEF BegunOK
        <4> QED BY <2>2, <4>1, BeginsKept
      <3> QED BY <1>0, <2>1, <3>1 DEF BegunOK
    <2>6. FunctionNames' = FunctionNames
      BY <2>1 DEF FunctionNames
    <2> QED BY <1>0, <1>1, <1>2, <2>1, <2>4, <2>5, <2>6 DEF ResolvedInv, Again
  <1>10. CASE Terminating \/ UNCHANGED vars
    <2>1. UNCHANGED <<tree, phase, outcome, top, scopes, text, sites>>
      BY <1>10 DEF Terminating, vars, control, storage, code, aux
    <2> QED BY <1>1, <2>1 DEF ResolvedInv, Again, Ok, CallsOK, BegunOK, UserCalls, FunctionNames, DefinedIn
  <1> QED BY <1>3, <1>4, <1>5, <1>6, <1>7, <1>8, <1>9, <1>10, StepCases DEF PassStep

(* In the finished program every call goes to the prologue of the function *)
(* it names, also one compiled before its function, if functions are       *)
(* defined once: what the code generator needs its two passes for.         *)
THEOREM CallsAreResolved == Spec => []CallsResolved
  <1>1. Init => ResolvedInv
    <2>1. Init => phase = "declare" /\ outcome = "none"
      BY DEF Init
    <2> QED BY <2>1 DEF ResolvedInv, Again, Ok
  <1>2. /\ CodeInv /\ CodeInv' /\ JumpsInv /\ PassInv /\ PassInv' /\ ResolvedInv /\ [Next]_vars
        => ResolvedInv'
    BY ResolvedStep DEF CodeInv
  <1>3. CodeInv /\ ResolvedInv => CallsResolved
    <2> SUFFICES ASSUME CodeInv, ResolvedInv, Ok, DistinctFunctions, NEW c \in UserCalls
                 PROVE  /\ Instr(c.at).op = "call"
                        /\ Target(c.at) \in With({"push rbp"})
                        /\ \E s \in Range(scopes[1]) :
                              s.id = c.id /\ s.type = "func" /\ s.offset = Target(c.at)
      BY DEF CallsResolved
    <2>1. /\ FunctionNames \subseteq DefinedIn(Len(tree)) /\ CallsOK /\ BegunOK
          /\ top > Len(tree) /\ Len(scopes) >= 2
      BY DEF ResolvedInv, Again
    <2>2. /\ scopes \in Seq(Seq(Symbol)) /\ 1 \in 1..Len(scopes) /\ top \in Nat
          /\ Len(tree) \in Nat
      <3>1. scopes \in Seq(Seq(Symbol)) /\ top \in Nat /\ Len(tree) \in Nat
        BY TreesAssumption, LenProperties DEF CodeInv, CompilerInv, TypeOK
      <3>2. Len(scopes) \in Nat
        BY <3>1, LenProperties
      <3> QED BY <2>1, <3>1, <3>2
    <2>3. scopes[1] \in Seq(Symbol)
      BY <2>2, TableIs
    <2>4. /\ c.at \in Addresses /\ Instr(c.at).op = "call"
          /\ \E k \in 1..Len(scopes[1]) : scopes[1][k].id = c.id /\ scopes[1][k].offset = Target(c.at)
      BY <2>1 DEF CallsOK, Resolved, Addresses, Instr, Target
    <2>5. PICK k \in 1..Len(scopes[1]) : scopes[1][k].id = c.id /\ scopes[1][k].offset = Target(c.at)
      BY <2>4
    <2>6. PICK j \in 1..Len(tree) : tree[j].k = "define" /\ tree[j].id = c.id
      BY <2>1, <2>5 DEF FunctionNames, DefinedIn
    <2>7. Begins(c.id, text, scopes[1])
      <3>1. j < top
        BY <2>1, <2>2
      <3> QED BY <2>1, <2>6, <3>1 DEF BegunOK
    <2>8. PICK l \in 1..Len(scopes[1]) : /\ scopes[1][l].id = c.id /\ scopes[1][l].offset \in 0..(Len(text) - 1)
                                         /\ text[scopes[1][l].offset + 1].op = "push rbp"
      BY <2>7 DEF Begins
    <2>9. ScopesOK(scopes, bss, frame)
      BY DEF CodeInv, ScopesInv
    <2>10. l = k
      <3>1. ASSUME l # k
            PROVE  FALSE
        <4>1. <<1, l>> # <<1, k>>
          BY <3>1
        <4>2. Differ(scopes, 1, l, 1, k, bss, frame)
          BY <2>2, <2>9, <4>1 DEF ScopesOK
        <4> QED BY <2>5, <2>8, <4>2 DEF Differ
      <3> QED BY <3>1
    <2>11. Target(c.at) \in With({"push rbp"})
      BY <2>5, <2>8, <2>10 DEF With, Addresses, Instr
    <2>12. scopes[1][k].type = "func"
      <3>1. Laid(scopes[1][k], 1, bss, frame)
        BY <2>2, <2>9 DEF ScopesOK
      <3>2. scopes[1][k].type # "var"
        BY <3>1 DEF Laid
      <3>3. scopes[1][k] \in Symbol
        BY <2>3
      <3> QED BY <3>2, <3>3 DEF Symbol
    <2>13. scopes[1][k] \in Range(scopes[1])
      BY <2>3 DEF Range
    <2> QED BY <2>4, <2>5, <2>11, <2>12, <2>13
  <1> QED BY <1>1, <1>2, <1>3, AlwaysCode, AlwaysJumps, AlwaysPasses, PTL DEF Spec
====
