---- MODULE IRGen_proofs ----
(***************************************************************************)
(* Every instruction of the IR is in a block of the function it was        *)
(* compiled for, and no jump leaves its function; no instruction follows a *)
(* terminator, and all blocks are terminated but those a function falls    *)
(* out of; a variable is used where it has been allocated on every way     *)
(* from the entry: for every program, of any size and nesting.             *)
(***************************************************************************)
EXTENDS IRGenProperties, SequenceTheorems, FiniteSetTheorems,
        WellFoundedInduction, TLAPS

(* A sequence, of whatever.                                                *)
IsSeq(q) == \E S : q \in Seq(S)
Names == STRING \union {globals_init, "main"}
BlockOf(S) == [fn : Names, code : Seq(S)]
AreBlocks(bs) == \E S : bs \in Seq(BlockOf(S))

(* The instruction i is at home in a function whose blocks are `near'.     *)
AtHome(i, f, near) == i.src = f /\ i.to \subseteq near
AllAtHome(code, f, near) == \A i \in 1..Len(code) : AtHome(code[i], f, near)
Near(bs, f) == {b \in 1..Len(bs) : bs[b].fn = f}
Home(bs) ==
    \A b \in 1..Len(bs) : AllAtHome(bs[b].code, bs[b].fn, Near(bs, bs[b].fn))

(* Back and the front block of main, which EndCompile asks for, exist.     *)
IsBack(bs, f, b)  == b \in Near(bs, f) /\ \A c \in b+1..Len(bs) : bs[c].fn # f
IsFront(bs, f, b) == b \in Near(bs, f) /\ \A c \in Near(bs, f) : b <= c
Ends(bs) ==
    /\ \E b \in 1..Len(bs) : IsBack(bs, globals_init, b)
    /\ Near(bs, "main") # {} => \E b \in 1..Len(bs) : IsFront(bs, "main", b)

(* The blocks an item of the control stack will move the builder to, or    *)
(* jump to: they are blocks of the function that is being compiled.        *)
Targets(it) ==
    CASE it.k = "then"   -> {it.b, it.exit}
      [] it.k = "join"   -> {it.exit, it.next}
      [] it.k = "while"  -> {it.body, it.exit}
      [] it.k = "repeat" -> {it.cond, it.exit}
      [] OTHER -> {}
IsEnd(it) == it.k = "end define"
Plain(q, near) ==
    /\ IsSeq(q)
    /\ \A i \in 1..Len(q) : ~IsEnd(q[i]) /\ Targets(q[i]) \subseteq near

(* What is still to be compiled belongs to `owner', up to the end of its   *)
(* definition, which comes last and which only a global initialiser lacks. *)
Plan(q, near, f) ==
    /\ IsSeq(q)
    /\ \A i \in 1..Len(q) : /\ IsEnd(q[i]) => i = Len(q)
                            /\ Targets(q[i]) \subseteq near
    /\ f # globals_init => q # <<>> /\ IsEnd(q[Len(q)])

(* The inductive invariant.                                                *)
HomeInv ==
    /\ tree \in Trees
    /\ AreBlocks(blocks) /\ Home(blocks) /\ Ends(blocks)
    /\ outcome = "none" =>
          /\ owner \in Names /\ ip \in 1..Len(blocks)
          /\ todo # <<>> => blocks[ip].fn = owner
          /\ Plan(todo, Near(blocks, owner), owner)

(* Sequences of blocks and of code.                                        *)

LEMMA SeqOne == \A x : IsSeq(<<x>>)
<1> TAKE x
<1>1. <<x>> \in Seq({x})
  OBVIOUS
<1> QED BY <1>1 DEF IsSeq

LEMMA SeqConcat ==
    ASSUME NEW p, NEW q, IsSeq(p), IsSeq(q)
    PROVE  /\ IsSeq(p \o q) /\ Len(p) \in Nat /\ Len(q) \in Nat
           /\ Len(p \o q) = Len(p) + Len(q)
           /\ \A i \in 1..Len(p) : (p \o q)[i] = p[i]
           /\ \A i \in Len(p)+1..Len(p)+Len(q) : (p \o q)[i] = q[i - Len(p)]
<1>1. PICK S : p \in Seq(S)
  BY DEF IsSeq
<1>2. PICK T : q \in Seq(T)
  BY DEF IsSeq
<1>3. p \in Seq(S \union T) /\ q \in Seq(S \union T)
  BY <1>1, <1>2
<1>4. p \o q \in Seq(S \union T)
  BY <1>3
<1> QED BY <1>3, <1>4 DEF IsSeq

LEMMA SeqTail ==
    ASSUME NEW q, IsSeq(q), q # <<>>
    PROVE  /\ Len(q) \in Nat \ {0} /\ Head(q) = q[1]
           /\ IsSeq(Tail(q)) /\ Len(Tail(q)) = Len(q) - 1
           /\ \A i \in 1..Len(q)-1 : Tail(q)[i] = q[i + 1]
<1>1. PICK S : q \in Seq(S)
  BY DEF IsSeq
<1>2. Tail(q) \in Seq(S)
  BY <1>1
<1> QED BY <1>1, <1>2 DEF IsSeq

(* Blocks keep their type when instructions of another are added.          *)
LEMMA WiderBlocks ==
    ASSUME NEW S, NEW T, S \subseteq T, NEW bs \in Seq(BlockOf(S))
    PROVE  bs \in Seq(BlockOf(T))
<1>1. BlockOf(S) \subseteq BlockOf(T)
  BY DEF BlockOf
<1> QED BY <1>1

LEMMA BlocksType ==
    ASSUME NEW bs, AreBlocks(bs)
    PROVE  /\ IsSeq(bs) /\ Len(bs) \in Nat /\ DOMAIN bs = 1..Len(bs)
           /\ \A b \in 1..Len(bs) : /\ bs[b].fn \in Names /\ IsSeq(bs[b].code)
                                    /\ DOMAIN bs[b].code = 1..Len(bs[b].code)
<1>1. PICK S : bs \in Seq(BlockOf(S))
  BY DEF AreBlocks
<1>2. \A b \in 1..Len(bs) : bs[b] \in BlockOf(S)
  BY <1>1
<1>3. \A b \in 1..Len(bs) : bs[b].code \in Seq(S) /\ bs[b].fn \in Names
  BY <1>2 DEF BlockOf
<1> QED BY <1>1, <1>3 DEF IsSeq

(* Append_ adds code to one block.                                         *)
LEMMA AppendCode ==
    ASSUME NEW bs, AreBlocks(bs), NEW b \in 1..Len(bs), NEW code, IsSeq(code),
           NEW cs, cs = Append_(bs, b, code)
    PROVE  /\ AreBlocks(cs) /\ Len(cs) = Len(bs)
           /\ \A c \in 1..Len(bs) : cs[c].fn = bs[c].fn
           /\ \A c \in 1..Len(bs) : c # b => cs[c].code = bs[c].code
           /\ cs[b].code = bs[b].code \o code
<1>1. PICK S : bs \in Seq(BlockOf(S))
  BY DEF AreBlocks
<1>2. PICK T : code \in Seq(T)
  BY DEF IsSeq
<1> DEFINE U == S \union T
<1>3. bs \in Seq(BlockOf(U))
  BY <1>1, WiderBlocks
<1>4. bs[b] \in BlockOf(U) /\ code \in Seq(U)
  BY <1>2, <1>3
<1>5. bs[b].code \o code \in Seq(U)
  BY <1>4 DEF BlockOf
<1>6. [bs[b] EXCEPT !.code = bs[b].code \o code] \in BlockOf(U)
  BY <1>4, <1>5 DEF BlockOf
<1>7. cs = [bs EXCEPT ![b] = [bs[b] EXCEPT !.code = bs[b].code \o code]]
  BY <1>3, <1>4 DEF Append_, BlockOf
<1>8. cs \in Seq(BlockOf(U)) /\ Len(cs) = Len(bs)
  BY <1>3, <1>6, <1>7
<1> DEFINE new == [bs[b] EXCEPT !.code = bs[b].code \o code]
<1>9. \A c \in 1..Len(bs) : c # b => cs[c] = bs[c]
  BY <1>3, <1>7
<1>10. cs[b] = new
  <2> HIDE DEF new
  <2>1. cs = [bs EXCEPT ![b] = new]
    BY <1>7 DEF new
  <2>2. b \in DOMAIN bs
    BY <1>3
  <2> QED BY <2>1, <2>2
<1>11. cs[b].fn = bs[b].fn /\ cs[b].code = bs[b].code \o code
  BY <1>4, <1>10 DEF BlockOf
<1>12. AreBlocks(cs)
  BY <1>8 DEF AreBlocks
<1>13. \A c \in 1..Len(bs) : cs[c].fn = bs[c].fn
  BY <1>9, <1>11
<1> QED BY <1>8, <1>9, <1>11, <1>12, <1>13

New(n, f) == [i \in 1..n |-> Block(f)]

(* Blocks of one function are added behind the others, empty.              *)
LEMMA AddBlocks ==
    ASSUME NEW bs, AreBlocks(bs), NEW f \in Names, NEW n \in Nat
    PROVE  /\ AreBlocks(bs \o New(n, f)) /\ Len(bs \o New(n, f)) = Len(bs) + n
           /\ \A c \in 1..Len(bs) : (bs \o New(n, f))[c] = bs[c]
           /\ \A c \in Len(bs)+1..Len(bs)+n : (bs \o New(n, f))[c] = Block(f)
<1> DEFINE new == New(n, f)
           cs  == bs \o new
<1>1. PICK S : bs \in Seq(BlockOf(S))
  BY DEF AreBlocks
<1>2. Block(f) \in BlockOf(S)
  BY DEF Block, BlockOf
<1>3. new \in Seq(BlockOf(S)) /\ Len(new) = n
  <2>1. new \in [1..n -> BlockOf(S)]
    BY <1>2 DEF New
  <2> HIDE DEF new
  <2> QED BY <2>1, IsASeq, LenProperties
<1>4. \A i \in 1..n : new[i] = Block(f)
  BY DEF New
<1>5. cs = bs \o new
  OBVIOUS
<1> DEFINE B == BlockOf(S)
<1> HIDE DEF new, B, cs
<1>6. bs \in Seq(B) /\ new \in Seq(B) /\ n \in Nat
  BY <1>1, <1>3 DEF B
<1>7. cs \in Seq(B) /\ Len(cs) = Len(bs) + n
  BY ONLY <1>3, <1>5, <1>6, ConcatProperties
<1>8. /\ \A c \in 1..Len(bs) : cs[c] = bs[c]
      /\ \A c \in Len(bs)+1..Len(bs)+n : cs[c] = new[c - Len(bs)] /\ c - Len(bs) \in 1..n
  BY ONLY <1>3, <1>5, <1>6, LenProperties, ConcatProperties
<1>9. AreBlocks(cs)
  BY <1>7 DEF AreBlocks, B
<1>10. /\ AreBlocks(cs) /\ Len(cs) = Len(bs) + n
       /\ \A c \in 1..Len(bs) : cs[c] = bs[c]
       /\ \A c \in Len(bs)+1..Len(bs)+n : cs[c] = Block(f)
  BY <1>4, <1>7, <1>8, <1>9
<1> QED BY <1>10 DEF cs, new

(* The ends of functions stay ends when blocks of one function are added.  *)
LEMMA AddedEnds ==
    ASSUME NEW bs, NEW cs, NEW f, NEW m \in Nat, NEW n \in Nat,
           Len(bs) = m, Len(cs) = m + n, Ends(bs),
           \A c \in 1..m : cs[c].fn = bs[c].fn,
           \A c \in m+1..m+n : cs[c].fn = f
    PROVE  Ends(cs)
<1>1. \E b \in 1..Len(cs) : IsBack(cs, globals_init, b)
  <2>1. CASE n # 0 /\ f = globals_init
    BY <2>1 DEF IsBack, Near
  <2>2. CASE n = 0 \/ f # globals_init
    BY <2>2 DEF Ends, IsBack, Near
  <2> QED BY <2>1, <2>2
<1>2. ASSUME Near(cs, "main") # {}
      PROVE  \E b \in 1..Len(cs) : IsFront(cs, "main", b)
  <2>1. CASE Near(bs, "main") # {}
    <3>1. PICK b \in 1..m : IsFront(bs, "main", b)
      BY <2>1 DEF Ends
    <3>2. IsFront(cs, "main", b)
      BY <3>1 DEF IsFront, Near
    <3> QED BY <3>1, <3>2
  <2>2. CASE Near(bs, "main") = {}
    <3>1. PICK c \in 1..Len(cs) : cs[c].fn = "main"
      BY <1>2 DEF Near
    <3>2. \A b \in 1..m : cs[b].fn # "main"
      BY <2>2 DEF Near
    <3>3. c \in m+1..m+n /\ f = "main"
      BY <3>1, <3>2
    <3>4. IsFront(cs, "main", m + 1)
      BY <3>2, <3>3 DEF IsFront, Near
    <3> QED BY <3>3, <3>4
  <2> QED BY <2>1, <2>2
<1> QED BY <1>1, <1>2 DEF Ends

(* Code that is at home in the block it is added to leaves all code at     *)
(* home, if blocks of its function are added with it.                      *)
LEMMA Grow ==
    ASSUME NEW bs, AreBlocks(bs), Home(bs), Ends(bs),
           NEW f, NEW b \in Near(bs, f), NEW n \in Nat, NEW code, IsSeq(code),
           NEW near, near = Near(bs, f) \union Len(bs)+1..Len(bs)+n,
           AllAtHome(code, f, near)
    PROVE  LET cs == Append_(bs, b, code) \o New(n, f) IN
           /\ AreBlocks(cs) /\ Home(cs) /\ Ends(cs)
           /\ Len(cs) = Len(bs) + n /\ Near(cs, f) = near
<1> DEFINE ds == Append_(bs, b, code)
           cs == ds \o New(n, f)
           old == bs[b].code
           m  == Len(bs)
<1>1. b \in 1..Len(bs) /\ bs[b].fn = f
  BY DEF Near
<1>2. /\ AreBlocks(ds) /\ Len(ds) = m
      /\ \A c \in 1..m : ds[c].fn = bs[c].fn
      /\ \A c \in 1..m : c # b => ds[c].code = bs[c].code
      /\ ds[b].code = bs[b].code \o code
  <2>1. ds = Append_(bs, b, code)
    OBVIOUS
  <2>2. AreBlocks(bs) /\ b \in 1..Len(bs) /\ IsSeq(code)
    BY <1>1
  <2> HIDE DEF ds
  <2> QED BY ONLY <2>1, <2>2, AppendCode
<1> HIDE DEF ds
<1>3. /\ m \in Nat /\ f \in Names /\ IsSeq(old)
  BY <1>1, BlocksType
<1> HIDE DEF old, m, cs
<1>4. cs = ds \o New(n, f)
  BY DEF cs
<1>5. /\ AreBlocks(cs) /\ Len(cs) = m + n
      /\ \A c \in 1..m : cs[c] = ds[c]
      /\ \A c \in m+1..m+n : cs[c] = Block(f)
  <2>1. AreBlocks(ds) /\ f \in Names /\ n \in Nat
    BY <1>2, <1>3
  <2>2. /\ AreBlocks(cs) /\ Len(cs) = Len(ds) + n
        /\ \A c \in 1..Len(ds) : cs[c] = ds[c]
        /\ \A c \in Len(ds)+1..Len(ds)+n : cs[c] = Block(f)
    BY ONLY <2>1, <1>4, AddBlocks
  <2> QED BY <1>2, <2>2
<1>6. /\ \A c \in 1..m : cs[c].fn = bs[c].fn
      /\ \A c \in m+1..m+n : cs[c].fn = f
  BY <1>2, <1>5 DEF Block
<1>7. Ends(cs)
  <2>1. Len(bs) = m
    BY DEF m
  <2>2. n \in Nat /\ Ends(bs)
    OBVIOUS
  <2> QED BY ONLY <1>3, <1>5, <1>6, <2>1, <2>2, AddedEnds
<1>8. Near(cs, f) = Near(bs, f) \union m+1..m+n
  BY <1>3, <1>5, <1>6 DEF Near, m
<1>9. \A g : Near(bs, g) \subseteq Near(cs, g)
  BY <1>3, <1>5, <1>6 DEF Near, m
<1>10. ASSUME NEW c \in 1..Len(cs), NEW i \in 1..Len(cs[c].code)
      PROVE  AtHome(cs[c].code[i], cs[c].fn, Near(cs, cs[c].fn))
  <2>1. CASE c \in 1..m /\ c # b
    <3>1. cs[c].code = bs[c].code /\ cs[c].fn = bs[c].fn
      BY <1>2, <1>5, <2>1
    <3>2. AtHome(bs[c].code[i], bs[c].fn, Near(bs, bs[c].fn))
      BY <2>1, <3>1 DEF Home, AllAtHome, m
    <3> QED BY <1>9, <3>1, <3>2 DEF AtHome
  <2>2. CASE c = b
    <3> DEFINE k == Len(old)
               l == Len(code)
    <3>1. cs[c].code = old \o code /\ cs[c].fn = f
      BY <1>2, <1>5, <1>1, <2>2 DEF old, m
    <3>2. /\ k \in Nat /\ l \in Nat
          /\ Len(cs[c].code) = k + l
          /\ \A j \in 1..k : cs[c].code[j] = old[j]
          /\ \A j \in k+1..k+l : cs[c].code[j] = code[j - k]
      <4>1. IsSeq(old) /\ IsSeq(code)
        BY <1>3
      <4>2. /\ Len(old \o code) = Len(old) + Len(code) /\ Len(old) \in Nat /\ Len(code) \in Nat
            /\ \A j \in 1..Len(old) : (old \o code)[j] = old[j]
            /\ \A j \in Len(old)+1..Len(old)+Len(code) : (old \o code)[j] = code[j - Len(old)]
        BY ONLY <4>1, SeqConcat
      <4> QED BY <3>1, <4>2
    <3> HIDE DEF k, l
    <3>3. CASE i \in 1..k
      <4>1. cs[c].code[i] = old[i]
        BY <3>2, <3>3
      <4>2. AtHome(old[i], f, Near(bs, f))
        BY <1>1, <3>3 DEF Home, AllAtHome, old, k
      <4> QED BY <1>9, <3>1, <4>1, <4>2 DEF AtHome
    <3>4. CASE i \in k+1..k+l
      <4>1. i - k \in 1..l /\ cs[c].code[i] = code[i - k]
        BY <3>2, <3>4
      <4>2. AtHome(code[i - k], f, Near(bs, f) \union m+1..m+n)
        BY <4>1 DEF AllAtHome, m, l
      <4> QED BY <1>8, <3>1, <4>1, <4>2
    <3> QED BY <3>2, <3>3, <3>4
  <2>3. CASE c \in m+1..m+n
    BY <1>5, <2>3 DEF Block
  <2> QED BY <1>3, <1>5, <2>1, <2>2, <2>3
<1>11. Home(cs)
  BY <1>10 DEF Home, AllAtHome
<1>12. AreBlocks(cs) /\ Home(cs) /\ Ends(cs) /\ Len(cs) = Len(bs) + n /\ Near(cs, f) = near
  BY <1>5, <1>7, <1>8, <1>11 DEF m
<1> QED BY <1>12 DEF cs, ds

LEMMA NoneAdded ==
    ASSUME NEW bs, AreBlocks(bs), NEW f
    PROVE  bs \o New(0, f) = bs
<1>1. PICK S : bs \in Seq(BlockOf(S))
  BY DEF AreBlocks
<1>2. New(0, f) = <<>>
  BY DEF New
<1> QED BY ONLY <1>1, <1>2, ConcatEmptySeq

(* What is still to be compiled.                                           *)

LEMMA PlainNone == \A near : Plain(<<>>, near)
<1>1. IsSeq(<<>>)
  <2>1. <<>> \in Seq({})
    OBVIOUS
  <2> QED BY <2>1 DEF IsSeq
<1> QED BY <1>1 DEF Plain

LEMMA PlainOne ==
    ASSUME NEW it, NEW near, ~IsEnd(it), Targets(it) \subseteq near
    PROVE  Plain(<<it>>, near)
<1> DEFINE q == <<it>>
<1>1. Len(q) = 1 /\ q[1] = it
  OBVIOUS
<1>2. IsSeq(q)
  BY SeqOne
<1> HIDE DEF q
<1>3. Plain(q, near)
  BY <1>1, <1>2 DEF Plain
<1> QED BY <1>3 DEF q

LEMMA PlainConcat ==
    ASSUME NEW p, NEW q, NEW near, Plain(p, near), Plain(q, near)
    PROVE  Plain(p \o q, near)
<1>1. IsSeq(p) /\ IsSeq(q)
  BY DEF Plain
<1> DEFINE pq == p \o q
           l  == Len(p)
           m  == Len(q)
<1>2. /\ IsSeq(pq) /\ l \in Nat /\ m \in Nat /\ Len(pq) = l + m
      /\ \A i \in 1..l : pq[i] = p[i]
      /\ \A i \in l+1..l+m : pq[i] = q[i - l]
  BY ONLY <1>1, SeqConcat
<1> HIDE DEF pq, l, m
<1>3. ASSUME NEW i \in 1..Len(pq)
      PROVE  ~IsEnd(pq[i]) /\ Targets(pq[i]) \subseteq near
  <2>1. CASE i \in 1..l
    BY <1>2, <2>1 DEF Plain, l
  <2>2. CASE i \in l+1..l+m
    <3>1. i - l \in 1..m /\ pq[i] = q[i - l]
      BY <1>2, <2>2
    <3> QED BY <3>1 DEF Plain, m
  <2> QED BY <1>2, <2>1, <2>2
<1>4. Plain(pq, near)
  BY <1>2, <1>3 DEF Plain
<1> QED BY <1>4 DEF pq

(* Sequences that are written out.                                         *)
LEMMA AppendOne ==
    ASSUME NEW S, NEW p \in Seq(S), NEW r \in Seq(S), NEW it \in S,
           Len(r) = Len(p) + 1, \A i \in 1..Len(p) : r[i] = p[i], r[Len(p) + 1] = it
    PROVE  p \o <<it>> = r
<1> DEFINE q == <<it>>
<1>1. q \in Seq(S) /\ Len(q) = 1 /\ q[1] = it
  OBVIOUS
<1> HIDE DEF q
<1>2. /\ p \in Seq(S) /\ Len(r) = Len(p) + 1 /\ r[Len(p) + 1] = it
      /\ \A i \in 1..Len(p) : r[i] = p[i]
  OBVIOUS
<1>3. p \o q \in Seq(S) /\ Len(p \o q) = Len(r)
  <2>1. p \o q \in Seq(S) /\ Len(p \o q) = Len(p) + Len(q)
    BY ONLY <1>1, p \in Seq(S), ConcatProperties
  <2> QED BY ONLY <1>1, <2>1, Len(r) = Len(p) + 1
<1>4. \A i \in 1..Len(p \o q) : (p \o q)[i] = r[i]
  BY ONLY <1>1, <1>2, <1>3
<1>5. p \o q = r
  BY <1>3, <1>4, SeqEqual
<1> QED BY <1>5 DEF q

LEMMA TwoAndOne == \A a, b, c : <<a, b>> \o <<c>> = <<a, b, c>>
<1> TAKE a, b, c
<1> DEFINE S == {a, b, c}
           p == <<a, b>>
           r == <<a, b, c>>
<1>1. p \in Seq(S) /\ r \in Seq(S) /\ c \in S
  OBVIOUS
<1>2. Len(p) = 2 /\ Len(r) = 3 /\ p[1] = a /\ p[2] = b /\ r[1] = a /\ r[2] = b /\ r[3] = c
  OBVIOUS
<1> HIDE DEF S, p, r
<1>3. /\ Len(r) = Len(p) + 1 /\ r[Len(p) + 1] = c
      /\ \A i \in 1..Len(p) : r[i] = p[i]
  BY ONLY <1>2
<1>4. p \o << c >> = r
  BY ONLY <1>1, <1>3, AppendOne
<1> QED BY <1>4 DEF p, r

LEMMA PlainTwo ==
    ASSUME NEW a, NEW b, NEW near, Plain(<<a>>, near), Plain(<<b>>, near)
    PROVE  Plain(<<a, b>>, near)
<1> DEFINE S == {a, b}
           p == <<a>>
           r == <<a, b>>
<1>1. p \in Seq(S) /\ r \in Seq(S) /\ b \in S
  OBVIOUS
<1>2. Len(p) = 1 /\ Len(r) = 2 /\ p[1] = a /\ r[1] = a /\ r[2] = b
  OBVIOUS
<1>3. Plain(p \o <<b>>, near)
  BY PlainConcat
<1> HIDE DEF S, p, r
<1>4. /\ Len(r) = Len(p) + 1 /\ r[Len(p) + 1] = b
      /\ \A i \in 1..Len(p) : r[i] = p[i]
  BY ONLY <1>2
<1>5. p \o <<b>> = r
  BY ONLY <1>1, <1>4, AppendOne
<1>6. Plain(r, near)
  BY <1>3, <1>5
<1> QED BY <1>6 DEF r

LEMMA PlainThree ==
    ASSUME NEW a, NEW b, NEW c, NEW near,
           Plain(<<a>>, near), Plain(<<b>>, near), Plain(<<c>>, near)
    PROVE  Plain(<<a, b, c>>, near)
<1>1. <<a, b>> \o <<c>> = <<a, b, c>>
  BY TwoAndOne
<1>2. Plain(<<a, b>> \o <<c>>, near)
  BY PlainTwo, PlainConcat
<1> QED BY <1>1, <1>2

(* The items that name no block.                                           *)
LEMMA PlainItems ==
    ASSUME NEW near
    PROVE  /\ \A k \in {"expr", "zero", "stmt", "more", "drop", "return"} : Plain(<<It(k)>>, near)
           /\ \A id : Plain(<<Load(id)>>, near) /\ Plain(<<Store(id)>>, near) /\ Plain(<<Bin(id)>>, near)
           /\ \A id, n : Plain(<<Args(id, n)>>, near) /\ Plain(<<If(n)>>, near)
<1>1. ASSUME NEW k \in {"expr", "zero", "stmt", "more", "drop", "return"} PROVE Plain(<<It(k)>>, near)
  <2>1. It(k).k = k
    BY DEF It
  <2>2. ~IsEnd(It(k)) /\ Targets(It(k)) = {}
    BY <2>1 DEF Targets, IsEnd
  <2> QED BY <2>2, PlainOne
<1>2. ASSUME NEW id PROVE Plain(<<Load(id)>>, near) /\ Plain(<<Store(id)>>, near) /\ Plain(<<Bin(id)>>, near)
  <2>1. Load(id).k = "load" /\ Store(id).k = "store" /\ Bin(id).k = "bin"
    BY DEF Load, Store, Bin
  <2>2. ~IsEnd(Load(id)) /\ ~IsEnd(Store(id)) /\ ~IsEnd(Bin(id))
    BY <2>1 DEF IsEnd
  <2>3. Targets(Load(id)) = {} /\ Targets(Store(id)) = {} /\ Targets(Bin(id)) = {}
    BY <2>1 DEF Targets
  <2> QED BY <2>2, <2>3, PlainOne
<1>3. ASSUME NEW id, NEW n PROVE Plain(<<Args(id, n)>>, near) /\ Plain(<<If(n)>>, near)
  <2>1. Args(id, n).k = "args" /\ If(n).k = "if"
    BY DEF Args, If
  <2>2. ~IsEnd(Args(id, n)) /\ ~IsEnd(If(n))
    BY <2>1 DEF IsEnd
  <2>3. Targets(Args(id, n)) = {} /\ Targets(If(n)) = {}
    BY <2>1 DEF Targets
  <2> QED BY <2>2, <2>3, PlainOne
<1> QED BY <1>1, <1>2, <1>3

LEMMA PlainBody == \A near : Plain(Body, near)
  BY PlainItems, PlainTwo DEF Body

(* The items that name blocks, of the function that is being compiled.     *)
LEMMA PlainJumps ==
    ASSUME NEW near, NEW a \in near, NEW b \in near
    PROVE  /\ Plain(<<Then(a, b)>>, near) /\ Plain(<<Join(a, b)>>, near)
           /\ Plain(<<While(a, b)>>, near) /\ Plain(<<Repeat(a, b)>>, near)
<1>1. /\ Then(a, b).k = "then" /\ Then(a, b).b = a /\ Then(a, b).exit = b
      /\ Join(a, b).k = "join" /\ Join(a, b).exit = a /\ Join(a, b).next = b
      /\ While(a, b).k = "while" /\ While(a, b).body = a /\ While(a, b).exit = b
      /\ Repeat(a, b).k = "repeat" /\ Repeat(a, b).cond = a /\ Repeat(a, b).exit = b
  BY DEF Then, Join, While, Repeat
<1>2. /\ Targets(Then(a, b)) = {a, b} /\ Targets(Join(a, b)) = {a, b}
      /\ Targets(While(a, b)) = {a, b} /\ Targets(Repeat(a, b)) = {a, b}
  BY <1>1 DEF Targets
<1>3. ~IsEnd(Then(a, b)) /\ ~IsEnd(Join(a, b)) /\ ~IsEnd(While(a, b)) /\ ~IsEnd(Repeat(a, b))
  BY <1>1 DEF IsEnd
<1> QED BY <1>2, <1>3, PlainOne

(* The first item is replaced by items of the same function.               *)
LEMMA PlanGoesOn ==
    ASSUME NEW q, NEW near, NEW wide, NEW f, NEW items,
           q # <<>>, Plan(q, near, f), near \subseteq wide, ~IsEnd(Head(q)),
           Plain(items, wide)
    PROVE  Plan(items \o Tail(q), wide, f)
<1> DEFINE rest == Tail(q)
           new  == items \o rest
           l    == Len(items)
           m    == Len(q)
           n    == Len(rest)
<1>1. IsSeq(q) /\ IsSeq(items)
  BY DEF Plan, Plain
<1>2. /\ m \in Nat \ {0} /\ Head(q) = q[1] /\ IsSeq(rest) /\ n = m - 1
      /\ \A i \in 1..m-1 : rest[i] = q[i + 1]
  BY ONLY <1>1, q # <<>>, SeqTail
<1>3. /\ IsSeq(new) /\ l \in Nat /\ Len(new) = l + n
      /\ \A i \in 1..l : new[i] = items[i]
      /\ \A i \in l+1..l+n : new[i] = rest[i - l]
  BY ONLY <1>1, <1>2, SeqConcat
<1> HIDE DEF rest, new, l, m, n
<1>4. \A i \in l+1..l+m-1 : i - l + 1 \in 2..m /\ new[i] = q[i - l + 1]
  BY ONLY <1>2, <1>3
<1>5. /\ \A i \in 1..l : ~IsEnd(items[i]) /\ Targets(items[i]) \subseteq wide
      /\ \A i \in 1..m : (IsEnd(q[i]) => i = m) /\ Targets(q[i]) \subseteq wide
      /\ f # globals_init => IsEnd(q[m])
      /\ ~IsEnd(q[1])
  BY <1>2 DEF Plain, Plan, l, m
<1>6. ASSUME NEW i \in 1..Len(new)
      PROVE  (IsEnd(new[i]) => i = Len(new)) /\ Targets(new[i]) \subseteq wide
  <2>1. CASE i \in 1..l
    BY ONLY <1>3, <1>5, <2>1
  <2>2. CASE i \in l+1..l+m-1
    <3>1. i - l + 1 \in 1..m /\ new[i] = q[i - l + 1] /\ Len(new) = l + m - 1
      BY ONLY <1>2, <1>3, <1>4, <2>2
    <3> QED BY ONLY <1>2, <1>3, <1>5, <2>2, <3>1
  <2>3. i \in 1..l \/ i \in l+1..l+m-1
    BY ONLY <1>2, <1>3, i \in 1..Len(new)
  <2> QED BY <2>1, <2>2, <2>3
<1>7. ASSUME f # globals_init PROVE new # <<>> /\ IsEnd(new[Len(new)])
  <2>1. IsEnd(q[m]) /\ m # 1
    BY <1>7, <1>5
  <2>2. Len(new) = l + m - 1 /\ Len(new) \in l+1..l+m-1
    BY ONLY <1>2, <1>3, <2>1
  <2>3. new[Len(new)] = q[m]
    <3>1. Len(new) - l + 1 = m
      BY ONLY <1>2, <1>3, <2>2
    <3>2. new[Len(new)] = q[Len(new) - l + 1]
      BY ONLY <1>4, <2>2
    <3> QED BY ONLY <3>1, <3>2
  <2>4. new # <<>>
    BY ONLY <1>2, <1>3, <2>2
  <2> QED BY <2>1, <2>3, <2>4
<1>8. Plan(new, wide, f)
  BY <1>3, <1>6, <1>7 DEF Plan
<1> QED BY <1>8 DEF new, rest

(* Steps.                                                                  *)

(* The blocks of the function that is being compiled, n new ones included. *)
Reach(n) == Near(blocks, owner) \union Len(blocks)+1..Len(blocks)+n
SameProgram == tree' = tree /\ outcome' = outcome /\ owner' = owner

LEMMA InvFacts ==
    ASSUME HomeInv, Running
    PROVE  /\ tree \in Trees /\ outcome = "none" /\ todo # <<>>
           /\ AreBlocks(blocks) /\ Home(blocks) /\ Ends(blocks)
           /\ owner \in Names /\ ip \in 1..Len(blocks) /\ ip \in Near(blocks, owner)
           /\ blocks[ip].fn = owner /\ Parent = owner
           /\ Plan(todo, Near(blocks, owner), owner)
           /\ Targets(Head(todo)) \subseteq Near(blocks, owner)
           /\ BlocksMade = Len(blocks) /\ Len(blocks) \in Nat
<1>1. /\ tree \in Trees /\ outcome = "none" /\ todo # <<>>
      /\ AreBlocks(blocks) /\ Home(blocks) /\ Ends(blocks)
      /\ owner \in Names /\ ip \in 1..Len(blocks)
      /\ blocks[ip].fn = owner
      /\ Plan(todo, Near(blocks, owner), owner)
  BY DEF HomeInv, Running
<1>2. ip \in Near(blocks, owner)
  BY <1>1 DEF Near
<1>3. Targets(Head(todo)) \subseteq Near(blocks, owner)
  <2>1. IsSeq(todo)
    BY <1>1 DEF Plan
  <2>2. Len(todo) \in Nat \ {0} /\ Head(todo) = todo[1]
    BY ONLY <1>1, <2>1, SeqTail
  <2>3. 1 \in 1..Len(todo)
    BY ONLY <2>2
  <2> QED BY <1>1, <2>2, <2>3 DEF Plan
<1>4. Len(blocks) \in Nat
  BY <1>1, BlocksType
<1> QED BY <1>1, <1>2, <1>3, <1>4 DEF Parent, BlocksMade

(* The builder stays in its function, and what is left belongs to it.      *)
LEMMA Rebuild ==
    ASSUME HomeInv, Running, SameProgram, ~IsEnd(Head(todo)),
           AreBlocks(blocks'), Home(blocks'), Ends(blocks'),
           NEW near, near = Near(blocks', owner), Near(blocks, owner) \subseteq near,
           ip' \in near, NEW items, Plain(items, near), Do(items)
    PROVE  HomeInv'
<1>1. /\ tree' \in Trees /\ owner' \in Names
      /\ todo # <<>> /\ Plan(todo, Near(blocks, owner), owner)
  BY InvFacts DEF SameProgram
<1>2. Plan(items \o Tail(todo), near, owner)
  BY <1>1, PlanGoesOn
<1>3. Plan(todo', Near(blocks', owner'), owner')
  BY <1>2 DEF SameProgram, Do
<1>4. ip' \in 1..Len(blocks') /\ blocks'[ip'].fn = owner'
  BY DEF Near, SameProgram
<1> QED BY <1>1, <1>3, <1>4 DEF HomeInv

(* Code is added to the block the builder is at, and n blocks.             *)
LEMMA Emitted ==
    ASSUME HomeInv, Running, NEW n \in Nat, NEW code, IsSeq(code),
           AllAtHome(code, owner, Reach(n)),
           NEW cs, cs = Append_(blocks, ip, code) \o New(n, owner)
    PROVE  /\ AreBlocks(cs) /\ Home(cs) /\ Ends(cs)
           /\ Near(cs, owner) = Reach(n) /\ Len(cs) = Len(blocks) + n
           /\ Near(blocks, owner) \subseteq Reach(n)
<1>1. /\ AreBlocks(blocks) /\ Home(blocks) /\ Ends(blocks)
      /\ ip \in Near(blocks, owner)
  BY InvFacts
<1> DEFINE near == Reach(n)
<1>2. near = Near(blocks, owner) \union Len(blocks)+1..Len(blocks)+n
  BY DEF Reach
<1> HIDE DEF near
<1>3. AllAtHome(code, owner, near)
  BY DEF near
<1>4. /\ AreBlocks(cs) /\ Home(cs) /\ Ends(cs)
      /\ Len(cs) = Len(blocks) + n /\ Near(cs, owner) = near
  BY <1>1, <1>2, <1>3, Grow
<1>5. Near(blocks, owner) \subseteq near
  BY <1>2
<1> QED BY <1>4, <1>5 DEF near

LEMMA NoMore ==
    ASSUME HomeInv, Running
    PROVE  Reach(0) = Near(blocks, owner)
<1>1. Len(blocks) \in Nat
  BY InvFacts
<1> QED BY <1>1 DEF Reach

(* The steps that emit one instruction, `to' blocks of the function.       *)
LEMMA EmittedOne ==
    ASSUME HomeInv, Running, SameProgram, ~IsEnd(Head(todo)),
           NEW op, NEW var, NEW to, to \subseteq Near(blocks, owner),
           Emit(<< Instr(op, var, to) >>),
           ip' \in Near(blocks, owner),
           NEW items, Plain(items, Near(blocks, owner)), Do(items)
    PROVE  HomeInv'
<1> DEFINE code == << Instr(op, var, to) >>
<1>1. IsSeq(code) /\ Len(code) = 1 /\ code[1] = Instr(op, var, to)
  BY SeqOne
<1>2. Reach(0) = Near(blocks, owner)
  BY NoMore
<1>3. AtHome(Instr(op, var, to), owner, Reach(0))
  BY <1>2 DEF AtHome, Instr
<1>4. AreBlocks(blocks')
  <2>1. blocks' = Append_(blocks, ip, code)
    BY DEF Emit
  <2>2. AreBlocks(blocks) /\ ip \in 1..Len(blocks)
    BY InvFacts
  <2> HIDE DEF code
  <2> QED BY ONLY <1>1, <2>1, <2>2, AppendCode
<1>5. blocks' = Append_(blocks, ip, code) \o New(0, owner)
  <2>1. blocks' = Append_(blocks, ip, code)
    BY DEF Emit
  <2> HIDE DEF code
  <2> QED BY ONLY <1>4, <2>1, NoneAdded
<1> HIDE DEF code
<1>6. AllAtHome(code, owner, Reach(0))
  BY <1>1, <1>3 DEF AllAtHome
<1>7. /\ AreBlocks(blocks') /\ Home(blocks') /\ Ends(blocks')
      /\ Near(blocks', owner) = Reach(0)
  BY <1>1, <1>5, <1>6, Emitted
<1> QED BY <1>2, <1>7, Rebuild

(* The steps that leave the module as it is.                               *)
LEMMA Planned ==
    ASSUME HomeInv, Running, SameProgram, ~IsEnd(Head(todo)),
           blocks' = blocks, ip' = ip \/ ip' \in Near(blocks, owner),
           NEW items, Plain(items, Near(blocks, owner)), Do(items)
    PROVE  HomeInv'
<1>1. ip' \in Near(blocks, owner) /\ AreBlocks(blocks) /\ Home(blocks) /\ Ends(blocks)
  BY InvFacts
<1> QED BY <1>1, Rebuild

(* The steps that end the compilation.                                     *)
LEMMA Stopping ==
    ASSUME HomeInv, tree' = tree, blocks' = blocks, outcome' # "none"
    PROVE  HomeInv'
  BY DEF HomeInv

LEMMA AtItem ==
    ASSUME NEW k, At(k)
    PROVE  Running /\ Head(todo).k = k /\ (k # "end define" => ~IsEnd(Head(todo)))
  BY DEF At, IsEnd

(* The items in front that name blocks name blocks of the function.        *)
LEMMA HeadTargets ==
    ASSUME HomeInv
    PROVE  LET it == Head(todo)  near == Near(blocks, owner) IN
           /\ At("then") => it.b \in near /\ it.exit \in near
           /\ At("join") => it.exit \in near /\ it.next \in near
           /\ At("while") => it.body \in near /\ it.exit \in near
           /\ At("repeat") => it.cond \in near /\ it.exit \in near
<1> DEFINE it == Head(todo)
           near == Near(blocks, owner)
<1>1. ASSUME Running PROVE Targets(it) \subseteq near
  BY <1>1, InvFacts
<1> HIDE DEF near
<1>2. /\ it.k = "then" => Targets(it) = {it.b, it.exit}
      /\ it.k = "join" => Targets(it) = {it.exit, it.next}
      /\ it.k = "while" => Targets(it) = {it.body, it.exit}
      /\ it.k = "repeat" => Targets(it) = {it.cond, it.exit}
  BY DEF Targets
<1>3. \A k : At(k) => Running /\ it.k = k
  BY AtItem
<1> HIDE DEF it
<1>4. /\ At("then") => it.b \in near /\ it.exit \in near
      /\ At("join") => it.exit \in near /\ it.next \in near
      /\ At("while") => it.body \in near /\ it.exit \in near
      /\ At("repeat") => it.cond \in near /\ it.exit \in near
  BY <1>1, <1>2, <1>3
<1> QED BY <1>4 DEF it, near

(* compile_expr: no operation of it makes a block.                         *)

LEMMA StopStep == ASSUME HomeInv, NEW why, why # "none", Stop(why) PROVE HomeInv'
  BY Stopping DEF Stop, module

(* The expressions of the arguments.                                       *)
LEMMA PlainExprs ==
    ASSUME NEW n \in Nat, NEW near
    PROVE  Plain([i \in 1..n |-> It("expr")], near)
<1> DEFINE it == It("expr")
           q == [i \in 1..n |-> it]
<1>1. ~IsEnd(it) /\ Targets(it) = {}
  <2>1. it.k = "expr"
    BY DEF It
  <2> HIDE DEF it
  <2> QED BY <2>1 DEF IsEnd, Targets
<1> HIDE DEF it
<1>2. q \in [1..n -> {it}] /\ \A i \in 1..n : q[i] = it
  OBVIOUS
<1> HIDE DEF q
<1>3. q \in Seq({it}) /\ Len(q) = n
  BY <1>2, IsASeq, LenProperties
<1>4. Plain(q, near)
  BY <1>1, <1>2, <1>3 DEF Plain, IsSeq
<1> QED BY <1>4 DEF q, it

LEMMA GoesOn ==
    \A k \in {"expr", "zero", "load", "bin", "args", "more", "stmt", "store", "drop", "return", "if",
              "then", "join", "while", "repeat"} :
        At(k) => Running /\ ~IsEnd(Head(todo))
  BY AtItem

LEMMA AtIp == HomeInv /\ Running => ip \in Near(blocks, owner) /\ {} \subseteq Near(blocks, owner)
  BY InvFacts

LEMMA CallStep ==
    ASSUME HomeInv, Running, ~IsEnd(Head(todo)), NEW id, NEW n \in Nat, NEW then,
           Plain(then, Near(blocks, owner)), Call(id, n, then)
    PROVE  HomeInv'
<1> DEFINE f == Function(id)
           near == Near(blocks, owner)
<1>1. CASE f # <<>> /\ Len(f[1].params) = n
  <2>1. /\ Do([i \in 1..n |-> It("expr")] \o << Args(id, n) >> \o then)
        /\ SameProgram /\ blocks' = blocks /\ ip' = ip
    BY <1>1 DEF Call, Keep, SameProgram, module
  <2> DEFINE args == [i \in 1..n |-> It("expr")]
             last_ == << Args(id, n) >>
  <2>2. Plain(args, near) /\ Plain(last_, near) /\ Plain(then, near)
    BY PlainExprs, PlainItems
  <2> HIDE DEF args, last_, near
  <2>3. Plain(args \o last_, near)
    BY ONLY <2>2, PlainConcat
  <2>4. Plain((args \o last_) \o then, near)
    BY ONLY <2>2, <2>3, PlainConcat
  <2>5. Do((args \o last_) \o then)
    BY <2>1 DEF args, last_
  <2> HIDE DEF f
  <2> QED BY <2>1, <2>4, <2>5, Planned DEF near
<1>2. CASE ~(f # <<>> /\ Len(f[1].params) = n)
  <2>1. outcome' = "exception" /\ tree' = tree /\ blocks' = blocks
    BY <1>2 DEF Call, module
  <2> QED BY <2>1, Stopping
<1> QED BY <1>1, <1>2

LEMMA ExprStep == HomeInv /\ Expr_ => HomeInv'
<1> SUFFICES ASSUME HomeInv, Expr_ PROVE HomeInv'
  OBVIOUS
<1> DEFINE near == Near(blocks, owner)
<1>1. CASE NumberExpr
  <2>1. SameProgram /\ blocks' = blocks /\ ip' = ip /\ Do(<<>>) /\ At("expr")
    BY <1>1 DEF NumberExpr, Pure, Keep, SameProgram
  <2> QED BY <2>1, GoesOn, PlainNone, Planned
<1>2. CASE VariableExpr
  <2>1. SameProgram /\ blocks' = blocks /\ ip' = ip /\ At("expr")
    BY <1>2 DEF VariableExpr, Pure, Keep, SameProgram
  <2>2. PICK id : \/ Do(<< It("expr"), Load(id) >>)
                  \/ Do(<< It("zero"), Load(id) >>)
    BY <1>2 DEF VariableExpr
  <2>3. Plain(<< It("expr"), Load(id) >>, near) /\ Plain(<< It("zero"), Load(id) >>, near)
    BY PlainItems, PlainTwo
  <2> QED BY <2>1, <2>2, <2>3, GoesOn, Planned
<1>3. CASE ZeroIndex
  <2>1. SameProgram /\ blocks' = blocks /\ ip' = ip /\ Do(<<>>) /\ At("zero")
    BY <1>3 DEF ZeroIndex, Pure, Keep, SameProgram
  <2> QED BY <2>1, GoesOn, PlainNone, Planned
<1>4. CASE LoadVariable
  <2>1. CASE Stop("exception") \/ Stop("assert")
    BY <2>1, StopStep
  <2>2. CASE ~(Stop("exception") \/ Stop("assert"))
    <3>1. /\ SameProgram /\ ip' = ip /\ Do(<<>>) /\ At("load")
          /\ Emit(<< Instr("load", find(Head(todo).id), {}) >>)
      BY <1>4, <2>2 DEF LoadVariable, Pure, Keep, SameProgram
    <3> QED BY <3>1, GoesOn, AtIp, PlainNone, EmittedOne
  <2> QED BY <2>1, <2>2
<1>5. CASE BinaryExpr
  <2>1. SameProgram /\ blocks' = blocks /\ ip' = ip /\ At("expr")
    BY <1>5 DEF BinaryExpr, Pure, Keep, SameProgram
  <2>2. PICK id : \/ Do(<< It("expr"), It("expr"), Bin(id) >>)
                  \/ Do(<< It("expr") >>)
    BY <1>5 DEF BinaryExpr
  <2>3. Plain(<< It("expr"), It("expr"), Bin(id) >>, near) /\ Plain(<< It("expr") >>, near)
    BY PlainItems, PlainThree
  <2> QED BY <2>1, <2>2, <2>3, GoesOn, Planned
<1>6. CASE compile_expr_bin
  <2>1. CASE Stop("assert")
    BY <2>1, StopStep
  <2>2. CASE ~Stop("assert")
    <3>1. SameProgram /\ blocks' = blocks /\ ip' = ip /\ Do(<<>>) /\ At("bin")
      BY <1>6, <2>2 DEF compile_expr_bin, Pure, Keep, SameProgram
    <3> QED BY <3>1, GoesOn, PlainNone, Planned
  <2> QED BY <2>1, <2>2
<1>7. CASE CallExpr
  <2>1. At("expr") /\ \E id : \E n \in Nat : Call(id, n, <<>>)
    <3>1. \A e \in Of("call") : e.n \in Nat
      BY IRGenAssumption DEF Of, Bounded, Node
    <3> QED BY <1>7, <3>1 DEF CallExpr
  <2>2. PICK id, n : n \in Nat /\ Call(id, n, <<>>)
    BY <2>1
  <2> QED BY <2>1, <2>2, GoesOn, PlainNone, CallStep
<1>8. CASE CallEnd
  <2>1. CASE Stop("assert")
    BY <2>1, StopStep
  <2>2. CASE ~Stop("assert")
    <3>1. /\ SameProgram /\ ip' = ip /\ Do(<<>>) /\ At("args")
          /\ Emit(<< Instr("call", None, {}) >>)
      BY <1>8, <2>2 DEF CallEnd, Pure, Keep, SameProgram
    <3> QED BY <3>1, GoesOn, AtIp, PlainNone, EmittedOne
  <2> QED BY <2>1, <2>2
<1> QED BY <1>1, <1>2, <1>3, <1>4, <1>5, <1>6, <1>7, <1>8 DEF Expr_

(* compile_stmt: branches and loops make three blocks each.                *)

LEMMA SimpleStmt ==
    ASSUME HomeInv,
           compile_stmt \/ AssignStmt \/ compile_assign \/ CallStmt \/ Drop \/ ReturnStmt
           \/ compile_return \/ IfStmt
    PROVE  HomeInv'
<1> DEFINE near == Near(blocks, owner)
<1>1. CASE compile_stmt
  <2>1. SameProgram /\ blocks' = blocks /\ ip' = ip /\ At("more") /\ (Do(<<>>) \/ Do(Body))
    BY <1>1 DEF compile_stmt, Pure, Keep, SameProgram
  <2> QED BY <2>1, GoesOn, PlainNone, PlainBody, Planned
<1>2. CASE AssignStmt
  <2>1. PICK s \in Stmt("assign") :
          LET var == [block |-> ip, at |-> Len(blocks[ip].code) + 1, arg |-> 0] IN
          /\ At("stmt") /\ SameProgram /\ ip' = ip
          /\ Do(<< It("expr"), Store(s.id) >>)
          /\ blocks' = blocks \/ Emit(<< Instr("alloca", var, {}) >>)
    BY <1>2 DEF AssignStmt, Keep, SameProgram
  <2>2. Plain(<< It("expr"), Store(s.id) >>, near)
    BY PlainItems, PlainTwo
  <2> QED BY <2>1, <2>2, GoesOn, AtIp, Planned, EmittedOne
<1>3. CASE compile_assign
  <2>1. CASE Stop("assert")
    BY <2>1, StopStep
  <2>2. CASE ~Stop("assert")
    <3>1. /\ SameProgram /\ ip' = ip /\ Do(<<>>) /\ At("store")
          /\ Emit(<< Instr("store", find(Head(todo).id), {}) >>)
      BY <1>3, <2>2 DEF compile_assign, Keep, SameProgram
    <3> QED BY <3>1, GoesOn, AtIp, PlainNone, EmittedOne
  <2> QED BY <2>1, <2>2
<1>4. CASE CallStmt
  <2>1. At("stmt") /\ \E id : \E n \in Nat : Call(id, n, << It("drop") >>)
    <3>1. \A e \in Stmt("call") : e.n \in Nat
      BY IRGenAssumption DEF Stmt, Bounded, Node
    <3> QED BY <1>4, <3>1 DEF CallStmt
  <2>2. PICK id, n : n \in Nat /\ Call(id, n, << It("drop") >>)
    BY <2>1
  <2>3. Plain(<< It("drop") >>, near)
    BY PlainItems
  <2> QED BY <2>1, <2>2, <2>3, GoesOn, CallStep
<1>5. CASE Drop
  <2>1. SameProgram /\ blocks' = blocks /\ ip' = ip /\ Do(<<>>) /\ At("drop")
    BY <1>5 DEF Drop, Keep, SameProgram, module
  <2> QED BY <2>1, GoesOn, PlainNone, Planned
<1>6. CASE ReturnStmt
  <2>1. /\ SameProgram /\ blocks' = blocks /\ ip' = ip /\ At("stmt")
        /\ Do(<< It("expr"), It("return") >>)
    BY <1>6 DEF ReturnStmt, Pure, Keep, SameProgram
  <2>2. Plain(<< It("expr"), It("return") >>, near)
    BY PlainItems, PlainTwo
  <2> QED BY <2>1, <2>2, GoesOn, Planned
<1>7. CASE compile_return
  <2>1. /\ SameProgram /\ ip' = ip /\ Do(<<>>) /\ At("return")
        /\ Emit(<< Instr("ret", None, {}) >>)
    BY <1>7 DEF compile_return, Keep, SameProgram, Ret
  <2> QED BY <2>1, GoesOn, AtIp, PlainNone, EmittedOne
<1>8. CASE IfStmt
  <2>1. /\ SameProgram /\ blocks' = blocks /\ ip' = ip /\ At("stmt")
        /\ \E n : Do(<< It("expr"), If(n) >>)
    BY <1>8 DEF IfStmt, Pure, Keep, SameProgram
  <2>2. PICK n : Do(<< It("expr"), If(n) >>)
    BY <2>1
  <2>3. Plain(<< It("expr"), If(n) >>, near)
    BY PlainItems, PlainTwo
  <2> QED BY <2>1, <2>2, <2>3, GoesOn, Planned
<1> QED BY <1>1, <1>2, <1>3, <1>4, <1>5, <1>6, <1>7, <1>8

(* The blocks a construct makes are new ones of the function.              *)
LEMMA NewBlocks ==
    ASSUME HomeInv, Running
    PROVE  /\ {BlocksMade + 1, BlocksMade + 2, BlocksMade + 3} \subseteq Reach(3)
           /\ [i \in 1..3 |-> Block(Parent)] = New(3, owner)
           /\ Near(blocks, owner) \subseteq Reach(3)
<1>1. Len(blocks) \in Nat /\ BlocksMade = Len(blocks) /\ Parent = owner
  BY InvFacts
<1>2. [i \in 1..3 |-> Block(Parent)] = New(3, owner)
  BY <1>1 DEF New
<1>3. {Len(blocks) + 1, Len(blocks) + 2, Len(blocks) + 3} \subseteq Len(blocks)+1..Len(blocks)+3
  BY ONLY <1>1
<1> QED BY <1>1, <1>2, <1>3 DEF Reach

(* A jump to blocks of the function, and three blocks for what follows.    *)
LEMMA Jumped ==
    ASSUME HomeInv, Running, NEW op, NEW var, NEW to, to \subseteq Reach(3),
           NEW cs, cs = Append_(blocks, ip, << Instr(op, var, to) >>) \o New(3, owner)
    PROVE  /\ AreBlocks(cs) /\ Home(cs) /\ Ends(cs) /\ Near(cs, owner) = Reach(3)
<1> DEFINE code == << Instr(op, var, to) >>
<1>1. IsSeq(code) /\ Len(code) = 1 /\ code[1] = Instr(op, var, to)
  BY SeqOne
<1>2. cs = Append_(blocks, ip, code) \o New(3, owner)
  OBVIOUS
<1>3. AtHome(Instr(op, var, to), owner, Reach(3))
  BY DEF AtHome, Instr
<1> HIDE DEF code
<1>4. AllAtHome(code, owner, Reach(3))
  BY <1>1, <1>3 DEF AllAtHome
<1> QED BY <1>1, <1>2, <1>4, Emitted

(* An instruction is added to any block of the function.                   *)
LEMMA OneMore ==
    ASSUME NEW bs, AreBlocks(bs), Home(bs), Ends(bs), NEW b \in Near(bs, owner),
           NEW op, NEW var, NEW to, to \subseteq Near(bs, owner),
           NEW cs, cs = Append_(bs, b, << Instr(op, var, to) >>)
    PROVE  AreBlocks(cs) /\ Home(cs) /\ Ends(cs) /\ Near(cs, owner) = Near(bs, owner)
<1> DEFINE code == << Instr(op, var, to) >>
           near == Near(bs, owner)
<1>1. IsSeq(code) /\ Len(code) = 1 /\ code[1] = Instr(op, var, to)
  BY SeqOne
<1>2. cs = Append_(bs, b, code) /\ b \in 1..Len(bs) /\ Len(bs) \in Nat
  BY BlocksType DEF Near
<1>3. near = Near(bs, owner) \union Len(bs)+1..Len(bs)+0
  BY <1>2
<1>4. AtHome(Instr(op, var, to), owner, near)
  BY DEF AtHome, Instr
<1> HIDE DEF code
<1>5. AllAtHome(code, owner, near)
  BY <1>1, <1>4 DEF AllAtHome
<1> HIDE DEF near
<1>6. AreBlocks(cs)
  BY <1>1, <1>2, AppendCode
<1>7. cs = Append_(bs, b, code) \o New(0, owner)
  BY <1>2, <1>6, NoneAdded
<1> DEFINE ds == Append_(bs, b, code) \o New(0, owner)
<1>8. AreBlocks(ds) /\ Home(ds) /\ Ends(ds) /\ Near(ds, owner) = near
  BY <1>1, <1>3, <1>5, Grow
<1> QED BY <1>7, <1>8 DEF near

LEMMA IfStep == HomeInv /\ compile_if => HomeInv'
<1> SUFFICES ASSUME HomeInv, compile_if PROVE HomeInv'
  OBVIOUS
<1> DEFINE then == BlocksMade + 1
           else == BlocksMade + 2
           exit == BlocksMade + 3
           made == Append_(blocks, ip, << CondBr(then, else) >>) \o [i \in 1..3 |-> Block(Parent)]
           near == Reach(3)
<1>1. CASE Stop("assert")
  BY <1>1, StopStep
<1>2. CASE ~Stop("assert")
  <2>1. /\ SameProgram /\ At("if")
        /\ \/ /\ blocks' = made /\ ip' = else
              /\ Do(Body \o << Join(exit, then), Then(then, exit) >>)
           \/ /\ blocks' = Append_(made, else, << Br(exit) >>) /\ ip' = then
              /\ Do(<< Then(then, exit) >>)
    BY <1>2 DEF compile_if, Keep, SameProgram
  <2>2. Running /\ ~IsEnd(Head(todo))
    BY <2>1, GoesOn
  <2>3. {then, else, exit} \subseteq near /\ Near(blocks, owner) \subseteq near
    BY <2>2, NewBlocks
  <2>4. made = Append_(blocks, ip, << Instr("br", None, {then, else}) >>) \o New(3, owner)
    BY <2>2, NewBlocks DEF CondBr
  <2> HIDE DEF then, else, exit, made, near
  <2>5. AreBlocks(made) /\ Home(made) /\ Ends(made) /\ Near(made, owner) = near
    <3>1. {then, else} \subseteq Reach(3)
      BY <2>3 DEF near
    <3> QED BY <2>2, <2>4, <3>1, Jumped DEF near
  <2>6. /\ Plain(<< Join(exit, then), Then(then, exit) >>, near)
        /\ Plain(<< Then(then, exit) >>, near)
    BY <2>3, PlainJumps, PlainTwo
  <2>7. Plain(Body \o << Join(exit, then), Then(then, exit) >>, near)
    BY <2>6, PlainBody, PlainConcat
  <2>8. CASE blocks' = made /\ ip' = else /\ Do(Body \o << Join(exit, then), Then(then, exit) >>)
    <3>1. near = Near(blocks', owner) /\ AreBlocks(blocks') /\ Home(blocks') /\ Ends(blocks')
      BY <2>5, <2>8
    <3> QED BY <2>1, <2>2, <2>3, <2>7, <2>8, <3>1, Rebuild
  <2>9. CASE /\ blocks' = Append_(made, else, << Br(exit) >>) /\ ip' = then
             /\ Do(<< Then(then, exit) >>)
    <3>1. blocks' = Append_(made, else, << Instr("br", None, {exit}) >>)
      BY <2>9 DEF Br
    <3>2. else \in Near(made, owner) /\ {exit} \subseteq Near(made, owner)
      BY <2>3, <2>5
    <3>3. near = Near(blocks', owner) /\ AreBlocks(blocks') /\ Home(blocks') /\ Ends(blocks')
      BY <2>5, <3>1, <3>2, OneMore
    <3> QED BY <2>1, <2>2, <2>3, <2>6, <2>9, <3>3, Rebuild
  <2> QED BY <2>1, <2>8, <2>9
<1> QED BY <1>1, <1>2

LEMMA WhileStep == HomeInv /\ WhileStmt => HomeInv'
<1> SUFFICES ASSUME HomeInv, WhileStmt PROVE HomeInv'
  OBVIOUS
<1> DEFINE cond == BlocksMade + 1
           body == BlocksMade + 2
           exit == BlocksMade + 3
           made == Append_(blocks, ip, << Br(cond) >>) \o [i \in 1..3 |-> Block(Parent)]
           near == Reach(3)
           first == << It("expr"), While(body, exit) >>
           items == first \o Body \o << Repeat(cond, exit) >>
<1>1. SameProgram /\ At("stmt") /\ blocks' = made /\ ip' = cond /\ Do(items)
  BY DEF WhileStmt, Pure, Keep, SameProgram
<1>2. Running /\ ~IsEnd(Head(todo))
  BY <1>1, GoesOn
<1>3. {cond, body, exit} \subseteq near /\ Near(blocks, owner) \subseteq near
  BY <1>2, NewBlocks
<1>4. made = Append_(blocks, ip, << Instr("br", None, {cond}) >>) \o New(3, owner)
  BY <1>2, NewBlocks DEF Br
<1> HIDE DEF cond, body, exit, made, near
<1>5. AreBlocks(made) /\ Home(made) /\ Ends(made) /\ Near(made, owner) = near
  <2>1. {cond} \subseteq Reach(3)
    BY <1>3 DEF near
  <2> QED BY <1>2, <1>4, <2>1, Jumped DEF near
<1>6. Plain(first, near) /\ Plain(<< Repeat(cond, exit) >>, near) /\ Plain(Body, near)
  BY <1>3, PlainItems, PlainJumps, PlainTwo, PlainBody
<1>7. Plain(items, near)
  <2> HIDE DEF first
  <2>1. Plain(first \o Body, near)
    BY <1>6, PlainConcat
  <2> QED BY <1>6, <2>1, PlainConcat
<1> HIDE DEF items
<1>8. near = Near(blocks', owner) /\ AreBlocks(blocks') /\ Home(blocks') /\ Ends(blocks')
  BY <1>1, <1>5
<1> QED BY <1>1, <1>2, <1>3, <1>7, <1>8, Rebuild

(* The steps that take up the blocks the stack has kept.                   *)
LEMMA KeptBlocks ==
    ASSUME HomeInv, Branch \/ EndBranch \/ TestCondition \/ compile_while
    PROVE  HomeInv'
<1> DEFINE near == Near(blocks, owner)
           it == Head(todo)
<1>1. CASE Branch
  <2>1. /\ SameProgram /\ At("then") /\ blocks' = blocks /\ ip' = it.b
        /\ Do(Body \o << Join(it.exit, it.exit) >>)
    BY <1>1 DEF Branch, Keep, SameProgram
  <2>2. it.b \in near /\ it.exit \in near
    BY <2>1, HeadTargets
  <2>3. Plain(Body \o << Join(it.exit, it.exit) >>, near)
    BY <2>2, PlainBody, PlainJumps, PlainConcat
  <2> QED BY <2>1, <2>2, <2>3, GoesOn, Planned
<1>2. CASE EndBranch
  <2>1. /\ SameProgram /\ At("join") /\ ip' = it.next /\ Do(<<>>)
        /\ blocks' = blocks \/ Emit(<< Instr("br", None, {it.exit}) >>)
    BY <1>2 DEF EndBranch, Keep, SameProgram, Br
  <2>2. it.next \in near /\ {it.exit} \subseteq near
    BY <2>1, HeadTargets
  <2> QED BY <2>1, <2>2, GoesOn, PlainNone, Planned, EmittedOne
<1>3. CASE TestCondition
  <2>1. CASE Stop("assert")
    BY <2>1, StopStep
  <2>2. CASE ~Stop("assert")
    <3>1. /\ SameProgram /\ At("while") /\ ip' = it.body /\ Do(<<>>)
          /\ Emit(<< Instr("br", None, {it.body, it.exit}) >>)
      BY <1>3, <2>2 DEF TestCondition, Keep, SameProgram, CondBr
    <3>2. it.body \in near /\ {it.body, it.exit} \subseteq near
      BY <3>1, HeadTargets
    <3> QED BY <3>1, <3>2, GoesOn, PlainNone, EmittedOne
  <2> QED BY <2>1, <2>2
<1>4. CASE compile_while
  <2>1. /\ SameProgram /\ At("repeat") /\ ip' = it.exit /\ Do(<<>>)
        /\ blocks' = blocks \/ Emit(<< Instr("br", None, {it.cond}) >>)
    BY <1>4 DEF compile_while, Keep, SameProgram, Br
  <2>2. it.exit \in near /\ {it.cond} \subseteq near
    BY <2>1, HeadTargets
  <2> QED BY <2>1, <2>2, GoesOn, PlainNone, Planned, EmittedOne
<1> QED BY <1>1, <1>2, <1>3, <1>4

(* compile: definitions, initialisers and the end.                         *)

(* A block is added with its code.                                         *)
LEMMA AppendBlock ==
    ASSUME NEW bs, AreBlocks(bs), Home(bs), Ends(bs), NEW f \in Names, NEW code, IsSeq(code),
           AllAtHome(code, f, Near(bs, f)),
           NEW cs, cs = Append(bs, [fn |-> f, code |-> code])
    PROVE  AreBlocks(cs) /\ Home(cs) /\ Ends(cs) /\ Len(bs) + 1 \in Near(cs, f)
<1> DEFINE new == [fn |-> f, code |-> code]
           m == Len(bs)
<1>1. PICK S : bs \in Seq(BlockOf(S))
  BY DEF AreBlocks
<1>2. PICK T : code \in Seq(T)
  BY DEF IsSeq
<1> DEFINE U == BlockOf(S \union T)
<1>3. new \in U
  <2>1. code \in Seq(S \union T)
    BY <1>2
  <2> QED BY <2>1 DEF BlockOf
<1>4. bs \in Seq(U)
  BY <1>1, WiderBlocks
<1>5. new.fn = f /\ new.code = code /\ cs = Append(bs, new)
  OBVIOUS
<1> HIDE DEF new, U, m
<1>6. /\ cs \in Seq(U) /\ m \in Nat /\ Len(cs) = m + 1
      /\ \A c \in 1..m : cs[c] = bs[c]
      /\ cs[m + 1] = new
  BY ONLY <1>3, <1>4, <1>5 DEF m
<1>7. /\ \A c \in 1..m : cs[c].fn = bs[c].fn
      /\ \A c \in m+1..m+1 : cs[c].fn = f
  BY <1>5, <1>6
<1>8. AreBlocks(cs)
  BY <1>6 DEF AreBlocks, U
<1>9. Ends(cs)
  <2>1. Len(bs) = m /\ Ends(bs) /\ 1 \in Nat
    BY DEF m
  <2> QED BY ONLY <1>6, <1>7, <2>1, AddedEnds
<1>10. \A g : Near(bs, g) \subseteq Near(cs, g)
  BY <1>6, <1>7 DEF Near, m
<1>11. ASSUME NEW c \in 1..Len(cs) PROVE AllAtHome(cs[c].code, cs[c].fn, Near(cs, cs[c].fn))
  <2>1. CASE c \in 1..m
    <3>1. AllAtHome(bs[c].code, bs[c].fn, Near(bs, bs[c].fn))
      BY <2>1 DEF Home, m
    <3> QED BY <1>6, <1>10, <2>1, <3>1 DEF AllAtHome, AtHome
  <2>2. CASE c = m + 1
    <3>1. cs[c].code = code /\ cs[c].fn = f
      BY <1>5, <1>6, <2>2
    <3> QED BY <1>10, <3>1 DEF AllAtHome, AtHome
  <2> QED BY <1>6, <2>1, <2>2
<1>12. Home(cs)
  BY <1>11 DEF Home
<1>13. m + 1 \in Near(cs, f)
  BY <1>6, <1>7 DEF Near
<1> QED BY <1>8, <1>9, <1>12, <1>13 DEF m

(* The stores of the arguments are at home in the function they are for,   *)
(* and no jump is among them.                                              *)
LEMMA StoresAtHome ==
    ASSUME NEW params, Len(params) \in Nat, NEW b, NEW f, NEW near
    PROVE  LET code == StoreLocals(Locals(params, b), f) IN
           /\ IsSeq(code) /\ AllAtHome(code, f, near)
           /\ \A i \in 1..Len(code) : ~IsInstTerminator(code[i])
<1> DEFINE locals == Locals(params, b)
           k == 2 * Len(locals)
           Op(i) == IF i % 2 = 1 THEN "alloca" ELSE "store"
           code == StoreLocals(locals, f)
           item(i) == [op |-> Op(i), var |-> locals[(i + 1) \div 2], to |-> {}, src |-> f]
<1>1. Len(params) * Len(params) \in Nat
  OBVIOUS
<1>2. Len(locals) \in Nat
  <2> DEFINE n == Len(params)
             square == n * n
             Local(i) == [block |-> b, at |-> 2 * i - 1, arg |-> ((i - 1) % n) + 1]
             S == {Local(i) : i \in 1..square}
  <2>1. locals = [i \in 1..square |-> Local(i)]
    BY DEF Locals
  <2>2. square \in Nat
    BY <1>1
  <2>3. locals \in [1..square -> S]
    <3> HIDE DEF square, Local, locals
    <3> QED BY <2>1
  <2> HIDE DEF square, S, locals
  <2>4. locals \in Seq(S)
    BY <2>2, <2>3
  <2> QED BY <2>4, LenProperties
<1>3. code = [i \in 1..k |-> item(i)]
  BY DEF StoreLocals
<1> HIDE DEF locals
<1>4. k \in Nat
  BY <1>2
<1>5. \A i \in 1..k : item(i).src = f /\ item(i).to = {} /\ ~IsInstTerminator(item(i))
  BY DEF IsInstTerminator
<1> HIDE DEF k, item, code
<1> DEFINE S == {item(i) : i \in 1..k}
<1>6. code \in [1..k -> S] /\ \A i \in 1..k : code[i] = item(i)
  BY <1>3
<1> HIDE DEF S
<1>7. code \in Seq(S) /\ Len(code) = k
  BY <1>4, <1>6, LenProperties
<1>8. /\ IsSeq(code) /\ AllAtHome(code, f, near)
      /\ \A i \in 1..Len(code) : ~IsInstTerminator(code[i])
  BY <1>5, <1>6, <1>7 DEF IsSeq, AllAtHome, AtHome
<1> QED BY <1>8 DEF code, locals

(* Between top-level statements the code is that of the initialiser.       *)
LEMMA BetweenTops ==
    ASSUME HomeInv, outcome = "none", todo = <<>>
    PROVE  owner = globals_init /\ (\E b \in 1..Len(blocks) : IsBack(blocks, owner, b))
<1>1. owner = globals_init
  BY DEF HomeInv, Plan
<1> QED BY <1>1 DEF HomeInv, Ends

LEMMA BackIsBack ==
    ASSUME NEW f, \E b \in 1..Len(blocks) : IsBack(blocks, f, b)
    PROVE  Back(f) \in Near(blocks, f)
<1>1. PICK b \in 1..Len(blocks) : blocks[b].fn = f /\ \A c \in b+1..Len(blocks) : blocks[c].fn # f
  BY DEF IsBack, Near
<1>2. Back(f) \in 1..Len(blocks) /\ blocks[Back(f)].fn = f
  BY <1>1 DEF Back
<1> QED BY <1>2 DEF Near

LEMMA PlanNone == \A near : Plan(<<>>, near, globals_init)
<1>1. IsSeq(<<>>) /\ Len(<<>>) = 0
  BY PlainNone DEF Plain
<1> QED BY <1>1 DEF Plan

LEMMA DefineStep == HomeInv /\ compile_define => HomeInv'
<1> SUFFICES ASSUME HomeInv, compile_define PROVE HomeInv'
  OBVIOUS
<1> DEFINE def == tree[top]
           b == BlocksMade + 1
           locals == Locals(def.params, b)
           stores == StoreLocals(locals, def.id)
<1>1. /\ outcome = "none" /\ todo = <<>> /\ top \in 1..Len(tree) /\ tree' = tree /\ outcome' = outcome
      /\ blocks' = Append(blocks, [fn |-> def.id, code |-> stores])
      /\ ip' = b /\ owner' = def.id /\ todo' = Body \o << It("end define") >>
  BY DEF compile_define, AtTop
<1>2. tree \in Trees /\ AreBlocks(blocks) /\ Home(blocks) /\ Ends(blocks)
  BY DEF HomeInv
<1>3. def.id \in STRING /\ Len(def.params) \in Nat
  <2>1. tree \in Seq(TopNode)
    BY <1>2, IRGenAssumption
  <2>2. def \in TopNode
    BY ONLY <1>1, <2>1, ElementOfSeq
  <2>3. def.id \in STRING /\ def.params \in Seq(STRING)
    BY <2>2 DEF TopNode
  <2> QED BY <2>3, LenProperties
<1>4. IsSeq(stores) /\ AllAtHome(stores, def.id, Near(blocks, def.id))
  BY <1>3, StoresAtHome
<1> DEFINE f == def.id
           near == Near(blocks', f)
<1> HIDE DEF stores, f
<1>5. AreBlocks(blocks') /\ Home(blocks') /\ Ends(blocks') /\ b \in near
  <2>1. blocks' = Append(blocks, [fn |-> f, code |-> stores])
    BY <1>1 DEF f
  <2>2. f \in Names /\ IsSeq(stores) /\ AllAtHome(stores, f, Near(blocks, f))
    BY <1>3, <1>4 DEF f, Names
  <2> QED BY ONLY <1>2, <2>1, <2>2, AppendBlock DEF BlocksMade
<1>6. Plan(todo', near, f)
  <2> DEFINE q == << It("stmt"), It("more"), It("end define") >>
  <2>1. todo' = q
    <3>1. << It("stmt"), It("more") >> \o << It("end define") >> = q
      BY TwoAndOne
    <3> QED BY <1>1, <3>1 DEF Body
  <2>2. q \in Seq({q[1], q[2], q[3]}) /\ Len(q) = 3
    OBVIOUS
  <2>3. q[1] = It("stmt") /\ q[2] = It("more") /\ q[3] = It("end define")
    OBVIOUS
  <2> HIDE DEF q
  <2>4. /\ ~IsEnd(q[1]) /\ ~IsEnd(q[2]) /\ IsEnd(q[3])
        /\ Targets(q[1]) = {} /\ Targets(q[2]) = {} /\ Targets(q[3]) = {}
    <3>1. It("stmt").k = "stmt" /\ It("more").k = "more" /\ It("end define").k = "end define"
      BY DEF It
    <3>2. q[1].k = "stmt" /\ q[2].k = "more" /\ q[3].k = "end define"
      BY <2>3, <3>1
    <3>3. ~IsEnd(q[1]) /\ ~IsEnd(q[2]) /\ IsEnd(q[3])
      BY <3>2 DEF IsEnd
    <3>4. Targets(q[1]) = {} /\ Targets(q[2]) = {} /\ Targets(q[3]) = {}
      BY <3>2 DEF Targets
    <3> QED BY <3>3, <3>4
  <2>5. IsSeq(q)
    BY <2>2 DEF IsSeq
  <2>6. q # <<>>
    BY <2>2
  <2>7. \A i \in 1..Len(q) : i = 1 \/ i = 2 \/ i = 3
    BY <2>2
  <2> QED BY <2>1, <2>2, <2>4, <2>5, <2>6, <2>7 DEF Plan
<1>7. b \in 1..Len(blocks') /\ blocks'[b].fn = f
  BY <1>5 DEF Near
<1>8. tree' \in Trees /\ owner' = f /\ f \in Names /\ ip' = b
  BY <1>1, <1>2, <1>3 DEF f, Names
<1> QED BY <1>5, <1>6, <1>7, <1>8 DEF HomeInv

(* The end of a definition is the last that is to be compiled.             *)
LEMMA EndIsLast == HomeInv /\ EndDefine => Tail(todo) = <<>> /\ todo' = <<>>
<1> SUFFICES ASSUME HomeInv, EndDefine PROVE Tail(todo) = <<>> /\ todo' = <<>>
  OBVIOUS
<1>1. Running /\ IsEnd(Head(todo)) /\ todo' = <<>> \o Tail(todo)
  BY DEF EndDefine, At, IsEnd, Do
<1>2. todo # <<>> /\ Plan(todo, Near(blocks, owner), owner)
  BY <1>1, InvFacts
<1>3. IsSeq(todo) /\ \A i \in 1..Len(todo) : IsEnd(todo[i]) => i = Len(todo)
  BY <1>2 DEF Plan
<1>4. Len(todo) \in Nat \ {0} /\ Head(todo) = todo[1] /\ IsSeq(Tail(todo)) /\ Len(Tail(todo)) = Len(todo) - 1
  BY ONLY <1>2, <1>3, SeqTail
<1>5. 1 = Len(todo)
  <2>1. 1 \in 1..Len(todo)
    BY <1>4
  <2> QED BY <1>1, <1>3, <1>4, <2>1
<1>6. PICK S : Tail(todo) \in Seq(S)
  BY <1>4 DEF IsSeq
<1>7. Tail(todo) = <<>>
  <2>1. Len(Tail(todo)) = 0
    BY ONLY <1>4, <1>5
  <2> QED BY ONLY <1>6, <2>1, EmptySeq
<1>8. <<>> \o <<>> = <<>>
  OBVIOUS
<1> QED BY <1>1, <1>7, <1>8

LEMMA EndDefineStep == HomeInv /\ EndDefine => HomeInv'
<1> SUFFICES ASSUME HomeInv, EndDefine PROVE HomeInv'
  OBVIOUS
<1>1. /\ Running /\ tree' = tree /\ outcome' = outcome
      /\ blocks' = blocks /\ ip' = ip /\ owner' = globals_init
  BY DEF EndDefine, At, module
<1>2. /\ tree \in Trees /\ AreBlocks(blocks) /\ Home(blocks) /\ Ends(blocks)
      /\ ip \in 1..Len(blocks)
  BY <1>1, InvFacts
<1>3. todo' = <<>>
  BY EndIsLast
<1>4. Plan(todo', Near(blocks', owner'), owner')
  BY <1>1, <1>3, PlanNone
<1>5. globals_init \in Names
  BY DEF Names
<1> QED BY <1>1, <1>2, <1>3, <1>4, <1>5 DEF HomeInv

LEMMA GlobalStep == HomeInv /\ GlobalAssign => HomeInv'
<1> SUFFICES ASSUME HomeInv, GlobalAssign PROVE HomeInv'
  OBVIOUS
<1>1. outcome = "none" /\ todo = <<>> /\ tree' = tree
  BY DEF GlobalAssign, AtTop
<1>2. CASE outcome' = "exception"
  <2>1. CASE Found(tree[top].id)
    BY <1>1, <2>1, Stopping DEF GlobalAssign, module
  <2>2. CASE ~Found(tree[top].id)
    BY <1>1, <1>2, <2>2 DEF GlobalAssign
  <2> QED BY <2>1, <2>2
<1>3. CASE outcome' # "exception"
  <2>1. /\ outcome' = outcome /\ blocks' = blocks /\ owner' = owner /\ ip' = Back(globals_init)
        /\ todo' = << It("expr"), Store(tree[top].id) >>
    BY <1>3 DEF GlobalAssign, aux, SetInsertPoint
  <2>2. owner = globals_init /\ Back(globals_init) \in Near(blocks, owner)
    BY <1>1, BetweenTops, BackIsBack
  <2> DEFINE near == Near(blocks, owner)
             q == << It("expr"), Store(tree[top].id) >>
  <2>3. Plain(q, near)
    <3>1. ASSUME NEW id PROVE Plain(<< It("expr"), Store(id) >>, near)
      BY PlainItems, PlainTwo
    <3> QED BY <3>1
  <2> HIDE DEF q
  <2>4. Plan(q, near, owner)
    BY <2>2, <2>3 DEF Plan, Plain
  <2>5. ip' \in 1..Len(blocks') /\ blocks'[ip'].fn = owner'
    BY <2>1, <2>2 DEF Near
  <2>6. todo' = q
    BY <2>1 DEF q
  <2>7. /\ tree \in Trees /\ AreBlocks(blocks) /\ Home(blocks) /\ Ends(blocks) /\ owner \in Names
    BY <1>1 DEF HomeInv
  <2> QED BY <1>1, <2>1, <2>4, <2>5, <2>6, <2>7 DEF HomeInv
<1> QED BY <1>2, <1>3

LEMMA EndStep == HomeInv /\ EndCompile => HomeInv'
<1> SUFFICES ASSUME HomeInv, EndCompile PROVE HomeInv'
  OBVIOUS
<1> DEFINE mains   == {b \in 1..BlocksMade : blocks[b].fn = "main"}
           entry   == CHOOSE b \in mains : \A c \in mains : b <= c
           calling == [op |-> "call", var |-> None, to |-> {}, src |-> "main"]
           jump    == [op |-> "br", var |-> None, to |-> {entry}, src |-> "main"]
           code    == << calling, jump >>
           ended   == Append_(blocks, Back(globals_init), << Ret >>)
<1>1. /\ outcome = "none" /\ todo = <<>> /\ tree' = tree /\ outcome' # "none"
      /\ \/ blocks' = blocks \/ blocks' = ended
         \/ mains # {} /\ blocks' = Append(ended, [fn |-> "main", code |-> code])
  BY DEF EndCompile
<1>2. tree \in Trees /\ AreBlocks(blocks) /\ Home(blocks) /\ Ends(blocks)
  BY DEF HomeInv
<1>3. owner = globals_init /\ Back(globals_init) \in Near(blocks, owner)
  BY <1>1, BetweenTops, BackIsBack
<1>4. ended = Append_(blocks, Back(globals_init), << Instr("ret", None, {}) >>)
  BY DEF Ret
<1>5. mains = Near(blocks, "main")
  BY DEF BlocksMade, Near
<1>6. mains # {} => entry \in mains
  <2>1. mains # {} => \E b \in mains : \A c \in mains : b <= c
    BY <1>2, <1>5 DEF Ends, IsFront
  <2> QED BY <2>1
<1> HIDE DEF ended, entry, mains
<1>7. AreBlocks(ended) /\ Home(ended) /\ Ends(ended)
  <2>1. {} \subseteq Near(blocks, owner)
    OBVIOUS
  <2> QED BY <1>2, <1>3, <1>4, <2>1, OneMore
<1>8. \A f : Near(ended, f) = Near(blocks, f)
  <2> DEFINE last_ == << Instr("ret", None, {}) >>
  <2>1. IsSeq(last_)
    BY SeqOne
  <2>2. ended = Append_(blocks, Back(globals_init), last_) /\ Back(globals_init) \in 1..Len(blocks)
    BY <1>3, <1>4 DEF Near
  <2> HIDE DEF last_
  <2>3. Len(ended) = Len(blocks) /\ \A c \in 1..Len(blocks) : ended[c].fn = blocks[c].fn
    BY ONLY <1>2, <2>1, <2>2, AppendCode
  <2> QED BY <2>3 DEF Near
<1>9. ASSUME mains # {} PROVE IsSeq(code) /\ AllAtHome(code, "main", Near(ended, "main"))
  <2>1. AtHome(calling, "main", Near(ended, "main"))
    BY DEF AtHome
  <2>2. AtHome(jump, "main", Near(ended, "main"))
    BY <1>5, <1>6, <1>8, <1>9 DEF AtHome
  <2> HIDE DEF calling, jump
  <2>3. Len(code) = 2 /\ code[1] = calling /\ code[2] = jump /\ code \in Seq({calling, jump})
    OBVIOUS
  <2> HIDE DEF code
  <2>4. \A i \in 1..Len(code) : i = 1 \/ i = 2
    BY <2>3
  <2> QED BY <2>1, <2>2, <2>3, <2>4 DEF IsSeq, AllAtHome
<1> HIDE DEF code
<1>10. AreBlocks(blocks') /\ Home(blocks') /\ Ends(blocks')
  <2>1. CASE mains # {} /\ blocks' = Append(ended, [fn |-> "main", code |-> code])
    <3> DEFINE f == "main"
    <3>1. f \in Names /\ IsSeq(code) /\ AllAtHome(code, f, Near(ended, f))
      BY <1>9, <2>1 DEF Names
    <3>2. blocks' = Append(ended, [fn |-> f, code |-> code])
      BY <2>1
    <3> HIDE DEF f
    <3> QED BY ONLY <1>7, <3>1, <3>2, AppendBlock
  <2> QED BY <1>1, <1>2, <1>7, <2>1
<1> QED BY <1>1, <1>2, <1>10 DEF HomeInv

LEMMA HomeInit == Init => HomeInv
<1> SUFFICES ASSUME Init PROVE HomeInv
  OBVIOUS
<1> DEFINE first == Block(globals_init)
<1>1. blocks = << first >> /\ tree \in Trees /\ todo = <<>> /\ ip = 1 /\ owner = globals_init
  BY DEF Init
<1>2. first.fn = globals_init /\ first.code = <<>> /\ first \in BlockOf({}) /\ globals_init \in Names
  <2> DEFINE f == globals_init
             c == <<>>
  <2>1. first = [fn |-> f, code |-> c] /\ c \in Seq({}) /\ f \in Names
    BY DEF Block, Names
  <2> HIDE DEF first, f, c
  <2>2. first.fn = f /\ first.code = c /\ first \in BlockOf({})
    BY ONLY <2>1 DEF BlockOf
  <2> QED BY <2>1, <2>2 DEF f, c
<1> HIDE DEF first
<1>3. Len(blocks) = 1 /\ blocks[1] = first /\ blocks \in Seq(BlockOf({}))
  BY <1>1, <1>2
<1>4. \A c \in 1..Len(blocks) : c = 1
  BY <1>3
<1>5. AreBlocks(blocks)
  BY <1>3 DEF AreBlocks
<1>6. Home(blocks)
  <2>1. Len(first.code) = 0
    BY <1>2
  <2> QED BY <1>3, <1>4, <2>1 DEF Home, AllAtHome
<1>7. Near(blocks, globals_init) = {1} /\ Near(blocks, "main") = {}
  BY <1>2, <1>3, <1>4 DEF Near, globals_init
<1>8. IsBack(blocks, globals_init, 1)
  BY <1>3, <1>7 DEF IsBack
<1>9. Ends(blocks)
  BY <1>3, <1>7, <1>8 DEF Ends
<1>10. Plan(todo, Near(blocks, owner), owner)
  BY <1>1, PlanNone
<1> QED BY <1>1, <1>2, <1>3, <1>5, <1>6, <1>9, <1>10 DEF HomeInv

LEMMA HomeStep == HomeInv /\ [Next]_vars => HomeInv'
<1> SUFFICES ASSUME HomeInv, [Next]_vars PROVE HomeInv'
  OBVIOUS
<1>1. CASE UNCHANGED vars \/ Terminating
  BY <1>1 DEF Terminating, vars, module, aux, HomeInv
<1>2. CASE declare_functions
  <2>1. CASE Stop("exception")
    BY <2>1, StopStep
  <2>2. CASE ~Stop("exception")
    BY <1>2, <2>2 DEF declare_functions, aux, HomeInv
  <2> QED BY <2>1, <2>2
<1>3. CASE compile_define \/ EndDefine \/ GlobalAssign \/ EndCompile
  BY <1>3, DefineStep, EndDefineStep, GlobalStep, EndStep
<1>4. CASE Expr_
  BY <1>4, ExprStep
<1>5. CASE Statement
  BY <1>5, SimpleStmt, IfStep, WhileStep, KeptBlocks DEF Statement
<1> QED BY <1>1, <1>2, <1>3, <1>4, <1>5 DEF Next, Top

LEMMA HomeSuffices == HomeInv => InstructionsAtHome
<1> SUFFICES ASSUME HomeInv,
                    NEW b \in Made, NEW i \in DOMAIN CodeOf(b)
             PROVE  /\ CodeOf(b)[i].src = blocks[b].fn
                    /\ \A c \in CodeOf(b)[i].to : c \in Made /\ blocks[c].fn = blocks[b].fn
  BY DEF InstructionsAtHome
<1>1. AreBlocks(blocks) /\ Home(blocks)
  BY DEF HomeInv
<1>2. Made = 1..Len(blocks) /\ DOMAIN CodeOf(b) = 1..Len(CodeOf(b))
  <2>1. DOMAIN blocks = 1..Len(blocks)
    BY <1>1, BlocksType
  <2> QED BY <1>1, <2>1, BlocksType DEF Made, CodeOf
<1>3. AtHome(CodeOf(b)[i], blocks[b].fn, Near(blocks, blocks[b].fn))
  BY <1>1, <1>2 DEF Home, AllAtHome, CodeOf
<1> QED BY <1>2, <1>3 DEF AtHome, Near

(* For every program, whatever branches, loops and calls it nests and      *)
(* wherever its initialisers stand: each instruction is in a block of the  *)
(* function it was compiled for, and no jump leaves its function.          *)
THEOREM AlwaysAtHome == Spec => []InstructionsAtHome
<1>1. Spec => []HomeInv
  BY HomeInit, HomeStep, PTL DEF Spec
<1> QED
  BY <1>1, HomeSuffices, PTL

(* BlocksClosed: a jump ends its block, and all blocks are ended.          *)

NoJump(code)  == \A i \in 1..Len(code) : ~IsInstTerminator(code[i])
OneJump(code) == /\ code # <<>> /\ IsInstTerminator(code[Len(code)])
                 /\ \A i \in 1..Len(code)-1 : ~IsInstTerminator(code[i])

(* The blocks of `open' may be written to, all others have their jump.     *)
Shape(bs, open) ==
    /\ open \subseteq 1..Len(bs)
    /\ \A b \in 1..Len(bs) : IF b \in open THEN NoJump(bs[b].code) ELSE OneJump(bs[b].code)

LEMMA JumpBehind ==
    ASSUME NEW p, NEW q, IsSeq(p), IsSeq(q), NoJump(p)
    PROVE  /\ NoJump(q) => NoJump(p \o q)
           /\ OneJump(q) => OneJump(p \o q)
<1> DEFINE r == p \o q
           l == Len(p)
           m == Len(q)
<1>1. /\ l \in Nat /\ m \in Nat /\ Len(r) = l + m
      /\ \A i \in 1..l : r[i] = p[i]
      /\ \A i \in l+1..l+m : r[i] = q[i - l]
  BY SeqConcat
<1>2. \A i \in 1..l : ~IsInstTerminator(p[i])
  BY DEF NoJump
<1>3. \A j \in 1..m : NoJump(q) => ~IsInstTerminator(q[j])
  BY DEF NoJump
<1>4. m # 0 <=> q # <<>>
  BY DEF IsSeq
<1>5. OneJump(q) => /\ m # 0 /\ IsInstTerminator(q[m])
                    /\ \A j \in 1..m-1 : ~IsInstTerminator(q[j])
  BY <1>4 DEF OneJump
<1>6. Len(r) # 0 => r # <<>>
  OBVIOUS
<1> HIDE DEF r, l, m
<1>7. ASSUME NoJump(q)
      PROVE  NoJump(r)
  <2> SUFFICES ASSUME NEW i \in 1..Len(r)
               PROVE  ~IsInstTerminator(r[i])
    BY DEF NoJump
  <2>1. i \in 1..l \/ (i \in l+1..l+m /\ i - l \in 1..m)
    BY <1>1
  <2> QED BY <1>1, <1>2, <1>3, <1>7, <2>1
<1>8. ASSUME OneJump(q)
      PROVE  OneJump(r)
  <2>1. Len(r) # 0 /\ Len(r) \in l+1..l+m /\ Len(r) - l = m
    BY <1>1, <1>5, <1>8
  <2>2. IsInstTerminator(r[Len(r)])
    BY <1>1, <1>5, <1>8, <2>1
  <2>3. ASSUME NEW i \in 1..Len(r)-1
        PROVE  ~IsInstTerminator(r[i])
    <3>1. i \in 1..l \/ (i \in l+1..l+m /\ i - l \in 1..m-1)
      BY <1>1
    <3> QED BY <1>1, <1>2, <1>5, <1>8, <3>1
  <2> QED BY <1>6, <2>1, <2>2, <2>3 DEF OneJump
<1> QED BY <1>7, <1>8 DEF r

(* Code is added to an open block.                                         *)
LEMMA ShapeAppend ==
    ASSUME NEW bs, AreBlocks(bs), NEW open, Shape(bs, open), NEW b \in open,
           NEW code, IsSeq(code), NEW cs, cs = Append_(bs, b, code)
    PROVE  /\ AreBlocks(cs) /\ Len(cs) = Len(bs)
           /\ \A c \in 1..Len(bs) : cs[c].fn = bs[c].fn
           /\ NoJump(code) => Shape(cs, open)
           /\ OneJump(code) => Shape(cs, open \ {b})
<1>1. b \in 1..Len(bs)
  BY DEF Shape
<1>2. /\ AreBlocks(cs) /\ Len(cs) = Len(bs)
      /\ \A c \in 1..Len(bs) : cs[c].fn = bs[c].fn
      /\ \A c \in 1..Len(bs) : c # b => cs[c].code = bs[c].code
      /\ cs[b].code = bs[b].code \o code
  <2>1. AreBlocks(bs) /\ IsSeq(code) /\ cs = Append_(bs, b, code)
    OBVIOUS
  <2>2. AreBlocks(cs) /\ Len(cs) = Len(bs) /\ \A c \in 1..Len(bs) : cs[c].fn = bs[c].fn
    BY ONLY <1>1, <2>1, AppendCode
  <2>3. /\ \A c \in 1..Len(bs) : c # b => cs[c].code = bs[c].code
        /\ cs[b].code = bs[b].code \o code
    BY ONLY <1>1, <2>1, AppendCode
  <2> QED BY <2>2, <2>3
<1>3. IsSeq(bs[b].code) /\ NoJump(bs[b].code)
  BY <1>1, BlocksType DEF Shape
<1>4. /\ NoJump(code) => NoJump(cs[b].code)
      /\ OneJump(code) => OneJump(cs[b].code)
  BY <1>2, <1>3, JumpBehind
<1> QED BY <1>1, <1>2, <1>4 DEF Shape

(* Blocks are added, without code.                                         *)
LEMMA ShapeNew ==
    ASSUME NEW bs, AreBlocks(bs), NEW open, Shape(bs, open), NEW f \in Names, NEW n \in Nat,
           NEW cs, cs = bs \o New(n, f)
    PROVE  /\ AreBlocks(cs) /\ Len(cs) = Len(bs) + n /\ Len(bs) \in Nat
           /\ \A c \in 1..Len(bs) : cs[c].fn = bs[c].fn
           /\ \A c \in Len(bs)+1..Len(bs)+n : cs[c].fn = f
           /\ Shape(cs, open \union Len(bs)+1..Len(bs)+n)
<1>1. /\ AreBlocks(cs) /\ Len(cs) = Len(bs) + n
      /\ \A c \in 1..Len(bs) : cs[c] = bs[c]
      /\ \A c \in Len(bs)+1..Len(bs)+n : cs[c] = Block(f)
  BY AddBlocks
<1>2. Len(bs) \in Nat
  BY BlocksType
<1>3. Block(f).fn = f /\ NoJump(Block(f).code)
  BY DEF Block, NoJump
<1>4. ASSUME NEW c \in 1..Len(cs)
      PROVE  IF c \in open \union Len(bs)+1..Len(bs)+n THEN NoJump(cs[c].code)
                                                        ELSE OneJump(cs[c].code)
  <2>1. CASE c \in 1..Len(bs)
    <3>1. c \notin Len(bs)+1..Len(bs)+n
      BY <1>2, <2>1
    <3> QED BY <1>1, <2>1, <3>1 DEF Shape
  <2>2. CASE c \in Len(bs)+1..Len(bs)+n
    BY <1>1, <1>3, <2>2
  <2> QED BY <1>1, <1>2, <2>1, <2>2
<1>5. open \union Len(bs)+1..Len(bs)+n \subseteq 1..Len(cs)
  <2>1. open \subseteq 1..Len(bs)
    BY DEF Shape
  <2>2. n \in Nat /\ Len(cs) = Len(bs) + n
    BY <1>1
  <2>3. 1..Len(bs) \subseteq 1..Len(cs) /\ Len(bs)+1..Len(bs)+n \subseteq 1..Len(cs)
    BY ONLY <1>2, <2>2
  <2> QED BY <2>1, <2>3
<1> QED BY <1>1, <1>2, <1>3, <1>4, <1>5 DEF Shape

(* A block with code is added.                                             *)
LEMMA ShapeBlock ==
    ASSUME NEW bs, AreBlocks(bs), NEW open, Shape(bs, open), NEW f, NEW code,
           NEW cs, cs = Append(bs, [fn |-> f, code |-> code])
    PROVE  /\ Len(cs) = Len(bs) + 1 /\ Len(bs) \in Nat
           /\ \A c \in 1..Len(bs) : cs[c] = bs[c]
           /\ cs[Len(bs) + 1].fn = f
           /\ NoJump(code) => Shape(cs, open \union {Len(bs) + 1})
           /\ OneJump(code) => Shape(cs, open)
<1>1. PICK S : bs \in Seq(S)
  BY BlocksType DEF IsSeq
<1>2. /\ Len(cs) = Len(bs) + 1 /\ Len(bs) \in Nat
      /\ \A c \in 1..Len(bs) : cs[c] = bs[c]
      /\ cs[Len(bs) + 1] = [fn |-> f, code |-> code]
  BY <1>1
<1>3. \A c \in 1..Len(cs) : c \in 1..Len(bs) \/ c = Len(bs) + 1
  BY <1>2
<1>4. Len(bs) + 1 \notin 1..Len(bs) /\ 1..Len(bs) \subseteq 1..Len(cs) /\ Len(bs) + 1 \in 1..Len(cs)
  BY <1>2
<1> DEFINE n == Len(bs) + 1
<1>5. /\ open \subseteq 1..Len(bs)
      /\ \A b \in 1..Len(bs) : IF b \in open THEN NoJump(cs[b].code) ELSE OneJump(cs[b].code)
  BY <1>2 DEF Shape
<1>6. cs[n].code = code /\ n \notin open /\ open \union {n} \subseteq 1..Len(cs)
  <2>1. cs[n].code = code
    BY <1>2
  <2>2. n \notin open /\ open \union {n} \subseteq 1..Len(cs)
    BY <1>4, <1>5
  <2> QED BY <2>1, <2>2
<1> HIDE DEF n
<1>7. \A c \in 1..Len(cs) : (c \in 1..Len(bs) /\ c # n) \/ c = n
  BY <1>3, <1>4 DEF n
<1>8. NoJump(code) => Shape(cs, open \union {n})
  BY <1>5, <1>6, <1>7 DEF Shape
<1>9. OneJump(code) => Shape(cs, open)
  BY <1>5, <1>6, <1>7 DEF Shape
<1> QED BY <1>2, <1>8, <1>9 DEF n

(* One instruction.                                                        *)
LEMMA OneInstr ==
    ASSUME NEW i
    PROVE  /\ IsSeq(<<i>>)
           /\ ~IsInstTerminator(i) => NoJump(<<i>>)
           /\ IsInstTerminator(i) => OneJump(<<i>>)
<1> DEFINE q == <<i>>
<1>1. Len(q) = 1 /\ q[1] = i /\ q # <<>>
  OBVIOUS
<1>2. IsSeq(q)
  BY SeqOne
<1> HIDE DEF q
<1>3. /\ ~IsInstTerminator(i) => NoJump(q)
      /\ IsInstTerminator(i) => OneJump(q)
  BY <1>1 DEF NoJump, OneJump
<1> QED BY <1>2, <1>3 DEF q

(* What the control stack will write to.                                   *)

(* The block, not written to yet, that an item will move the builder to or *)
(* leave to the next one.                                                  *)
Owes(it) ==
    CASE it.k = "then"   -> it.exit
      [] it.k = "join"   -> it.next
      [] it.k = "while"  -> it.body
      [] it.k = "repeat" -> it.exit
      [] OTHER -> 0

(* The items of q owe the blocks S, each to one of them.                   *)
Owing(q, S) ==
    /\ IsSeq(q)
    /\ \A i \in 1..Len(q) : Owes(q[i]) # 0 => Owes(q[i]) \in S
    /\ \A b \in S : b # 0 /\ \E i \in 1..Len(q) : Owes(q[i]) = b
    /\ \A i, j \in 1..Len(q) : i < j /\ Owes(q[i]) # 0 => Owes(q[i]) # Owes(q[j])

(* What comes after an item: past a return, a list of statements; past it, *)
(* whoever opened it; and a branch begins where the one before it leads.   *)
Follows(x, y) ==
    /\ x.k \in {"stmt", "return", "if", "then"} => y.k = "more"
    /\ x.k = "more" => y.k \in {"join", "repeat", "end define"}
    /\ y.k = "then" => x.k = "join" /\ x.next = y.b
Chain(q) == \A i \in 1..Len(q)-1 : Follows(q[i], q[i + 1])

Run(q, S) == Owing(q, S) /\ Chain(q)
Path(q, S, a, z) == Run(q, S) /\ q # <<>> /\ q[1] = a /\ q[Len(q)] = z

LEMMA PathOne ==
    ASSUME NEW it, NEW S, S = IF Owes(it) = 0 THEN {} ELSE {Owes(it)}
    PROVE  Path(<<it>>, S, it, it)
<1> DEFINE q == <<it>>
<1>1. Len(q) = 1 /\ q[1] = it /\ q # <<>> /\ IsSeq(q)
  BY SeqOne
<1> HIDE DEF q
<1>2. \A i \in 1..Len(q) : i = 1
  BY <1>1
<1>3. \A i, j \in 1..Len(q) : ~(i < j)
  BY <1>1
<1>4. \A i \in 1..Len(q)-1 : FALSE
  BY <1>1
<1>5. 1 \in 1..Len(q)
  BY <1>1
<1>6. Owing(q, S)
  <2>1. \A i \in 1..Len(q) : Owes(q[i]) # 0 => Owes(q[i]) \in S
    BY <1>1, <1>2
  <2>2. \A b \in S : b # 0 /\ \E i \in 1..Len(q) : Owes(q[i]) = b
    BY <1>1, <1>5
  <2> QED BY <1>1, <1>3, <2>1, <2>2 DEF Owing
<1>7. Chain(q)
  BY <1>4 DEF Chain
<1>8. Path(q, S, it, it)
  BY <1>1, <1>6, <1>7 DEF Path, Run
<1> QED BY <1>8 DEF q

(* One after the other, if they owe different blocks.                      *)
LEMMA OwingConcat ==
    ASSUME NEW p, NEW q, NEW P, NEW Q, Owing(p, P), Owing(q, Q), P \intersect Q = {}
    PROVE  Owing(p \o q, P \union Q)
<1> DEFINE r == p \o q
           l == Len(p)
           m == Len(q)
<1>1. IsSeq(p) /\ IsSeq(q)
  BY DEF Owing
<1>2. /\ IsSeq(r) /\ l \in Nat /\ m \in Nat /\ Len(r) = l + m
      /\ \A i \in 1..l : r[i] = p[i]
      /\ \A i \in l+1..l+m : r[i] = q[i - l]
  BY ONLY <1>1, SeqConcat
<1>3. /\ \A i \in 1..l : Owes(p[i]) # 0 => Owes(p[i]) \in P
      /\ \A b \in P : b # 0 /\ \E i \in 1..l : Owes(p[i]) = b
      /\ \A i, j \in 1..l : i < j /\ Owes(p[i]) # 0 => Owes(p[i]) # Owes(p[j])
  BY DEF Owing
<1>4. /\ \A i \in 1..m : Owes(q[i]) # 0 => Owes(q[i]) \in Q
      /\ \A b \in Q : b # 0 /\ \E i \in 1..m : Owes(q[i]) = b
      /\ \A i, j \in 1..m : i < j /\ Owes(q[i]) # 0 => Owes(q[i]) # Owes(q[j])
  BY DEF Owing
<1> HIDE DEF r, l, m
<1>5. \A i \in 1..Len(r) : i \in 1..l \/ (i \in l+1..l+m /\ i - l \in 1..m)
  BY <1>2
<1>6. \A i \in 1..l : i \in 1..Len(r)
  BY <1>2
<1>7. \A i \in 1..m : i + l \in 1..Len(r) /\ i + l \in l+1..l+m /\ (i + l) - l = i
  BY <1>2
<1>8. \A i \in 1..Len(r) : Owes(r[i]) # 0 => Owes(r[i]) \in P \union Q
  BY <1>2, <1>3, <1>4, <1>5
<1>9. ASSUME NEW b \in P \union Q
      PROVE  b # 0 /\ \E i \in 1..Len(r) : Owes(r[i]) = b
  <2>1. CASE b \in P
    BY <1>2, <1>3, <1>6, <2>1
  <2>2. CASE b \in Q
    <3>1. b # 0 /\ \E i \in 1..m : Owes(q[i]) = b
      BY <1>4, <2>2
    <3>2. PICK i \in 1..m : Owes(q[i]) = b
      BY <3>1
    <3>3. r[i + l] = q[i]
      BY <1>2, <1>7
    <3> QED BY <1>7, <3>1, <3>2, <3>3
  <2> QED BY <2>1, <2>2
<1>10. ASSUME NEW i \in 1..Len(r), NEW j \in 1..Len(r), i < j, Owes(r[i]) # 0
       PROVE  Owes(r[i]) # Owes(r[j])
  <2>1. CASE i \in 1..l /\ j \in 1..l
    BY <1>2, <1>3, <1>10, <2>1
  <2>2. CASE i \in 1..l /\ j \notin 1..l
    <3>1. Owes(r[i]) \in P
      BY <1>2, <1>3, <1>10, <2>2
    <3>2. Owes(r[j]) # 0 => Owes(r[j]) \in Q
      BY <1>2, <1>4, <1>5, <2>2
    <3> QED BY <1>10, <3>1, <3>2
  <2>3. CASE i \notin 1..l
    <3>1. j \notin 1..l
      BY <1>2, <1>10, <2>3
    <3>2. i - l \in 1..m /\ j - l \in 1..m /\ r[i] = q[i - l] /\ r[j] = q[j - l]
      BY <1>2, <1>5, <2>3, <3>1
    <3>3. i - l < j - l
      BY <1>2, <1>10
    <3> QED BY <1>4, <1>10, <3>2, <3>3
  <2> QED BY <2>1, <2>2, <2>3
<1>11. Owing(r, P \union Q)
  BY <1>2, <1>8, <1>9, <1>10 DEF Owing
<1> QED BY <1>11 DEF r

LEMMA ChainConcat ==
    ASSUME NEW p, NEW q, IsSeq(p), IsSeq(q), Chain(p), Chain(q), p # <<>>,
           q # <<>> => Follows(p[Len(p)], q[1])
    PROVE  /\ Chain(p \o q) /\ p \o q # <<>> /\ (p \o q)[1] = p[1] /\ Head(p \o q) = p[1]
           /\ q # <<>> => (p \o q)[Len(p \o q)] = q[Len(q)]
<1> DEFINE r == p \o q
           l == Len(p)
           m == Len(q)
<1>1. IsSeq(p) /\ IsSeq(q)
  OBVIOUS
<1>2. /\ IsSeq(r) /\ l \in Nat /\ m \in Nat /\ Len(r) = l + m
      /\ \A i \in 1..l : r[i] = p[i]
      /\ \A i \in l+1..l+m : r[i] = q[i - l]
  BY ONLY <1>1, SeqConcat
<1>3. l # 0 /\ (m # 0 <=> q # <<>>)
  BY DEF IsSeq
<1>4. /\ \A i \in 1..l-1 : Follows(p[i], p[i + 1])
      /\ \A i \in 1..m-1 : Follows(q[i], q[i + 1])
      /\ m # 0 => Follows(p[l], q[1])
  BY <1>3 DEF Chain
<1>5. Len(r) # 0 => r # <<>>
  OBVIOUS
<1>6. m # 0 => r[Len(r)] = q[m]
  <2> HIDE DEF r, l, m
  <2>1. m # 0 => Len(r) \in l+1..l+m /\ Len(r) - l = m
    BY <1>2, <1>3
  <2> QED BY <1>2, <2>1
<1> HIDE DEF r, l, m
<1>7. ASSUME NEW i \in 1..Len(r)-1 PROVE Follows(r[i], r[i + 1])
  <2>1. CASE i < l
    <3>1. i \in 1..l /\ i + 1 \in 1..l /\ i \in 1..l-1
      BY <1>2, <2>1
    <3> QED BY <1>2, <1>4, <3>1
  <2>2. CASE i = l
    <3>1. i \in 1..l /\ i + 1 \in l+1..l+m /\ (i + 1) - l = 1 /\ m # 0
      BY <1>2, <2>2
    <3> QED BY <1>2, <1>4, <2>2, <3>1
  <2>3. CASE i > l
    <3>1. i \in l+1..l+m /\ i + 1 \in l+1..l+m /\ i - l \in 1..m-1 /\ (i + 1) - l = (i - l) + 1
      BY <1>2, <2>3
    <3>2. r[i] = q[i - l] /\ r[i + 1] = q[(i - l) + 1]
      BY <1>2, <3>1
    <3> QED BY <1>4, <3>1, <3>2
  <2> QED BY <1>2, <2>1, <2>2, <2>3
<1>8. 1 \in 1..l /\ Len(r) # 0
  BY <1>2, <1>3
<1>9. Chain(r) /\ r # <<>> /\ r[1] = p[1] /\ (q # <<>> => r[Len(r)] = q[Len(q)])
  BY <1>2, <1>3, <1>5, <1>6, <1>7, <1>8 DEF Chain, m
<1>10. Head(r) = r[1]
  BY <1>2, <1>9, SeqTail
<1> QED BY <1>9, <1>10 DEF r

LEMMA PathConcat ==
    ASSUME NEW p, NEW q, NEW P, NEW Q, NEW a, NEW x, NEW y, NEW z,
           Path(p, P, a, x), Path(q, Q, y, z), P \intersect Q = {}, Follows(x, y)
    PROVE  Path(p \o q, P \union Q, a, z)
<1>1. /\ Owing(p, P) /\ Owing(q, Q) /\ Chain(p) /\ Chain(q) /\ p # <<>> /\ q # <<>>
      /\ p[1] = a /\ p[Len(p)] = x /\ q[1] = y /\ q[Len(q)] = z /\ IsSeq(p) /\ IsSeq(q)
  BY DEF Path, Run, Owing
<1>2. Owing(p \o q, P \union Q)
  BY <1>1, OwingConcat
<1>3. /\ Chain(p \o q) /\ p \o q # <<>> /\ (p \o q)[1] = a
      /\ (p \o q)[Len(p \o q)] = z
  BY <1>1, ChainConcat
<1> QED BY <1>2, <1>3 DEF Path, Run

(* The first item is done.                                                 *)
LEMMA RunTail ==
    ASSUME NEW q, NEW S, Run(q, S), q # <<>>
    PROVE  /\ Run(Tail(q), S \ {Owes(Head(q))})
           /\ Owes(Head(q)) # 0 => Owes(Head(q)) \in S
           /\ Tail(q) # <<>> => Follows(Head(q), Head(Tail(q)))
           /\ 0 \notin S
<1> DEFINE r == Tail(q)
           n == Len(q)
           h == Owes(q[1])
<1>1. IsSeq(q) /\ q # <<>>
  BY DEF Run, Owing
<1>2. /\ n \in Nat \ {0} /\ Head(q) = q[1]
      /\ IsSeq(r) /\ Len(r) = n - 1
      /\ \A i \in 1..n-1 : r[i] = q[i + 1]
  BY ONLY <1>1, SeqTail
<1>3. /\ \A i \in 1..n : Owes(q[i]) # 0 => Owes(q[i]) \in S
      /\ \A b \in S : b # 0 /\ \E i \in 1..n : Owes(q[i]) = b
      /\ \A i, j \in 1..n : i < j /\ Owes(q[i]) # 0 => Owes(q[i]) # Owes(q[j])
      /\ \A i \in 1..n-1 : Follows(q[i], q[i + 1])
  BY DEF Run, Owing, Chain
<1>4. r # <<>> => Len(r) # 0 /\ Head(r) = r[1]
  <2>1. r # <<>> => Len(r) \in Nat \ {0} /\ Head(r) = r[1]
    BY <1>2, SeqTail
  <2> QED BY <2>1
<1> HIDE DEF r, n
<1>5. 1 \in 1..n /\ \A i \in 1..n-1 : i + 1 \in 1..n /\ 1 < i + 1
  BY <1>2
<1>6. \A i \in 1..n : i = 1 \/ (i - 1 \in 1..n-1 /\ (i - 1) + 1 = i)
  BY <1>2
<1>7. h # 0 => h \in S
  BY <1>3, <1>5
<1>8. \A i \in 1..Len(r) : Owes(r[i]) # 0 => Owes(r[i]) \in S \ {h}
  <2> SUFFICES ASSUME NEW i \in 1..Len(r), Owes(r[i]) # 0
               PROVE  Owes(r[i]) \in S \ {h}
    OBVIOUS
  <2>1. r[i] = q[i + 1] /\ i + 1 \in 1..n /\ 1 < i + 1
    BY <1>2, <1>5
  <2>2. Owes(q[i + 1]) \in S
    BY <1>3, <2>1
  <2>3. h # 0 => h # Owes(q[i + 1])
    BY <1>3, <1>5, <2>1
  <2> QED BY <2>1, <2>2, <2>3
<1>9. ASSUME NEW b \in S \ {h} PROVE b # 0 /\ \E i \in 1..Len(r) : Owes(r[i]) = b
  <2>1. b # 0
    BY <1>3
  <2>2. PICK i \in 1..n : Owes(q[i]) = b
    BY <1>3
  <2>3. i - 1 \in 1..n-1 /\ (i - 1) + 1 = i
    BY <1>6, <2>2
  <2>4. r[i - 1] = q[i] /\ i - 1 \in 1..Len(r)
    BY <1>2, <2>3
  <2> QED BY <2>1, <2>2, <2>4
<1>10. ASSUME NEW i \in 1..Len(r), NEW j \in 1..Len(r), i < j, Owes(r[i]) # 0
       PROVE  Owes(r[i]) # Owes(r[j])
  <2>1. r[i] = q[i + 1] /\ r[j] = q[j + 1] /\ i + 1 \in 1..n /\ j + 1 \in 1..n /\ i + 1 < j + 1
    BY <1>2, <1>5, <1>10
  <2> QED BY <1>3, <1>10, <2>1
<1>11. Owing(r, S \ {h})
  BY <1>2, <1>8, <1>9, <1>10 DEF Owing
<1>12. ASSUME NEW i \in 1..Len(r)-1 PROVE Follows(r[i], r[i + 1])
  <2>1. i \in 1..n-1 /\ i + 1 \in 1..n-1
    BY <1>2
  <2> QED BY <1>2, <1>3, <2>1
<1>13. Chain(r)
  BY <1>12 DEF Chain
<1>14. r # <<>> => Follows(q[1], Head(r))
  <2> SUFFICES ASSUME r # <<>> PROVE Follows(q[1], Head(r))
    OBVIOUS
  <2>1. 1 \in 1..n-1 /\ 1 + 1 = 2
    BY <1>2, <1>4
  <2>2. r[1] = q[2]
    BY <1>2, <2>1
  <2> QED BY <1>3, <1>4, <2>1, <2>2
<1>15. 0 \notin S
  BY <1>3
<1> QED BY <1>2, <1>7, <1>11, <1>13, <1>14, <1>15 DEF r, Run

(* The first item gives way to others.                                     *)
LEMMA RunOn ==
    ASSUME NEW q, NEW S, Run(q, S), q # <<>>,
           NEW items, NEW P, NEW a, NEW z, Path(items, P, a, z),
           P \intersect (S \ {Owes(Head(q))}) = {},
           Tail(q) # <<>> => Follows(z, Head(Tail(q)))
    PROVE  /\ Run(items \o Tail(q), P \union (S \ {Owes(Head(q))}))
           /\ items \o Tail(q) # <<>> /\ Head(items \o Tail(q)) = a
<1> DEFINE r == Tail(q)
           R == S \ {Owes(Head(q))}
<1>1. Run(r, R)
  BY RunTail
<1>2. /\ Owing(items, P) /\ Chain(items) /\ IsSeq(items) /\ items # <<>>
      /\ items[1] = a /\ items[Len(items)] = z
  BY DEF Path, Run, Owing
<1>3. Owing(r, R) /\ Chain(r) /\ IsSeq(r)
  BY <1>1 DEF Run, Owing
<1>4. r # <<>> => Head(r) = r[1]
  BY <1>3, SeqTail
<1>5. P \intersect R = {} /\ (r # <<>> => Follows(z, Head(r)))
  OBVIOUS
<1> HIDE DEF r, R
<1>6. Owing(items \o r, P \union R)
  BY <1>2, <1>3, <1>5, OwingConcat
<1>7. /\ Chain(items \o r) /\ items \o r # <<>> /\ Head(items \o r) = a
  BY <1>2, <1>3, <1>4, <1>5, ChainConcat
<1>8. /\ Run(items \o r, P \union R)
      /\ items \o r # <<>> /\ Head(items \o r) = a
  BY <1>6, <1>7 DEF Run
<1> QED BY <1>8 DEF r, R

LEMMA RunNone ==
    /\ Run(<<>>, {})
    /\ \A S : Run(<<>>, S) => S = {}
<1> DEFINE q == <<>>
<1>1. IsSeq(q) /\ Len(q) = 0
  BY PlainNone DEF Plain
<1>2. \A i \in 1..Len(q) : FALSE
  BY <1>1
<1>3. \A i \in 1..Len(q)-1 : FALSE
  BY <1>1
<1> HIDE DEF q
<1>4. Run(q, {}) /\ \A S : Run(q, S) => S = {}
  BY <1>1, <1>2, <1>3 DEF Run, Owing, Chain
<1> QED BY <1>4 DEF q

(* The items of expressions, which neither branch nor end a list.          *)
QuietKinds == {"expr", "zero", "load", "bin", "args", "store", "drop"}
Quiet(q) == IsSeq(q) /\ \A i \in 1..Len(q) : q[i].k \in QuietKinds

LEMMA QuietItem ==
    ASSUME NEW it, it.k \in QuietKinds
    PROVE  Owes(it) = 0 /\ it.k # "then" /\ \A y : y.k # "then" => Follows(it, y)
  BY DEF QuietKinds, Owes, Follows

LEMMA QuietOne ==
    ASSUME NEW it, it.k \in QuietKinds
    PROVE  Quiet(<<it>>)
<1> DEFINE q == <<it>>
<1>1. Len(q) = 1 /\ q[1] = it /\ IsSeq(q)
  BY SeqOne
<1> HIDE DEF q
<1>2. \A i \in 1..Len(q) : i = 1
  BY <1>1
<1>3. Quiet(q)
  BY <1>1, <1>2 DEF Quiet
<1> QED BY <1>3 DEF q

LEMMA QuietNone == Quiet(<<>>)
<1> DEFINE q == <<>>
<1>1. IsSeq(q) /\ Len(q) = 0
  BY PlainNone DEF Plain
<1> HIDE DEF q
<1>2. Quiet(q)
  BY <1>1 DEF Quiet
<1> QED BY <1>2 DEF q

LEMMA QuietConcat ==
    ASSUME NEW p, NEW q, Quiet(p), Quiet(q)
    PROVE  Quiet(p \o q)
<1>1. IsSeq(p) /\ IsSeq(q)
  BY DEF Quiet
<1> DEFINE r == p \o q
           l == Len(p)
           m == Len(q)
<1>2. /\ IsSeq(r) /\ l \in Nat /\ m \in Nat /\ Len(r) = l + m
      /\ \A i \in 1..l : r[i] = p[i]
      /\ \A i \in l+1..l+m : r[i] = q[i - l]
  BY ONLY <1>1, SeqConcat
<1>3. /\ \A i \in 1..l : p[i].k \in QuietKinds
      /\ \A i \in 1..m : q[i].k \in QuietKinds
  BY DEF Quiet
<1> HIDE DEF r, l, m
<1>4. \A i \in 1..Len(r) : i \in 1..l \/ (i \in l+1..l+m /\ i - l \in 1..m)
  BY <1>2
<1>5. \A i \in 1..Len(r) : r[i].k \in QuietKinds
  BY <1>2, <1>3, <1>4
<1>6. Quiet(r)
  BY <1>2, <1>5 DEF Quiet
<1> QED BY <1>6 DEF r

LEMMA QuietTail ==
    ASSUME NEW q, Quiet(q), q # <<>>
    PROVE  Quiet(Tail(q)) /\ Head(q).k \in QuietKinds
<1>1. IsSeq(q) /\ \A i \in 1..Len(q) : q[i].k \in QuietKinds
  BY DEF Quiet
<1>2. /\ Len(q) \in Nat \ {0} /\ Head(q) = q[1]
      /\ IsSeq(Tail(q)) /\ Len(Tail(q)) = Len(q) - 1
      /\ \A i \in 1..Len(q)-1 : Tail(q)[i] = q[i + 1]
  BY <1>1, SeqTail
<1>3. 1 \in 1..Len(q) /\ \A i \in 1..Len(q)-1 : i + 1 \in 1..Len(q)
  BY <1>2
<1> QED BY <1>1, <1>2, <1>3 DEF Quiet

LEMMA QuietPath ==
    ASSUME NEW q, Quiet(q), q # <<>>
    PROVE  \E a, z : Path(q, {}, a, z) /\ a.k \in QuietKinds /\ z.k \in QuietKinds
<1>1. IsSeq(q) /\ \A i \in 1..Len(q) : q[i].k \in QuietKinds
  BY DEF Quiet
<1>2. Len(q) \in Nat \ {0}
  BY <1>1, SeqTail
<1>3. 1 \in 1..Len(q) /\ Len(q) \in 1..Len(q) /\ \A i \in 1..Len(q)-1 : i \in 1..Len(q) /\ i + 1 \in 1..Len(q)
  BY <1>2
<1>4. \A i \in 1..Len(q) : Owes(q[i]) = 0
  BY <1>1, QuietItem
<1>5. Owing(q, {})
  BY <1>1, <1>4 DEF Owing
<1>6. Chain(q)
  <2> SUFFICES ASSUME NEW i \in 1..Len(q)-1 PROVE Follows(q[i], q[i + 1])
    BY DEF Chain
  <2>1. q[i].k \in QuietKinds /\ q[i + 1].k \in QuietKinds
    BY <1>1, <1>3
  <2> QED BY <2>1, QuietItem
<1>7. Path(q, {}, q[1], q[Len(q)])
  BY <1>5, <1>6 DEF Path, Run
<1> QED BY <1>1, <1>3, <1>7

(* The walk through a program: q is the control stack, p where the builder *)
(* is, in the function f, S the blocks that are owed.  Open are these, the *)
(* initialiser's, those that functions fall out of, and the builder's      *)
(* until a terminator was added; then what comes next looks at `last'.     *)
Tolerant == {"more", "join", "repeat", "end define"}
Live(q, p, l) == IF q = <<>> \/ l THEN {} ELSE {p}
Walk(bs, q, p, l, fl, f, S) ==
    /\ Near(bs, globals_init) = {1}
    /\ 1 \notin fl /\ 1 \notin S /\ S \intersect fl = {}
    /\ Run(q, S)
    /\ f = globals_init => Quiet(q)
    /\ l => q # <<>> /\ Head(q).k \in Tolerant
    /\ q # <<>> => p \notin fl /\ p \notin S
    /\ q # <<>> /\ Head(q).k = "then" => p = Head(q).b
    /\ Shape(bs, {1} \union fl \union S \union Live(q, p, l))

LEMMA NoneBefore == ASSUME NEW q, IsSeq(q) PROVE <<>> \o q = q
<1>1. PICK S : q \in Seq(S)
  BY DEF IsSeq
<1> QED BY <1>1, ConcatEmptySeq

LEMMA WalkFacts ==
    ASSUME HomeInv, Running, NEW S, Walk(blocks, todo, ip, last, falls, owner, S)
    PROVE  /\ AreBlocks(blocks) /\ Len(blocks) \in Nat /\ ip \in 1..Len(blocks)
           /\ owner \in Names /\ todo # <<>> /\ IsSeq(Tail(todo)) /\ Parent = owner
           /\ ~last => Shape(blocks, {1} \union falls \union S \union {ip})
           /\ last => Shape(blocks, {1} \union falls \union S)
           /\ ip \notin falls /\ ip \notin S
           /\ {1} \union falls \union S \subseteq 1..Len(blocks)
           /\ Head(todo).k \notin Tolerant => ~last
           /\ owner = globals_init => ip = 1 /\ Quiet(Tail(todo))
           /\ Head(todo).k \notin QuietKinds => owner # globals_init
           /\ owner # globals_init =>
                 /\ ip # 1
                 /\ ~IsEnd(Head(todo)) => Tail(todo) # <<>>
<1>1. /\ AreBlocks(blocks) /\ Len(blocks) \in Nat /\ ip \in 1..Len(blocks)
      /\ owner \in Names /\ todo # <<>> /\ blocks[ip].fn = owner /\ Parent = owner
      /\ Plan(todo, Near(blocks, owner), owner)
  BY InvFacts
<1>2. IsSeq(todo) /\ (owner # globals_init => IsEnd(todo[Len(todo)]))
  BY <1>1 DEF Plan
<1>3. Len(todo) \in Nat \ {0} /\ Head(todo) = todo[1] /\ IsSeq(Tail(todo)) /\ Len(Tail(todo)) = Len(todo) - 1
  BY <1>1, <1>2, SeqTail
<1>4. ASSUME owner # globals_init, ~IsEnd(Head(todo)) PROVE Tail(todo) # <<>>
  <2>1. Len(todo) # 1
    BY <1>2, <1>3, <1>4
  <2>2. Len(Tail(todo)) # 0
    BY <1>3, <2>1
  <2>3. \A r : Len(r) # 0 => r # <<>>
    OBVIOUS
  <2> QED BY <2>2, <2>3
<1>5. Near(blocks, globals_init) = {1}
  BY DEF Walk
<1>6. owner = globals_init <=> ip = 1
  BY <1>1, <1>5 DEF Near
<1>7. owner = globals_init => Quiet(Tail(todo)) /\ Head(todo).k \in QuietKinds
  BY <1>1, QuietTail DEF Walk
<1>8. Shape(blocks, {1} \union falls \union S \union Live(todo, ip, last))
  BY DEF Walk
<1>9. {1} \union falls \union S \subseteq 1..Len(blocks)
  BY <1>8 DEF Shape
<1>10. /\ ~last => Live(todo, ip, last) = {ip}
       /\ last => Live(todo, ip, last) = {}
  BY <1>1 DEF Live
<1>11. {1} \union falls \union S \union {} = {1} \union falls \union S
  OBVIOUS
<1>12. /\ ip \notin falls /\ ip \notin S /\ (last => Head(todo).k \in Tolerant)
  BY <1>1 DEF Walk
<1> QED BY <1>1, <1>3, <1>4, <1>6, <1>7, <1>8, <1>9, <1>10, <1>11, <1>12

LEMMA NearKept ==
    ASSUME NEW bs, NEW cs, NEW f, NEW n \in Nat, Len(bs) \in Nat, Len(cs) = Len(bs) + n,
           \A c \in 1..Len(bs) : cs[c].fn = bs[c].fn,
           \A c \in Len(bs)+1..Len(bs)+n : cs[c].fn = f,
           n = 0 \/ f # globals_init, Near(bs, globals_init) = {1}
    PROVE  Near(cs, globals_init) = {1}
<1> DEFINE m == Len(bs)
           g == globals_init
<1>1. \A c \in 1..m : bs[c].fn = g <=> c = 1
  BY DEF Near
<1>2. 1 \in 1..m
  BY DEF Near
<1>3. \A c \in m+1..m+n : cs[c].fn # g
  BY DEF Near
<1> HIDE DEF m, g
<1>4. \A c \in 1..Len(cs) : c \in 1..m \/ c \in m+1..m+n
  BY DEF m
<1>5. \A c \in 1..m : cs[c].fn = bs[c].fn
  BY DEF m
<1>6. 1 \in 1..Len(cs)
  BY <1>2 DEF m
<1>7. \A c \in 1..Len(cs) : cs[c].fn = g <=> c = 1
  BY <1>1, <1>2, <1>3, <1>4, <1>5
<1> QED BY <1>6, <1>7 DEF Near, g

(* The builder stays where it is and writes no jump; the item owed nothing *)
(* and those in its place do not either.                                   *)
LEMMA Keeps ==
    ASSUME HomeInv, Running, NEW S, Walk(blocks, todo, ip, last, falls, owner, S),
           ~last, Owes(Head(todo)) = 0, Head(todo).k # "join", ~IsEnd(Head(todo)),
           NEW code, blocks' = blocks \/ (IsSeq(code) /\ NoJump(code) /\ Emit(code)),
           ip' = ip, falls' = falls, owner' = owner, ~last',
           NEW items, Do(items), owner = globals_init => Quiet(items),
           \/ items = <<>>
           \/ \E a, z : /\ Path(items, {}, a, z) /\ a.k # "then"
                        /\ Tail(todo) # <<>> => Follows(z, Head(Tail(todo)))
    PROVE  Walk(blocks', todo', ip', last', falls', owner', S)
<1> DEFINE O == {1} \union falls \union S
<1>1. /\ AreBlocks(blocks) /\ ip \in 1..Len(blocks) /\ todo # <<>> /\ IsSeq(Tail(todo))
      /\ Shape(blocks, O \union {ip}) /\ Len(blocks) \in Nat
      /\ ip \notin falls /\ ip \notin S
      /\ owner = globals_init => ip = 1 /\ Quiet(Tail(todo))
      /\ owner # globals_init => Tail(todo) # <<>>
  BY WalkFacts
<1>2. /\ Near(blocks, globals_init) = {1} /\ Run(todo, S)
      /\ 1 \notin falls /\ 1 \notin S /\ S \intersect falls = {}
  BY DEF Walk
<1>3. /\ Shape(blocks', O \union {ip}) /\ Len(blocks') = Len(blocks) + 0
      /\ \A c \in 1..Len(blocks) : blocks'[c].fn = blocks[c].fn
  <2>1. CASE blocks' = blocks
    BY <1>1, <2>1
  <2>2. CASE IsSeq(code) /\ NoJump(code) /\ blocks' = Append_(blocks, ip, code)
    <3> DEFINE o == O \union {ip}
    <3>1. ip \in o /\ Shape(blocks, o) /\ AreBlocks(blocks)
      BY <1>1
    <3> HIDE DEF o
    <3>2. /\ Len(blocks') = Len(blocks) /\ \A c \in 1..Len(blocks) : blocks'[c].fn = blocks[c].fn
          /\ Shape(blocks', o)
      <4> DEFINE cs == Append_(blocks, ip, code)
      <4>1. IsSeq(code) /\ NoJump(code) /\ cs = Append_(blocks, ip, code)
        BY <2>2
      <4> HIDE DEF cs
      <4>2. NoJump(code) => Shape(cs, o)
        BY ONLY <3>1, <4>1, ShapeAppend
      <4>3. ip \in 1..Len(blocks)
        BY <1>1
      <4>4. Len(cs) = Len(blocks) /\ \A c \in 1..Len(blocks) : cs[c].fn = blocks[c].fn
        BY ONLY <3>1, <4>1, <4>3, AppendCode
      <4> QED BY <2>2, <4>1, <4>2, <4>4 DEF cs
    <3> QED BY <1>1, <3>2 DEF o
  <2> QED BY <2>1, <2>2 DEF Emit
<1>4. Near(blocks', globals_init) = {1}
  <2>1. \A c \in Len(blocks)+1..Len(blocks)+0 : blocks'[c].fn = owner
    BY <1>1
  <2>2. 0 \in Nat /\ (0 = 0 \/ owner # globals_init)
    OBVIOUS
  <2> QED BY ONLY <1>1, <1>2, <1>3, <2>1, <2>2, NearKept
<1>5. /\ Run(Tail(todo), S \ {0}) /\ 0 \notin S
      /\ Tail(todo) # <<>> => Follows(Head(todo), Head(Tail(todo)))
  BY <1>1, <1>2, RunTail
<1>6. S \ {0} = S
  BY <1>5
<1>7. Run(todo', S) /\ (todo' # <<>> => Head(todo').k # "then")
  <2>1. CASE items = <<>>
    <3>1. todo' = Tail(todo)
      BY <1>1, <2>1, NoneBefore DEF Do
    <3>2. todo' # <<>> => Head(todo').k # "then"
      BY <1>5, <3>1 DEF Follows
    <3> QED BY <1>5, <1>6, <3>1, <3>2
  <2>2. CASE items # <<>>
    <3>1. PICK a, z : /\ Path(items, {}, a, z) /\ a.k # "then"
                      /\ Tail(todo) # <<>> => Follows(z, Head(Tail(todo)))
      BY <2>2
    <3>2. {} \intersect (S \ {Owes(Head(todo))}) = {} /\ todo' = items \o Tail(todo)
      BY DEF Do
    <3>3. /\ Run(items \o Tail(todo), {} \union (S \ {Owes(Head(todo))}))
          /\ Head(items \o Tail(todo)) = a
      BY <1>1, <1>2, <3>1, <3>2, RunOn
    <3>4. {} \union (S \ {Owes(Head(todo))}) = S
      BY <1>6
    <3> QED BY <3>1, <3>2, <3>3, <3>4
  <2> QED BY <2>1, <2>2
<1>8. owner = globals_init => Quiet(todo')
  BY <1>1, QuietConcat DEF Do
<1>9. Shape(blocks', {1} \union falls \union S \union Live(todo', ip, last'))
  <2>1. CASE todo' = <<>>
    <3>1. owner = globals_init
      <4>1. CASE items = <<>>
        BY <1>1, <2>1, <4>1, NoneBefore DEF Do
      <4>2. CASE items # <<>>
        <5>1. PICK a, z : /\ Path(items, {}, a, z)
                          /\ Tail(todo) # <<>> => Follows(z, Head(Tail(todo)))
          BY <4>2
        <5>2. {} \intersect (S \ {Owes(Head(todo))}) = {}
          OBVIOUS
        <5>3. items \o Tail(todo) # <<>>
          BY <1>1, <1>2, <5>1, <5>2, RunOn
        <5> QED BY <2>1, <5>3 DEF Do
      <4> QED BY <4>1, <4>2
    <3>2. Live(todo', ip, last') = {} /\ O \union {ip} = O \union {}
      BY <1>1, <2>1, <3>1 DEF Live
    <3> QED BY <1>3, <3>2
  <2>2. CASE todo' # <<>>
    BY <1>3, <2>2 DEF Live
  <2> QED BY <2>1, <2>2
<1> QED BY <1>1, <1>2, <1>4, <1>7, <1>8, <1>9 DEF Walk

(* The steps that close no block.                                          *)

WalkNow == \E S : Walk(blocks, todo, ip, last, falls, owner, S)

(* An expression goes on, or an assignment is made.                        *)
LEMMA QuietStep ==
    ASSUME HomeInv, WalkNow, Running, Head(todo).k \in QuietKinds,
           NEW code, blocks' = blocks \/ (IsSeq(code) /\ NoJump(code) /\ Emit(code)),
           ip' = ip, falls' = falls, owner' = owner, last' = last \/ last' = FALSE,
           NEW items, Do(items), Quiet(items)
    PROVE  WalkNow'
<1>1. PICK S : Walk(blocks, todo, ip, last, falls, owner, S)
  BY DEF WalkNow
<1>2. Head(todo).k \notin Tolerant /\ Head(todo).k # "join" /\ ~IsEnd(Head(todo))
  BY DEF QuietKinds, Tolerant, IsEnd
<1>3. ~last /\ ~last' /\ Owes(Head(todo)) = 0 /\ todo # <<>>
  <2>1. ~last /\ todo # <<>>
    BY <1>1, <1>2, WalkFacts
  <2>2. Owes(Head(todo)) = 0
    BY QuietItem
  <2>3. last' = last \/ last' = FALSE
    OBVIOUS
  <2> QED BY ONLY <2>1, <2>2, <2>3
<1>4. Tail(todo) # <<>> => Head(Tail(todo)).k # "then"
  <2>1. Run(todo, S)
    BY <1>1 DEF Walk
  <2>2. Tail(todo) # <<>> => Follows(Head(todo), Head(Tail(todo)))
    BY <1>3, <2>1, RunTail
  <2> QED BY <1>2, <2>2 DEF Follows
<1>5. items = <<>> \/ \E a, z : /\ Path(items, {}, a, z) /\ a.k # "then"
                                /\ Tail(todo) # <<>> => Follows(z, Head(Tail(todo)))
  <2>1. CASE items # <<>>
    <3>1. PICK a, z : Path(items, {}, a, z) /\ a.k \in QuietKinds /\ z.k \in QuietKinds
      BY <2>1, QuietPath
    <3> QED BY <1>4, <3>1, QuietItem
  <2> QED BY <2>1
<1>6. Walk(blocks', todo', ip', last', falls', owner', S)
  BY <1>1, <1>2, <1>3, <1>5, Keeps
<1> QED BY <1>6 DEF WalkNow

(* A statement begins, or a list of statements goes on.                    *)
LEMMA ListStep ==
    ASSUME HomeInv, WalkNow, Running, Head(todo).k \in {"stmt", "more"}, ~last,
           NEW code, blocks' = blocks \/ (IsSeq(code) /\ NoJump(code) /\ Emit(code)),
           ip' = ip, falls' = falls, owner' = owner, last' = last \/ last' = FALSE,
           NEW items, Do(items), NEW a, NEW z,
           items = <<>> \/ (Path(items, {}, a, z) /\ a.k # "then"),
           \A y : Follows(Head(todo), y) => Follows(z, y)
    PROVE  WalkNow'
<1>1. PICK S : Walk(blocks, todo, ip, last, falls, owner, S)
  BY DEF WalkNow
<1>2. Head(todo).k # "join" /\ ~IsEnd(Head(todo)) /\ Owes(Head(todo)) = 0 /\ Head(todo).k \notin QuietKinds
  BY DEF QuietKinds, IsEnd, Owes
<1>3. ~last' /\ todo # <<>> /\ owner # globals_init
  <2>1. owner # globals_init /\ todo # <<>>
    BY <1>1, <1>2, WalkFacts
  <2>2. ~last /\ (last' = last \/ last' = FALSE)
    OBVIOUS
  <2> QED BY ONLY <2>1, <2>2
<1>4. Tail(todo) # <<>> => Follows(Head(todo), Head(Tail(todo)))
  <2>1. Run(todo, S)
    BY <1>1 DEF Walk
  <2> QED BY <1>3, <2>1, RunTail
<1>5. items = <<>> \/ \E x, y : /\ Path(items, {}, x, y) /\ x.k # "then"
                                /\ Tail(todo) # <<>> => Follows(y, Head(Tail(todo)))
  BY <1>4
<1>6. Walk(blocks', todo', ip', last', falls', owner', S)
  BY <1>1, <1>2, <1>3, <1>5, Keeps
<1> QED BY <1>6 DEF WalkNow

(* The items.                                                              *)
LEMMA QuietItems ==
    /\ \A k \in {"expr", "zero", "drop"} : Quiet(<<It(k)>>)
    /\ \A id : Quiet(<<Load(id)>>) /\ Quiet(<<Store(id)>>) /\ Quiet(<<Bin(id)>>)
    /\ \A id, n : Quiet(<<Args(id, n)>>)
<1>1. ASSUME NEW k \in {"expr", "zero", "drop"} PROVE Quiet(<<It(k)>>)
  <2>1. It(k).k \in QuietKinds
    BY DEF It, QuietKinds
  <2> QED BY <2>1, QuietOne
<1>2. ASSUME NEW id PROVE Quiet(<<Load(id)>>) /\ Quiet(<<Store(id)>>) /\ Quiet(<<Bin(id)>>)
  <2>1. Load(id).k \in QuietKinds /\ Store(id).k \in QuietKinds /\ Bin(id).k \in QuietKinds
    BY DEF Load, Store, Bin, QuietKinds
  <2> QED BY <2>1, QuietOne
<1>3. ASSUME NEW id, NEW n PROVE Quiet(<<Args(id, n)>>)
  <2>1. Args(id, n).k \in QuietKinds
    BY DEF Args, QuietKinds
  <2> QED BY <2>1, QuietOne
<1> QED BY <1>1, <1>2, <1>3

LEMMA TwoAre == \A a, b : <<a>> \o <<b>> = <<a, b>>
<1> TAKE a, b
<1> DEFINE S == {a, b}
           p == <<a>>
           r == <<a, b>>
<1>1. p \in Seq(S) /\ r \in Seq(S) /\ b \in S
  OBVIOUS
<1>2. Len(p) = 1 /\ Len(r) = 2 /\ p[1] = a /\ r[1] = a /\ r[2] = b
  OBVIOUS
<1> HIDE DEF S, p, r
<1>3. /\ Len(r) = Len(p) + 1 /\ r[Len(p) + 1] = b
      /\ \A i \in 1..Len(p) : r[i] = p[i]
  BY ONLY <1>2
<1>4. p \o <<b>> = r
  BY ONLY <1>1, <1>3, AppendOne
<1> QED BY <1>4 DEF p, r

LEMMA QuietTwo ==
    ASSUME NEW a, NEW b, Quiet(<<a>>), Quiet(<<b>>)
    PROVE  Quiet(<<a, b>>)
<1>1. Quiet(<<a>> \o <<b>>)
  BY QuietConcat
<1> QED BY <1>1, TwoAre

LEMMA QuietThree ==
    ASSUME NEW a, NEW b, NEW c, Quiet(<<a>>), Quiet(<<b>>), Quiet(<<c>>)
    PROVE  Quiet(<<a, b, c>>)
<1>1. Quiet(<<a, b>> \o <<c>>)
  BY QuietTwo, QuietConcat
<1> QED BY <1>1, TwoAndOne

LEMMA QuietExprs ==
    ASSUME NEW n \in Nat
    PROVE  Quiet([i \in 1..n |-> It("expr")])
<1> DEFINE it == It("expr")
           q == [i \in 1..n |-> it]
<1>1. it.k \in QuietKinds
  BY DEF It, QuietKinds
<1> HIDE DEF it
<1>2. q \in [1..n -> {it}] /\ \A i \in 1..n : q[i] = it
  OBVIOUS
<1> HIDE DEF q
<1>3. q \in Seq({it}) /\ Len(q) = n
  BY <1>2, IsASeq, LenProperties
<1>4. Quiet(q)
  BY <1>1, <1>2, <1>3 DEF Quiet, IsSeq
<1> QED BY <1>4 DEF q, it

LEMMA PathTwo ==
    ASSUME NEW a, NEW b, Owes(a) = 0, Owes(b) = 0, Follows(a, b)
    PROVE  Path(<<a, b>>, {}, a, b)
<1> DEFINE N == {}
<1>1. N = IF Owes(a) = 0 THEN {} ELSE {Owes(a)}
  OBVIOUS
<1>2. N = IF Owes(b) = 0 THEN {} ELSE {Owes(b)}
  OBVIOUS
<1>3. N \intersect N = {} /\ N \union N = N
  OBVIOUS
<1> HIDE DEF N
<1>4. Path(<<a>>, N, a, a) /\ Path(<<b>>, N, b, b)
  BY <1>1, <1>2, PathOne
<1>5. Path(<<a>> \o <<b>>, N \union N, a, b)
  BY <1>3, <1>4, PathConcat
<1>6. Path(<<a, b>>, N, a, b)
  BY <1>3, <1>5, TwoAre
<1> QED BY <1>6 DEF N

LEMMA PathBody == Path(Body, {}, It("stmt"), It("more"))
<1> DEFINE a == It("stmt")
           b == It("more")
<1>1. a.k = "stmt" /\ b.k = "more"
  BY DEF It
<1>2. Body = <<a, b>>
  BY DEF Body
<1> HIDE DEF a, b
<1>3. Owes(a) = 0 /\ Owes(b) = 0 /\ Follows(a, b)
  BY <1>1 DEF Owes, Follows
<1>4. Path(<<a, b>>, {}, a, b)
  BY <1>3, PathTwo
<1> QED BY <1>2, <1>4 DEF a, b

(* One instruction that is no terminator.                                  *)
LEMMA PlainInstr ==
    ASSUME NEW op, NEW var, op \notin {"ret", "br"}, Emit(<< Instr(op, var, {}) >>)
    PROVE  \E code : IsSeq(code) /\ NoJump(code) /\ Emit(code)
<1>1. ~IsInstTerminator(Instr(op, var, {}))
  BY DEF IsInstTerminator, Instr
<1> QED BY <1>1, OneInstr

(* The arguments of a call are compiled before it is made.                 *)
LEMMA CallItems ==
    ASSUME NEW id, NEW n \in Nat, NEW then, Quiet(then)
    PROVE  LET items == [i \in 1..n |-> It("expr")] \o << Args(id, n) >> \o then
           IN  Quiet(items) /\ items # <<>>
<1> DEFINE args == [i \in 1..n |-> It("expr")]
           last_ == << Args(id, n) >>
<1>1. Quiet(args) /\ Quiet(last_)
  BY QuietExprs, QuietItems
<1>2. Len(last_) = 1
  OBVIOUS
<1> HIDE DEF args, last_
<1>3. Quiet(args \o last_) /\ Quiet((args \o last_) \o then)
  BY <1>1, QuietConcat
<1>4. (args \o last_) \o then # <<>>
  <2>1. /\ IsSeq(args) /\ IsSeq(last_) /\ IsSeq(then) /\ IsSeq(args \o last_)
    BY <1>1, <1>3 DEF Quiet
  <2>2. Len(args \o last_) = Len(args) + 1 /\ Len(args) \in Nat
    BY <1>2, <2>1, SeqConcat
  <2>3. Len((args \o last_) \o then) = Len(args \o last_) + Len(then) /\ Len(then) \in Nat
    BY <2>1, SeqConcat
  <2>4. Len((args \o last_) \o then) # 0
    BY <2>2, <2>3
  <2>5. \A q : Len(q) # 0 => q # <<>>
    OBVIOUS
  <2> QED BY <2>4, <2>5
<1> QED BY <1>3, <1>4 DEF args, last_

(* The inductive invariant for BlocksClosed.                               *)
ClosedInv ==
    /\ outcome = "none" /\ top = 0 =>
          /\ todo = <<>>
          /\ \E f \in DOMAIN functions : functions[f].id = globals_init
    /\ top # 0 => \A i \in 1..Len(tree) : tree[i].k = "define" => tree[i].id # globals_init
    /\ outcome = "none" => WalkNow
    /\ outcome # "none" => \E O : Shape(blocks, O)
    /\ outcome = "printed" => 1 \notin falls /\ Shape(blocks, falls)

Halted == outcome' \in {"exception", "assert"} /\ tree' = tree /\ top' = top /\ blocks' = blocks
GoesForth == outcome' = outcome /\ tree' = tree /\ top' = top

LEMMA ClosedRunning ==
    ASSUME ClosedInv, outcome = "none", Halted \/ (Running /\ GoesForth /\ WalkNow')
    PROVE  ClosedInv'
<1>1. CASE Halted
  <2>1. \E O : Shape(blocks, O)
    BY DEF ClosedInv, WalkNow, Walk
  <2>2. outcome' # "none" /\ outcome' # "printed"
    BY <1>1 DEF Halted
  <2> QED BY <1>1, <2>1, <2>2 DEF ClosedInv, Halted
<1>2. CASE Running /\ GoesForth /\ WalkNow'
  <2>1. top # 0 /\ todo # <<>>
    BY <1>2 DEF ClosedInv, Running
  <2>2. top' # 0 /\ outcome' = "none" /\ outcome' # "printed"
    BY <1>2, <2>1 DEF GoesForth
  <2> QED BY <1>2, <2>1, <2>2 DEF ClosedInv, GoesForth
<1> QED BY <1>1, <1>2

LEMMA StopHalts == Stop("exception") \/ Stop("assert") => Halted
  BY DEF Stop, Halted, module

(* What At tells.                                                          *)
LEMMA AtQuiet ==
    ASSUME HomeInv, ClosedInv, NEW k, At(k)
    PROVE  /\ Running /\ Head(todo).k = k /\ outcome = "none" /\ WalkNow
           /\ k \in {"expr", "zero", "load", "bin", "args", "store", "drop"} => Head(todo).k \in QuietKinds
  BY DEF At, Running, ClosedInv, QuietKinds

LEMMA Calls ==
    ASSUME HomeInv, ClosedInv, NEW k \in {"expr", "stmt"}, At(k), k = "stmt" => ~last,
           NEW id, NEW n \in Nat, NEW then, Quiet(then), Call(id, n, then)
    PROVE  ClosedInv'
<1> DEFINE f == Function(id)
           items == [i \in 1..n |-> It("expr")] \o << Args(id, n) >> \o then
<1>1. Running /\ Head(todo).k = k /\ outcome = "none" /\ WalkNow
  BY AtQuiet
<1>2. CASE f # <<>> /\ Len(f[1].params) = n
  <2>1. /\ GoesForth /\ Do(items) /\ blocks' = blocks /\ ip' = ip /\ falls' = falls
        /\ owner' = owner /\ last' = last
    BY <1>2 DEF Call, Keep, GoesForth, module
  <2>2. Quiet(items) /\ items # <<>>
    BY CallItems
  <2> HIDE DEF items, f
  <2>3. CASE k = "expr"
    <3>1. Head(todo).k \in QuietKinds
      BY <1>1, <2>3 DEF QuietKinds
    <3>2. WalkNow'
      BY <1>1, <2>1, <2>2, <3>1, QuietStep
    <3> QED BY <1>1, <2>1, <3>2, ClosedRunning
  <2>4. CASE k = "stmt"
    <3>1. PICK a, z : Path(items, {}, a, z) /\ a.k \in QuietKinds /\ z.k \in QuietKinds
      BY <2>2, QuietPath
    <3>2. a.k # "then" /\ \A y : Follows(Head(todo), y) => Follows(z, y)
      <4>1. \A y : Follows(Head(todo), y) => y.k # "then"
        BY <1>1, <2>4 DEF Follows
      <4> QED BY <3>1, <4>1, QuietItem
    <3>3. Head(todo).k \in {"stmt", "more"}
      BY <1>1, <2>4
    <3>4. WalkNow'
      BY <1>1, <2>1, <2>2, <2>4, <3>1, <3>2, <3>3, ListStep
    <3> QED BY <1>1, <2>1, <3>4, ClosedRunning
  <2> QED BY <2>3, <2>4
<1>3. CASE ~(f # <<>> /\ Len(f[1].params) = n)
  <2>1. Halted
    BY <1>3 DEF Call, Halted, module
  <2> QED BY <1>1, <2>1, ClosedRunning
<1> QED BY <1>2, <1>3

LEMMA ExprClosed == HomeInv /\ ClosedInv /\ Expr_ => ClosedInv'
<1> SUFFICES ASSUME HomeInv, ClosedInv, Expr_ PROVE ClosedInv'
  OBVIOUS
<1>0. ASSUME NEW k \in QuietKinds, At(k), GoesForth,
             \/ blocks' = blocks
             \/ \E op, var : op \notin {"ret", "br"} /\ Emit(<< Instr(op, var, {}) >>),
             ip' = ip, falls' = falls, owner' = owner, last' = last \/ last' = FALSE,
             NEW items, Do(items), Quiet(items)
      PROVE  ClosedInv'
  <2>1. Running /\ Head(todo).k \in QuietKinds /\ outcome = "none" /\ WalkNow
    BY <1>0, AtQuiet
  <2>2. \E code : blocks' = blocks \/ (IsSeq(code) /\ NoJump(code) /\ Emit(code))
    BY <1>0, PlainInstr
  <2>3. PICK code : blocks' = blocks \/ (IsSeq(code) /\ NoJump(code) /\ Emit(code))
    BY <2>2
  <2>4. WalkNow'
    BY <1>0, <2>1, <2>3, QuietStep
  <2> QED BY <1>0, <2>1, <2>4, ClosedRunning
<1>1. CASE NumberExpr
  <2>1. GoesForth /\ blocks' = blocks /\ ip' = ip /\ falls' = falls /\ owner' = owner /\ last' = last
        /\ Do(<<>>) /\ At("expr")
    BY <1>1 DEF NumberExpr, Pure, Keep, GoesForth
  <2> QED BY <1>0, <2>1, QuietNone DEF QuietKinds
<1>2. CASE VariableExpr
  <2>1. GoesForth /\ blocks' = blocks /\ ip' = ip /\ falls' = falls /\ owner' = owner /\ last' = last
        /\ At("expr")
    BY <1>2 DEF VariableExpr, Pure, Keep, GoesForth
  <2>2. PICK id : \/ Do(<< It("expr"), Load(id) >>)
                  \/ Do(<< It("zero"), Load(id) >>)
    BY <1>2 DEF VariableExpr
  <2>3. Quiet(<< It("expr"), Load(id) >>) /\ Quiet(<< It("zero"), Load(id) >>)
    BY QuietItems, QuietTwo
  <2> QED BY <1>0, <2>1, <2>2, <2>3 DEF QuietKinds
<1>3. CASE ZeroIndex
  <2>1. GoesForth /\ blocks' = blocks /\ ip' = ip /\ falls' = falls /\ owner' = owner /\ last' = last
        /\ Do(<<>>) /\ At("zero")
    BY <1>3 DEF ZeroIndex, Pure, Keep, GoesForth
  <2> QED BY <1>0, <2>1, QuietNone DEF QuietKinds
<1>4. CASE LoadVariable
  <2>1. CASE Stop("exception") \/ Stop("assert")
    <3>1. outcome = "none"
      BY <1>4, AtQuiet DEF LoadVariable
    <3> QED BY <2>1, <3>1, StopHalts, ClosedRunning
  <2>2. CASE ~(Stop("exception") \/ Stop("assert"))
    <3>1. /\ GoesForth /\ ip' = ip /\ falls' = falls /\ owner' = owner /\ last' = last
          /\ Do(<<>>) /\ At("load") /\ Emit(<< Instr("load", find(Head(todo).id), {}) >>)
      BY <1>4, <2>2 DEF LoadVariable, Pure, Keep, GoesForth
    <3>2. "load" \notin {"ret", "br"} /\ "load" \in QuietKinds
      BY DEF QuietKinds
    <3> QED BY <1>0, <3>1, <3>2, QuietNone
  <2> QED BY <2>1, <2>2
<1>5. CASE BinaryExpr
  <2>1. GoesForth /\ blocks' = blocks /\ ip' = ip /\ falls' = falls /\ owner' = owner /\ last' = last
        /\ At("expr")
    BY <1>5 DEF BinaryExpr, Pure, Keep, GoesForth
  <2>2. PICK id : \/ Do(<< It("expr"), It("expr"), Bin(id) >>)
                  \/ Do(<< It("expr") >>)
    BY <1>5 DEF BinaryExpr
  <2>3. Quiet(<< It("expr"), It("expr"), Bin(id) >>) /\ Quiet(<< It("expr") >>)
    BY QuietItems, QuietThree
  <2> QED BY <1>0, <2>1, <2>2, <2>3 DEF QuietKinds
<1>6. CASE compile_expr_bin
  <2>1. CASE Stop("assert")
    <3>1. outcome = "none"
      BY <1>6, AtQuiet DEF compile_expr_bin
    <3> QED BY <2>1, <3>1, StopHalts, ClosedRunning
  <2>2. CASE ~Stop("assert")
    <3>1. GoesForth /\ blocks' = blocks /\ ip' = ip /\ falls' = falls /\ owner' = owner /\ last' = last
          /\ Do(<<>>) /\ At("bin")
      BY <1>6, <2>2 DEF compile_expr_bin, Pure, Keep, GoesForth
    <3> QED BY <1>0, <3>1, QuietNone DEF QuietKinds
  <2> QED BY <2>1, <2>2
<1>7. CASE CallExpr
  <2>1. At("expr") /\ \E id : \E n \in Nat : Call(id, n, <<>>)
    <3>1. \A e \in Of("call") : e.n \in Nat
      BY IRGenAssumption DEF Of, Bounded, Node
    <3> QED BY <1>7, <3>1 DEF CallExpr
  <2>2. PICK id, n : n \in Nat /\ Call(id, n, <<>>)
    BY <2>1
  <2> QED BY <2>1, <2>2, QuietNone, Calls
<1>8. CASE CallEnd
  <2>1. CASE Stop("assert")
    <3>1. outcome = "none"
      BY <1>8, AtQuiet DEF CallEnd
    <3> QED BY <2>1, <3>1, StopHalts, ClosedRunning
  <2>2. CASE ~Stop("assert")
    <3>1. /\ GoesForth /\ ip' = ip /\ falls' = falls /\ owner' = owner /\ last' = last
          /\ Do(<<>>) /\ At("args") /\ Emit(<< Instr("call", None, {}) >>)
      BY <1>8, <2>2 DEF CallEnd, Pure, Keep, GoesForth
    <3>2. "call" \notin {"ret", "br"} /\ "args" \in QuietKinds
      BY DEF QuietKinds
    <3> QED BY <1>0, <3>1, <3>2, QuietNone
  <2> QED BY <2>1, <2>2
<1> QED BY <1>1, <1>2, <1>3, <1>4, <1>5, <1>6, <1>7, <1>8 DEF Expr_

(* A list of statements is left only by its own item.                      *)
LEMMA NotLast ==
    ASSUME HomeInv, WalkNow, Running, Head(todo).k \notin Tolerant
    PROVE  ~last
<1>1. PICK S : Walk(blocks, todo, ip, last, falls, owner, S)
  BY DEF WalkNow
<1> QED BY <1>1, WalkFacts

LEMMA LeftEarly ==
    ASSUME HomeInv, WalkNow, Running, Head(todo).k = "more", last,
           blocks' = blocks, ip' = ip, falls' = falls, owner' = owner, last' = last, Do(<<>>)
    PROVE  WalkNow'
<1>1. PICK S : Walk(blocks, todo, ip, last, falls, owner, S)
  BY DEF WalkNow
<1>2. ~IsEnd(Head(todo)) /\ Head(todo).k \notin QuietKinds /\ Owes(Head(todo)) = 0
  BY DEF IsEnd, QuietKinds, Owes
<1>3. /\ todo # <<>> /\ owner # globals_init /\ Tail(todo) # <<>> /\ IsSeq(Tail(todo))
      /\ Shape(blocks, {1} \union falls \union S) /\ ip \notin falls /\ ip \notin S
  BY <1>1, <1>2, WalkFacts
<1>4. /\ Near(blocks, globals_init) = {1} /\ Run(todo, S)
      /\ 1 \notin falls /\ 1 \notin S /\ S \intersect falls = {}
  BY <1>1 DEF Walk
<1>5. todo' = Tail(todo)
  BY <1>3, NoneBefore DEF Do
<1>6. Run(Tail(todo), S \ {0}) /\ S \ {0} = S /\ Follows(Head(todo), Head(Tail(todo)))
  BY <1>2, <1>3, <1>4, RunTail
<1>7. Head(todo').k \in {"join", "repeat", "end define"}
  BY <1>5, <1>6 DEF Follows
<1>8. Head(todo').k \in Tolerant /\ Head(todo').k # "then"
  BY <1>7 DEF Tolerant
<1>9. Live(todo', ip', last') = {}
  BY DEF Live
<1>10. {1} \union falls \union S \union {} = {1} \union falls \union S
  OBVIOUS
<1>11. Shape(blocks', {1} \union falls' \union S \union Live(todo', ip', last'))
  BY <1>3, <1>9, <1>10
<1>12. todo' # <<>>
  BY <1>3, <1>5
<1>13. Walk(blocks', todo', ip', last', falls', owner', S)
  BY <1>3, <1>4, <1>5, <1>6, <1>8, <1>11, <1>12 DEF Walk
<1> QED BY <1>13 DEF WalkNow

LEMMA SimpleClosed ==
    ASSUME HomeInv, ClosedInv,
           compile_stmt \/ AssignStmt \/ compile_assign \/ CallStmt \/ Drop \/ ReturnStmt \/ IfStmt
    PROVE  ClosedInv'
<1>0. ASSUME NEW k \in {"stmt", "more"}, At(k), ~last, GoesForth,
             \/ blocks' = blocks
             \/ \E op, var : op \notin {"ret", "br"} /\ Emit(<< Instr(op, var, {}) >>),
             ip' = ip, falls' = falls, owner' = owner, last' = last \/ last' = FALSE,
             NEW items, Do(items), NEW a, NEW z,
             items = <<>> \/ (Path(items, {}, a, z) /\ a.k # "then"),
             \A y : Follows(Head(todo), y) => Follows(z, y)
      PROVE  ClosedInv'
  <2>1. Running /\ Head(todo).k \in {"stmt", "more"} /\ outcome = "none" /\ WalkNow
    BY <1>0, AtQuiet
  <2>2. \E code : blocks' = blocks \/ (IsSeq(code) /\ NoJump(code) /\ Emit(code))
    BY <1>0, PlainInstr
  <2>3. PICK code : blocks' = blocks \/ (IsSeq(code) /\ NoJump(code) /\ Emit(code))
    BY <2>2
  <2>4. WalkNow'
    BY <1>0, <2>1, <2>3, ListStep
  <2> QED BY <1>0, <2>1, <2>4, ClosedRunning
<1>1. ASSUME At("stmt") PROVE ~last /\ Head(todo).k = "stmt"
  <2>1. Running /\ Head(todo).k = "stmt" /\ WalkNow
    BY <1>1, AtQuiet
  <2>2. Head(todo).k \notin Tolerant
    BY <2>1 DEF Tolerant
  <2> QED BY <2>1, <2>2, NotLast
(* An expression, and what is done with its value.                         *)
<1>2. ASSUME At("stmt"), NEW z, z.k \in {"store", "return", "if"}
      PROVE  /\ Path(<< It("expr"), z >>, {}, It("expr"), z) /\ It("expr").k # "then"
             /\ \A y : Follows(Head(todo), y) => Follows(z, y)
  <2>1. It("expr").k = "expr"
    BY DEF It
  <2>2. Owes(It("expr")) = 0 /\ Owes(z) = 0
    BY <1>2, <2>1 DEF Owes
  <2>3. Follows(It("expr"), z)
    BY <1>2, <2>1 DEF Follows
  <2>4. \A y : Follows(Head(todo), y) => y.k = "more"
    BY <1>1, <1>2 DEF Follows
  <2>5. \A y : y.k = "more" => Follows(z, y)
    BY <1>2 DEF Follows
  <2> QED BY <2>1, <2>2, <2>3, <2>4, <2>5, PathTwo
<1>3. CASE compile_stmt
  <2>1. /\ At("more") /\ GoesForth /\ blocks' = blocks /\ ip' = ip /\ falls' = falls
        /\ owner' = owner /\ last' = last
        /\ (last /\ Do(<<>>)) \/ (~last /\ (Do(<<>>) \/ Do(Body)))
    BY <1>3 DEF compile_stmt, Pure, Keep, GoesForth, LeaveList
  <2>2. Running /\ Head(todo).k = "more" /\ outcome = "none" /\ WalkNow
    BY <2>1, AtQuiet
  <2>3. CASE last
    <3>1. WalkNow'
      BY <2>1, <2>2, <2>3, LeftEarly
    <3> QED BY <2>1, <2>2, <3>1, ClosedRunning
  <2>4. CASE ~last
    <3>1. PICK items : Do(items) /\ (items = <<>> \/ items = Body)
      BY <2>1, <2>4
    <3>2. It("stmt").k # "then" /\ It("more").k = "more"
      BY DEF It
    <3>3. \A y : Follows(Head(todo), y) => Follows(It("more"), y)
      BY <2>2, <3>2 DEF Follows
    <3>4. "more" \in {"stmt", "more"}
      OBVIOUS
    <3>5. items = <<>> \/ (Path(items, {}, It("stmt"), It("more")) /\ It("stmt").k # "then")
      BY <3>1, <3>2, PathBody
    <3> QED BY <1>0, <2>1, <2>4, <3>1, <3>3, <3>4, <3>5
  <2> QED BY <2>3, <2>4
<1>4. CASE AssignStmt
  <2>1. PICK s \in Stmt("assign") :
          LET var == [block |-> ip, at |-> Len(blocks[ip].code) + 1, arg |-> 0] IN
          /\ At("stmt") /\ GoesForth /\ ip' = ip /\ falls' = falls /\ owner' = owner /\ last' = last
          /\ Do(<< It("expr"), Store(s.id) >>)
          /\ blocks' = blocks \/ Emit(<< Instr("alloca", var, {}) >>)
    BY <1>4 DEF AssignStmt, Keep, GoesForth
  <2>2. Store(s.id).k = "store"
    BY DEF Store
  <2> DEFINE z == Store(s.id)
  <2>3. /\ Path(<< It("expr"), z >>, {}, It("expr"), z) /\ It("expr").k # "then"
        /\ \A y : Follows(Head(todo), y) => Follows(z, y)
    BY <1>2, <2>1, <2>2
  <2>4. \/ blocks' = blocks
        \/ \E op, var : op \notin {"ret", "br"} /\ Emit(<< Instr(op, var, {}) >>)
    <3>1. "alloca" \notin {"ret", "br"}
      OBVIOUS
    <3> QED BY <2>1, <3>1
  <2>5. "stmt" \in {"stmt", "more"} /\ ~last
    BY <1>1, <2>1
  <2> HIDE DEF z
  <2>6. Do(<< It("expr"), z >>)
    BY <2>1 DEF z
  <2> QED BY <1>0, <2>1, <2>3, <2>4, <2>5, <2>6
<1>5. CASE compile_assign
  <2>1. At("store")
    BY <1>5 DEF compile_assign
  <2>2. Running /\ Head(todo).k \in QuietKinds /\ outcome = "none" /\ WalkNow
    BY <2>1, AtQuiet
  <2>3. CASE Stop("assert")
    BY <2>2, <2>3, StopHalts, ClosedRunning
  <2>4. CASE ~Stop("assert")
    <3>1. /\ GoesForth /\ ip' = ip /\ falls' = falls /\ owner' = owner /\ last' = FALSE
          /\ Do(<<>>) /\ Emit(<< Instr("store", find(Head(todo).id), {}) >>)
      BY <1>5, <2>4 DEF compile_assign, Keep, GoesForth
    <3>2. \E code : IsSeq(code) /\ NoJump(code) /\ Emit(code)
      <4>1. "store" \notin {"ret", "br"}
        OBVIOUS
      <4> QED BY <3>1, <4>1, PlainInstr
    <3>3. WalkNow'
      BY <2>2, <3>1, <3>2, QuietStep, QuietNone
    <3> QED BY <2>2, <3>1, <3>3, ClosedRunning
  <2> QED BY <2>3, <2>4
<1>6. CASE CallStmt
  <2>1. At("stmt") /\ \E id : \E n \in Nat : Call(id, n, << It("drop") >>)
    <3>1. \A e \in Stmt("call") : e.n \in Nat
      BY IRGenAssumption DEF Stmt, Bounded, Node
    <3> QED BY <1>6, <3>1 DEF CallStmt
  <2>2. PICK id, n : n \in Nat /\ Call(id, n, << It("drop") >>)
    BY <2>1
  <2>3. Quiet(<< It("drop") >>) /\ ~last
    BY <1>1, <2>1, QuietItems
  <2> QED BY <2>1, <2>2, <2>3, Calls
<1>7. CASE Drop
  <2>1. At("drop") /\ GoesForth /\ blocks' = blocks /\ ip' = ip /\ falls' = falls
        /\ owner' = owner /\ last' = FALSE /\ Do(<<>>)
    BY <1>7 DEF Drop, Keep, GoesForth, module
  <2>2. Running /\ Head(todo).k \in QuietKinds /\ outcome = "none" /\ WalkNow
    BY <2>1, AtQuiet
  <2>3. WalkNow'
    BY <2>1, <2>2, QuietStep, QuietNone
  <2> QED BY <2>1, <2>2, <2>3, ClosedRunning
<1>8. CASE ReturnStmt
  <2>1. At("stmt") /\ GoesForth /\ blocks' = blocks /\ ip' = ip /\ falls' = falls
        /\ owner' = owner /\ last' = last /\ Do(<< It("expr"), It("return") >>)
    BY <1>8 DEF ReturnStmt, Pure, Keep, GoesForth
  <2> DEFINE z == It("return")
  <2>2. z.k \in {"store", "return", "if"}
    BY DEF It
  <2>3. /\ Path(<< It("expr"), z >>, {}, It("expr"), z) /\ It("expr").k # "then"
        /\ \A y : Follows(Head(todo), y) => Follows(z, y)
    BY <1>2, <2>1, <2>2
  <2>4. "stmt" \in {"stmt", "more"} /\ ~last
    BY <1>1, <2>1
  <2> HIDE DEF z
  <2>5. Do(<< It("expr"), z >>)
    BY <2>1 DEF z
  <2> QED BY <1>0, <2>1, <2>3, <2>4, <2>5
<1>9. CASE IfStmt
  <2>1. /\ At("stmt") /\ GoesForth /\ blocks' = blocks /\ ip' = ip /\ falls' = falls
        /\ owner' = owner /\ last' = last /\ \E n : Do(<< It("expr"), If(n) >>)
    BY <1>9 DEF IfStmt, Pure, Keep, GoesForth
  <2>2. PICK n : Do(<< It("expr"), If(n) >>)
    BY <2>1
  <2> DEFINE z == If(n)
  <2>3. z.k \in {"store", "return", "if"}
    BY DEF If
  <2>4. /\ Path(<< It("expr"), z >>, {}, It("expr"), z) /\ It("expr").k # "then"
        /\ \A y : Follows(Head(todo), y) => Follows(z, y)
    BY <1>2, <2>1, <2>3
  <2>5. "stmt" \in {"stmt", "more"} /\ ~last
    BY <1>1, <2>1
  <2> HIDE DEF z
  <2>6. Do(<< It("expr"), z >>)
    BY <2>2 DEF z
  <2> QED BY <1>0, <2>1, <2>4, <2>5, <2>6
<1> QED BY <1>3, <1>4, <1>5, <1>6, <1>7, <1>8, <1>9

(* The steps that close the block of the builder.                          *)

LEMMA ClosedIp ==
    ASSUME HomeInv, Running, NEW S, Walk(blocks, todo, ip, last, falls, owner, S),
           owner # globals_init, NEW code, IsSeq(code), OneJump(code),
           NEW cs, cs = IF last THEN blocks ELSE Append_(blocks, ip, code)
    PROVE  /\ AreBlocks(cs) /\ Len(cs) = Len(blocks)
           /\ \A c \in 1..Len(blocks) : cs[c].fn = blocks[c].fn
           /\ Shape(cs, {1} \union falls \union S)
<1> DEFINE O == {1} \union falls \union S
           o == O \union {ip}
<1>1. /\ AreBlocks(blocks) /\ ip \in 1..Len(blocks)
      /\ ~last => Shape(blocks, O \union {ip})
      /\ last => Shape(blocks, O)
      /\ ip \notin O
  BY WalkFacts
<1>2. CASE last
  BY <1>1, <1>2
<1>3. CASE ~last
  <2>1. o \ {ip} = O /\ ip \in o
    BY <1>1
  <2>2. Shape(blocks, o)
    BY <1>1, <1>3
  <2>3. AreBlocks(blocks) /\ IsSeq(code) /\ OneJump(code) /\ cs = Append_(blocks, ip, code)
        /\ ip \in 1..Len(blocks)
    BY <1>1, <1>3
  <2> HIDE DEF o, O
  <2>4. OneJump(code) => Shape(cs, o \ {ip})
    BY ONLY <2>1, <2>2, <2>3, ShapeAppend
  <2>5. /\ AreBlocks(cs) /\ Len(cs) = Len(blocks)
        /\ \A c \in 1..Len(blocks) : cs[c].fn = blocks[c].fn
    BY ONLY <2>3, AppendCode
  <2>6. Shape(cs, O)
    BY <2>1, <2>3, <2>4
  <2> QED BY <2>5, <2>6 DEF O
<1> QED BY <1>2, <1>3

LEMMA SameNear ==
    ASSUME NEW cs, Len(cs) = Len(blocks), Len(blocks) \in Nat, Near(blocks, globals_init) = {1},
           \A c \in 1..Len(blocks) : cs[c].fn = blocks[c].fn
    PROVE  Near(cs, globals_init) = {1}
  BY DEF Near

(* The builder moves on to the block the item owed.                        *)
LEMMA Moves ==
    ASSUME HomeInv, WalkNow, Running, Head(todo).k \in {"join", "while", "repeat"},
           Owes(Head(todo)) # 0, Do(<<>>), ip' = Owes(Head(todo)), ~last',
           falls' = falls, owner' = owner, NEW code, IsSeq(code), OneJump(code),
           blocks' = IF last THEN blocks ELSE Append_(blocks, ip, code)
    PROVE  WalkNow'
<1>1. PICK S : Walk(blocks, todo, ip, last, falls, owner, S)
  BY DEF WalkNow
<1> DEFINE h == Owes(Head(todo))
           T == S \ {h}
<1>2. Head(todo).k \notin QuietKinds /\ ~IsEnd(Head(todo))
  BY DEF QuietKinds, IsEnd
<1>3. /\ todo # <<>> /\ owner # globals_init /\ Tail(todo) # <<>> /\ IsSeq(Tail(todo))
      /\ Len(blocks) \in Nat
  BY <1>1, <1>2, WalkFacts
<1>4. /\ Near(blocks, globals_init) = {1} /\ Run(todo, S)
      /\ 1 \notin falls /\ 1 \notin S /\ S \intersect falls = {}
  BY <1>1 DEF Walk
<1>5. /\ Len(blocks') = Len(blocks)
      /\ \A c \in 1..Len(blocks) : blocks'[c].fn = blocks[c].fn
      /\ Shape(blocks', {1} \union falls \union S)
  BY <1>1, <1>3, ClosedIp
<1>6. Near(blocks', globals_init) = {1}
  BY <1>3, <1>4, <1>5, SameNear
<1>7. todo' = Tail(todo)
  BY <1>3, NoneBefore DEF Do
<1>8. Run(Tail(todo), T) /\ h \in S /\ Follows(Head(todo), Head(Tail(todo)))
  BY <1>3, <1>4, RunTail
<1>9. Head(todo').k = "then" => ip' = Head(todo').b
  <2>1. Head(todo').k = "then" => Head(todo).k = "join" /\ Head(todo).next = Head(todo').b
    BY <1>7, <1>8 DEF Follows
  <2>2. Head(todo).k = "join" => h = Head(todo).next
    BY DEF Owes
  <2> QED BY <2>1, <2>2
<1> HIDE DEF h
<1>10. /\ ip' = h /\ ip' \notin falls /\ ip' \notin T /\ 1 \notin T /\ T \intersect falls = {}
  BY <1>4, <1>8 DEF h
<1>11. {1} \union falls \union T \union {h} = {1} \union falls \union S
  BY <1>8
<1>12. Live(todo', ip', last') = {h}
  BY <1>3, <1>7, <1>10 DEF Live
<1>13. Shape(blocks', {1} \union falls' \union T \union Live(todo', ip', last'))
  BY <1>5, <1>11, <1>12
<1>14. Walk(blocks', todo', ip', last', falls', owner', T)
  BY <1>3, <1>4, <1>6, <1>7, <1>8, <1>9, <1>10, <1>13 DEF Walk
<1> QED BY <1>14 DEF WalkNow

(* A return leaves the list it is in.                                      *)
LEMMA Returns ==
    ASSUME HomeInv, WalkNow, Running, Head(todo).k = "return", Do(<<>>), ip' = ip, last',
           falls' = falls, owner' = owner, NEW code, IsSeq(code), OneJump(code), Emit(code)
    PROVE  WalkNow'
<1>1. PICK S : Walk(blocks, todo, ip, last, falls, owner, S)
  BY DEF WalkNow
<1>2. Head(todo).k \notin QuietKinds /\ ~IsEnd(Head(todo)) /\ Owes(Head(todo)) = 0
      /\ Head(todo).k \notin Tolerant
  BY DEF QuietKinds, IsEnd, Owes, Tolerant
<1>3. /\ todo # <<>> /\ owner # globals_init /\ Tail(todo) # <<>> /\ IsSeq(Tail(todo))
      /\ Len(blocks) \in Nat /\ ip \notin falls /\ ip \notin S /\ ~last
  BY <1>1, <1>2, WalkFacts
<1>4. /\ Near(blocks, globals_init) = {1} /\ Run(todo, S)
      /\ 1 \notin falls /\ 1 \notin S /\ S \intersect falls = {}
  BY <1>1 DEF Walk
<1>5. /\ Len(blocks') = Len(blocks)
      /\ \A c \in 1..Len(blocks) : blocks'[c].fn = blocks[c].fn
      /\ Shape(blocks', {1} \union falls \union S)
  BY <1>1, <1>3, ClosedIp DEF Emit
<1>6. Near(blocks', globals_init) = {1}
  BY <1>3, <1>4, <1>5, SameNear
<1>7. todo' = Tail(todo)
  BY <1>3, NoneBefore DEF Do
<1>8. Run(Tail(todo), S) /\ Follows(Head(todo), Head(Tail(todo)))
  <2>1. Run(Tail(todo), S \ {0}) /\ 0 \notin S /\ Follows(Head(todo), Head(Tail(todo)))
    BY <1>2, <1>3, <1>4, RunTail
  <2>2. S \ {0} = S
    BY <2>1
  <2> QED BY <2>1, <2>2
<1>9. Head(todo').k = "more"
  BY <1>7, <1>8 DEF Follows
<1>10. Head(todo').k \in Tolerant /\ Head(todo').k # "then"
  BY <1>9 DEF Tolerant
<1>11. Live(todo', ip', last') = {}
  BY DEF Live
<1>12. {1} \union falls \union S \union {} = {1} \union falls \union S
  OBVIOUS
<1>13. Shape(blocks', {1} \union falls' \union S \union Live(todo', ip', last'))
  BY <1>5, <1>11, <1>12
<1>14. Walk(blocks', todo', ip', last', falls', owner', S)
  BY <1>3, <1>4, <1>6, <1>7, <1>8, <1>10, <1>13 DEF Walk
<1> QED BY <1>14 DEF WalkNow

(* One terminator.                                                         *)
LEMMA Terminators ==
    ASSUME NEW op \in {"ret", "br"}, NEW var, NEW to
    PROVE  IsSeq(<< Instr(op, var, to) >>) /\ OneJump(<< Instr(op, var, to) >>)
<1>1. IsInstTerminator(Instr(op, var, to))
  BY DEF IsInstTerminator, Instr
<1> QED BY <1>1, OneInstr

LEMMA ClosersClosed ==
    ASSUME HomeInv, ClosedInv, compile_return \/ EndBranch \/ TestCondition \/ compile_while
    PROVE  ClosedInv'
<1>1. CASE compile_return
  <2>1. /\ At("return") /\ GoesForth /\ Emit(<< Instr("ret", None, {}) >>) /\ ip' = ip /\ last' = TRUE
        /\ Do(<<>>) /\ falls' = falls /\ owner' = owner
    BY <1>1 DEF compile_return, Keep, GoesForth, Ret
  <2>2. Running /\ Head(todo).k = "return" /\ outcome = "none" /\ WalkNow
    BY <2>1, AtQuiet
  <2>3. \E code : IsSeq(code) /\ OneJump(code) /\ Emit(code)
    BY <2>1, Terminators
  <2>4. WalkNow'
    BY <2>1, <2>2, <2>3, Returns
  <2> QED BY <2>1, <2>2, <2>4, ClosedRunning
<1>2. ASSUME NEW k \in {"join", "while", "repeat"}, At(k), GoesForth, Owes(Head(todo)) \in 1..Len(blocks),
             Do(<<>>), ip' = Owes(Head(todo)), last' = FALSE, falls' = falls, owner' = owner,
             NEW var, NEW to,
             blocks' = IF last THEN blocks ELSE Append_(blocks, ip, << Instr("br", var, to) >>)
      PROVE  ClosedInv'
  <2>1. Running /\ Head(todo).k \in {"join", "while", "repeat"} /\ outcome = "none" /\ WalkNow
    BY <1>2, AtQuiet
  <2>2. Owes(Head(todo)) # 0
    BY <1>2
  <2>3. ~last'
    BY <1>2
  <2> DEFINE code == << Instr("br", var, to) >>
  <2>4. IsSeq(code) /\ OneJump(code) /\ blocks' = IF last THEN blocks ELSE Append_(blocks, ip, code)
    BY <1>2, Terminators
  <2> HIDE DEF code
  <2>5. Do(<<>>) /\ ip' = Owes(Head(todo)) /\ falls' = falls /\ owner' = owner
    BY <1>2
  <2>6. WalkNow'
    BY <2>1, <2>2, <2>3, <2>4, <2>5, Moves
  <2> QED BY <1>2, <2>1, <2>6, ClosedRunning
<1>3. \A b \in Near(blocks, owner) : b \in 1..Len(blocks)
  BY DEF Near
<1>4. CASE EndBranch
  <2>1. /\ At("join") /\ GoesForth /\ ip' = Head(todo).next /\ last' = FALSE /\ Do(<<>>)
        /\ falls' = falls /\ owner' = owner
        /\ blocks' = IF last THEN blocks
                     ELSE Append_(blocks, ip, << Instr("br", None, {Head(todo).exit}) >>)
    BY <1>4 DEF EndBranch, Keep, GoesForth, Emit, Br
  <2>2. Head(todo).k = "join"
    BY <2>1, AtQuiet
  <2>3. Owes(Head(todo)) = Head(todo).next
    BY <2>2 DEF Owes
  <2>4. Head(todo).next \in 1..Len(blocks)
    BY <1>3, <2>1, HeadTargets
  <2> DEFINE to == {Head(todo).exit}
  <2>5. blocks' = IF last THEN blocks ELSE Append_(blocks, ip, << Instr("br", None, to) >>)
    BY <2>1
  <2> HIDE DEF to
  <2> QED BY <1>2, <2>1, <2>3, <2>4, <2>5
<1>5. CASE TestCondition
  <2>1. At("while")
    BY <1>5 DEF TestCondition
  <2>2. Running /\ Head(todo).k = "while" /\ outcome = "none" /\ WalkNow
    BY <2>1, AtQuiet
  <2>3. CASE Stop("assert")
    BY <2>2, <2>3, StopHalts, ClosedRunning
  <2>4. CASE ~Stop("assert")
    <3>1. Head(todo).k \notin Tolerant
      BY <2>2 DEF Tolerant
    <3>2. ~last
      BY <2>2, <3>1, NotLast
    <3>3. /\ GoesForth /\ ip' = Head(todo).body /\ last' = FALSE /\ Do(<<>>)
          /\ falls' = falls /\ owner' = owner
          /\ blocks' = Append_(blocks, ip, << Instr("br", None, {Head(todo).body, Head(todo).exit}) >>)
      BY <1>5, <2>4 DEF TestCondition, Keep, GoesForth, Emit, CondBr
    <3>4. Owes(Head(todo)) = Head(todo).body
      BY <2>2 DEF Owes
    <3>5. Head(todo).body \in 1..Len(blocks)
      BY <1>3, <2>1, HeadTargets
    <3> DEFINE to == {Head(todo).body, Head(todo).exit}
    <3>6. blocks' = IF last THEN blocks ELSE Append_(blocks, ip, << Instr("br", None, to) >>)
      BY <3>2, <3>3
    <3> HIDE DEF to
    <3> QED BY <1>2, <2>1, <3>3, <3>4, <3>5, <3>6
  <2> QED BY <2>3, <2>4
<1>6. CASE compile_while
  <2>1. /\ At("repeat") /\ GoesForth /\ ip' = Head(todo).exit /\ last' = FALSE /\ Do(<<>>)
        /\ falls' = falls /\ owner' = owner
        /\ blocks' = IF last THEN blocks
                     ELSE Append_(blocks, ip, << Instr("br", None, {Head(todo).cond}) >>)
    BY <1>6 DEF compile_while, Keep, GoesForth, Emit, Br
  <2>2. Head(todo).k = "repeat"
    BY <2>1, AtQuiet
  <2>3. Owes(Head(todo)) = Head(todo).exit
    BY <2>2 DEF Owes
  <2>4. Head(todo).exit \in 1..Len(blocks)
    BY <1>3, <2>1, HeadTargets
  <2> DEFINE to == {Head(todo).cond}
  <2>5. blocks' = IF last THEN blocks ELSE Append_(blocks, ip, << Instr("br", None, to) >>)
    BY <2>1
  <2> HIDE DEF to
  <2> QED BY <1>2, <2>1, <2>3, <2>4, <2>5
<1> QED BY <1>1, <1>4, <1>5, <1>6

(* The steps that open blocks.                                             *)

LEMMA PathThen ==
    ASSUME NEW t, NEW e, e # 0
    PROVE  /\ Path(<< Then(t, e) >>, {e}, Then(t, e), Then(t, e))
           /\ Then(t, e).k = "then" /\ Then(t, e).b = t /\ Then(t, e).exit = e
<1> DEFINE it == Then(t, e)
<1>1. it.k = "then" /\ it.b = t /\ it.exit = e
  BY DEF Then
<1> HIDE DEF it
<1>2. Owes(it) = e
  BY <1>1 DEF Owes
<1>3. {e} = IF Owes(it) = 0 THEN {} ELSE {Owes(it)}
  BY <1>2
<1>4. Path(<<it>>, {e}, it, it)
  BY <1>3, PathOne
<1> QED BY <1>1, <1>4 DEF it

LEMMA PathJoin ==
    ASSUME NEW e, NEW t, t # 0
    PROVE  /\ Path(Body \o << Join(e, t) >>, {t}, It("stmt"), Join(e, t))
           /\ Join(e, t).k = "join" /\ Join(e, t).next = t
<1> DEFINE it == Join(e, t)
           a == It("stmt")
           z == It("more")
           N == {}
<1>1. it.k = "join" /\ it.next = t /\ z.k = "more"
  BY DEF Join, It
<1>2. Path(Body, N, a, z)
  BY PathBody
<1> HIDE DEF it, a, z
<1>3. Owes(it) = t
  BY <1>1 DEF Owes
<1>4. {t} = IF Owes(it) = 0 THEN {} ELSE {Owes(it)}
  BY <1>3
<1>5. Path(<<it>>, {t}, it, it)
  BY <1>4, PathOne
<1>6. Follows(z, it)
  BY <1>1 DEF Follows
<1>7. N \intersect {t} = {} /\ N \union {t} = {t}
  OBVIOUS
<1> HIDE DEF N
<1>8. Path(Body \o <<it>>, N \union {t}, a, it)
  BY <1>2, <1>5, <1>6, <1>7, PathConcat
<1>9. Path(Body \o <<it>>, {t}, a, it)
  BY <1>7, <1>8
<1> QED BY <1>1, <1>9 DEF it, a

(* An if with an else: the else branch, then the other.                    *)
LEMMA PathIf ==
    ASSUME NEW t, NEW e, t # 0, e # 0, t # e
    PROVE  Path(Body \o << Join(e, t), Then(t, e) >>, {t, e}, It("stmt"), Then(t, e))
<1> DEFINE p == Body \o << Join(e, t) >>
           q == << Then(t, e) >>
           x == Join(e, t)
           y == Then(t, e)
<1>1. /\ Path(p, {t}, It("stmt"), x) /\ x.k = "join" /\ x.next = t
      /\ Path(q, {e}, y, y) /\ y.k = "then" /\ y.b = t
  BY PathJoin, PathThen
<1>2. p \o q = Body \o << x, y >>
  <2>1. IsSeq(Body) /\ IsSeq(<<x>>) /\ IsSeq(<<y>>)
    BY SeqOne, PlainBody DEF Plain
  <2>2. (Body \o <<x>>) \o <<y>> = Body \o (<<x>> \o <<y>>)
    <3> DEFINE u == <<x>>
               v == <<y>>
               w == Body
    <3>1. IsSeq(u) /\ IsSeq(v) /\ IsSeq(w)
      BY <2>1
    <3> HIDE DEF u, v, w
    <3>2. PICK A : u \in Seq(A)
      BY <3>1 DEF IsSeq
    <3>3. PICK B : v \in Seq(B)
      BY <3>1 DEF IsSeq
    <3>4. PICK C : w \in Seq(C)
      BY <3>1 DEF IsSeq
    <3> DEFINE U == A \union B \union C
    <3>5. u \in Seq(U) /\ v \in Seq(U) /\ w \in Seq(U)
      BY <3>2, <3>3, <3>4
    <3> HIDE DEF U
    <3>6. (w \o u) \o v = w \o (u \o v)
      BY <3>5, ConcatAssociative
    <3> QED BY <3>6 DEF u, v, w
  <2>3. <<x>> \o <<y>> = <<x, y>>
    BY TwoAre
  <2> QED BY <2>2, <2>3
<1> HIDE DEF p, q, x, y
<1>3. Follows(x, y)
  BY <1>1 DEF Follows
<1>4. {t} \intersect {e} = {} /\ {t} \union {e} = {t, e}
  OBVIOUS
<1>5. Path(p \o q, {t} \union {e}, It("stmt"), y)
  BY <1>1, <1>3, <1>4, PathConcat
<1>6. Path(p \o q, {t, e}, It("stmt"), y)
  BY <1>4, <1>5
<1> QED BY <1>2, <1>6 DEF x, y

LEMMA PathWhile ==
    ASSUME NEW c, NEW b, NEW e, b # 0, e # 0, b # e
    PROVE  /\ Path(<< It("expr"), While(b, e) >> \o Body \o << Repeat(c, e) >>, {b, e},
                   It("expr"), Repeat(c, e))
           /\ It("expr").k # "then" /\ Repeat(c, e).k = "repeat"
<1> DEFINE a == It("expr")
           w == While(b, e)
           s == It("stmt")
           m == It("more")
           r == Repeat(c, e)
           N == {}
<1>1. /\ a.k = "expr" /\ w.k = "while" /\ w.body = b /\ s.k = "stmt" /\ m.k = "more"
      /\ r.k = "repeat" /\ r.exit = e
  BY DEF It, While, Repeat
<1>2. Path(Body, N, s, m)
  BY PathBody
<1> HIDE DEF a, w, s, m, r
<1>3. Owes(a) = 0 /\ Owes(w) = b /\ Owes(r) = e
  BY <1>1 DEF Owes
<1>4. /\ N = IF Owes(a) = 0 THEN {} ELSE {Owes(a)}
      /\ {b} = IF Owes(w) = 0 THEN {} ELSE {Owes(w)}
      /\ {e} = IF Owes(r) = 0 THEN {} ELSE {Owes(r)}
  BY <1>3
<1>5. Path(<<a>>, N, a, a) /\ Path(<<w>>, {b}, w, w) /\ Path(<<r>>, {e}, r, r)
  BY <1>4, PathOne
<1>6. Follows(a, w) /\ Follows(w, s) /\ Follows(m, r)
  BY <1>1 DEF Follows
<1>7. /\ N \intersect {b} = {} /\ N \union {b} = {b}
      /\ {b} \intersect N = {} /\ {b} \union N = {b}
      /\ {b} \intersect {e} = {} /\ {b} \union {e} = {b, e}
  OBVIOUS
<1> HIDE DEF N
<1>8. Path(<<a>> \o <<w>>, N \union {b}, a, w)
  BY <1>5, <1>6, <1>7, PathConcat
<1>9. Path(<<a, w>>, {b}, a, w)
  BY <1>7, <1>8, TwoAre
<1>10. Path(<<a, w>> \o Body, {b} \union N, a, m)
  BY <1>2, <1>6, <1>7, <1>9, PathConcat
<1>11. Path(<<a, w>> \o Body, {b}, a, m)
  BY <1>7, <1>10
<1>12. Path((<<a, w>> \o Body) \o <<r>>, {b} \union {e}, a, r)
  BY <1>5, <1>6, <1>7, <1>11, PathConcat
<1>13. Path((<<a, w>> \o Body) \o <<r>>, {b, e}, a, r)
  BY <1>7, <1>12
<1> QED BY <1>1, <1>13 DEF a, w, r

(* Blocks are added and the builder moves to one of them; others are owed. *)
LEMMA Opened ==
    ASSUME HomeInv, Running, NEW S, Walk(blocks, todo, ip, last, falls, owner, S),
           Head(todo).k \in {"stmt", "if"}, falls' = falls, owner' = owner, ~last',
           Near(blocks', globals_init) = {1},
           NEW P, P \subseteq Len(blocks)+1..Len(blocks)+3,
           ip' \in Len(blocks)+1..Len(blocks)+3, ip' \notin P,
           Shape(blocks', {1} \union falls \union S \union P \union {ip'}),
           NEW items, NEW a, NEW z, Path(items, P, a, z), Do(items),
           z.k \in {"then", "repeat"}, a.k = "then" => a.b = ip'
    PROVE  WalkNow'
<1>1. /\ todo # <<>> /\ owner # globals_init /\ Tail(todo) # <<>> /\ Len(blocks) \in Nat
      /\ {1} \union falls \union S \subseteq 1..Len(blocks)
  <2>1. Head(todo).k \notin QuietKinds /\ ~IsEnd(Head(todo))
    BY DEF QuietKinds, IsEnd
  <2> QED BY <2>1, WalkFacts
<1>2. /\ Run(todo, S) /\ 1 \notin falls /\ 1 \notin S /\ S \intersect falls = {}
  BY DEF Walk
<1>3. Owes(Head(todo)) = 0
  BY DEF Owes
<1>4. 0 \notin S /\ Follows(Head(todo), Head(Tail(todo)))
  BY <1>1, <1>2, RunTail
<1>5. S \ {Owes(Head(todo))} = S
  BY <1>3, <1>4
<1>6. Follows(z, Head(Tail(todo)))
  BY <1>4 DEF Follows
<1>7. \A b \in Len(blocks)+1..Len(blocks)+3 : b \notin 1..Len(blocks)
  BY <1>1
<1>8. P \intersect S = {} /\ P \intersect falls = {} /\ 1 \notin P /\ ip' \notin falls /\ ip' \notin S
  BY <1>1, <1>7
<1>9. P \intersect (S \ {Owes(Head(todo))}) = {}
  BY <1>8
<1>10. /\ Run(items \o Tail(todo), P \union (S \ {Owes(Head(todo))}))
       /\ items \o Tail(todo) # <<>> /\ Head(items \o Tail(todo)) = a
  BY <1>1, <1>2, <1>6, <1>9, RunOn
<1> DEFINE T == P \union S
<1>11. Run(todo', T) /\ todo' # <<>> /\ Head(todo') = a
  BY <1>5, <1>10 DEF Do
<1>12. 1 \notin T /\ T \intersect falls = {} /\ ip' \notin T
  BY <1>2, <1>8
<1>13. {1} \union falls \union S \union P \union {ip'} = {1} \union falls \union T \union {ip'}
  OBVIOUS
<1>14. Live(todo', ip', last') = {ip'}
  BY <1>11 DEF Live
<1>15. Shape(blocks', {1} \union falls' \union T \union Live(todo', ip', last'))
  BY <1>13, <1>14
<1> HIDE DEF T
<1>16. Walk(blocks', todo', ip', last', falls', owner', T)
  BY <1>1, <1>2, <1>8, <1>11, <1>12, <1>15 DEF Walk
<1> QED BY <1>16 DEF WalkNow

(* The block of the builder is closed, and three are added.                *)
LEMMA ThreeMore ==
    ASSUME HomeInv, Running, NEW S, Walk(blocks, todo, ip, last, falls, owner, S),
           ~last, owner # globals_init, NEW code, IsSeq(code), OneJump(code),
           NEW cs, cs = Append_(blocks, ip, code) \o [i \in 1..3 |-> Block(Parent)]
    PROVE  /\ AreBlocks(cs) /\ Near(cs, globals_init) = {1}
           /\ Len(cs) = Len(blocks) + 3
           /\ Shape(cs, {1} \union falls \union S
                           \union {Len(blocks) + 1, Len(blocks) + 2, Len(blocks) + 3})
<1> DEFINE O == {1} \union falls \union S
           m == Len(blocks)
           ds == Append_(blocks, ip, code)
<1>1. /\ AreBlocks(ds) /\ Len(ds) = m /\ Shape(ds, O)
      /\ \A c \in 1..m : ds[c].fn = blocks[c].fn
  <2>1. ds = IF last THEN blocks ELSE Append_(blocks, ip, code)
    OBVIOUS
  <2> HIDE DEF ds
  <2> QED BY <2>1, ClosedIp
<1>2. owner \in Names /\ Parent = owner /\ m \in Nat
  BY WalkFacts
<1>3. cs = ds \o New(3, owner)
  BY <1>2 DEF New
<1>4. Near(blocks, globals_init) = {1}
  BY DEF Walk
<1> HIDE DEF ds, O, m
<1>5. /\ AreBlocks(cs) /\ Len(cs) = m + 3
      /\ \A c \in 1..m : cs[c].fn = ds[c].fn
      /\ \A c \in m+1..m+3 : cs[c].fn = owner
      /\ Shape(cs, O \union m+1..m+3)
  <2> DEFINE n == 3
  <2>1. AreBlocks(ds) /\ Shape(ds, O) /\ owner \in Names /\ n \in Nat
    BY <1>1, <1>2
  <2>2. cs = ds \o New(n, owner)
    BY <1>3
  <2> HIDE DEF n
  <2>3. AreBlocks(cs) /\ Len(cs) = Len(ds) + n /\ \A c \in 1..Len(ds) : cs[c] = ds[c]
    BY ONLY <2>1, <2>2, AddBlocks
  <2>4. \A c \in Len(ds)+1..Len(ds)+n : cs[c].fn = owner
    <3>1. \A c \in Len(ds)+1..Len(ds)+n : cs[c] = Block(owner)
      BY ONLY <2>1, <2>2, AddBlocks
    <3>2. Block(owner).fn = owner
      BY DEF Block
    <3> QED BY <3>1, <3>2
  <2>5. Shape(cs, O \union Len(ds)+1..Len(ds)+n)
    BY ONLY <2>1, <2>2, ShapeNew
  <2> QED BY <1>1, <2>3, <2>4, <2>5 DEF n
<1>6. m+1..m+3 = {m + 1, m + 2, m + 3}
  BY <1>2
<1>7. Near(cs, globals_init) = {1}
  <2>1. /\ m \in Nat /\ Len(blocks) = m /\ Len(cs) = Len(blocks) + 3 /\ 3 \in Nat
        /\ \A c \in 1..Len(blocks) : cs[c].fn = blocks[c].fn
        /\ \A c \in Len(blocks)+1..Len(blocks)+3 : cs[c].fn = owner
        /\ owner # globals_init
    BY <1>1, <1>2, <1>5 DEF m
  <2> QED BY ONLY <1>4, <2>1, NearKept
<1>8. Shape(cs, O \union {m + 1, m + 2, m + 3})
  BY <1>5, <1>6
<1> QED BY <1>5, <1>7, <1>8 DEF m, O

(* The other branch of an if begins where the first led to.                *)
LEMMA BranchClosed == HomeInv /\ ClosedInv /\ Branch => ClosedInv'
<1> SUFFICES ASSUME HomeInv, ClosedInv, Branch PROVE ClosedInv'
  OBVIOUS
<1> DEFINE e == Head(todo).exit
           items == Body \o << Join(e, e) >>
           z == Join(e, e)
<1>1. /\ At("then") /\ GoesForth /\ ip' = Head(todo).b /\ last' = FALSE /\ blocks' = blocks
      /\ falls' = falls /\ owner' = owner /\ Do(items)
  BY DEF Branch, Keep, GoesForth
<1>2. Running /\ Head(todo).k = "then" /\ outcome = "none" /\ WalkNow
  BY <1>1, AtQuiet
<1>3. Head(todo).k \notin Tolerant /\ Head(todo).k \notin QuietKinds /\ ~IsEnd(Head(todo)) /\ Owes(Head(todo)) = e
  BY <1>2 DEF Tolerant, QuietKinds, IsEnd, Owes
<1>4. PICK S : Walk(blocks, todo, ip, last, falls, owner, S)
  BY <1>2 DEF WalkNow
<1>5. /\ todo # <<>> /\ owner # globals_init /\ Tail(todo) # <<>> /\ ~last
      /\ ip \notin falls /\ ip \notin S
      /\ Shape(blocks, {1} \union falls \union S \union {ip})
  BY <1>2, <1>3, <1>4, WalkFacts
<1>6. /\ Near(blocks, globals_init) = {1} /\ Run(todo, S) /\ ip = Head(todo).b
      /\ 1 \notin falls /\ 1 \notin S /\ S \intersect falls = {}
  BY <1>2, <1>4, <1>5 DEF Walk
<1>7. e # 0
  <2>1. e \in Near(blocks, owner)
    BY <1>1, HeadTargets
  <2> QED BY <2>1 DEF Near
<1>8. e \in S /\ Follows(Head(todo), Head(Tail(todo)))
  BY <1>3, <1>5, <1>6, <1>7, RunTail
<1>9. Head(Tail(todo)).k = "more"
  BY <1>2, <1>8 DEF Follows
<1>10. Path(items, {e}, It("stmt"), z) /\ z.k = "join"
  BY <1>7, PathJoin
<1> HIDE DEF items, z, e
<1>11. Follows(z, Head(Tail(todo)))
  BY <1>9, <1>10 DEF Follows
<1>12. /\ Run(items \o Tail(todo), {e} \union (S \ {Owes(Head(todo))}))
       /\ items \o Tail(todo) # <<>> /\ Head(items \o Tail(todo)) = It("stmt")
  <2>1. {e} \intersect (S \ {Owes(Head(todo))}) = {}
    BY <1>3
  <2> QED BY <1>5, <1>6, <1>10, <1>11, <2>1, RunOn
<1>13. {e} \union (S \ {Owes(Head(todo))}) = S
  BY <1>3, <1>8
<1>14. Run(todo', S) /\ todo' # <<>> /\ Head(todo').k = "stmt"
  <2>1. It("stmt").k = "stmt"
    BY DEF It
  <2>2. todo' = items \o Tail(todo)
    BY <1>1 DEF Do
  <2> QED BY <1>12, <1>13, <2>1, <2>2
<1>15. ip' = ip /\ Live(todo', ip', last') = {ip}
  BY <1>1, <1>6, <1>14 DEF Live
<1>16. Shape(blocks', {1} \union falls' \union S \union Live(todo', ip', last'))
  BY <1>1, <1>5, <1>15
<1>17. Walk(blocks', todo', ip', last', falls', owner', S)
  BY <1>1, <1>5, <1>6, <1>14, <1>15, <1>16 DEF Walk
<1>18. WalkNow'
  BY <1>17 DEF WalkNow
<1> QED BY <1>1, <1>2, <1>18, ClosedRunning

LEMMA IfClosed == HomeInv /\ ClosedInv /\ compile_if => ClosedInv'
<1> SUFFICES ASSUME HomeInv, ClosedInv, compile_if PROVE ClosedInv'
  OBVIOUS
<1> DEFINE m == Len(blocks)
           t == m + 1
           s == m + 2
           e == m + 3
           code == << Instr("br", None, {t, s}) >>
           made == Append_(blocks, ip, code) \o [i \in 1..3 |-> Block(Parent)]
<1>1. At("if")
  BY DEF compile_if
<1>2. Running /\ Head(todo).k = "if" /\ outcome = "none" /\ WalkNow
  BY <1>1, AtQuiet
<1>3. CASE Stop("assert")
  BY <1>2, <1>3, StopHalts, ClosedRunning
<1>4. CASE ~Stop("assert")
  <2>1. /\ GoesForth /\ falls' = falls /\ owner' = owner /\ last' = FALSE
        /\ \/ /\ blocks' = made /\ ip' = s
              /\ Do(Body \o << Join(e, t), Then(t, e) >>)
           \/ /\ blocks' = Append_(made, s, << Instr("br", None, {e}) >>) /\ ip' = t
              /\ Do(<< Then(t, e) >>)
    BY <1>4 DEF compile_if, Keep, GoesForth, BlocksMade, Br, CondBr
  <2>2. Head(todo).k \notin Tolerant /\ Head(todo).k \notin QuietKinds
    BY <1>2 DEF Tolerant, QuietKinds
  <2>3. PICK S : Walk(blocks, todo, ip, last, falls, owner, S)
    BY <1>2 DEF WalkNow
  <2>4. ~last /\ owner # globals_init /\ m \in Nat /\ {1} \union falls \union S \subseteq 1..m
    BY <1>2, <2>2, <2>3, WalkFacts
  <2>5. IsSeq(code) /\ OneJump(code)
    BY Terminators
  <2> DEFINE O == {1} \union falls \union S
  <2>6. /\ AreBlocks(made) /\ Near(made, globals_init) = {1} /\ Len(made) = m + 3
        /\ Shape(made, O \union {t, s, e})
    <3> HIDE DEF code
    <3> QED BY <1>2, <2>3, <2>4, <2>5, ThreeMore
  <2> HIDE DEF made
  <2>7. /\ t # 0 /\ e # 0 /\ t # e /\ s # t /\ s # e
        /\ t \in m+1..m+3 /\ s \in m+1..m+3 /\ e \in m+1..m+3
        /\ t \notin O /\ s \notin O /\ e \notin O
    <3>1. /\ t # 0 /\ e # 0 /\ t # e /\ s # t /\ s # e
          /\ t \in m+1..m+3 /\ s \in m+1..m+3 /\ e \in m+1..m+3
          /\ t \notin 1..m /\ s \notin 1..m /\ e \notin 1..m
      BY <2>4
    <3> QED BY <2>4, <3>1
  <2>8. Head(todo).k \in {"stmt", "if"} /\ ~last'
    BY <1>2, <2>1
  <2> DEFINE y == Then(t, e)
  <2>9. y.k = "then" /\ y.b = t
    BY DEF Then
  <2>10. CASE /\ blocks' = made /\ ip' = s
              /\ Do(Body \o << Join(e, t), Then(t, e) >>)
    <3> DEFINE P == {t, e}
               items == Body \o << Join(e, t), Then(t, e) >>
               a == It("stmt")
    <3>1. Path(items, P, a, y) /\ a.k = "stmt"
      BY <2>7, PathIf DEF It
    <3>2. P \subseteq m+1..m+3 /\ ip' \in m+1..m+3 /\ ip' \notin P
      BY <2>7, <2>10
    <3>3. O \union {t, s, e} = O \union P \union {ip'}
      BY <2>10
    <3>4. Shape(blocks', O \union P \union {ip'}) /\ Near(blocks', globals_init) = {1} /\ Do(items)
      BY <2>6, <2>10, <3>3
    <3>5. y.k \in {"then", "repeat"} /\ (a.k = "then" => a.b = ip')
      BY <2>9, <3>1
    <3> HIDE DEF y, P, items, a
    <3>6. WalkNow'
      BY <1>2, <2>1, <2>3, <2>8, <3>1, <3>2, <3>4, <3>5, Opened
    <3> QED BY <1>2, <2>1, <3>6, ClosedRunning
  <2>11. CASE /\ blocks' = Append_(made, s, << Instr("br", None, {e}) >>) /\ ip' = t
              /\ Do(<< Then(t, e) >>)
    <3> DEFINE P == {e}
               items == << Then(t, e) >>
               last_ == << Instr("br", None, {e}) >>
               o == O \union {t, s, e}
               cs == blocks'
    <3>1. Path(items, P, y, y)
      BY <2>7, PathThen
    <3>2. P \subseteq m+1..m+3 /\ ip' \in m+1..m+3 /\ ip' \notin P
      BY <2>7, <2>11
    <3>3. o \ {s} = O \union P \union {ip'}
      BY <2>7, <2>11
    <3>4. IsSeq(last_) /\ OneJump(last_)
      BY Terminators
    <3>5. /\ s \in o /\ s \in 1..Len(made) /\ Shape(made, o) /\ AreBlocks(made)
          /\ cs = Append_(made, s, last_)
      BY <2>4, <2>6, <2>11
    <3>6. Do(items)
      BY <2>11
    <3> HIDE DEF o, last_, cs, s
    <3>7. OneJump(last_) => Shape(cs, o \ {s})
      BY ONLY <3>4, <3>5, ShapeAppend
    <3>8. /\ Len(cs) = Len(made) /\ \A c \in 1..Len(made) : cs[c].fn = made[c].fn
      BY ONLY <3>4, <3>5, AppendCode
    <3>9. Near(cs, globals_init) = {1}
      BY <2>6, <3>8 DEF Near
    <3>10. Shape(cs, O \union P \union {ip'})
      BY <3>3, <3>4, <3>7
    <3>11. y.k \in {"then", "repeat"} /\ (y.k = "then" => y.b = ip')
      BY <2>9, <2>11
    <3>12. Near(blocks', globals_init) = {1} /\ Shape(blocks', O \union P \union {ip'})
      BY <3>9, <3>10 DEF cs
    <3> HIDE DEF y, P, items
    <3>13. WalkNow'
      BY <1>2, <2>1, <2>3, <2>8, <3>1, <3>2, <3>6, <3>11, <3>12, Opened
    <3> QED BY <1>2, <2>1, <3>13, ClosedRunning
  <2> QED BY <2>1, <2>10, <2>11
<1> QED BY <1>3, <1>4

LEMMA WhileClosed == HomeInv /\ ClosedInv /\ WhileStmt => ClosedInv'
<1> SUFFICES ASSUME HomeInv, ClosedInv, WhileStmt PROVE ClosedInv'
  OBVIOUS
<1> DEFINE m == Len(blocks)
           c == m + 1
           b == m + 2
           e == m + 3
           code == << Instr("br", None, {c}) >>
           made == Append_(blocks, ip, code) \o [i \in 1..3 |-> Block(Parent)]
           items == << It("expr"), While(b, e) >> \o Body \o << Repeat(c, e) >>
           a == It("expr")
           z == Repeat(c, e)
           P == {b, e}
<1>1. /\ At("stmt") /\ GoesForth /\ falls' = falls /\ owner' = owner /\ last' = last
      /\ blocks' = made /\ ip' = c /\ Do(items)
  BY DEF WhileStmt, Pure, Keep, GoesForth, BlocksMade, Br
<1>2. Running /\ Head(todo).k = "stmt" /\ outcome = "none" /\ WalkNow
  BY <1>1, AtQuiet
<1>3. Head(todo).k \notin Tolerant /\ Head(todo).k \notin QuietKinds
  BY <1>2 DEF Tolerant, QuietKinds
<1>4. PICK S : Walk(blocks, todo, ip, last, falls, owner, S)
  BY <1>2 DEF WalkNow
<1>5. ~last /\ owner # globals_init /\ m \in Nat
  BY <1>2, <1>3, <1>4, WalkFacts
<1>6. IsSeq(code) /\ OneJump(code)
  BY Terminators
<1> DEFINE O == {1} \union falls \union S
<1>7. Near(made, globals_init) = {1} /\ Shape(made, O \union {c, b, e})
  <2> HIDE DEF code
  <2> QED BY <1>2, <1>4, <1>5, <1>6, ThreeMore
<1> HIDE DEF made
<1>8. /\ b # 0 /\ e # 0 /\ b # e /\ P \subseteq m+1..m+3 /\ c \in m+1..m+3 /\ c \notin P
  BY <1>5
<1>9. Path(items, P, a, z) /\ a.k # "then" /\ z.k = "repeat"
  BY <1>8, PathWhile
<1>10. O \union {c, b, e} = O \union P \union {ip'}
  BY <1>1
<1>11. Near(blocks', globals_init) = {1} /\ Shape(blocks', O \union P \union {ip'})
  BY <1>1, <1>7, <1>10
<1>12. /\ Head(todo).k \in {"stmt", "if"} /\ ~last' /\ z.k \in {"then", "repeat"}
       /\ (a.k = "then" => a.b = ip')
  <2>1. ~last'
    BY ONLY <1>1, <1>5
  <2> QED BY <1>2, <1>9, <2>1
<1>13. P \subseteq m+1..m+3 /\ ip' \in m+1..m+3 /\ ip' \notin P
  BY <1>1, <1>8
<1> HIDE DEF items, a, z, P
<1>14. WalkNow'
  BY <1>1, <1>2, <1>4, <1>9, <1>11, <1>12, <1>13, Opened
<1> QED BY <1>1, <1>2, <1>14, ClosedRunning

(* The top-level steps.                                                    *)

(* Between top-level statements nothing is owed and the builder's block    *)
(* does not matter.                                                        *)
LEMMA BetweenWalks ==
    ASSUME HomeInv, ClosedInv, outcome = "none", todo = <<>>
    PROVE  /\ Near(blocks, globals_init) = {1} /\ 1 \notin falls /\ ~last
           /\ AreBlocks(blocks) /\ Len(blocks) \in Nat /\ owner = globals_init
           /\ {1} \union falls \subseteq 1..Len(blocks)
           /\ Shape(blocks, {1} \union falls)
<1>1. PICK S : Walk(blocks, todo, ip, last, falls, owner, S)
  BY DEF ClosedInv, WalkNow
<1>2. /\ Near(blocks, globals_init) = {1} /\ 1 \notin falls /\ ~last /\ Run(todo, S)
      /\ Shape(blocks, {1} \union falls \union S \union Live(todo, ip, last))
  BY <1>1 DEF Walk
<1>3. S = {} /\ Live(todo, ip, last) = {}
  BY <1>2, RunNone DEF Live
<1>4. {1} \union falls \union {} \union {} = {1} \union falls
  OBVIOUS
<1>5. Shape(blocks, {1} \union falls)
  BY <1>2, <1>3, <1>4
<1>6. AreBlocks(blocks) /\ Len(blocks) \in Nat
  BY BlocksType DEF HomeInv
<1>7. owner = globals_init
  BY BetweenTops
<1> QED BY <1>2, <1>5, <1>6, <1>7 DEF Shape

LEMMA DeclareClosed == HomeInv /\ ClosedInv /\ declare_functions => ClosedInv'
<1> SUFFICES ASSUME HomeInv, ClosedInv, declare_functions PROVE ClosedInv'
  OBVIOUS
<1>1. outcome = "none" /\ top = 0
  BY DEF declare_functions
<1>2. CASE Stop("exception")
  BY <1>1, <1>2, StopHalts, ClosedRunning
<1>3. CASE ~Stop("exception")
  <2>1. /\ ~DefinedTwice /\ top' = 1 /\ tree' = tree /\ outcome' = outcome /\ todo' = todo
        /\ blocks' = blocks /\ ip' = ip /\ last' = last /\ owner' = owner /\ falls' = falls
    BY <1>3 DEF declare_functions, aux
  <2>2. PICK f \in DOMAIN functions : functions[f].id = globals_init
    BY <1>1 DEF ClosedInv
  <2>3. ASSUME NEW i \in 1..Len(tree), tree[i].k = "define" PROVE tree[i].id # globals_init
    <3>1. functions[f].id # tree[i].id
      BY <2>1, <2>3 DEF DefinedTwice
    <3> QED BY <2>2, <3>1
  <2>4. WalkNow'
    BY <1>1, <2>1 DEF ClosedInv, WalkNow
  <2> QED BY <1>1, <2>1, <2>3, <2>4 DEF ClosedInv
<1> QED BY <1>2, <1>3

LEMMA DefineClosed == HomeInv /\ ClosedInv /\ compile_define => ClosedInv'
<1> SUFFICES ASSUME HomeInv, ClosedInv, compile_define PROVE ClosedInv'
  OBVIOUS
<1> DEFINE f == tree[top].id
           m == Len(blocks)
           b == m + 1
           stores == StoreLocals(Locals(tree[top].params, b), f)
           z == It("end define")
           items == Body \o << z >>
<1>1. /\ outcome = "none" /\ todo = <<>> /\ top \in 1..Len(tree) /\ tree[top].k = "define"
      /\ tree' = tree /\ outcome' = outcome /\ top' = top + 1 /\ last' = FALSE /\ falls' = falls
      /\ blocks' = Append(blocks, [fn |-> f, code |-> stores])
      /\ ip' = b /\ owner' = f /\ todo' = items
  BY DEF compile_define, AtTop, BlocksMade
<1>2. /\ Near(blocks, globals_init) = {1} /\ 1 \notin falls
      /\ AreBlocks(blocks) /\ m \in Nat /\ {1} \union falls \subseteq 1..m
      /\ Shape(blocks, {1} \union falls)
  BY <1>1, BetweenWalks
<1>3. top # 0 /\ top' # 0
  <2>1. top \in 1..Len(tree) /\ top' = top + 1
    BY <1>1
  <2> QED BY ONLY <2>1
<1>4. f # globals_init
  BY <1>1, <1>3 DEF ClosedInv
<1>5. Len(tree[top].params) \in Nat
  <2>1. tree \in Seq(TopNode)
    BY IRGenAssumption DEF HomeInv
  <2>2. tree[top] \in TopNode
    BY ONLY <1>1, <2>1, ElementOfSeq
  <2>3. tree[top].params \in Seq(STRING)
    BY <2>2 DEF TopNode
  <2> QED BY <2>3, LenProperties
<1>6. NoJump(stores)
  <2>1. \A i \in 1..Len(stores) : ~IsInstTerminator(stores[i])
    BY <1>5, StoresAtHome
  <2> QED BY <2>1 DEF NoJump
<1> HIDE DEF stores, f, items
<1>7. /\ Len(blocks') = m + 1
      /\ \A c \in 1..m : blocks'[c].fn = blocks[c].fn
      /\ blocks'[b].fn = f
      /\ Shape(blocks', {1} \union falls \union {b})
  <2> DEFINE O == {1} \union falls
             cs == blocks'
  <2>1. AreBlocks(blocks) /\ Shape(blocks, O) /\ cs = Append(blocks, [fn |-> f, code |-> stores])
    BY <1>1, <1>2
  <2> HIDE DEF O, cs
  <2>2. NoJump(stores) => Shape(cs, O \union {Len(blocks) + 1})
    BY ONLY <2>1, ShapeBlock
  <2>3. Len(cs) = Len(blocks) + 1 /\ \A c \in 1..Len(blocks) : cs[c] = blocks[c]
    BY ONLY <2>1, ShapeBlock
  <2>4. cs[Len(blocks) + 1].fn = f
    BY ONLY <2>1, ShapeBlock
  <2> QED BY <1>6, <2>2, <2>3, <2>4 DEF O, cs
<1>8. Near(blocks', globals_init) = {1}
  <2> DEFINE n == 1
  <2>1. \A c \in m+1..m+n : c = b
    BY <1>2
  <2>2. /\ n \in Nat /\ m \in Nat /\ Len(blocks) = m /\ Len(blocks') = Len(blocks) + n
        /\ \A c \in 1..Len(blocks) : blocks'[c].fn = blocks[c].fn
        /\ \A c \in Len(blocks)+1..Len(blocks)+n : blocks'[c].fn = f
    BY <1>2, <1>7, <2>1
  <2>3. n = 0 \/ f # globals_init
    BY <1>4
  <2> HIDE DEF n, m
  <2> QED BY ONLY <1>2, <2>2, <2>3, NearKept
<1>9. Path(items, {}, It("stmt"), z)
  <2> DEFINE y == It("more")
             N == {}
  <2>1. y.k = "more" /\ z.k = "end define"
    BY DEF It
  <2>2. Path(Body, N, It("stmt"), y)
    BY PathBody
  <2> HIDE DEF y, z
  <2>3. Owes(z) = 0
    BY <2>1 DEF Owes
  <2>4. N = IF Owes(z) = 0 THEN {} ELSE {Owes(z)}
    BY <2>3
  <2>5. Path(<<z>>, N, z, z)
    BY <2>4, PathOne
  <2>6. Follows(y, z)
    BY <2>1 DEF Follows
  <2>7. N \intersect N = {} /\ N \union N = N
    OBVIOUS
  <2> HIDE DEF N
  <2>8. Path(Body \o <<z>>, N \union N, It("stmt"), z)
    BY <2>2, <2>5, <2>6, <2>7, PathConcat
  <2>9. Path(Body \o <<z>>, N, It("stmt"), z)
    BY <2>7, <2>8
  <2> QED BY <2>9 DEF N, items
<1>10. Run(items, {}) /\ items # <<>> /\ Head(items).k = "stmt"
  <2>1. Run(items, {}) /\ items # <<>> /\ items[1] = It("stmt")
    BY <1>9 DEF Path
  <2>2. IsSeq(items)
    BY <2>1 DEF Run, Owing
  <2>3. Head(items) = items[1]
    BY <2>1, <2>2, SeqTail
  <2>4. It("stmt").k = "stmt"
    BY DEF It
  <2> QED BY <2>1, <2>3, <2>4
<1>11. b \notin falls
  <2>1. b \notin 1..m
    BY <1>2
  <2> QED BY <1>2, <2>1
<1>12. Live(todo', ip', last') = {b}
  BY <1>1, <1>10 DEF Live
<1>13. {1} \union falls \union {b} = {1} \union falls \union {} \union {b}
  OBVIOUS
<1>14. Shape(blocks', {1} \union falls' \union {} \union Live(todo', ip', last'))
  BY <1>1, <1>7, <1>12, <1>13
<1> HIDE DEF b, z
<1>15. Walk(blocks', todo', ip', last', falls', owner', {})
  BY <1>1, <1>2, <1>4, <1>8, <1>10, <1>11, <1>14 DEF Walk
<1>16. WalkNow'
  BY <1>15 DEF WalkNow
<1>17. \A i \in 1..Len(tree') : tree'[i].k = "define" => tree'[i].id # globals_init
  BY <1>1, <1>3 DEF ClosedInv
<1>18. outcome' = "none" /\ outcome' # "printed"
  BY <1>1
<1> QED BY <1>3, <1>16, <1>17, <1>18 DEF ClosedInv

LEMMA EndDefineClosed == HomeInv /\ ClosedInv /\ EndDefine => ClosedInv'
<1> SUFFICES ASSUME HomeInv, ClosedInv, EndDefine PROVE ClosedInv'
  OBVIOUS
<1>1. /\ At("end define") /\ GoesForth /\ blocks' = blocks /\ owner' = globals_init /\ last' = FALSE
      /\ falls' = IF last THEN falls ELSE falls \union {ip}
  BY DEF EndDefine, GoesForth, module
<1>2. Running /\ Head(todo).k = "end define" /\ outcome = "none" /\ WalkNow
  BY <1>1, AtQuiet
<1>3. todo' = <<>> /\ Tail(todo) = <<>>
  BY EndIsLast
<1>4. PICK S : Walk(blocks, todo, ip, last, falls, owner, S)
  BY <1>2 DEF WalkNow
<1>5. Head(todo).k \notin QuietKinds /\ Owes(Head(todo)) = 0
  BY <1>2 DEF QuietKinds, Owes
<1>6. /\ todo # <<>> /\ owner # globals_init /\ ip # 1
      /\ ~last => Shape(blocks, {1} \union falls \union S \union {ip})
      /\ last => Shape(blocks, {1} \union falls \union S)
  BY <1>2, <1>4, <1>5, WalkFacts
<1>7. Near(blocks, globals_init) = {1} /\ Run(todo, S) /\ 1 \notin falls
  BY <1>4 DEF Walk
<1>8. S = {}
  <2>1. Run(Tail(todo), S \ {0}) /\ 0 \notin S
    BY <1>5, <1>6, <1>7, RunTail
  <2>2. S \ {0} = {}
    BY <1>3, <2>1, RunNone
  <2> QED BY <2>1, <2>2
<1>9. 1 \notin falls'
  BY <1>1, <1>6, <1>7
<1>10. Live(todo', ip', last') = {}
  BY <1>3 DEF Live
<1>11. Shape(blocks', {1} \union falls' \union {} \union Live(todo', ip', last'))
  <2>1. CASE last
    <3>1. {1} \union falls \union S = {1} \union falls' \union {} \union {}
      BY <1>1, <1>8, <2>1
    <3> QED BY <1>1, <1>6, <1>10, <2>1, <3>1
  <2>2. CASE ~last
    <3>1. {1} \union falls \union S \union {ip} = {1} \union falls' \union {} \union {}
      BY <1>1, <1>8, <2>2
    <3> QED BY <1>1, <1>6, <1>10, <2>2, <3>1
  <2> QED BY <2>1, <2>2
<1>12. Walk(blocks', todo', ip', last', falls', owner', {})
  <2>1. ~last'
    BY ONLY <1>1
  <2>2. {} \intersect falls' = {} /\ 1 \notin {}
    OBVIOUS
  <2> QED BY <1>1, <1>3, <1>7, <1>9, <1>11, <2>1, <2>2, RunNone, QuietNone DEF Walk
<1>13. WalkNow'
  BY <1>12 DEF WalkNow
<1> QED BY <1>1, <1>2, <1>13, ClosedRunning

LEMMA GlobalClosed == HomeInv /\ ClosedInv /\ GlobalAssign => ClosedInv'
<1> SUFFICES ASSUME HomeInv, ClosedInv, GlobalAssign PROVE ClosedInv'
  OBVIOUS
<1>1. outcome = "none" /\ todo = <<>> /\ top \in 1..Len(tree) /\ tree' = tree /\ top' = top + 1
      /\ blocks' = blocks
  BY DEF GlobalAssign, AtTop, module
<1>2. /\ Near(blocks, globals_init) = {1} /\ 1 \notin falls /\ ~last
      /\ Shape(blocks, {1} \union falls) /\ owner = globals_init
  BY <1>1, BetweenWalks
<1>3. top # 0 /\ top' # 0
  BY <1>1
<1>4. \A i \in 1..Len(tree') : tree'[i].k = "define" => tree'[i].id # globals_init
  BY <1>1, <1>3 DEF ClosedInv
<1>5. CASE outcome' = "exception"
  <2>1. outcome' # "none" /\ outcome' # "printed"
    BY <1>5
  <2>2. \E O : Shape(blocks', O)
    BY <1>1, <1>2
  <2> QED BY <1>3, <1>4, <2>1, <2>2 DEF ClosedInv
<1>6. CASE outcome' # "exception"
  <2> DEFINE a == It("expr")
             z == Store(tree[top].id)
             items == << a, z >>
  <2>1. /\ outcome' = outcome /\ ip' = Back(globals_init) /\ last' = last /\ owner' = owner
        /\ falls' = falls /\ todo' = items
    BY <1>6 DEF GlobalAssign, aux, SetInsertPoint
  <2>2. ip' = 1
    <3>1. Back(globals_init) \in Near(blocks, globals_init)
      BY <1>1, <1>2, BetweenTops, BackIsBack
    <3> QED BY <1>2, <2>1, <3>1
  <2>3. Quiet(items)
    <3>1. Quiet(<<a>>) /\ Quiet(<<z>>)
      BY QuietItems
    <3> QED BY <3>1, QuietTwo
  <2>4. items # <<>>
    OBVIOUS
  <2> HIDE DEF a, z, items
  <2>5. PICK x, y : Path(items, {}, x, y) /\ x.k \in QuietKinds
    BY <2>3, <2>4, QuietPath
  <2>6. Run(items, {}) /\ Head(items).k # "then"
    <3>1. Run(items, {})
      BY <2>5 DEF Path
    <3>2. Head(items).k \in QuietKinds
      BY <2>3, <2>4, QuietTail
    <3> QED BY <3>1, <3>2 DEF QuietKinds
  <2>7. Live(todo', ip', last') = {1}
    BY <1>2, <2>1, <2>2, <2>4 DEF Live
  <2>8. {1} \union falls = {1} \union falls' \union {} \union {1}
    BY <2>1
  <2>9. Shape(blocks', {1} \union falls' \union {} \union Live(todo', ip', last'))
    BY <1>1, <1>2, <2>7, <2>8
  <2>10. Walk(blocks', todo', ip', last', falls', owner', {})
    BY <1>1, <1>2, <2>1, <2>2, <2>3, <2>6, <2>9 DEF Walk
  <2>11. WalkNow'
    BY <2>10 DEF WalkNow
  <2>12. outcome' = "none" /\ outcome' # "printed"
    BY <1>1, <2>1
  <2> QED BY <1>3, <1>4, <2>11, <2>12 DEF ClosedInv
<1> QED BY <1>5, <1>6

LEMMA EndClosed == HomeInv /\ ClosedInv /\ EndCompile => ClosedInv'
<1> SUFFICES ASSUME HomeInv, ClosedInv, EndCompile PROVE ClosedInv'
  OBVIOUS
<1> DEFINE mains   == {b \in 1..BlocksMade : blocks[b].fn = "main"}
           entry   == CHOOSE b \in mains : \A c \in mains : b <= c
           calling == [op |-> "call", var |-> None, to |-> {}, src |-> "main"]
           jump    == [op |-> "br", var |-> None, to |-> {entry}, src |-> "main"]
           code    == << calling, jump >>
           ended   == Append_(blocks, Back(globals_init), << Ret >>)
<1>1. /\ outcome = "none" /\ todo = <<>> /\ top = Len(tree) + 1 /\ tree' = tree /\ top' = top /\ falls' = falls
      /\ \/ outcome' = "assert" /\ blocks' = blocks
         \/ /\ outcome' = "printed"
            /\ blocks' = ended \/ blocks' = Append(ended, [fn |-> "main", code |-> code])
  BY DEF EndCompile, aux
<1>2. /\ Near(blocks, globals_init) = {1} /\ 1 \notin falls /\ owner = globals_init
      /\ AreBlocks(blocks) /\ Shape(blocks, {1} \union falls)
  BY <1>1, BetweenWalks
<1>3. Back(globals_init) = 1
  <2>1. Back(globals_init) \in Near(blocks, globals_init)
    BY <1>1, <1>2, BetweenTops, BackIsBack
  <2> QED BY <1>2, <2>1
<1>4. calling.op = "call" /\ jump.op = "br"
  OBVIOUS
<1>5. ~IsInstTerminator(calling) /\ IsInstTerminator(jump)
  BY <1>4 DEF IsInstTerminator
<1>6. Len(code) = 2 /\ code[1] = calling /\ code[2] = jump /\ code # <<>>
  OBVIOUS
<1>7. ended = Append_(blocks, 1, << Instr("ret", None, {}) >>)
  BY <1>3 DEF Ret
<1> HIDE DEF calling, jump, code, ended
<1>8. OneJump(code)
  <2>1. \A i \in 1..Len(code)-1 : i = 1
    BY <1>6
  <2> QED BY <1>5, <1>6, <2>1 DEF OneJump
<1>9. AreBlocks(ended) /\ Shape(ended, falls)
  <2> DEFINE O == {1} \union falls
             ret == << Instr("ret", None, {}) >>
             o == 1
  <2>1. O \ {o} = falls
    BY <1>2
  <2>2. /\ AreBlocks(blocks) /\ Shape(blocks, O) /\ o \in O /\ ended = Append_(blocks, o, ret)
        /\ IsSeq(ret) /\ OneJump(ret)
    BY <1>2, <1>7, Terminators
  <2>3. o \in 1..Len(blocks)
    BY <2>2 DEF Shape
  <2> HIDE DEF O, ret, o
  <2>4. OneJump(ret) => Shape(ended, O \ {o})
    BY ONLY <2>2, ShapeAppend
  <2>5. AreBlocks(ended)
    BY ONLY <2>2, <2>3, AppendCode
  <2> QED BY <2>1, <2>2, <2>4, <2>5
<1>10. ASSUME outcome' = "printed" PROVE Shape(blocks', falls)
  <2>1. CASE blocks' = ended
    BY <1>9, <2>1
  <2>2. CASE blocks' = Append(ended, [fn |-> "main", code |-> code])
    <3> DEFINE f == "main"
               cs == blocks'
    <3>1. AreBlocks(ended) /\ Shape(ended, falls) /\ cs = Append(ended, [fn |-> f, code |-> code])
      BY <1>9, <2>2
    <3> HIDE DEF f, cs
    <3>2. OneJump(code) => Shape(cs, falls)
      BY ONLY <3>1, ShapeBlock
    <3> QED BY <1>8, <3>2 DEF cs
  <2> QED BY <1>1, <1>10, <2>1, <2>2
<1>11. \E O : Shape(blocks', O)
  BY <1>1, <1>2, <1>10
<1>12. top # 0
  <2>1. tree \in Seq(TopNode)
    BY IRGenAssumption DEF HomeInv
  <2>2. Len(tree) \in Nat
    BY <2>1, LenProperties
  <2> QED BY <1>1, <2>2
<1>13. outcome' # "none"
  BY <1>1
<1>14. \A i \in 1..Len(tree') : tree'[i].k = "define" => tree'[i].id # globals_init
  BY <1>1, <1>12 DEF ClosedInv
<1> QED BY <1>1, <1>2, <1>10, <1>11, <1>12, <1>13, <1>14 DEF ClosedInv

LEMMA ClosedInit == Init => ClosedInv
<1> SUFFICES ASSUME Init PROVE ClosedInv
  OBVIOUS
<1> DEFINE first == Block(globals_init)
           func == [id |-> globals_init, params |-> <<>>]
<1>1. /\ outcome = "none" /\ top = 0 /\ todo = <<>> /\ blocks = << first >> /\ ip = 1
      /\ last = FALSE /\ owner = globals_init /\ falls = {} /\ functions = << func >> \o Library
  BY DEF Init
<1>2. \E f \in DOMAIN functions : functions[f].id = globals_init
  <2> DEFINE p == << func >>
  <2>1. func.id = globals_init /\ IsSeq(p) /\ Len(p) = 1 /\ p[1] = func
    BY SeqOne
  <2>2. IsSeq(Library)
    <3>1. \A a, b : << a, b >> \in Seq({a, b})
      OBVIOUS
    <3> QED BY <3>1 DEF Library, IsSeq
  <2>3. functions = p \o Library
    BY <1>1
  <2> HIDE DEF p, func
  <2>4. /\ IsSeq(functions) /\ Len(functions) = 1 + Len(Library) /\ Len(Library) \in Nat
        /\ functions[1] = func
    <3> DEFINE q == Library
    <3>1. IsSeq(p) /\ IsSeq(q) /\ functions = p \o q /\ Len(p) = 1
      BY <2>1, <2>2, <2>3
    <3> HIDE DEF q
    <3>2. /\ IsSeq(functions) /\ Len(functions) = Len(p) + Len(q) /\ Len(q) \in Nat
          /\ \A i \in 1..Len(p) : functions[i] = p[i]
      BY ONLY <3>1, SeqConcat
    <3>3. functions[1] = p[1]
      BY ONLY <3>1, <3>2
    <3> QED BY <2>1, <3>1, <3>2, <3>3 DEF q
  <2>5. 1 \in DOMAIN functions
    <3>1. PICK S : functions \in Seq(S)
      BY <2>4 DEF IsSeq
    <3>2. DOMAIN functions = 1..Len(functions)
      BY <3>1, LenProperties
    <3> QED BY <2>4, <3>2
  <2> QED BY <2>1, <2>4, <2>5
<1>3. first.fn = globals_init /\ first.code = <<>>
  BY DEF Block
<1> HIDE DEF first
<1>4. Len(blocks) = 1 /\ blocks[1] = first
  BY <1>1
<1>5. \A c \in 1..Len(blocks) : c = 1
  BY <1>4
<1>6. Near(blocks, globals_init) = {1}
  BY <1>3, <1>4, <1>5 DEF Near
<1>7. NoJump(first.code)
  <2>1. Len(first.code) = 0
    BY <1>3
  <2>2. \A i \in 1..Len(first.code) : FALSE
    BY <2>1
  <2> QED BY <2>2 DEF NoJump
<1>8. Shape(blocks, {1})
  BY <1>4, <1>5, <1>7 DEF Shape
<1>9. {1} = {1} \union falls \union {} \union Live(todo, ip, last)
  BY <1>1 DEF Live
<1>10. Shape(blocks, {1} \union falls \union {} \union Live(todo, ip, last))
  BY <1>8, <1>9
<1>11. Walk(blocks, todo, ip, last, falls, owner, {})
  <2>1. ~last
    BY ONLY <1>1
  <2> QED BY <1>1, <1>6, <1>10, <2>1, RunNone, QuietNone DEF Walk
<1>12. WalkNow
  BY <1>11 DEF WalkNow
<1>13. outcome = "none" /\ outcome # "printed" /\ top = 0 /\ todo = <<>>
  BY <1>1
<1> QED BY <1>2, <1>12, <1>13 DEF ClosedInv

LEMMA ClosedStep == HomeInv /\ ClosedInv /\ [Next]_vars => ClosedInv'
<1> SUFFICES ASSUME HomeInv, ClosedInv, [Next]_vars PROVE ClosedInv'
  OBVIOUS
<1>1. CASE UNCHANGED vars \/ Terminating
  BY <1>1 DEF Terminating, vars, module, aux, ClosedInv, WalkNow
<1>2. CASE Top
  BY <1>2, DeclareClosed, DefineClosed, EndDefineClosed, GlobalClosed, EndClosed DEF Top
<1>3. CASE Expr_
  BY <1>3, ExprClosed
<1>4. CASE Statement
  BY <1>4, SimpleClosed, ClosersClosed, BranchClosed, IfClosed, WhileClosed DEF Statement
<1> QED BY <1>1, <1>2, <1>3, <1>4 DEF Next

LEMMA ClosedSuffices == HomeInv /\ ClosedInv => BlocksClosed
<1> SUFFICES ASSUME HomeInv, ClosedInv PROVE BlocksClosed
  OBVIOUS
<1>1. AreBlocks(blocks)
  BY DEF HomeInv
<1>2. Made = 1..Len(blocks) /\ \A b \in 1..Len(blocks) : CodeOf(b) = blocks[b].code
  BY <1>1, BlocksType DEF Made, CodeOf
<1>3. \E O : Shape(blocks, O)
  BY DEF ClosedInv, WalkNow, Walk
<1>4. ASSUME NEW b \in Made, NEW i \in 1..Len(CodeOf(b)) - 1
      PROVE  ~IsInstTerminator(CodeOf(b)[i])
  <2>1. NoJump(CodeOf(b)) \/ OneJump(CodeOf(b))
    BY <1>2, <1>3 DEF Shape
  <2>2. Len(CodeOf(b)) \in Nat
    <3>1. PICK S : CodeOf(b) \in Seq(S)
      BY <1>1, <1>2, BlocksType DEF IsSeq
    <3> QED BY <3>1, LenProperties
  <2>3. i \in 1..Len(CodeOf(b))
    BY <2>2
  <2> QED BY <2>1, <2>3 DEF NoJump, OneJump
<1>5. ASSUME outcome = "printed" PROVE {b \in Made : ~Ended(b)} = falls
  <2>1. Shape(blocks, falls)
    BY <1>5 DEF ClosedInv
  <2>2. ASSUME NEW b \in 1..Len(blocks) PROVE ~Ended(b) <=> b \in falls
    <3> DEFINE code == blocks[b].code
    <3>1. IsSeq(code)
      BY <1>1, BlocksType
    <3>2. Ended(b) <=> code # <<>> /\ IsInstTerminator(code[Len(code)])
      BY <1>2 DEF Ended, Last
    <3> HIDE DEF code
    <3>3. code # <<>> => Len(code) \in 1..Len(code)
      <4>1. code # <<>> => Len(code) \in Nat \ {0}
        BY <3>1, SeqTail
      <4> QED BY <4>1
    <3>4. IF b \in falls THEN NoJump(code) ELSE OneJump(code)
      BY <2>1 DEF Shape, code
    <3> QED BY <3>2, <3>3, <3>4 DEF NoJump, OneJump
  <2>3. falls \subseteq 1..Len(blocks)
    BY <2>1 DEF Shape
  <2> QED BY <1>2, <2>2, <2>3
<1> QED BY <1>4, <1>5 DEF BlocksClosed

(* For every program, however returns, branches and loops are nested: no   *)
(* instruction follows a terminator in its block, and of what is printed   *)
(* only the blocks that functions fall out of are not terminated.          *)
THEOREM BlocksAreClosed == Spec => []BlocksClosed
<1>1. HomeInv /\ ClosedInv /\ [Next]_vars => (HomeInv /\ ClosedInv)'
  BY HomeStep, ClosedStep
<1>2. Spec => [](HomeInv /\ ClosedInv)
  BY HomeInit, ClosedInit, <1>1, PTL DEF Spec
<1> QED
  BY <1>2, ClosedSuffices, PTL

(* VariablesAllocated: what is passed before a block.                      *)

(* A view g of the module and the tables: its blocks `bs', its tables `sc' *)
(* and the function `f' that is being compiled; for each block the blocks  *)
(* that are passed before it, `dom', and the bodies of loops, `loops'.     *)

(* Whatever is passed before d is passed before b, but for d itself.       *)
Below(d, b, g) == g.dom[d] \subseteq g.dom[b] \union {d}
Inside(a, g)   == g.loops \intersect g.dom[a] # {}

(* The variable `var' may be used in block b.                              *)
Valid(var, b, g) ==
    var.block # 0 =>
        /\ var.block \in 1..Len(g.bs) /\ g.bs[var.block].fn = g.bs[b].fn
        /\ var.at \in 1..Len(g.bs[var.block].code)
        /\ g.bs[var.block].code[var.at].op = "alloca"
        /\ var.block \in g.dom[b] \/ Inside(var.block, g)

(* The instruction i of block b jumps to blocks below it and uses a        *)
(* variable that it may use.                                               *)
Fair(i, b, g) ==
    LET instr == g.bs[b].code[i] IN
    /\ \A d \in instr.to : Below(d, b, g)
    /\ Valid(instr.var, b, g)
    /\ instr.var.block = b => instr.var.at <= i

(* A block is passed by itself, only blocks of its function are, and       *)
(* nothing is before the front block.                                      *)
Placed(b, g) ==
    /\ b \in g.dom[b] /\ g.dom[b] \subseteq Near(g.bs, g.bs[b].fn)
    /\ IsFront(g.bs, g.bs[b].fn, b) => g.dom[b] = {b}
Graph(g) ==
    \A b \in 1..Len(g.bs) : Placed(b, g) /\ \A i \in 1..Len(g.bs[b].code) : Fair(i, b, g)

(* A stage on the way through the control stack: a block that is passed    *)
(* when it is reached, and how many tables are left then.  The item `it'   *)
(* leads from the stage x to the stage y.                                  *)
Way(it, x, y, g) ==
    /\ y.open = IF it.k \in {"join", "end define"} THEN x.open - 1 ELSE x.open
    /\ g.dom[y.at] \subseteq g.dom[IF Owes(it) = 0 THEN x.at ELSE Owes(it)]
    /\ it.k = "then" => Below(it.exit, it.b, g)
    /\ it.k = "join" => Below(it.exit, x.at, g)
    /\ it.k = "while" => Below(it.body, x.at, g) /\ Below(it.exit, x.at, g)
    /\ it.k = "repeat" => Below(it.cond, x.at, g) /\ Inside(x.at, g)
    /\ it.k = "store" => \E k \in 1..x.open : it.id \in DOMAIN g.sc[k]

(* The variables of the tables that are left may be used at the stage.     *)
Fit(x, g) ==
    /\ x.at \in Near(g.bs, g.f) /\ x.open \in Nat /\ x.open <= Len(g.sc)
    /\ \A k \in 2..x.open : \A id \in DOMAIN g.sc[k] : Valid(g.sc[k][id], x.at, g)

(* The stages W from where the builder is, behind each item of q; no item  *)
(* opens a table for good.                                                 *)
Course(q, W, g) ==
    /\ \A i \in 0..Len(q) : Fit(W[i], g)
    /\ \A i \in 1..Len(q) : Way(q[i], W[i - 1], W[i], g)
    /\ \A i, j \in 0..Len(q) : i <= j => W[j].open <= W[i].open

(* The view h is g with more blocks and code.                              *)
Prefix(code, long) ==
    /\ Len(code) \in Nat /\ Len(long) \in Nat /\ Len(code) <= Len(long)
    /\ \A i \in 1..Len(code) : long[i] = code[i]
Extends_(g, h) ==
    /\ Len(g.bs) \in Nat /\ Len(h.bs) \in Nat /\ Len(g.bs) <= Len(h.bs)
    /\ \A b \in 1..Len(g.bs) : /\ h.bs[b].fn = g.bs[b].fn /\ h.dom[b] = g.dom[b]
                               /\ Prefix(g.bs[b].code, h.bs[b].code)
    /\ g.loops \subseteq h.loops
Same(g, h, n) == n <= Len(h.sc) /\ \A k \in 1..n : h.sc[k] = g.sc[k]

LEMMA InsideBelow ==
    ASSUME NEW g, NEW a, NEW b, g.dom[a] \subseteq g.dom[b], Inside(a, g)
    PROVE  Inside(b, g)
<1> QED BY DEF Inside

LEMMA BelowBelow ==
    ASSUME NEW g, NEW a, NEW b, NEW d, g.dom[a] \subseteq g.dom[b], Below(d, a, g)
    PROVE  Below(d, b, g)
<1> QED BY DEF Below

LEMMA ValidBelow ==
    ASSUME NEW g, NEW a, NEW b, g.dom[a] \subseteq g.dom[b], g.bs[a].fn = g.bs[b].fn,
           NEW var, Valid(var, a, g)
    PROVE  Valid(var, b, g)
<1> QED BY DEF Valid

LEMMA JumpKept ==
    ASSUME NEW g, NEW h, Extends_(g, h), NEW a \in 1..Len(g.bs), NEW b \in 1..Len(g.bs)
    PROVE  /\ Below(a, b, g) => Below(a, b, h)
           /\ Inside(a, g) => Inside(a, h)
<1>1. h.dom[a] = g.dom[a] /\ h.dom[b] = g.dom[b] /\ g.loops \subseteq h.loops
  BY DEF Extends_
<1> QED BY <1>1 DEF Below, Inside

LEMMA ValidKept ==
    ASSUME NEW g, NEW h, Extends_(g, h), NEW b \in 1..Len(g.bs), NEW var, Valid(var, b, g)
    PROVE  Valid(var, b, h)
<1> SUFFICES ASSUME var.block # 0 PROVE Valid(var, b, h)
  BY DEF Valid
<1> DEFINE a == var.block
<1>1. /\ a \in 1..Len(g.bs) /\ g.bs[a].fn = g.bs[b].fn
      /\ var.at \in 1..Len(g.bs[a].code) /\ g.bs[a].code[var.at].op = "alloca"
      /\ a \in g.dom[b] \/ Inside(a, g)
  BY DEF Valid
<1>2. /\ a \in 1..Len(h.bs) /\ h.bs[a].fn = h.bs[b].fn
      /\ Prefix(g.bs[a].code, h.bs[a].code) /\ h.dom[b] = g.dom[b]
  BY <1>1 DEF Extends_
<1>3. var.at \in 1..Len(h.bs[a].code) /\ h.bs[a].code[var.at] = g.bs[a].code[var.at]
  <2> DEFINE old == g.bs[a].code
             new == h.bs[a].code
             at  == var.at
  <2>1. at \in 1..Len(old) /\ Prefix(old, new)
    BY <1>1, <1>2
  <2> HIDE DEF old, new, at
  <2>2. at \in 1..Len(new) /\ new[at] = old[at]
    BY <2>1 DEF Prefix
  <2> QED BY <2>2 DEF old, new, at
<1>4. a \in h.dom[b] \/ Inside(a, h)
  BY <1>1, <1>2, JumpKept
<1> QED BY <1>1, <1>2, <1>3, <1>4 DEF Valid

LEMMA FitKept ==
    ASSUME NEW g, NEW h, Extends_(g, h), h.f = g.f, NEW x, Fit(x, g), Same(g, h, x.open)
    PROVE  Fit(x, h)
<1>1. x.at \in 1..Len(g.bs) /\ g.bs[x.at].fn = g.f /\ x.open \in Nat
  BY DEF Fit, Near
<1>2. x.at \in Near(h.bs, h.f)
  BY <1>1 DEF Extends_, Near
<1>3. ASSUME NEW k \in 2..x.open, NEW id \in DOMAIN h.sc[k]
      PROVE  Valid(h.sc[k][id], x.at, h)
  <2>1. h.sc[k] = g.sc[k]
    BY <1>1 DEF Same
  <2>2. Valid(g.sc[k][id], x.at, g)
    BY <2>1 DEF Fit
  <2> QED BY <1>1, <2>1, <2>2, ValidKept
<1> QED BY <1>1, <1>2, <1>3 DEF Fit, Same

LEMMA WayKept ==
    ASSUME NEW g, NEW h, Extends_(g, h), NEW x, NEW y, Fit(x, g), Fit(y, g), Same(g, h, x.open),
           NEW it, Targets(it) \subseteq Near(g.bs, g.f), Way(it, x, y, g)
    PROVE  Way(it, x, y, h)
<1>1. x.at \in 1..Len(g.bs) /\ y.at \in 1..Len(g.bs) /\ x.open \in Nat
  BY DEF Fit, Near
<1>2. Targets(it) \subseteq 1..Len(g.bs)
  BY DEF Near
<1>3. h.dom[y.at] = g.dom[y.at] /\ h.dom[x.at] = g.dom[x.at]
  BY <1>1 DEF Extends_
<1>4. Owes(it) # 0 => Owes(it) \in 1..Len(g.bs)
  BY <1>2 DEF Owes, Targets
<1>5. Owes(it) # 0 => h.dom[Owes(it)] = g.dom[Owes(it)]
  BY <1>4 DEF Extends_
<1>6. h.dom[y.at] \subseteq h.dom[IF Owes(it) = 0 THEN x.at ELSE Owes(it)]
  BY <1>3, <1>5 DEF Way
<1>7. it.k = "then" => Below(it.exit, it.b, h)
  BY <1>2, JumpKept DEF Targets, Way
<1>8. it.k = "join" => Below(it.exit, x.at, h)
  BY <1>1, <1>2, JumpKept DEF Targets, Way
<1>9. it.k = "while" => Below(it.body, x.at, h) /\ Below(it.exit, x.at, h)
  BY <1>1, <1>2, JumpKept DEF Targets, Way
<1>10. it.k = "repeat" => Below(it.cond, x.at, h) /\ Inside(x.at, h)
  BY <1>1, <1>2, JumpKept DEF Targets, Way
<1>11. it.k = "store" => \E k \in 1..x.open : it.id \in DOMAIN h.sc[k]
  BY <1>1 DEF Same, Way
<1>12. y.open = IF it.k \in {"join", "end define"} THEN x.open - 1 ELSE x.open
  BY DEF Way
<1> QED BY <1>6, <1>7, <1>8, <1>9, <1>10, <1>11, <1>12 DEF Way

(* Courses.                                                                *)

(* What comes after the first item.                                        *)
LEMMA CourseTail ==
    ASSUME NEW q, IsSeq(q), q # <<>>, NEW W, NEW g, Course(q, W, g),
           NEW V, \A i \in 0..Len(q)-1 : V[i] = W[i + 1]
    PROVE  /\ Course(Tail(q), V, g) /\ V[0] = W[1] /\ V[Len(Tail(q))] = W[Len(q)]
           /\ Fit(W[0], g) /\ Fit(W[1], g) /\ Way(Head(q), W[0], W[1], g)
<1> DEFINE n == Len(q)
<1>1. /\ n \in Nat \ {0} /\ Head(q) = q[1] /\ Len(Tail(q)) = n - 1
      /\ \A i \in 1..n-1 : Tail(q)[i] = q[i + 1]
  BY SeqTail
<1>2. \A i \in 0..n : Fit(W[i], g)
  BY DEF Course
<1>3. \A i \in 1..n : Way(q[i], W[i - 1], W[i], g)
  BY DEF Course
<1>4. \A i, j \in 0..n : i <= j => W[j].open <= W[i].open
  BY DEF Course
<1> HIDE DEF n
<1>5. \A i \in 0..n-1 : V[i] = W[i + 1] /\ i + 1 \in 0..n
  BY <1>1 DEF n
<1>6. \A i \in 0..n-1 : Fit(V[i], g)
  BY <1>2, <1>5
<1>7. ASSUME NEW i \in 1..n-1 PROVE Way(Tail(q)[i], V[i - 1], V[i], g)
  <2>1. Tail(q)[i] = q[i + 1] /\ i + 1 \in 1..n /\ (i + 1) - 1 = i
    BY <1>1
  <2>2. V[i - 1] = W[i] /\ V[i] = W[i + 1]
    <3>1. i - 1 \in 0..n-1 /\ (i - 1) + 1 = i /\ i \in 0..n-1
      BY <1>1
    <3> QED BY <1>5, <3>1
  <2>3. Way(q[i + 1], W[(i + 1) - 1], W[i + 1], g)
    BY <1>3, <2>1
  <2> QED BY <2>1, <2>2, <2>3
<1>8. \A i, j \in 0..n-1 : i <= j => V[j].open <= V[i].open
  BY <1>4, <1>5, <1>1
<1>9. Course(Tail(q), V, g)
  BY <1>1, <1>6, <1>7, <1>8 DEF Course
<1>10. V[0] = W[1] /\ V[n - 1] = W[n]
  <2>1. 0 \in 0..n-1 /\ n - 1 \in 0..n-1 /\ (n - 1) + 1 = n /\ 0 + 1 = 1
    BY <1>1
  <2> QED BY <1>5, <2>1
<1>11. Fit(W[0], g) /\ Fit(W[1], g) /\ Way(q[1], W[0], W[1], g)
  <2>1. 0 \in 0..n /\ 1 \in 0..n /\ 1 \in 1..n /\ 1 - 1 = 0
    BY <1>1
  <2> QED BY <1>2, <1>3, <2>1
<1> QED BY <1>1, <1>9, <1>10, <1>11 DEF n

(* One course after the other.                                             *)
LEMMA CourseConcat ==
    ASSUME NEW p, NEW q, IsSeq(p), IsSeq(q), NEW g, NEW V, NEW W,
           Course(p, V, g), Course(q, W, g), V[Len(p)] = W[0],
           NEW U, U = [i \in 0..Len(p)+Len(q) |-> IF i <= Len(p) THEN V[i] ELSE W[i - Len(p)]]
    PROVE  Course(p \o q, U, g) /\ U[0] = V[0] /\ U[Len(p \o q)] = W[Len(q)]
<1> DEFINE r == p \o q
           l == Len(p)
           m == Len(q)
<1>1. /\ l \in Nat /\ m \in Nat /\ Len(r) = l + m
      /\ \A i \in 1..l : r[i] = p[i]
      /\ \A i \in l+1..l+m : r[i] = q[i - l]
  BY SeqConcat
<1>2. /\ \A i \in 0..l : Fit(V[i], g)
      /\ \A i \in 1..l : Way(p[i], V[i - 1], V[i], g)
      /\ \A i, j \in 0..l : i <= j => V[j].open <= V[i].open
  BY DEF Course
<1>3. /\ \A i \in 0..m : Fit(W[i], g)
      /\ \A i \in 1..m : Way(q[i], W[i - 1], W[i], g)
      /\ \A i, j \in 0..m : i <= j => W[j].open <= W[i].open
  BY DEF Course
<1>4. U = [i \in 0..l+m |-> IF i <= l THEN V[i] ELSE W[i - l]] /\ V[l] = W[0]
  OBVIOUS
<1> HIDE DEF r, l, m
<1>5. \A i \in 0..l : U[i] = V[i]
  BY <1>1, <1>4
<1>6. \A i \in l..l+m : i - l \in 0..m /\ U[i] = W[i - l]
  BY <1>1, <1>4
<1>7. \A i \in 0..l+m : Fit(U[i], g)
  <2> TAKE i \in 0..l+m
  <2>1. i \in 0..l \/ i \in l..l+m
    BY <1>1
  <2> QED BY <1>2, <1>3, <1>5, <1>6, <2>1
<1>8. ASSUME NEW i \in 1..l+m PROVE Way(r[i], U[i - 1], U[i], g)
  <2>1. CASE i \in 1..l
    <3>1. i - 1 \in 0..l /\ i \in 0..l
      BY <2>1, <1>1
    <3> QED BY <1>1, <1>2, <1>5, <2>1, <3>1
  <2>2. CASE i \in l+1..l+m
    <3>1. i - 1 \in l..l+m /\ i \in l..l+m /\ i - l \in 1..m /\ (i - 1) - l = (i - l) - 1
      BY <2>2, <1>1
    <3>2. U[i - 1] = W[(i - l) - 1] /\ U[i] = W[i - l] /\ r[i] = q[i - l]
      BY <1>1, <1>6, <2>2, <3>1
    <3>3. Way(q[i - l], W[(i - l) - 1], W[i - l], g)
      BY <1>3, <3>1
    <3> QED BY <3>2, <3>3
  <2> QED BY <1>1, <2>1, <2>2
<1>9. ASSUME NEW i \in 0..l+m, NEW j \in 0..l+m, i <= j PROVE U[j].open <= U[i].open
  <2>1. CASE j \in 0..l
    <3>1. i \in 0..l
      BY <2>1, <1>1, <1>9
    <3> QED BY <1>2, <1>5, <1>9, <2>1, <3>1
  <2>2. CASE i \in l..l+m
    <3>1. j \in l..l+m /\ i - l \in 0..m /\ j - l \in 0..m /\ i - l <= j - l
      BY <2>2, <1>1, <1>9
    <3> QED BY <1>3, <1>6, <2>2, <3>1
  <2>3. CASE i \in 0..l /\ j \in l..l+m
    <3>1. V[l].open <= V[i].open
      BY <1>1, <1>2, <2>3
    <3>2. W[j - l].open <= W[0].open
      <4>1. 0 \in 0..m /\ j - l \in 0..m /\ 0 <= j - l
        BY <1>1, <1>6, <2>3
      <4> QED BY <1>3, <4>1
    <3>3. U[i] = V[i] /\ U[j] = W[j - l]
      BY <1>5, <1>6, <2>3
    <3>4. Fit(V[i], g) /\ Fit(V[l], g) /\ Fit(W[j - l], g)
      <4>1. l \in 0..l /\ j - l \in 0..m
        BY <1>1, <1>6, <2>3
      <4> QED BY <1>2, <1>3, <2>3, <4>1
    <3>5. V[i].open \in Nat /\ V[l].open \in Nat /\ W[j - l].open \in Nat
      BY <3>4 DEF Fit
    <3> QED BY <1>4, <3>1, <3>2, <3>3, <3>5
  <2> QED BY <1>1, <2>1, <2>2, <2>3
<1>10. Course(r, U, g)
  BY <1>1, <1>7, <1>8, <1>9 DEF Course
<1>11. U[0] = V[0] /\ U[l + m] = W[m]
  <2>1. 0 \in 0..l /\ l + m \in l..l+m /\ (l + m) - l = m
    BY <1>1
  <2> QED BY <1>5, <1>6, <2>1
<1> QED BY <1>1, <1>10, <1>11 DEF r, l, m

(* A course stays one when blocks and code are added, if the tables that   *)
(* are open when it begins are kept.                                       *)
LEMMA CourseKept ==
    ASSUME NEW g, NEW h, Extends_(g, h), h.f = g.f, NEW q, IsSeq(q),
           \A i \in 1..Len(q) : Targets(q[i]) \subseteq Near(g.bs, g.f),
           NEW W, Course(q, W, g), Same(g, h, W[0].open)
    PROVE  Course(q, W, h)
<1> DEFINE n == Len(q)
<1>1. n \in Nat
  BY DEF IsSeq
<1>2. \A i \in 0..n : Fit(W[i], g) /\ W[i].open <= W[0].open
  BY <1>1 DEF Course
<1>3. \A i \in 0..n : Same(g, h, W[i].open)
  <2> TAKE i \in 0..n
  <2>1. W[i].open \in Nat /\ W[0].open \in Nat /\ W[i].open <= W[0].open
    <3>1. 0 \in 0..n
      BY <1>1
    <3> QED BY <1>2, <3>1 DEF Fit
  <2>2. h.sc = h.sc /\ W[0].open <= Len(h.sc)
    BY DEF Same
  <2>3. W[i].open <= Len(g.sc)
    BY <1>2 DEF Fit
  <2> QED BY <2>1, <2>2 DEF Same
<1>4. \A i \in 0..n : Fit(W[i], h)
  BY <1>2, <1>3, FitKept
<1>5. ASSUME NEW i \in 1..n PROVE Way(q[i], W[i - 1], W[i], h)
  <2>1. i - 1 \in 0..n /\ i \in 0..n
    BY <1>1
  <2>2. Way(q[i], W[i - 1], W[i], g)
    BY DEF Course
  <2>3. Targets(q[i]) \subseteq Near(g.bs, g.f)
    OBVIOUS
  <2> QED BY <1>2, <1>3, <2>1, <2>2, <2>3, WayKept
<1>6. \A i, j \in 0..n : i <= j => W[j].open <= W[i].open
  BY DEF Course
<1> QED BY <1>4, <1>5, <1>6 DEF Course
(* The first item is replaced by items that lead where it led.             *)
LEMMA CourseGoesOn ==
    ASSUME NEW g, NEW h, Extends_(g, h), h.f = g.f, NEW q, IsSeq(q), q # <<>>,
           \A i \in 1..Len(q) : Targets(q[i]) \subseteq Near(g.bs, g.f),
           NEW W, Course(q, W, g), Same(g, h, W[1].open),
           NEW items, IsSeq(items), NEW V, Course(items, V, h), V[Len(items)] = W[1]
    PROVE  \E U : /\ Course(items \o Tail(q), U, h) /\ U[0] = V[0]
                  /\ U[Len(items \o Tail(q))] = W[Len(q)]
<1> DEFINE r == Tail(q)
           n == Len(q)
           X == [i \in 0..n-1 |-> W[i + 1]]
<1>1. /\ n \in Nat \ {0} /\ IsSeq(r) /\ Len(r) = n - 1
      /\ \A i \in 1..n-1 : r[i] = q[i + 1]
  BY SeqTail
<1>2. \A i \in 0..n-1 : X[i] = W[i + 1]
  OBVIOUS
<1> HIDE DEF X
<1>3. Course(r, X, g) /\ X[0] = W[1] /\ X[Len(r)] = W[n]
  BY <1>2, CourseTail
<1>4. \A i \in 1..Len(r) : Targets(r[i]) \subseteq Near(g.bs, g.f)
  <2> TAKE i \in 1..Len(r)
  <2>1. i + 1 \in 1..n /\ r[i] = q[i + 1]
    BY <1>1
  <2> QED BY <2>1
<1> HIDE DEF r, n
<1>5. Course(r, X, h)
  BY <1>1, <1>3, <1>4, CourseKept
<1> DEFINE U == [i \in 0..Len(items)+Len(r) |-> IF i <= Len(items) THEN V[i] ELSE X[i - Len(items)]]
<1>6. U = [i \in 0..Len(items)+Len(r) |-> IF i <= Len(items) THEN V[i] ELSE X[i - Len(items)]]
  OBVIOUS
<1> HIDE DEF U
<1>7. Course(items \o r, U, h) /\ U[0] = V[0] /\ U[Len(items \o r)] = X[Len(r)]
  BY <1>1, <1>3, <1>5, <1>6, CourseConcat
<1> QED BY <1>3, <1>7 DEF r, n

(* The items that stay where they are, those of expressions and lists.     *)
LevelKinds == QuietKinds \union {"stmt", "more", "if", "return"}
Level(q, n, g) ==
    /\ IsSeq(q)
    /\ \A i \in 1..Len(q) :
          /\ q[i].k \in LevelKinds
          /\ q[i].k = "store" => \E k \in 1..n : q[i].id \in DOMAIN g.sc[k]

LEMMA LevelOne ==
    ASSUME NEW it, it.k \in LevelKinds, NEW n, NEW g,
           it.k = "store" => \E k \in 1..n : it.id \in DOMAIN g.sc[k]
    PROVE  Level(<<it>>, n, g)
<1> DEFINE q == <<it>>
<1>1. IsSeq(q) /\ Len(q) = 1 /\ q[1] = it
  BY SeqOne
<1> HIDE DEF q
<1>2. Level(q, n, g)
  BY <1>1 DEF Level
<1> QED BY <1>2 DEF q

LEMMA LevelNone ==
    ASSUME NEW n, NEW g
    PROVE  Level(<<>>, n, g)
<1>1. <<>> \in Seq({}) /\ Len(<<>>) = 0
  OBVIOUS
<1> QED BY <1>1 DEF Level, IsSeq

LEMMA LevelConcat ==
    ASSUME NEW n, NEW g, NEW p, NEW q, Level(p, n, g), Level(q, n, g)
    PROVE  Level(p \o q, n, g)
<1> DEFINE pq == p \o q
           l  == Len(p)
           m  == Len(q)
<1>1. IsSeq(p) /\ IsSeq(q)
  BY DEF Level
<1>2. /\ IsSeq(pq) /\ l \in Nat /\ m \in Nat /\ Len(pq) = l + m
      /\ \A i \in 1..l : pq[i] = p[i]
      /\ \A i \in l+1..l+m : pq[i] = q[i - l]
  BY ONLY <1>1, SeqConcat
<1> HIDE DEF pq, l, m
<1>3. ASSUME NEW i \in 1..Len(pq)
      PROVE  /\ pq[i].k \in LevelKinds
             /\ pq[i].k = "store" => \E k \in 1..n : pq[i].id \in DOMAIN g.sc[k]
  <2>1. CASE i \in 1..l
    BY <1>2, <2>1 DEF Level, l
  <2>2. CASE i \in l+1..l+m
    <3>1. i - l \in 1..m /\ pq[i] = q[i - l]
      BY <1>2, <2>2
    <3> QED BY <3>1 DEF Level, m
  <2> QED BY <1>2, <2>1, <2>2
<1>4. Level(pq, n, g)
  BY <1>2, <1>3 DEF Level
<1> QED BY <1>4 DEF pq

LEMMA LevelItems ==
    ASSUME NEW n, NEW g
    PROVE  /\ \A k \in {"expr", "zero", "stmt", "more", "drop", "return"} : Level(<<It(k)>>, n, g)
           /\ \A id : Level(<<Load(id)>>, n, g) /\ Level(<<Bin(id)>>, n, g)
           /\ \A id, m : Level(<<Args(id, m)>>, n, g) /\ Level(<<If(m)>>, n, g)
           /\ \A id : (\E k \in 1..n : id \in DOMAIN g.sc[k]) => Level(<<Store(id)>>, n, g)
<1>1. ASSUME NEW k \in {"expr", "zero", "stmt", "more", "drop", "return"} PROVE Level(<<It(k)>>, n, g)
  <2>1. It(k).k = k /\ k \in LevelKinds /\ k # "store"
    BY DEF It, LevelKinds, QuietKinds
  <2> QED BY <2>1, LevelOne
<1>2. ASSUME NEW id PROVE Level(<<Load(id)>>, n, g) /\ Level(<<Bin(id)>>, n, g)
  <2>1. /\ Load(id).k \in LevelKinds /\ Load(id).k # "store"
        /\ Bin(id).k \in LevelKinds /\ Bin(id).k # "store"
    BY DEF Load, Bin, LevelKinds, QuietKinds
  <2> QED BY <2>1, LevelOne
<1>3. ASSUME NEW id, NEW m PROVE Level(<<Args(id, m)>>, n, g) /\ Level(<<If(m)>>, n, g)
  <2>1. /\ Args(id, m).k \in LevelKinds /\ Args(id, m).k # "store"
        /\ If(m).k \in LevelKinds /\ If(m).k # "store"
    BY DEF Args, If, LevelKinds, QuietKinds
  <2> QED BY <2>1, LevelOne
<1>4. ASSUME NEW id, \E k \in 1..n : id \in DOMAIN g.sc[k] PROVE Level(<<Store(id)>>, n, g)
  <2>1. Store(id).k \in LevelKinds /\ Store(id).id = id
    BY DEF Store, LevelKinds, QuietKinds
  <2> QED BY <1>4, <2>1, LevelOne
<1> QED BY <1>1, <1>2, <1>3, <1>4

LEMMA LevelTwo ==
    ASSUME NEW n, NEW g, NEW a, NEW b, Level(<<a>>, n, g), Level(<<b>>, n, g)
    PROVE  Level(<<a, b>>, n, g)
<1>1. Level(<<a>> \o <<b>>, n, g)
  BY LevelConcat
<1> QED BY <1>1, TwoAre

LEMMA LevelBody ==
    ASSUME NEW n, NEW g
    PROVE  Level(Body, n, g)
  BY LevelItems, LevelTwo DEF Body

LEMMA LevelExprs ==
    ASSUME NEW c \in Nat, NEW n, NEW g
    PROVE  Level([i \in 1..c |-> It("expr")], n, g)
<1> DEFINE q == [i \in 1..c |-> It("expr")]
<1>1. q \in [1..c -> {It("expr")}]
  OBVIOUS
<1>2. \A i \in 1..c : q[i] = It("expr")
  OBVIOUS
<1> HIDE DEF q
<1>3. q \in Seq({It("expr")}) /\ Len(q) = c
  BY <1>1, IsASeq, LenProperties
<1>4. It("expr").k \in LevelKinds /\ It("expr").k # "store"
  BY DEF It, LevelKinds, QuietKinds
<1>5. Level(q, n, g)
  BY <1>2, <1>3, <1>4 DEF Level, IsSeq
<1> QED BY <1>5 DEF q

(* They lead from a stage to any that comes after it at the same tables.   *)
LEMMA LevelCourse ==
    ASSUME NEW g, NEW x, NEW y, Fit(x, g), Fit(y, g), y.open = x.open,
           g.dom[y.at] \subseteq g.dom[x.at], NEW q, Level(q, x.open, g)
    PROVE  \E V : /\ Course(q, V, g) /\ V[Len(q)] = y /\ V[0].open = x.open
                  /\ g.dom[V[0].at] \subseteq g.dom[x.at] /\ (q # <<>> => V[0] = x)
<1> DEFINE n == Len(q)
           V == [i \in 0..n |-> IF i = n THEN y ELSE x]
<1>1. n \in Nat /\ (q # <<>> => n # 0)
  <2>1. IsSeq(q)
    BY DEF Level
  <2>2. PICK S : q \in Seq(S)
    BY <2>1 DEF IsSeq
  <2> QED BY <2>2
<1>2. \A i \in 0..n : V[i] = IF i = n THEN y ELSE x
  OBVIOUS
<1> HIDE DEF V
<1>3. \A i \in 0..n : Fit(V[i], g) /\ V[i].open = x.open
  BY <1>2
<1>4. ASSUME NEW i \in 1..n PROVE Way(q[i], V[i - 1], V[i], g)
  <2>1. q[i].k \in LevelKinds /\ (q[i].k = "store" => \E k \in 1..x.open : q[i].id \in DOMAIN g.sc[k])
    BY DEF Level
  <2>2. /\ Owes(q[i]) = 0 /\ q[i].k \notin {"join", "end define"}
        /\ q[i].k \notin {"then", "while", "repeat"}
    BY <2>1 DEF Owes, LevelKinds, QuietKinds
  <2>3. V[i - 1] = x /\ V[i] = IF i = n THEN y ELSE x
    <3>1. i - 1 \in 0..n /\ i - 1 # n /\ i \in 0..n
      BY <1>1
    <3> QED BY <1>2, <3>1
  <2>4. V[i].open = V[i - 1].open /\ g.dom[V[i].at] \subseteq g.dom[V[i - 1].at]
    BY <2>3
  <2> QED BY <2>1, <2>2, <2>3, <2>4 DEF Way
<1>5. \A i, j \in 0..n : i <= j => V[j].open <= V[i].open
  <2>1. x.open \in Nat
    BY DEF Fit
  <2> QED BY <1>3, <2>1
<1>6. Course(q, V, g)
  BY <1>3, <1>4, <1>5 DEF Course
<1>7. V[n] = y /\ V[0].open = x.open /\ g.dom[V[0].at] \subseteq g.dom[x.at] /\ (q # <<>> => V[0] = x)
  <2>1. n \in 0..n /\ 0 \in 0..n
    BY <1>1
  <2> QED BY <1>1, <1>2, <2>1
<1> QED BY <1>6, <1>7

(* One item.                                                               *)
LEMMA CourseOne ==
    ASSUME NEW g, NEW x, NEW y, Fit(x, g), Fit(y, g), y.open <= x.open,
           NEW it, Way(it, x, y, g)
    PROVE  \E V : Course(<<it>>, V, g) /\ V[0] = x /\ V[Len(<<it>>)] = y
<1> DEFINE q == <<it>>
           V == [i \in 0..1 |-> IF i = 0 THEN x ELSE y]
<1>1. Len(q) = 1 /\ q[1] = it /\ V[0] = x /\ V[1] = y
  OBVIOUS
<1> HIDE DEF q, V
<1>2. x.open \in Nat /\ y.open \in Nat
  BY DEF Fit
<1>3. \A i, j \in 0..1 : i <= j => V[j].open <= V[i].open
  <2> TAKE i, j \in 0..1
  <2>1. (i = 0 \/ i = 1) /\ (j = 0 \/ j = 1)
    OBVIOUS
  <2> QED BY <1>1, <1>2, <2>1
<1>4. \A i \in 0..1 : Fit(V[i], g)
  <2> TAKE i \in 0..1
  <2>1. i = 0 \/ i = 1
    OBVIOUS
  <2> QED BY <1>1, <2>1
<1>5. \A i \in 1..1 : Way(q[i], V[i - 1], V[i], g)
  <2> TAKE i \in 1..1
  <2>1. i = 1 /\ i - 1 = 0
    OBVIOUS
  <2> QED BY <1>1, <2>1
<1>6. Course(q, V, g)
  BY <1>1, <1>3, <1>4, <1>5 DEF Course
<1> QED BY <1>1, <1>6 DEF q

(* Two courses, one where the other ends.                                  *)
LEMMA CourseBoth ==
    ASSUME NEW g, NEW p, NEW q, IsSeq(p), IsSeq(q), NEW V, NEW W,
           Course(p, V, g), Course(q, W, g), V[Len(p)] = W[0]
    PROVE  \E U : Course(p \o q, U, g) /\ U[0] = V[0] /\ U[Len(p \o q)] = W[Len(q)]
<1> DEFINE U == [i \in 0..Len(p)+Len(q) |-> IF i <= Len(p) THEN V[i] ELSE W[i - Len(p)]]
<1>1. U = [i \in 0..Len(p)+Len(q) |-> IF i <= Len(p) THEN V[i] ELSE W[i - Len(p)]]
  OBVIOUS
<1> HIDE DEF U
<1>2. Course(p \o q, U, g) /\ U[0] = V[0] /\ U[Len(p \o q)] = W[Len(q)]
  BY <1>1, CourseConcat
<1> QED BY <1>2

(* The graph.                                                              *)

LEMMA GraphGrown ==
    ASSUME NEW g, NEW h, Extends_(g, h), Graph(g), Home(g.bs),
           \A b \in Len(g.bs)+1..Len(h.bs) : Placed(b, h),
           \A b \in 1..Len(h.bs) : \A i \in 1..Len(h.bs[b].code) :
              Fair(i, b, h) \/ (b <= Len(g.bs) /\ i <= Len(g.bs[b].code))
    PROVE  Graph(h)
<1> DEFINE n == Len(g.bs)
           m == Len(h.bs)
<1>1. /\ n \in Nat /\ m \in Nat /\ n <= m
      /\ \A b \in 1..n : h.bs[b].fn = g.bs[b].fn /\ h.dom[b] = g.dom[b] /\ Prefix(g.bs[b].code, h.bs[b].code)
  BY DEF Extends_
<1>2. ASSUME NEW b \in 1..n PROVE Placed(b, h)
  <2>1. b \in g.dom[b] /\ g.dom[b] \subseteq Near(g.bs, g.bs[b].fn)
        /\ (IsFront(g.bs, g.bs[b].fn, b) => g.dom[b] = {b})
    BY DEF Graph, Placed
  <2>2. Near(g.bs, g.bs[b].fn) \subseteq Near(h.bs, h.bs[b].fn)
    BY <1>1 DEF Near
  <2>3. b \in Near(g.bs, g.bs[b].fn)
    BY DEF Near
  <2>4. IsFront(h.bs, h.bs[b].fn, b) => IsFront(g.bs, g.bs[b].fn, b)
    BY <2>2, <2>3 DEF IsFront
  <2> QED BY <1>1, <2>1, <2>2, <2>4 DEF Placed
<1>3. ASSUME NEW b \in 1..n, NEW i \in 1..Len(g.bs[b].code) PROVE Fair(i, b, h)
  <2> DEFINE instr == g.bs[b].code[i]
  <2>1. h.bs[b].code[i] = instr
    BY <1>1 DEF Prefix
  <2>2. AtHome(instr, g.bs[b].fn, Near(g.bs, g.bs[b].fn)) /\ Fair(i, b, g)
    BY DEF Home, AllAtHome, Graph
  <2>3. \A d \in instr.to : d \in 1..n
    BY <2>2 DEF AtHome, Near
  <2>4. \A d \in instr.to : Below(d, b, g)
    BY <2>2 DEF Fair
  <2>5. Valid(instr.var, b, g) /\ (instr.var.block = b => instr.var.at <= i)
    BY <2>2 DEF Fair
  <2> HIDE DEF instr
  <2>6. \A d \in instr.to : Below(d, b, h)
    BY <2>3, <2>4, JumpKept
  <2>7. Valid(instr.var, b, h)
    BY <2>5, ValidKept
  <2> QED BY <2>1, <2>5, <2>6, <2>7 DEF Fair
<1>4. ASSUME NEW b \in 1..m PROVE Placed(b, h)
  <2>1. b \in 1..n \/ b \in n+1..m
    BY <1>1
  <2> QED BY <1>2, <2>1
<1>5. ASSUME NEW b \in 1..m, NEW i \in 1..Len(h.bs[b].code) PROVE Fair(i, b, h)
  <2>1. CASE b <= n /\ i <= Len(g.bs[b].code)
    <3>1. b \in 1..n
      BY <1>1, <2>1
    <3>2. Len(g.bs[b].code) \in Nat /\ Len(h.bs[b].code) \in Nat
      BY <1>1, <3>1 DEF Prefix
    <3>3. i \in 1..Len(g.bs[b].code)
      BY <2>1, <3>2
    <3> QED BY <1>3, <3>1, <3>3
  <2> QED BY <2>1
<1> QED BY <1>4, <1>5 DEF Graph

(* A prefix.                                                               *)
LEMMA PrefixConcat ==
    ASSUME NEW p, NEW q, IsSeq(p), IsSeq(q)
    PROVE  Prefix(p, p) /\ Prefix(p, p \o q)
<1>1. /\ Len(p) \in Nat /\ Len(q) \in Nat /\ Len(p \o q) = Len(p) + Len(q)
      /\ \A i \in 1..Len(p) : (p \o q)[i] = p[i]
  BY SeqConcat
<1> DEFINE r == p \o q
<1> HIDE DEF r
<1>2. Prefix(p, r)
  BY <1>1 DEF Prefix, r
<1> QED BY <1>1, <1>2 DEF Prefix, r

(* The invariant.                                                          *)

(* A global has no alloca: the entries of the first table are None.        *)
Tabled(g) == IsSeq(g.sc) /\ g.sc # <<>> /\ \A id \in DOMAIN g.sc[1] : g.sc[1][id] = None

(* The builder is at the first stage, or where all before it is passed,    *)
(* and the last stage has the first table only.                            *)
Standing(q, W, p, g) ==
    /\ Course(q, W, g) /\ W[0].open = Len(g.sc) /\ W[Len(q)].open = 1
    /\ g.dom[W[0].at] \subseteq g.dom[p]

(* The bodies of loops whose condition is still to be compiled.            *)
Pending(q, L) == \A l \in L : \E i \in 1..Len(q) : q[i].k = "while" /\ q[i].body = l

(* g is a view of the module and of the tables as they are.                *)
PlaceInv(g) ==
    /\ g.bs = blocks /\ g.sc = scopes /\ g.f = owner /\ Graph(g)
    /\ outcome = "none" => Pending(todo, g.loops \ loops)
    /\ outcome = "none" /\ top # 0 => Tabled(g) /\ (todo = <<>> => Len(g.sc) = 1)
    /\ outcome = "none" /\ todo # <<>> => \E W : Standing(todo, W, ip, g)
    /\ outcome = "printed" => g.loops \subseteq loops
DomInv == \E g : PlaceInv(g)

(* Code and blocks that are added to a view.                               *)

LEMMA Types ==
    ASSUME NEW bs, AreBlocks(bs), NEW b \in 1..Len(bs)
    PROVE  IsSeq(bs[b].code) /\ Len(bs[b].code) \in Nat /\ bs[b].fn \in Names
<1>1. IsSeq(bs[b].code) /\ bs[b].fn \in Names
  BY BlocksType
<1>2. PICK S : bs[b].code \in Seq(S)
  BY <1>1 DEF IsSeq
<1> QED BY <1>1, <1>2

(* An instruction is added to a block.                                     *)
Single(code) == IsSeq(code) /\ Len(code) = 1

LEMMA SingleInstr == \A i : Single(<< i >>) /\ << i >>[1] = i
  BY SeqOne DEF Single

LEMMA EmitCode ==
    ASSUME NEW bs, AreBlocks(bs), NEW p \in 1..Len(bs), NEW one, Single(one),
           NEW cs, cs = Append_(bs, p, one), NEW n, n = Len(bs[p].code)
    PROVE  /\ AreBlocks(cs) /\ Len(cs) = Len(bs) /\ Len(bs) \in Nat
           /\ n \in Nat /\ Len(cs[p].code) = n + 1 /\ cs[p].code[n + 1] = one[1]
           /\ \A c \in 1..Len(bs) : cs[c].fn = bs[c].fn /\ Prefix(bs[c].code, cs[c].code)
           /\ \A c \in 1..Len(bs) : c # p => cs[c].code = bs[c].code
<1>1. IsSeq(one) /\ Len(one) = 1
  BY DEF Single
<1>2. AreBlocks(bs) /\ p \in 1..Len(bs) /\ IsSeq(one) /\ cs = Append_(bs, p, one)
  BY <1>1
<1>3. /\ AreBlocks(cs) /\ Len(cs) = Len(bs)
      /\ \A c \in 1..Len(bs) : cs[c].fn = bs[c].fn
      /\ \A c \in 1..Len(bs) : c # p => cs[c].code = bs[c].code
      /\ cs[p].code = bs[p].code \o one
  BY ONLY <1>2, AppendCode
<1>4. Len(bs) \in Nat /\ IsSeq(bs[p].code) /\ n \in Nat
  BY <1>2, BlocksType, Types
<1>5. PICK old, new : /\ old = bs[p].code /\ new = cs[p].code
                      /\ IsSeq(old) /\ Len(old) = n /\ new = old \o one
  BY <1>3, <1>4
<1>6. /\ Len(new) = n + 1
      /\ \A i \in n+1..n+1 : new[i] = one[i - n]
  <2>1. /\ Len(old \o one) = Len(old) + Len(one)
        /\ \A i \in Len(old)+1..Len(old)+Len(one) : (old \o one)[i] = one[i - Len(old)]
    BY ONLY <1>1, <1>5, SeqConcat
  <2> QED BY ONLY <1>1, <1>5, <2>1
<1>7. new[n + 1] = one[1]
  <2>1. n + 1 \in n+1..n+1 /\ (n + 1) - n = 1
    BY <1>4
  <2> QED BY <1>1, <1>6, <2>1
<1>8. ASSUME NEW c \in 1..Len(bs) PROVE Prefix(bs[c].code, cs[c].code)
  <2>1. IsSeq(bs[c].code)
    BY <1>2, Types
  <2>2. CASE c = p
    <3>1. Prefix(old, new)
      BY <1>1, <1>5, PrefixConcat
    <3> QED BY <1>5, <2>2, <3>1
  <2>3. CASE c # p
    <3>1. cs[c].code = bs[c].code
      BY <1>3, <2>3
    <3>2. Prefix(bs[c].code, bs[c].code)
      BY <1>1, <2>1, PrefixConcat
    <3> QED BY <3>1, <3>2
  <2> QED BY <2>2, <2>3
<1> QED BY <1>3, <1>4, <1>5, <1>6, <1>7, <1>8

LEMMA EmitView ==
    ASSUME NEW g, AreBlocks(g.bs), NEW p \in 1..Len(g.bs), NEW one, Single(one),
           NEW h, h.bs = Append_(g.bs, p, one), h.dom = g.dom, g.loops \subseteq h.loops,
           NEW n, n = Len(g.bs[p].code)
    PROVE  /\ Extends_(g, h) /\ AreBlocks(h.bs) /\ Len(h.bs) = Len(g.bs)
           /\ n \in Nat /\ Len(h.bs[p].code) = n + 1 /\ h.bs[p].code[n + 1] = one[1]
           /\ \A c \in 1..Len(g.bs) : c # p => h.bs[c].code = g.bs[c].code
           /\ Graph(g) /\ Home(g.bs) /\ Fair(n + 1, p, h) => Graph(h)
<1>1. PICK bs, cs : bs = g.bs /\ cs = h.bs
  OBVIOUS
<1>2. /\ AreBlocks(bs) /\ p \in 1..Len(bs) /\ cs = Append_(bs, p, one)
      /\ n = Len(bs[p].code) /\ Single(one)
  BY <1>1
<1>3. /\ AreBlocks(cs) /\ Len(cs) = Len(bs) /\ Len(bs) \in Nat
      /\ n \in Nat /\ Len(cs[p].code) = n + 1 /\ cs[p].code[n + 1] = one[1]
      /\ \A c \in 1..Len(bs) : cs[c].fn = bs[c].fn /\ Prefix(bs[c].code, cs[c].code)
      /\ \A c \in 1..Len(bs) : c # p => cs[c].code = bs[c].code
  BY ONLY <1>2, EmitCode
<1>4. Extends_(g, h)
  <2>1. Len(h.bs) = Len(g.bs) /\ Len(g.bs) \in Nat
    BY <1>1, <1>3
  <2>2. \A b \in 1..Len(g.bs) : h.bs[b].fn = g.bs[b].fn /\ Prefix(g.bs[b].code, h.bs[b].code)
    BY <1>1, <1>3
  <2> QED BY <2>1, <2>2 DEF Extends_
<1>5. ASSUME Graph(g), Home(g.bs), Fair(n + 1, p, h) PROVE Graph(h)
  <2>1. \A b \in Len(g.bs)+1..Len(h.bs) : Placed(b, h)
    BY <1>1, <1>3
  <2>2. ASSUME NEW b \in 1..Len(bs), NEW i \in 1..Len(cs[b].code)
        PROVE  Fair(i, b, h) \/ (b <= Len(bs) /\ i <= Len(bs[b].code))
    <3>1. CASE b # p
      <4>1. cs[b].code = bs[b].code
        BY <1>3, <3>1
      <4>2. Len(bs[b].code) \in Nat
        BY <1>2, Types
      <4> QED BY <1>3, <4>1, <4>2
    <3>2. CASE b = p
      <4>1. i = n + 1 \/ i <= n
        BY <1>3, <3>2
      <4> QED BY <1>2, <1>3, <1>5, <3>2, <4>1
    <3> QED BY <3>1, <3>2
  <2>3. \A b \in 1..Len(h.bs) : \A i \in 1..Len(h.bs[b].code) :
           Fair(i, b, h) \/ (b <= Len(g.bs) /\ i <= Len(g.bs[b].code))
    BY <1>1, <1>3, <2>2
  <2> QED BY <1>4, <1>5, <2>1, <2>3, GraphGrown
<1> QED BY <1>1, <1>3, <1>4, <1>5

(* An instruction that jumps to blocks below it, or uses a variable that   *)
(* it may use.                                                             *)
LEMMA UseView ==
    ASSUME NEW g, AreBlocks(g.bs), Home(g.bs), Graph(g), NEW p \in 1..Len(g.bs), NEW one, Single(one),
           \A d \in one[1].to : d \in 1..Len(g.bs) /\ Below(d, p, g), Valid(one[1].var, p, g),
           NEW h, h.bs = Append_(g.bs, p, one), h.dom = g.dom, g.loops \subseteq h.loops
    PROVE  Extends_(g, h) /\ Graph(h) /\ AreBlocks(h.bs) /\ Len(h.bs) = Len(g.bs)
<1>1. PICK n : n = Len(g.bs[p].code)
  OBVIOUS
<1>2. /\ Extends_(g, h) /\ AreBlocks(h.bs) /\ Len(h.bs) = Len(g.bs)
      /\ n \in Nat /\ Len(h.bs[p].code) = n + 1 /\ h.bs[p].code[n + 1] = one[1]
      /\ Graph(g) /\ Home(g.bs) /\ Fair(n + 1, p, h) => Graph(h)
  <2>1. /\ AreBlocks(g.bs) /\ p \in 1..Len(g.bs) /\ h.bs = Append_(g.bs, p, one)
        /\ Single(one) /\ h.dom = g.dom /\ g.loops \subseteq h.loops
    OBVIOUS
  <2> QED BY ONLY <1>1, <2>1, EmitView
<1>3. \A d \in one[1].to : Below(d, p, h)
  BY <1>2, JumpKept
<1>4. Valid(one[1].var, p, h)
  BY <1>2, ValidKept
<1>5. one[1].var.block = p => one[1].var.at <= n + 1
  <2>1. ASSUME one[1].var.block = p PROVE one[1].var.at \in 1..n
    <3>1. p # 0
      OBVIOUS
    <3> QED BY <1>1, <2>1, <3>1 DEF Valid
  <2> QED BY <1>2, <2>1
<1>6. Fair(n + 1, p, h)
  BY <1>2, <1>3, <1>4, <1>5 DEF Fair
<1> QED BY <1>2, <1>6

(* A variable is allocated.                                                *)
LEMMA AllocaView ==
    ASSUME NEW g, AreBlocks(g.bs), Home(g.bs), Graph(g), NEW p \in 1..Len(g.bs),
           NEW one, Single(one), NEW var, var.block = p, var.at = Len(g.bs[p].code) + 1,
           one[1].op = "alloca", one[1].var = var, one[1].to = {},
           NEW h, h.bs = Append_(g.bs, p, one), h.dom = g.dom, g.loops \subseteq h.loops
    PROVE  Extends_(g, h) /\ Graph(h) /\ Valid(var, p, h)
<1>1. PICK n : n = Len(g.bs[p].code)
  OBVIOUS
<1>2. /\ Extends_(g, h) /\ AreBlocks(h.bs) /\ Len(h.bs) = Len(g.bs)
      /\ n \in Nat /\ Len(h.bs[p].code) = n + 1 /\ h.bs[p].code[n + 1] = one[1]
      /\ Graph(g) /\ Home(g.bs) /\ Fair(n + 1, p, h) => Graph(h)
  <2>1. /\ AreBlocks(g.bs) /\ p \in 1..Len(g.bs) /\ h.bs = Append_(g.bs, p, one)
        /\ Single(one) /\ h.dom = g.dom /\ g.loops \subseteq h.loops
    OBVIOUS
  <2> QED BY ONLY <1>1, <2>1, EmitView
<1>3. p \in h.dom[p]
  BY DEF Graph, Placed
<1>4. Valid(var, p, h)
  <2>1. var.at = n + 1 /\ n + 1 \in 1..Len(h.bs[p].code)
    BY <1>1, <1>2
  <2>2. h.bs[var.block].code[var.at].op = "alloca"
    BY <1>2, <2>1
  <2> QED BY <1>2, <1>3, <2>1, <2>2 DEF Valid
<1>5. Fair(n + 1, p, h)
  <2>1. var.at <= n + 1
    BY <1>1, <1>2
  <2> QED BY <1>2, <1>4, <2>1 DEF Fair
<1> QED BY <1>2, <1>4, <1>5

(* The block p is ended by a jump to new blocks, for which it is passed.   *)
Opens(g, h, p, one, f, made, more, N) ==
    /\ AreBlocks(g.bs) /\ Home(g.bs) /\ Graph(g) /\ p \in 1..Len(g.bs) /\ Single(one)
    /\ one[1].var = None /\ f = g.bs[p].fn /\ made = Append_(g.bs, p, one) /\ more = New(3, f)
    /\ h.bs = made \o more /\ N = Len(g.bs)
    /\ \A b \in 1..N : h.dom[b] = g.dom[b]
    /\ \A b \in N+1..N+3 : b \in h.dom[b] /\ h.dom[b] \subseteq g.dom[p] \union N+1..N+3
    /\ g.loops \subseteq h.loops /\ \A d \in one[1].to : Below(d, p, h)

LEMMA OpenView ==
    ASSUME NEW g, NEW h, NEW p, NEW one, NEW f, NEW made, NEW more, NEW N,
           Opens(g, h, p, one, f, made, more, N)
    PROVE  /\ Extends_(g, h) /\ Graph(h) /\ AreBlocks(h.bs) /\ Len(h.bs) = N + 3
           /\ \A b \in N+1..N+3 : h.bs[b].fn = f
<1>0. /\ AreBlocks(g.bs) /\ Home(g.bs) /\ Graph(g) /\ p \in 1..Len(g.bs) /\ Single(one)
      /\ one[1].var = None /\ f = g.bs[p].fn /\ made = Append_(g.bs, p, one) /\ more = New(3, f)
      /\ h.bs = made \o more /\ N = Len(g.bs)
      /\ \A b \in 1..N : h.dom[b] = g.dom[b]
      /\ \A b \in N+1..N+3 : b \in h.dom[b] /\ h.dom[b] \subseteq g.dom[p] \union N+1..N+3
      /\ g.loops \subseteq h.loops /\ \A d \in one[1].to : Below(d, p, h)
  BY DEF Opens
<1> USE <1>0
<1>1. PICK bs, cs, n, three : bs = g.bs /\ cs = h.bs /\ n = Len(bs[p].code) /\ three = 3
  OBVIOUS
<1>2. /\ AreBlocks(bs) /\ p \in 1..Len(bs) /\ cs = made \o New(three, f)
      /\ made = Append_(bs, p, one) /\ Single(one) /\ n = Len(bs[p].code) /\ f = bs[p].fn /\ N = Len(bs)
  BY <1>1
<1>3. /\ AreBlocks(cs) /\ Len(cs) = N + 3 /\ N \in Nat
      /\ n \in Nat /\ Len(cs[p].code) = n + 1 /\ cs[p].code[n + 1] = one[1]
      /\ \A c \in 1..N : cs[c].fn = bs[c].fn /\ Prefix(bs[c].code, cs[c].code)
      /\ \A c \in 1..N : c # p => cs[c].code = bs[c].code
      /\ \A c \in N+1..N+3 : cs[c].fn = f /\ cs[c].code = <<>>
  <2>1. /\ AreBlocks(made) /\ Len(made) = N /\ N \in Nat
        /\ n \in Nat /\ Len(made[p].code) = n + 1 /\ made[p].code[n + 1] = one[1]
        /\ \A c \in 1..N : made[c].fn = bs[c].fn /\ Prefix(bs[c].code, made[c].code)
        /\ \A c \in 1..N : c # p => made[c].code = bs[c].code
    <3>1. /\ AreBlocks(bs) /\ p \in 1..Len(bs) /\ Single(one)
          /\ made = Append_(bs, p, one) /\ n = Len(bs[p].code)
      BY <1>2
    <3> QED BY ONLY <1>2, <3>1, EmitCode
  <2>2. AreBlocks(made) /\ f \in Names /\ three \in Nat
    BY <1>1, <1>2, <2>1, Types
  <2>3. /\ AreBlocks(made \o New(three, f)) /\ Len(made \o New(three, f)) = Len(made) + three
        /\ \A c \in 1..Len(made) : (made \o New(three, f))[c] = made[c]
        /\ \A c \in Len(made)+1..Len(made)+three : (made \o New(three, f))[c] = Block(f)
    BY ONLY <2>2, AddBlocks
  <2>4. /\ AreBlocks(cs) /\ Len(cs) = N + 3
        /\ \A c \in 1..N : cs[c] = made[c]
        /\ \A c \in N+1..N+3 : cs[c] = Block(f)
    BY ONLY <1>1, <1>2, <2>1, <2>3
  <2>5. Block(f).fn = f /\ Block(f).code = <<>>
    BY DEF Block
  <2>6. \A c \in N+1..N+3 : cs[c].fn = f /\ cs[c].code = <<>>
    BY <2>4, <2>5
  <2>7. p \in 1..N
    BY <1>2
  <2> QED BY ONLY <2>1, <2>4, <2>6, <2>7
<1>4. Extends_(g, h)
  <2>1. Len(h.bs) = N + 3 /\ Len(g.bs) = N /\ N \in Nat
    BY <1>1, <1>3
  <2>2. \A b \in 1..N : h.bs[b].fn = g.bs[b].fn /\ Prefix(g.bs[b].code, h.bs[b].code)
    BY <1>1, <1>3
  <2> QED BY <2>1, <2>2 DEF Extends_
<1>5. ASSUME NEW b \in N+1..N+3 PROVE Placed(b, h)
  <2>1. cs[b].fn = f
    BY <1>3
  <2>2. g.dom[p] \subseteq Near(cs, f)
    <3>1. g.dom[p] \subseteq Near(bs, f)
      BY <1>1 DEF Graph, Placed
    <3>2. \A c \in 1..N : cs[c].fn = bs[c].fn
      BY <1>3
    <3>3. 1..N \subseteq 1..Len(cs) /\ Len(bs) = N
      BY <1>2, <1>3
    <3> QED BY <3>1, <3>2, <3>3 DEF Near
  <2>3. N+1..N+3 \subseteq Near(cs, f)
    BY <1>3 DEF Near
  <2>4. ~IsFront(cs, f, b)
    <3>1. p \in Near(cs, f)
      <4>1. p \in 1..N /\ N \in Nat /\ Len(cs) = N + 3 /\ f = bs[p].fn
        BY ONLY <1>2, <1>3
      <4>2. p \in 1..Len(cs)
        BY ONLY <4>1
      <4>3. cs[p].fn = bs[p].fn
        BY ONLY <1>3, <4>1
      <4> QED BY <4>1, <4>2, <4>3 DEF Near
    <3>2. ~(b <= p)
      BY <1>2, <1>3
    <3> QED BY <3>1, <3>2 DEF IsFront
  <2>5. h.dom[b] \subseteq Near(cs, f)
    BY <2>2, <2>3
  <2> QED BY <1>1, <2>1, <2>4, <2>5 DEF Placed
<1>6. ASSUME NEW b \in 1..N+3, NEW i \in 1..Len(cs[b].code)
      PROVE  Fair(i, b, h) \/ (b <= N /\ i <= Len(bs[b].code))
  <2>1. CASE b \in N+1..N+3
    <3>1. cs[b].code = <<>>
      BY <1>3, <2>1
    <3>2. Len(cs[b].code) = 0
      BY <3>1
    <3> QED BY <3>2
  <2>2. CASE b \in 1..N /\ b # p
    <3>1. cs[b].code = bs[b].code
      BY <1>3, <2>2
    <3>2. Len(bs[b].code) \in Nat
      BY <1>2, <2>2, Types
    <3> QED BY <1>3, <2>2, <3>1, <3>2
  <2>3. CASE b = p
    <3>1. i = n + 1 \/ i <= n
      BY <1>3, <2>3
    <3>2. CASE i = n + 1
      <4>1. h.bs[b].code[i] = one[1]
        BY <1>1, <1>3, <2>3, <3>2
      <4>2. None.block = 0
        BY DEF None
      <4>3. b # 0
        BY <1>3
      <4> QED BY <2>3, <4>1, <4>2, <4>3 DEF Fair, Valid
    <3> QED BY <1>2, <1>3, <2>3, <3>1, <3>2
  <2> QED BY <1>3, <2>1, <2>2, <2>3
<1>7. Graph(h)
  <2>1. \A b \in Len(g.bs)+1..Len(h.bs) : Placed(b, h)
    BY <1>1, <1>3, <1>5
  <2>2. \A b \in 1..Len(h.bs) : \A i \in 1..Len(h.bs[b].code) :
           Fair(i, b, h) \/ (b <= Len(g.bs) /\ i <= Len(g.bs[b].code))
    BY <1>1, <1>3, <1>6
  <2> QED BY <1>4, <2>1, <2>2, GraphGrown
<1> QED BY <1>1, <1>3, <1>4, <1>7

(* Where a step begins.                                                    *)

(* The stage an item is reached at may be put further.                     *)
LEMMA WayRaised ==
    ASSUME NEW g, NEW x, NEW y, NEW z, g.dom[x.at] \subseteq g.dom[z.at], z.open = x.open,
           NEW it, Way(it, x, y, g)
    PROVE  Way(it, z, y, g)
<1>1. /\ y.open = IF it.k \in {"join", "end define"} THEN z.open - 1 ELSE z.open
      /\ it.k = "store" => \E k \in 1..z.open : it.id \in DOMAIN g.sc[k]
      /\ it.k = "then" => Below(it.exit, it.b, g)
  BY DEF Way
<1>2. g.dom[y.at] \subseteq g.dom[IF Owes(it) = 0 THEN z.at ELSE Owes(it)]
  BY DEF Way
<1>3. it.k = "join" => Below(it.exit, z.at, g)
  BY BelowBelow DEF Way
<1>4. it.k = "while" => Below(it.body, z.at, g) /\ Below(it.exit, z.at, g)
  BY BelowBelow DEF Way
<1>5. it.k = "repeat" => Below(it.cond, z.at, g) /\ Inside(z.at, g)
  BY BelowBelow, InsideBelow DEF Way
<1> QED BY <1>1, <1>2, <1>3, <1>4, <1>5 DEF Way

LEMMA FitRaised ==
    ASSUME NEW g, NEW x, NEW z, g.dom[x.at] \subseteq g.dom[z.at], z.open = x.open,
           z.at \in Near(g.bs, g.f), Fit(x, g)
    PROVE  Fit(z, g)
<1>1. x.at \in Near(g.bs, g.f) /\ x.open \in Nat /\ x.open <= Len(g.sc)
  BY DEF Fit
<1>2. g.bs[x.at].fn = g.bs[z.at].fn
  BY <1>1 DEF Near
<1>3. ASSUME NEW k \in 2..x.open, NEW id \in DOMAIN g.sc[k] PROVE Valid(g.sc[k][id], z.at, g)
  <2>1. Valid(g.sc[k][id], x.at, g)
    BY DEF Fit
  <2> QED BY <1>2, <2>1, ValidBelow
<1> QED BY <1>1, <1>3 DEF Fit

(* The first stages of a course are put at a block p that the course is    *)
(* reached at.                                                             *)
LEMMA CourseRaised ==
    ASSUME NEW g, NEW q, IsSeq(q), NEW W, Course(q, W, g), NEW p \in Near(g.bs, g.f),
           NEW m \in 0..Len(q), \A i \in 0..m : g.dom[W[i].at] \subseteq g.dom[p],
           \A i \in 1..m : Owes(q[i]) = 0,
           NEW V, \A i \in 0..Len(q) : V[i] = IF i <= m THEN [at |-> p, open |-> W[i].open] ELSE W[i]
    PROVE  Course(q, V, g)
<1> DEFINE n == Len(q)
<1>1. n \in Nat /\ m \in Nat /\ m <= n
  BY DEF IsSeq
<1>2. \A i \in 0..n : V[i].open = W[i].open /\ (i <= m => V[i].at = p) /\ (i > m => V[i] = W[i])
  <2> TAKE i \in 0..n
  <2>1. CASE i <= m
    <3>1. V[i] = [at |-> p, open |-> W[i].open] /\ ~(i > m)
      BY <1>1, <2>1
    <3> QED BY <3>1
  <2>2. CASE ~(i <= m)
    BY <2>2
  <2> QED BY <2>1, <2>2
<1>3. /\ \A i \in 0..n : Fit(W[i], g)
      /\ \A i \in 1..n : Way(q[i], W[i - 1], W[i], g)
      /\ \A i, j \in 0..n : i <= j => W[j].open <= W[i].open
  BY DEF Course
<1>4. \A i \in 0..n : g.dom[W[i].at] \subseteq g.dom[V[i].at]
  BY <1>1, <1>2
<1>5. ASSUME NEW i \in 0..n PROVE Fit(V[i], g)
  <2>1. V[i].at \in Near(g.bs, g.f)
    BY <1>1, <1>2, <1>3 DEF Fit
  <2> QED BY <1>2, <1>3, <1>4, <2>1, FitRaised
<1>6. ASSUME NEW i \in 1..n PROVE Way(q[i], V[i - 1], V[i], g)
  <2>1. i - 1 \in 0..n /\ i \in 0..n
    BY <1>1
  <2>2. Way(q[i], V[i - 1], W[i], g)
    BY <1>2, <1>3, <1>4, <2>1, WayRaised
  <2>3. CASE i <= m
    <3>1. i \in 1..m /\ i - 1 <= m
      BY <1>1, <2>3
    <3>2. Owes(q[i]) = 0 /\ V[i].at = p /\ V[i - 1].at = p /\ V[i].open = W[i].open
      BY <1>2, <2>1, <3>1
    <3> QED BY <2>2, <3>2 DEF Way
  <2>4. CASE i > m
    BY <1>2, <2>1, <2>2, <2>4
  <2> QED BY <1>1, <2>3, <2>4
<1>7. \A i, j \in 0..n : i <= j => V[j].open <= V[i].open
  BY <1>2, <1>3
<1> QED BY <1>5, <1>6, <1>7 DEF Course

(* So is the one where the builder is.                                     *)
LEMMA AtStage ==
    ASSUME NEW g, NEW q, IsSeq(q), q # <<>>, NEW p \in Near(g.bs, g.f), NEW W, Standing(q, W, p, g)
    PROVE  \E V : /\ Standing(q, V, p, g) /\ V[0].at = p /\ V[0].open = Len(g.sc)
                  /\ \A i \in 1..Len(q) : V[i] = W[i]
<1> DEFINE n == Len(q)
           V == [i \in 0..n |-> IF i <= 0 THEN [at |-> p, open |-> W[i].open] ELSE W[i]]
<1>1. n \in Nat \ {0}
  BY SeqTail
<1>2. \A i \in 0..n : V[i] = IF i <= 0 THEN [at |-> p, open |-> W[i].open] ELSE W[i]
  OBVIOUS
<1> HIDE DEF V
<1>3. V[0] = [at |-> p, open |-> Len(g.sc)] /\ \A i \in 1..n : V[i] = W[i]
  <2>1. 0 \in 0..n /\ 0 <= 0 /\ \A i \in 1..n : i \in 0..n /\ ~(i <= 0)
    BY <1>1
  <2>2. W[0].open = Len(g.sc)
    BY DEF Standing
  <2>3. V[0] = [at |-> p, open |-> W[0].open]
    BY <1>2, <2>1
  <2> QED BY <1>2, <2>1, <2>2, <2>3
<1>4. Course(q, V, g)
  <2>1. \A i \in 0..0 : g.dom[W[i].at] \subseteq g.dom[p]
    BY DEF Standing
  <2>2. \A i \in 1..0 : Owes(q[i]) = 0
    OBVIOUS
  <2>3. 0 \in 0..Len(q) /\ Course(q, W, g)
    BY <1>1 DEF Standing
  <2> QED BY <1>2, <2>1, <2>2, <2>3, CourseRaised
<1>5. Standing(q, V, p, g)
  <2>1. W[n].open = 1
    BY DEF Standing
  <2> QED BY <1>1, <1>3, <1>4, <2>1 DEF Standing
<1> QED BY <1>3, <1>5

(* The bodies that are left when an item is done.                          *)
LEMMA PendingMoves ==
    ASSUME NEW q, IsSeq(q), q # <<>>, NEW items, IsSeq(items), NEW L, NEW M, Pending(q, L),
           \A l \in M : \/ l \in L /\ ~(Head(q).k = "while" /\ Head(q).body = l)
                        \/ \E i \in 1..Len(items) : items[i].k = "while" /\ items[i].body = l
    PROVE  Pending(items \o Tail(q), M)
<1> DEFINE r  == Tail(q)
           qs == items \o r
<1>1. /\ Len(q) \in Nat \ {0} /\ IsSeq(r) /\ Len(r) = Len(q) - 1 /\ Head(q) = q[1]
      /\ \A i \in 1..Len(q)-1 : r[i] = q[i + 1]
  BY SeqTail
<1>2. /\ Len(items) \in Nat /\ Len(qs) = Len(items) + Len(r)
      /\ \A i \in 1..Len(items) : qs[i] = items[i]
      /\ \A i \in Len(items)+1..Len(items)+Len(r) : qs[i] = r[i - Len(items)]
  BY <1>1, SeqConcat
<1> HIDE DEF r, qs
<1>3. ASSUME NEW l \in M PROVE \E i \in 1..Len(qs) : qs[i].k = "while" /\ qs[i].body = l
  <2>1. CASE \E i \in 1..Len(items) : items[i].k = "while" /\ items[i].body = l
    BY <1>1, <1>2, <2>1
  <2>2. CASE l \in L /\ ~(Head(q).k = "while" /\ Head(q).body = l)
    <3>1. PICK i \in 1..Len(q) : q[i].k = "while" /\ q[i].body = l
      BY <2>2 DEF Pending
    <3>2. i # 1
      BY <1>1, <2>2, <3>1
    <3>3. i - 1 \in 1..Len(q)-1 /\ (i - 1) + 1 = i
      BY <1>1, <3>1, <3>2
    <3>4. r[i - 1] = q[i]
      BY <1>1, <3>3
    <3>5. Len(items) + (i - 1) \in Len(items)+1..Len(items)+Len(r)
          /\ (Len(items) + (i - 1)) - Len(items) = i - 1
      BY <1>1, <1>2, <3>3
    <3>6. qs[Len(items) + (i - 1)] = q[i] /\ Len(items) + (i - 1) \in 1..Len(qs)
      BY <1>1, <1>2, <3>4, <3>5
    <3> QED BY <3>1, <3>6
  <2> QED BY <2>1, <2>2
<1>4. Pending(qs, M)
  BY <1>3 DEF Pending
<1> QED BY <1>4 DEF qs, r

(* A step, in general.                                                     *)

LEMMA HereFacts ==
    ASSUME HomeInv, ClosedInv, Running, NEW g, PlaceInv(g)
    PROVE  /\ g.bs = blocks /\ g.sc = scopes /\ g.f = owner /\ Graph(g) /\ Tabled(g)
           /\ AreBlocks(g.bs) /\ Home(g.bs) /\ Len(g.bs) \in Nat /\ Len(g.sc) \in Nat
           /\ ip \in 1..Len(g.bs) /\ ip \in Near(g.bs, g.f) /\ g.f = g.bs[ip].fn
           /\ IsSeq(todo) /\ todo # <<>> /\ outcome = "none" /\ top # 0
           /\ \A i \in 1..Len(todo) : Targets(todo[i]) \subseteq Near(g.bs, g.f)
           /\ Pending(todo, g.loops \ loops)
<1>1. /\ g.bs = blocks /\ g.sc = scopes /\ g.f = owner /\ Graph(g)
      /\ outcome = "none" => Pending(todo, g.loops \ loops)
      /\ outcome = "none" /\ top # 0 => Tabled(g)
  BY DEF PlaceInv
<1>2. /\ outcome = "none" /\ todo # <<>> /\ AreBlocks(blocks) /\ Home(blocks) /\ Len(blocks) \in Nat
      /\ ip \in 1..Len(blocks) /\ ip \in Near(blocks, owner) /\ owner = blocks[ip].fn
      /\ Plan(todo, Near(blocks, owner), owner)
  BY InvFacts
<1>3. top # 0
  BY <1>2 DEF ClosedInv
<1>4. IsSeq(todo) /\ \A i \in 1..Len(todo) : Targets(todo[i]) \subseteq Near(blocks, owner)
  BY <1>2 DEF Plan
<1>5. Tabled(g)
  BY <1>1, <1>2, <1>3
<1>6. Len(g.sc) \in Nat
  <2>1. PICK S : g.sc \in Seq(S)
    BY <1>5 DEF Tabled, IsSeq
  <2> QED BY <2>1
<1> QED BY <1>1, <1>2, <1>3, <1>4, <1>5, <1>6

(* There is a course from the place of the builder.                        *)
LEMMA HereCourse ==
    ASSUME HomeInv, ClosedInv, Running, NEW g, PlaceInv(g)
    PROVE  \E W : Standing(todo, W, ip, g) /\ W[0].at = ip /\ W[0].open = Len(g.sc)
<1>1. /\ IsSeq(todo) /\ todo # <<>> /\ ip \in Near(g.bs, g.f) /\ outcome = "none"
  BY HereFacts
<1>2. PICK W : Standing(todo, W, ip, g)
  BY <1>1 DEF PlaceInv
<1>3. PICK q, p : q = todo /\ p = ip
  OBVIOUS
<1>4. IsSeq(q) /\ q # <<>> /\ p \in Near(g.bs, g.f) /\ Standing(q, W, p, g)
  BY <1>1, <1>2, <1>3
<1>5. \E V : /\ Standing(q, V, p, g) /\ V[0].at = p /\ V[0].open = Len(g.sc)
              /\ \A i \in 1..Len(q) : V[i] = W[i]
  BY ONLY <1>4, AtStage
<1> QED BY <1>3, <1>5

(* A step keeps the invariant if its items lead where the first one led.   *)
LEMMA StageStep ==
    ASSUME HomeInv, ClosedInv, Running, NEW g, PlaceInv(g),
           outcome' = outcome, owner' = owner,
           NEW items, IsSeq(items), Do(items),
           NEW h, h.bs = blocks', h.sc = scopes', h.f = owner',
           Extends_(g, h), Graph(h), Tabled(h),
           NEW W, Standing(todo, W, ip, g), Same(g, h, W[1].open),
           NEW V, Course(items, V, h), V[Len(items)] = W[1], V[0].open = Len(h.sc),
           h.dom[V[0].at] \subseteq h.dom[ip'],
           Pending(items \o Tail(todo), h.loops \ loops')
    PROVE  DomInv'
<1>1. /\ g.f = owner /\ IsSeq(todo) /\ todo # <<>> /\ outcome = "none"
      /\ \A i \in 1..Len(todo) : Targets(todo[i]) \subseteq Near(g.bs, g.f)
  BY HereFacts
<1>2. Course(todo, W, g) /\ W[Len(todo)].open = 1
  BY DEF Standing
<1>3. PICK U : /\ Course(items \o Tail(todo), U, h) /\ U[0] = V[0]
               /\ U[Len(items \o Tail(todo))] = W[Len(todo)]
  BY <1>1, <1>2, CourseGoesOn
<1>4. todo' = items \o Tail(todo)
  BY DEF Do
<1>5. Standing(todo', U, ip', h)
  BY <1>2, <1>3, <1>4 DEF Standing
<1>6. todo' = <<>> => Len(h.sc) = 1
  <2>1. ASSUME todo' = <<>> PROVE Len(todo') = 0
    BY <2>1
  <2> QED BY <1>2, <1>3, <1>4, <2>1
<1>7. PlaceInv(h)'
  <2>1. outcome' # "printed"
    BY <1>1
  <2> QED BY <1>4, <1>5, <1>6, <2>1 DEF PlaceInv
<1> QED BY <1>7 DEF DomInv

(* The steps of items that stay where they are: the tables and the place   *)
(* of the builder are kept.                                                *)
LEMMA LevelStep ==
    ASSUME HomeInv, ClosedInv, Running, Head(todo).k \in LevelKinds, NEW g, PlaceInv(g),
           outcome' = outcome, owner' = owner, scopes' = scopes, ip' = ip, loops' = loops,
           NEW h, h.bs = blocks', h.sc = scopes', h.f = owner', h.loops = g.loops,
           Extends_(g, h), Graph(h),
           NEW items, Do(items), Level(items, Len(scopes), g)
    PROVE  DomInv'
<1>1. /\ g.bs = blocks /\ g.sc = scopes /\ g.f = owner /\ Tabled(g) /\ Len(g.sc) \in Nat
      /\ ip \in 1..Len(g.bs) /\ IsSeq(todo) /\ todo # <<>> /\ outcome = "none"
      /\ Pending(todo, g.loops \ loops)
  BY HereFacts
<1>2. PICK W : Standing(todo, W, ip, g) /\ W[0].at = ip /\ W[0].open = Len(g.sc)
  BY HereCourse
<1>3. /\ Len(todo) \in Nat \ {0} /\ Head(todo) = todo[1]
  BY <1>1, SeqTail
<1>4. Fit(W[0], g) /\ Fit(W[1], g) /\ Way(Head(todo), W[0], W[1], g)
  <2>1. 0 \in 0..Len(todo) /\ 1 \in 0..Len(todo) /\ 1 \in 1..Len(todo) /\ 1 - 1 = 0
    BY <1>3
  <2>2. /\ \A i \in 0..Len(todo) : Fit(W[i], g)
        /\ \A i \in 1..Len(todo) : Way(todo[i], W[i - 1], W[i], g)
    BY <1>2 DEF Standing, Course
  <2> QED BY <1>3, <2>1, <2>2
<1>5. Owes(Head(todo)) = 0 /\ Head(todo).k \notin {"join", "end define", "while"}
  BY DEF Owes, LevelKinds, QuietKinds
<1>6. W[1].open = Len(g.sc) /\ g.dom[W[1].at] \subseteq g.dom[ip]
  <2>1. W[0].at = ip /\ W[0].open = Len(g.sc)
    BY <1>2
  <2>2. W[1].open = W[0].open /\ g.dom[W[1].at] \subseteq g.dom[W[0].at]
    BY <1>4, <1>5 DEF Way
  <2> QED BY <2>1, <2>2
<1>7. h.sc = g.sc /\ h.f = g.f
  BY <1>1
<1>8. \A n \in Nat : n <= Len(g.sc) => Same(g, h, n)
  BY <1>1, <1>7 DEF Same
<1>9. Fit(W[1], h) /\ Same(g, h, W[1].open)
  <2>1. Same(g, h, W[1].open)
    BY <1>1, <1>6, <1>8
  <2> QED BY <1>4, <1>7, <2>1, FitKept
<1>10. Tabled(h)
  BY <1>1, <1>7 DEF Tabled
<1>11. Level(items, W[1].open, h)
  BY <1>1, <1>6, <1>7 DEF Level
<1>12. PICK V : /\ Course(items, V, h) /\ V[Len(items)] = W[1] /\ V[0].open = W[1].open
                /\ h.dom[V[0].at] \subseteq h.dom[W[1].at]
  <2>1. PICK x : x = W[1]
    OBVIOUS
  <2>2. Fit(x, h) /\ Level(items, x.open, h) /\ h.dom[x.at] \subseteq h.dom[x.at] /\ x.open = x.open
    BY <1>9, <1>11, <2>1
  <2>3. \E V : /\ Course(items, V, h) /\ V[Len(items)] = x /\ V[0].open = x.open
                /\ h.dom[V[0].at] \subseteq h.dom[x.at] /\ (items # <<>> => V[0] = x)
    BY ONLY <2>2, LevelCourse
  <2> QED BY <2>1, <2>3
<1>13. h.dom[W[1].at] \subseteq h.dom[ip']
  <2>1. W[1].at \in 1..Len(g.bs)
    BY <1>4 DEF Fit, Near
  <2>2. h.dom[W[1].at] = g.dom[W[1].at] /\ h.dom[ip] = g.dom[ip]
    BY <1>1, <2>1 DEF Extends_
  <2> QED BY <1>6, <2>2
<1>14. Pending(items \o Tail(todo), h.loops \ loops')
  <2>1. IsSeq(items)
    BY DEF Level
  <2>2. \A l \in h.loops \ loops' : l \in g.loops \ loops /\ ~(Head(todo).k = "while" /\ Head(todo).body = l)
    BY <1>5
  <2> QED BY <1>1, <2>1, <2>2, PendingMoves
<1>15. IsSeq(items) /\ V[0].open = Len(h.sc) /\ h.dom[V[0].at] \subseteq h.dom[ip']
  <2>1. IsSeq(items)
    BY DEF Level
  <2> QED BY <1>6, <1>7, <1>12, <1>13, <2>1
<1> QED BY <1>2, <1>9, <1>10, <1>12, <1>14, <1>15, StageStep

(* The least number of a set.                                              *)

LEMMA NatMinimum ==
    ASSUME NEW T \in SUBSET Nat, T # {}
    PROVE  \E m \in T : \A n \in T : m <= n
<1> DEFINE Downs == {0..m : m \in T}
             R     == StrictSubsetOrdering(Nat)
<1>1. Downs \subseteq FiniteSubsetsOf(Nat) /\ Downs # {}
  <2>1. \A m \in T : IsFiniteSet(0..m) /\ 0..m \in SUBSET Nat
    BY FS_Interval
  <2> QED BY <2>1 DEF FiniteSubsetsOf
<1>2. PICK x \in Downs : \A y \in Downs : <<y, x>> \notin R
  <2> HIDE DEF Downs
  <2> QED BY <1>1, FS_StrictSubsetOrderingWellFounded, WFMin
<1>3. PICK m \in T : x = 0..m
    BY <1>2
<1>4. ASSUME NEW n \in T, ~(m <= n)
        PROVE  FALSE
  <2>1. n \in Nat /\ m \in Nat /\ n < m
    BY <1>4
  <2>2. 0..n \subseteq 0..m /\ m \in 0..m /\ m \notin 0..n
    BY <2>1
  <2>3. <<0..n, 0..m>> \in R
    BY <2>2, <2>1 DEF StrictSubsetOrdering
  <2> QED BY <1>2, <1>3, <2>3
<1> QED BY <1>3, <1>4

(* What holds of 0 and of the successor of each of its members holds of    *)
(* every number.                                                           *)
LEMMA Induction ==
    ASSUME NEW T, 0 \in T, \A n \in Nat : n \in T => n + 1 \in T
    PROVE  \A n \in Nat : n \in T
<1> SUFFICES ASSUME NEW k \in Nat, k \notin T
             PROVE  FALSE
  OBVIOUS
<1> DEFINE U == Nat \ T
<1>1. PICK n \in U : \A m \in U : n <= m
  <2>1. U \in SUBSET Nat /\ U # {}  OBVIOUS
  <2> HIDE DEF U
  <2> QED  BY <2>1, NatMinimum
<1>2. n # 0
  OBVIOUS
<1>3. n - 1 \in Nat /\ n - 1 \notin U
  BY <1>1, <1>2
<1> QED  BY <1>3

(* The steps of items that stay where they are.                            *)

Level_ == outcome' = outcome /\ owner' = owner /\ scopes' = scopes /\ ip' = ip /\ loops' = loops

LEMMA ExtendsSelf ==
    ASSUME NEW g, AreBlocks(g.bs)
    PROVE  Extends_(g, g)
<1>1. PICK bs : bs = g.bs
  OBVIOUS
<1>2. AreBlocks(bs)
  BY <1>1
<1>3. \A b \in 1..Len(bs) : IsSeq(bs[b].code) /\ Len(bs) \in Nat
  BY <1>2, BlocksType
<1>4. \A b \in 1..Len(bs) : Prefix(bs[b].code, bs[b].code)
  BY <1>3, PrefixConcat
<1>5. Len(bs) \in Nat
  BY <1>2, BlocksType
<1> QED BY <1>1, <1>4, <1>5 DEF Extends_

(* A variable that is found may be used.                                   *)
LEMMA FoundValid ==
    ASSUME HomeInv, ClosedInv, Running, NEW g, PlaceInv(g), NEW id, Found(id)
    PROVE  Valid(find(id), ip, g) /\ \E k \in 1..Len(scopes) : id \in DOMAIN scopes[k]
<1>1. g.sc = scopes /\ Tabled(g) /\ Len(scopes) \in Nat
  BY HereFacts
<1>2. PICK W : Standing(todo, W, ip, g) /\ W[0].at = ip /\ W[0].open = Len(g.sc)
  BY HereCourse
<1>3. Fit(W[0], g)
  <2>1. Len(todo) \in Nat
    <3>1. IsSeq(todo) /\ todo # <<>>
      BY HereFacts
    <3> QED BY <3>1, SeqTail
  <2>2. 0 \in 0..Len(todo)
    BY <2>1
  <2> QED BY <1>2, <2>2 DEF Standing, Course
<1>4. Tables(id) \in SUBSET Nat /\ Tables(id) # {}
  BY DEF Tables, Found
<1>5. \E i \in Tables(id) : \A j \in Tables(id) : i <= j
  BY <1>4, NatMinimum
<1>6. PICK k : k \in Tables(id) /\ find(id) = scopes[k][id]
  BY <1>5 DEF find
<1>7. k \in 1..Len(scopes) /\ id \in DOMAIN scopes[k]
  BY <1>6 DEF Tables
<1>8. Valid(scopes[k][id], ip, g)
  <2>1. CASE k = 1
    <3>1. scopes[k][id] = None
      BY <1>1, <1>7, <2>1 DEF Tabled
    <3> QED BY <3>1 DEF Valid, None
  <2>2. CASE k # 1
    <3>1. k \in 2..W[0].open
      BY <1>1, <1>2, <1>7, <2>2
    <3>2. Valid(g.sc[k][id], W[0].at, g)
      BY <1>1, <1>3, <1>7, <3>1 DEF Fit
    <3> QED BY <1>1, <1>2, <3>2
  <2> QED BY <2>1, <2>2
<1> QED BY <1>6, <1>7, <1>8

LEMMA LevelKept ==
    ASSUME HomeInv, ClosedInv, Running, Head(todo).k \in LevelKinds, NEW g, PlaceInv(g),
           Level_, blocks' = blocks, NEW items, Do(items), Level(items, Len(scopes), g)
    PROVE  DomInv'
<1>1. g.bs = blocks /\ g.sc = scopes /\ g.f = owner /\ Graph(g) /\ AreBlocks(g.bs)
  BY HereFacts
<1>2. Extends_(g, g)
  BY <1>1, ExtendsSelf
<1>3. PICK h : h = g
  OBVIOUS
<1>4. /\ h.bs = blocks' /\ h.sc = scopes' /\ h.f = owner' /\ h.loops = g.loops
      /\ Extends_(g, h) /\ Graph(h)
  BY <1>1, <1>2, <1>3 DEF Level_
<1>5. outcome' = outcome /\ owner' = owner /\ scopes' = scopes /\ ip' = ip /\ loops' = loops
  BY DEF Level_
<1> QED BY <1>4, <1>5, LevelStep

(* One instruction is emitted, which does not jump.                        *)
LEMMA LevelEmit ==
    ASSUME HomeInv, ClosedInv, Running, Head(todo).k \in LevelKinds, NEW g, PlaceInv(g), Level_,
           NEW one, Single(one), one[1].to = {}, Valid(one[1].var, ip, g), Emit(one),
           NEW items, Do(items), Level(items, Len(scopes), g)
    PROVE  DomInv'
<1>1. /\ g.bs = blocks /\ g.sc = scopes /\ g.f = owner /\ Graph(g) /\ AreBlocks(g.bs) /\ Home(g.bs)
      /\ ip \in 1..Len(g.bs)
  BY HereFacts
<1>2. PICK h : h = [bs |-> blocks', dom |-> g.dom, loops |-> g.loops, sc |-> scopes', f |-> owner']
  OBVIOUS
<1>3. h.bs = blocks' /\ h.dom = g.dom /\ h.loops = g.loops /\ h.sc = scopes' /\ h.f = owner'
  BY <1>2
<1>4. h.bs = Append_(g.bs, ip, one)
  BY <1>1, <1>3 DEF Emit
<1>5. PICK p : p = ip
  OBVIOUS
<1>6. /\ AreBlocks(g.bs) /\ Home(g.bs) /\ Graph(g) /\ p \in 1..Len(g.bs) /\ Single(one)
      /\ (\A d \in one[1].to : d \in 1..Len(g.bs) /\ Below(d, p, g)) /\ Valid(one[1].var, p, g)
      /\ h.bs = Append_(g.bs, p, one) /\ h.dom = g.dom /\ g.loops \subseteq h.loops
  BY <1>1, <1>3, <1>4, <1>5
<1>7. Extends_(g, h) /\ Graph(h)
  BY ONLY <1>6, UseView
<1>8. outcome' = outcome /\ owner' = owner /\ scopes' = scopes /\ ip' = ip /\ loops' = loops
  BY DEF Level_
<1> QED BY <1>3, <1>7, <1>8, LevelStep

(* compile_expr and the statements that make no block.                     *)

Stays == blocks' = blocks /\ scopes' = scopes /\ owner' = owner

LEMMA HaltStep ==
    ASSUME DomInv, Stays, outcome' \notin {"none", "printed"}
    PROVE  DomInv'
<1>1. PICK g : PlaceInv(g)
  BY DEF DomInv
<1>2. PlaceInv(g)'
  BY <1>1 DEF PlaceInv, Stays
<1> QED BY <1>2 DEF DomInv

LEMMA StopPlace == ASSUME DomInv, Stop("exception") \/ Stop("assert") PROVE DomInv'
  BY HaltStep DEF Stop, Stays, module, aux

LEMMA KindsLevel ==
    \A k \in {"expr", "zero", "load", "bin", "args", "more", "stmt", "store", "drop", "return", "if"} :
        At(k) => Running /\ Head(todo).k = k /\ k \in LevelKinds
  BY DEF At, LevelKinds, QuietKinds

LEMMA CallLevel ==
    ASSUME HomeInv, ClosedInv, NEW g, PlaceInv(g), NEW k \in {"expr", "stmt"}, At(k),
           NEW id, NEW n \in Nat, NEW then, Level(then, Len(scopes), g), Call(id, n, then)
    PROVE  DomInv'
<1> DEFINE f == Function(id)
<1>1. CASE f # <<>> /\ Len(f[1].params) = n
  <2> DEFINE args == [i \in 1..n |-> It("expr")]
             last_ == << Args(id, n) >>
             open == Len(scopes)
  <2>1. Do((args \o last_) \o then) /\ Level_ /\ blocks' = blocks
    BY <1>1 DEF Call, Keep, Level_, module
  <2>2. Level(args, open, g) /\ Level(last_, open, g) /\ Level(then, open, g)
    BY LevelExprs, LevelItems
  <2> HIDE DEF args, last_, open, f
  <2>3. Level(args \o last_, open, g)
    BY ONLY <2>2, LevelConcat
  <2>4. Level((args \o last_) \o then, open, g)
    BY ONLY <2>2, <2>3, LevelConcat
  <2>5. PICK items : items = (args \o last_) \o then
    OBVIOUS
  <2>6. Do(items) /\ Level(items, Len(scopes), g)
    BY <2>1, <2>4, <2>5 DEF open
  <2>7. Running /\ Head(todo).k \in LevelKinds
    BY KindsLevel
  <2> QED BY <2>1, <2>6, <2>7, LevelKept
<1>2. CASE ~(f # <<>> /\ Len(f[1].params) = n)
  <2>1. outcome' = "exception" /\ Stays
    BY <1>2 DEF Call, Stays, module, aux
  <2> QED BY <2>1, HaltStep DEF DomInv
<1> QED BY <1>1, <1>2

(* The items of each step.                                                 *)
LEMMA LevelSome ==
    ASSUME NEW n, NEW g
    PROVE  /\ Level(<<>>, n, g) /\ Level(Body, n, g) /\ Level(<<It("expr")>>, n, g)
           /\ \A id : Level(<< It("expr"), Load(id) >>, n, g) /\ Level(<< It("zero"), Load(id) >>, n, g)
           /\ \A id : Level(<< It("expr"), It("expr"), Bin(id) >>, n, g)
           /\ Level(<< It("expr"), It("return") >>, n, g)
           /\ \A m : Level(<< It("expr"), If(m) >>, n, g)
           /\ Level(<< It("drop") >>, n, g)
<1>1. /\ Level(<<It("expr")>>, n, g) /\ Level(<<It("zero")>>, n, g) /\ Level(<<It("return")>>, n, g)
      /\ Level(<<It("drop")>>, n, g)
      /\ \A id : Level(<<Load(id)>>, n, g) /\ Level(<<Bin(id)>>, n, g) /\ Level(<<If(id)>>, n, g)
  BY LevelItems
<1>2. ASSUME NEW id
      PROVE  /\ Level(<< It("expr"), Load(id) >>, n, g) /\ Level(<< It("zero"), Load(id) >>, n, g)
             /\ Level(<< It("expr"), Bin(id) >>, n, g) /\ Level(<< It("expr"), If(id) >>, n, g)
  BY <1>1, LevelTwo
<1>3. ASSUME NEW id PROVE Level(<< It("expr"), It("expr"), Bin(id) >>, n, g)
  <2>1. Level(<< It("expr"), It("expr") >>, n, g)
    BY <1>1, LevelTwo
  <2>2. Level(<< It("expr"), It("expr") >> \o << Bin(id) >>, n, g)
    BY <1>1, <2>1, LevelConcat
  <2> QED BY <2>2, TwoAndOne
<1>4. Level(<< It("expr"), It("return") >>, n, g)
  BY <1>1, LevelTwo
<1> QED BY <1>1, <1>2, <1>3, <1>4, LevelNone, LevelBody

(* The instructions of each step.                                          *)
LEMMA OneInstrIs ==
    ASSUME NEW op, NEW var, NEW to, NEW one, one = << Instr(op, var, to) >>
    PROVE  Single(one) /\ one[1].op = op /\ one[1].var = var /\ one[1].to = to
<1>1. Single(one) /\ one[1] = Instr(op, var, to)
  BY SingleInstr
<1> QED BY <1>1 DEF Instr

LEMMA NoneValid == \A b, g : Valid(None, b, g)
  BY DEF Valid, None

LEMMA ExprPlace ==
    ASSUME HomeInv, ClosedInv, NEW g, PlaceInv(g), Expr_
    PROVE  DomInv'
<1> DEFINE open == Len(scopes)
<1>1. CASE NumberExpr
  <2>1. Level_ /\ blocks' = blocks /\ Do(<<>>) /\ At("expr")
    BY <1>1 DEF NumberExpr, Pure, Keep, Level_
  <2> QED BY <2>1, KindsLevel, LevelSome, LevelKept
<1>2. CASE VariableExpr
  <2>1. Level_ /\ blocks' = blocks /\ At("expr")
    BY <1>2 DEF VariableExpr, Pure, Keep, Level_
  <2>2. PICK id : \/ Do(<< It("expr"), Load(id) >>)
                  \/ Do(<< It("zero"), Load(id) >>)
    BY <1>2 DEF VariableExpr
  <2>3. PICK items : Do(items) /\ Level(items, open, g)
    BY <2>2, LevelSome
  <2> QED BY <2>1, <2>3, KindsLevel, LevelKept
<1>3. CASE ZeroIndex
  <2>1. Level_ /\ blocks' = blocks /\ Do(<<>>) /\ At("zero")
    BY <1>3 DEF ZeroIndex, Pure, Keep, Level_
  <2> QED BY <2>1, KindsLevel, LevelSome, LevelKept
<1>4. CASE LoadVariable
  <2>1. CASE Stop("exception") \/ Stop("assert")
    BY <2>1, StopPlace DEF DomInv
  <2>2. CASE ~(Stop("exception") \/ Stop("assert"))
    <3>1. /\ Level_ /\ Do(<<>>) /\ At("load") /\ Found(Head(todo).id)
          /\ Emit(<< Instr("load", find(Head(todo).id), {}) >>)
      BY <1>4, <2>2 DEF LoadVariable, Pure, Keep, Level_
    <3>2. PICK var, one : var = find(Head(todo).id) /\ one = << Instr("load", var, {}) >>
      OBVIOUS
    <3>3. Single(one) /\ one[1].var = var /\ one[1].to = {}
      BY <3>2, OneInstrIs
    <3>4. Valid(var, ip, g) /\ Emit(one)
      BY <3>1, <3>2, KindsLevel, FoundValid
    <3> QED BY <3>1, <3>3, <3>4, KindsLevel, LevelSome, LevelEmit
  <2> QED BY <2>1, <2>2
<1>5. CASE BinaryExpr
  <2>1. Level_ /\ blocks' = blocks /\ At("expr")
    BY <1>5 DEF BinaryExpr, Pure, Keep, Level_
  <2>2. PICK id : \/ Do(<< It("expr"), It("expr"), Bin(id) >>)
                  \/ Do(<< It("expr") >>)
    BY <1>5 DEF BinaryExpr
  <2>3. PICK items : Do(items) /\ Level(items, open, g)
    BY <2>2, LevelSome
  <2> QED BY <2>1, <2>3, KindsLevel, LevelKept
<1>6. CASE compile_expr_bin
  <2>1. CASE Stop("assert")
    BY <2>1, StopPlace DEF DomInv
  <2>2. CASE ~Stop("assert")
    <3>1. Level_ /\ blocks' = blocks /\ Do(<<>>) /\ At("bin")
      BY <1>6, <2>2 DEF compile_expr_bin, Pure, Keep, Level_
    <3> QED BY <3>1, KindsLevel, LevelSome, LevelKept
  <2> QED BY <2>1, <2>2
<1>7. CASE CallExpr
  <2>1. At("expr") /\ \E id : \E n \in Nat : Call(id, n, <<>>)
    <3>1. \A e \in Of("call") : e.n \in Nat
      BY IRGenAssumption DEF Of, Bounded, Node
    <3> QED BY <1>7, <3>1 DEF CallExpr
  <2>2. PICK id, n : n \in Nat /\ Call(id, n, <<>>)
    BY <2>1
  <2> QED BY <2>1, <2>2, LevelSome, CallLevel
<1>8. CASE CallEnd
  <2>1. CASE Stop("assert")
    BY <2>1, StopPlace DEF DomInv
  <2>2. CASE ~Stop("assert")
    <3>1. Level_ /\ Do(<<>>) /\ At("args") /\ Emit(<< Instr("call", None, {}) >>)
      BY <1>8, <2>2 DEF CallEnd, Pure, Keep, Level_
    <3>2. PICK one : one = << Instr("call", None, {}) >>
      OBVIOUS
    <3>3. Single(one) /\ one[1].var = None /\ one[1].to = {} /\ Emit(one)
      BY <3>1, <3>2, OneInstrIs
    <3> QED BY <3>1, <3>3, KindsLevel, NoneValid, LevelSome, LevelEmit
  <2> QED BY <2>1, <2>2
<1> QED BY <1>1, <1>2, <1>3, <1>4, <1>5, <1>6, <1>7, <1>8 DEF Expr_

(* The way from the stage where the builder is.                            *)
LEMMA HereWay ==
    ASSUME HomeInv, ClosedInv, Running, NEW g, PlaceInv(g),
           NEW W, Standing(todo, W, ip, g)
    PROVE  /\ Fit(W[0], g) /\ Fit(W[1], g) /\ Way(Head(todo), W[0], W[1], g)
           /\ Len(todo) \in Nat \ {0} /\ Head(todo) = todo[1]
<1>1. IsSeq(todo) /\ todo # <<>>
  BY HereFacts
<1>2. /\ Len(todo) \in Nat \ {0} /\ Head(todo) = todo[1]
  BY <1>1, SeqTail
<1>3. 0 \in 0..Len(todo) /\ 1 \in 0..Len(todo) /\ 1 \in 1..Len(todo) /\ 1 - 1 = 0
  BY <1>2
<1>4. /\ \A i \in 0..Len(todo) : Fit(W[i], g)
      /\ \A i \in 1..Len(todo) : Way(todo[i], W[i - 1], W[i], g)
  BY DEF Standing, Course
<1> QED BY <1>2, <1>3, <1>4

(* A variable that is assigned to has been declared.                       *)
LEMMA StoreFound ==
    ASSUME HomeInv, ClosedInv, NEW g, PlaceInv(g), At("store")
    PROVE  Found(Head(todo).id)
<1>1. Running /\ Head(todo).k = "store"
  BY KindsLevel
<1>2. PICK W : Standing(todo, W, ip, g) /\ W[0].at = ip /\ W[0].open = Len(g.sc)
  BY <1>1, HereCourse
<1>3. Way(Head(todo), W[0], W[1], g) /\ g.sc = scopes
  BY <1>1, <1>2, HereWay, HereFacts
<1>4. \E k \in 1..Len(scopes) : Head(todo).id \in DOMAIN scopes[k]
  BY <1>1, <1>2, <1>3 DEF Way
<1> QED BY <1>4 DEF Found, Tables

LEMMA StmtPlace ==
    ASSUME HomeInv, ClosedInv, NEW g, PlaceInv(g),
           compile_stmt \/ compile_assign \/ CallStmt \/ Drop \/ ReturnStmt \/ compile_return \/ IfStmt
    PROVE  DomInv'
<1>1. CASE compile_stmt
  <2>1. Level_ /\ blocks' = blocks /\ At("more") /\ (Do(<<>>) \/ Do(Body))
    BY <1>1 DEF compile_stmt, Pure, Keep, Level_
  <2>2. PICK items : Do(items) /\ Level(items, Len(scopes), g)
    BY <2>1, LevelSome
  <2> QED BY <2>1, <2>2, KindsLevel, LevelKept
<1>2. CASE compile_assign
  <2>1. CASE Stop("assert")
    BY <2>1, StopPlace DEF DomInv
  <2>2. CASE ~Stop("assert")
    <3>1. /\ Level_ /\ Do(<<>>) /\ At("store")
          /\ Emit(<< Instr("store", find(Head(todo).id), {}) >>)
      BY <1>2, <2>2 DEF compile_assign, Keep, Level_
    <3>2. PICK var, one : var = find(Head(todo).id) /\ one = << Instr("store", var, {}) >>
      OBVIOUS
    <3>3. Single(one) /\ one[1].var = var /\ one[1].to = {}
      BY <3>2, OneInstrIs
    <3>4. Valid(var, ip, g) /\ Emit(one)
      BY <3>1, <3>2, KindsLevel, StoreFound, FoundValid
    <3> QED BY <3>1, <3>3, <3>4, KindsLevel, LevelSome, LevelEmit
  <2> QED BY <2>1, <2>2
<1>3. CASE CallStmt
  <2>1. At("stmt") /\ \E id : \E n \in Nat : Call(id, n, << It("drop") >>)
    <3>1. \A e \in Stmt("call") : e.n \in Nat
      BY IRGenAssumption DEF Stmt, Bounded, Node
    <3> QED BY <1>3, <3>1 DEF CallStmt
  <2>2. PICK id, n, then : n \in Nat /\ then = << It("drop") >> /\ Call(id, n, then)
    BY <2>1
  <2> QED BY <2>1, <2>2, LevelSome, CallLevel
<1>4. CASE Drop
  <2>1. Level_ /\ blocks' = blocks /\ Do(<<>>) /\ At("drop")
    BY <1>4 DEF Drop, Keep, Level_, module
  <2> QED BY <2>1, KindsLevel, LevelSome, LevelKept
<1>5. CASE ReturnStmt
  <2>1. Level_ /\ blocks' = blocks /\ At("stmt") /\ Do(<< It("expr"), It("return") >>)
    BY <1>5 DEF ReturnStmt, Pure, Keep, Level_
  <2>2. PICK items : Do(items) /\ Level(items, Len(scopes), g)
    BY <2>1, LevelSome
  <2> QED BY <2>1, <2>2, KindsLevel, LevelKept
<1>6. CASE compile_return
  <2>1. Level_ /\ Do(<<>>) /\ At("return") /\ Emit(<< Instr("ret", None, {}) >>)
    BY <1>6 DEF compile_return, Keep, Level_, Ret
  <2>2. PICK one : one = << Instr("ret", None, {}) >>
    OBVIOUS
  <2>3. Single(one) /\ one[1].var = None /\ one[1].to = {} /\ Emit(one)
    BY <2>1, <2>2, OneInstrIs
  <2> QED BY <2>1, <2>3, KindsLevel, NoneValid, LevelSome, LevelEmit
<1>7. CASE IfStmt
  <2>1. Level_ /\ blocks' = blocks /\ At("stmt") /\ \E n : Do(<< It("expr"), If(n) >>)
    BY <1>7 DEF IfStmt, Pure, Keep, Level_
  <2>2. PICK items : Do(items) /\ Level(items, Len(scopes), g)
    BY <2>1, LevelSome
  <2> QED BY <2>1, <2>2, KindsLevel, LevelKept
<1> QED BY <1>1, <1>2, <1>3, <1>4, <1>5, <1>6, <1>7

(* The tables.                                                             *)

LEMMA PoppedTables ==
    ASSUME NEW s, IsSeq(s), s # <<>>, NEW t, t = SubSeq(s, 1, Len(s) - 1)
    PROVE  IsSeq(t) /\ Len(s) \in Nat \ {0} /\ Len(t) = Len(s) - 1 /\ \A k \in 1..Len(s)-1 : t[k] = s[k]
<1>1. PICK S : s \in Seq(S)
  BY DEF IsSeq
<1>2. Len(s) \in Nat \ {0}
  BY <1>1
<1>3. PICK m : m = Len(s) - 1 /\ m \in Nat /\ m <= Len(s)
  BY <1>2
<1>4. t \in Seq(S) /\ Len(t) = m /\ \A k \in 1..m : t[k] = s[k]
  <2>1. \A k \in 1..m : k \in 1..Len(s) /\ s[k] \in S
    BY <1>1, <1>2, <1>3
  <2>2. t = [k \in 1..m |-> s[k]]
    BY <1>1, <1>2, <1>3
  <2>3. t \in [1..m -> S]
    BY <2>1, <2>2
  <2>4. t \in Seq(S) /\ Len(t) = m
    BY ONLY <1>3, <2>3, IsASeq, LenProperties
  <2> QED BY <2>2, <2>4
<1> QED BY <1>2, <1>3, <1>4 DEF IsSeq

Added(t, s, x)    == t = Append(s, x)
Replaced(t, s, x) == t = Append(Front(s), x)

LEMMA AddedTable ==
    ASSUME NEW s, IsSeq(s), NEW x, NEW t, Added(t, s, x)
    PROVE  /\ IsSeq(t) /\ Len(s) \in Nat /\ Len(t) = Len(s) + 1 /\ t[Len(s) + 1] = x
           /\ \A k \in 1..Len(s) : t[k] = s[k]
<1>1. PICK S : s \in Seq(S)
  BY DEF IsSeq
<1>2. s \in Seq(S \union {x}) /\ x \in S \union {x}
  BY <1>1
<1>3. t \in Seq(S \union {x})
  BY <1>2 DEF Added
<1> QED BY <1>2, <1>3 DEF IsSeq, Added

LEMMA ReplacedTable ==
    ASSUME NEW s, IsSeq(s), s # <<>>, NEW x, NEW t, Replaced(t, s, x)
    PROVE  /\ IsSeq(t) /\ Len(t) = Len(s) /\ t[Len(s)] = x /\ \A k \in 1..Len(s)-1 : t[k] = s[k]
<1>1. PICK r : r = SubSeq(s, 1, Len(s) - 1)
  OBVIOUS
<1>2. IsSeq(r) /\ Len(s) \in Nat \ {0} /\ Len(r) = Len(s) - 1 /\ \A k \in 1..Len(s)-1 : r[k] = s[k]
  BY <1>1, PoppedTables
<1>3. Added(t, r, x) /\ IsSeq(r)
  BY <1>1, <1>2 DEF Front, Added, Replaced
<1>4. /\ IsSeq(t) /\ Len(r) \in Nat /\ Len(t) = Len(r) + 1 /\ t[Len(r) + 1] = x
      /\ \A k \in 1..Len(r) : t[k] = r[k]
  BY ONLY <1>3, AddedTable
<1> QED BY <1>2, <1>4

(* What a view says of its graph is not about the tables.                  *)
LEMMA SameGraph ==
    ASSUME NEW g, NEW h, h.bs = g.bs, h.dom = g.dom, h.loops = g.loops, Graph(g)
    PROVE  Graph(h)
<1>1. \A d, b : Below(d, b, g) => Below(d, b, h)
  BY DEF Below
<1>2. \A v, b : Valid(v, b, g) => Valid(v, b, h)
  BY DEF Valid, Inside
<1>3. \A i, b : Fair(i, b, g) => Fair(i, b, h)
  BY <1>1, <1>2 DEF Fair
<1>4. \A b : Placed(b, g) => Placed(b, h)
  BY DEF Placed
<1> QED BY <1>3, <1>4 DEF Graph

LEMMA NotEmpty == \A q : Len(q) # 0 => q # <<>>
  OBVIOUS

(* The invariant after a step that replaces the head by items.             *)
LEMMA TailStep ==
    ASSUME Running, IsSeq(todo), todo # <<>>, outcome' = outcome,
           NEW items, IsSeq(items), Do(items),
           NEW h, h.bs = blocks', h.sc = scopes', h.f = owner', Graph(h), Tabled(h),
           NEW X, Course(Tail(todo), X, h), X[Len(Tail(todo))].open = 1,
           NEW V, Course(items, V, h), V[Len(items)] = X[0], V[0].open = Len(h.sc),
           h.dom[V[0].at] \subseteq h.dom[ip'],
           Pending(items \o Tail(todo), h.loops \ loops')
    PROVE  DomInv'
<1>1. IsSeq(Tail(todo))
  BY SeqTail
<1>2. PICK U : /\ Course(items \o Tail(todo), U, h) /\ U[0] = V[0]
               /\ U[Len(items \o Tail(todo))] = X[Len(Tail(todo))]
  <2>1. PICK r : r = Tail(todo)
    OBVIOUS
  <2>2. /\ IsSeq(items) /\ IsSeq(r) /\ Course(items, V, h) /\ Course(r, X, h)
        /\ V[Len(items)] = X[0]
    BY <1>1, <2>1
  <2>3. \E U : Course(items \o r, U, h) /\ U[0] = V[0] /\ U[Len(items \o r)] = X[Len(r)]
    BY ONLY <2>2, CourseBoth
  <2> QED BY <2>1, <2>3
<1>3. todo' = items \o Tail(todo)
  BY DEF Do
<1>4. Standing(todo', U, ip', h)
  BY <1>2, <1>3 DEF Standing
<1>5. todo' = <<>> => Len(h.sc) = 1
  <2>1. ASSUME todo' = <<>> PROVE Len(todo') = 0
    BY <2>1
  <2> QED BY <1>2, <1>3, <2>1
<1>6. PlaceInv(h)'
  <2>1. outcome' # "printed"
    BY DEF Running
  <2> QED BY <1>3, <1>4, <1>5, <2>1 DEF PlaceInv
<1> QED BY <1>6 DEF DomInv

(* AssignStmt.                                                             *)

(* A variable is added to the innermost table: the course is kept, if it   *)
(* may be used at the stages that this table is open at.                   *)
LEMMA CourseDeclared ==
    ASSUME NEW g, NEW h, h.bs = g.bs, h.dom = g.dom, h.loops = g.loops, h.f = g.f,
           NEW N \in Nat, Len(g.sc) = N, Len(h.sc) = N, \A k \in 1..N-1 : h.sc[k] = g.sc[k],
           DOMAIN g.sc[N] \subseteq DOMAIN h.sc[N],
           NEW var, \A id \in DOMAIN h.sc[N] :
              h.sc[N][id] = var \/ (id \in DOMAIN g.sc[N] /\ h.sc[N][id] = g.sc[N][id]),
           NEW q, IsSeq(q), NEW W, Course(q, W, g),
           \A i \in 0..Len(q) : W[i].open = N => Valid(var, W[i].at, g)
    PROVE  Course(q, W, h)
<1>1. \A v, b : Valid(v, b, g) => Valid(v, b, h)
  BY DEF Valid, Inside
<1>2. ASSUME NEW i \in 0..Len(q) PROVE Fit(W[i], h)
  <2>1. Fit(W[i], g)
    BY DEF Course
  <2>2. W[i].at \in Near(h.bs, h.f) /\ W[i].open \in Nat /\ W[i].open <= N
    BY <2>1 DEF Fit
  <2>3. ASSUME NEW k \in 2..W[i].open, NEW id \in DOMAIN h.sc[k] PROVE Valid(h.sc[k][id], W[i].at, g)
    <3>1. \A j \in DOMAIN g.sc[k] : Valid(g.sc[k][j], W[i].at, g)
      BY <2>1 DEF Fit
    <3>2. CASE k # N
      <4>1. k \in 1..N-1
        BY <2>2, <3>2
      <4> QED BY <3>1, <4>1
    <3>3. CASE k = N
      <4>1. W[i].open = N
        BY <2>2, <3>3
      <4>2. Valid(var, W[i].at, g)
        BY <4>1
      <4> QED BY <3>1, <3>3, <4>2
    <3> QED BY <3>2, <3>3
  <2> QED BY <1>1, <2>2, <2>3 DEF Fit
<1>3. ASSUME NEW i \in 1..Len(q) PROVE Way(q[i], W[i - 1], W[i], h)
  <2>1. Way(q[i], W[i - 1], W[i], g)
    BY DEF Course
  <2>2. PICK x, y, it : x = W[i - 1] /\ y = W[i] /\ it = q[i]
    OBVIOUS
  <2>3. x.open \in Nat /\ x.open <= N
    <3>1. Len(q) \in Nat
      BY DEF IsSeq
    <3>2. i - 1 \in 0..Len(q)
      BY <3>1
    <3>3. Fit(W[i - 1], g)
      BY <3>2 DEF Course
    <3> QED BY <2>2, <3>3 DEF Fit
  <2>4. Way(it, x, y, g)
    BY <2>1, <2>2
  <2>5. it.k = "store" => \E k \in 1..x.open : it.id \in DOMAIN h.sc[k]
    <3> SUFFICES ASSUME it.k = "store" PROVE \E k \in 1..x.open : it.id \in DOMAIN h.sc[k]
      OBVIOUS
    <3>1. PICK k \in 1..x.open : it.id \in DOMAIN g.sc[k]
      BY <2>4 DEF Way
    <3>2. it.id \in DOMAIN h.sc[k]
      <4>1. CASE k # N
        <5>1. k \in 1..N-1
          BY <2>3, <4>1
        <5> QED BY <3>1, <5>1
      <4>2. CASE k = N
        BY <3>1, <4>2
      <4> QED BY <4>1, <4>2
    <3> QED BY <3>2
  <2>6. Way(it, x, y, h)
    <3>1. /\ y.open = IF it.k \in {"join", "end define"} THEN x.open - 1 ELSE x.open
          /\ g.dom[y.at] \subseteq g.dom[IF Owes(it) = 0 THEN x.at ELSE Owes(it)]
      BY <2>4 DEF Way
    <3>2. \A a, b : (Below(a, b, g) => Below(a, b, h)) /\ (Inside(a, g) => Inside(a, h))
      BY DEF Below, Inside
    <3>3. /\ it.k = "then" => Below(it.exit, it.b, h)
          /\ it.k = "join" => Below(it.exit, x.at, h)
          /\ it.k = "while" => Below(it.body, x.at, h) /\ Below(it.exit, x.at, h)
          /\ it.k = "repeat" => Below(it.cond, x.at, h) /\ Inside(x.at, h)
      BY <2>4, <3>2 DEF Way
    <3> QED BY <2>5, <3>1, <3>3 DEF Way
  <2> QED BY <2>2, <2>6
<1>4. \A i, j \in 0..Len(q) : i <= j => W[j].open <= W[i].open
  BY DEF Course
<1> QED BY <1>2, <1>3, <1>4 DEF Course

(* What comes after a statement: the rest of its list, and whoever opened  *)
(* the list.                                                               *)
LEMMA ListAhead ==
    ASSUME HomeInv, ClosedInv, At("stmt")
    PROVE  /\ Running /\ Len(todo) \in Nat /\ Len(todo) >= 3
           /\ todo[1].k = "stmt" /\ todo[2].k = "more" /\ todo[3].k \in {"join", "repeat", "end define"}
           /\ todo[Len(todo)].k = "end define"
<1>1. Running /\ Head(todo).k = "stmt" /\ WalkNow
  BY AtQuiet
<1>2. PICK S : Walk(blocks, todo, ip, last, falls, owner, S)
  BY <1>1 DEF WalkNow
<1>3. Head(todo).k \notin QuietKinds
  BY <1>1 DEF QuietKinds
<1>4. owner # globals_init
  BY <1>1, <1>2, <1>3, WalkFacts
<1>5. IsSeq(todo) /\ todo # <<>> /\ IsEnd(todo[Len(todo)])
  BY <1>1, <1>4, InvFacts DEF Plan
<1>6. PICK q, n : q = todo /\ n = Len(q)
  OBVIOUS
<1>7. n \in Nat \ {0} /\ q[1].k = "stmt"
  BY <1>1, <1>5, <1>6, SeqTail
<1>8. \A i \in 1..n-1 : Follows(q[i], q[i + 1])
  BY <1>2, <1>6 DEF Walk, Run, Chain
<1>9. q[n].k = "end define"
  BY <1>5, <1>6 DEF IsEnd
<1>10. n >= 2 /\ q[2].k = "more"
  <2>1. n # 1
    BY <1>7, <1>9
  <2>2. 1 \in 1..n-1 /\ n >= 2 /\ 1 + 1 = 2
    BY <1>7, <2>1
  <2>3. Follows(q[1], q[2])
    BY <1>8, <2>2
  <2> QED BY <1>7, <2>2, <2>3 DEF Follows
<1>11. n >= 3 /\ q[3].k \in {"join", "repeat", "end define"}
  <2>1. n # 2
    BY <1>9, <1>10
  <2>2. 2 \in 1..n-1 /\ n >= 3 /\ 2 + 1 = 3
    BY <1>7, <1>10, <2>1
  <2>3. Follows(q[2], q[3])
    BY <1>8, <2>2
  <2> QED BY <1>10, <2>2, <2>3 DEF Follows
<1> QED BY <1>1, <1>6, <1>7, <1>9, <1>10, <1>11

(* The statement and the rest of its list are reached where the builder    *)
(* is; a variable that may be used there may be used wherever its table is *)
(* open, for behind the list the table is closed, or a loop is left.       *)
LEMMA ListCourse ==
    ASSUME HomeInv, ClosedInv, NEW g, PlaceInv(g), At("stmt")
    PROVE  \E V : /\ Course(todo, V, g) /\ V[Len(todo)].open = 1 /\ V[0].open = Len(g.sc)
                  /\ V[0].at = ip /\ V[1].at = ip /\ V[1].open = Len(g.sc) /\ Len(g.sc) >= 2
                  /\ \A i \in 0..Len(todo) : V[i].open = Len(g.sc) =>
                        V[i].at = ip \/ Inside(ip, g)
<1>1. /\ IsSeq(todo) /\ todo # <<>> /\ ip \in Near(g.bs, g.f) /\ Running /\ Len(g.sc) \in Nat
  BY KindsLevel, HereFacts
<1>2. PICK W : Standing(todo, W, ip, g) /\ W[0].at = ip /\ W[0].open = Len(g.sc)
  BY <1>1, HereCourse
<1>3. PICK q, p, n, N : q = todo /\ p = ip /\ n = Len(todo) /\ N = Len(g.sc)
  OBVIOUS
<1>4. /\ n \in Nat /\ n >= 3 /\ n = Len(q) /\ N \in Nat /\ IsSeq(q) /\ p \in Near(g.bs, g.f)
      /\ q[1].k = "stmt" /\ q[2].k = "more" /\ q[3].k \in {"join", "repeat", "end define"}
      /\ q[n].k = "end define"
  BY <1>1, <1>3, ListAhead
<1>15. n \in Nat /\ n >= 3 /\ N \in Nat /\ n = Len(q)
  BY <1>4
<1>5. /\ Course(q, W, g) /\ W[0].open = N /\ W[n].open = 1 /\ W[0].at = p
      /\ \A i \in 0..n : Fit(W[i], g)
      /\ \A i \in 1..n : Way(q[i], W[i - 1], W[i], g)
      /\ \A i, j \in 0..n : i <= j => W[j].open <= W[i].open
  BY <1>2, <1>3 DEF Standing, Course
<1>6. Way(q[1], W[0], W[1], g) /\ Way(q[2], W[1], W[2], g) /\ Way(q[3], W[2], W[3], g)
  <2>1. 1 \in 1..n /\ 2 \in 1..n /\ 3 \in 1..n /\ 1 - 1 = 0 /\ 2 - 1 = 1 /\ 3 - 1 = 2
    BY ONLY <1>15
  <2> QED BY <1>5, <2>1
<1>7. /\ W[1].open = N /\ W[2].open = N /\ g.dom[W[1].at] \subseteq g.dom[p]
      /\ g.dom[W[2].at] \subseteq g.dom[p] /\ Owes(q[1]) = 0 /\ Owes(q[2]) = 0
  <2>1. Owes(q[1]) = 0 /\ Owes(q[2]) = 0
    BY <1>4 DEF Owes
  <2>2. W[1].open = W[0].open /\ g.dom[W[1].at] \subseteq g.dom[W[0].at]
    BY <1>4, <1>6, <2>1 DEF Way
  <2>3. W[2].open = W[1].open /\ g.dom[W[2].at] \subseteq g.dom[W[1].at]
    BY <1>4, <1>6, <2>1 DEF Way
  <2> QED BY <1>5, <2>1, <2>2, <2>3
<1>8. N >= 2
  <2>1. n \in 1..n /\ n - 1 \in 0..n /\ 0 \in 0..n /\ 0 <= n - 1
    BY ONLY <1>15
  <2>2. Way(q[n], W[n - 1], W[n], g) /\ Fit(W[n - 1], g) /\ W[n - 1].open <= W[0].open
    BY <1>5, <2>1
  <2>3. W[n].open = W[n - 1].open - 1 /\ W[n - 1].open \in Nat
    BY <1>4, <2>2 DEF Way, Fit
  <2>4. W[0].open = N /\ W[n].open = 1
    BY <1>5
  <2> QED BY ONLY <1>15, <2>2, <2>3, <2>4
<1> DEFINE V == [i \in 0..n |-> IF i <= 2 THEN [at |-> p, open |-> W[i].open] ELSE W[i]]
<1>9. \A i \in 0..n : V[i] = IF i <= 2 THEN [at |-> p, open |-> W[i].open] ELSE W[i]
  OBVIOUS
<1> HIDE DEF V
<1>10. Course(q, V, g)
  <2>1. PICK m : m = 2
    OBVIOUS
  <2>2. m \in 0..Len(q)
    BY ONLY <1>15, <2>1
  <2>3. \A i \in 0..m : g.dom[W[i].at] \subseteq g.dom[p]
    <3> TAKE i \in 0..m
    <3>1. i = 0 \/ i = 1 \/ i = 2
      BY <2>1
    <3> QED BY <1>5, <1>7, <3>1
  <2>4. \A i \in 1..m : Owes(q[i]) = 0
    <3> TAKE i \in 1..m
    <3>1. i = 1 \/ i = 2
      BY <2>1
    <3> QED BY <1>7, <3>1
  <2>5. \A i \in 0..Len(q) : V[i] = IF i <= m THEN [at |-> p, open |-> W[i].open] ELSE W[i]
    BY <1>4, <1>9, <2>1
  <2>6. IsSeq(q) /\ Course(q, W, g) /\ p \in Near(g.bs, g.f)
    BY <1>4, <1>5
  <2> QED BY ONLY <2>2, <2>3, <2>4, <2>5, <2>6, CourseRaised
<1>11. /\ V[0].at = p /\ V[1].at = p /\ V[2].at = p
       /\ V[0].open = N /\ V[1].open = N /\ V[2].open = N
  <2>1. 0 \in 0..n /\ 1 \in 0..n /\ 2 \in 0..n /\ 0 <= 2 /\ 1 <= 2 /\ 2 <= 2
    BY ONLY <1>15
  <2>2. /\ V[0] = [at |-> p, open |-> W[0].open] /\ V[1] = [at |-> p, open |-> W[1].open]
        /\ V[2] = [at |-> p, open |-> W[2].open]
    BY <1>9, <2>1
  <2> QED BY <1>5, <1>7, <2>2
<1>12. \A i \in 3..n : V[i] = W[i]
  <2>1. \A i \in 3..n : i \in 0..n /\ ~(i <= 2)
    BY ONLY <1>15
  <2> QED BY ONLY <1>9, <2>1
<1>13. ASSUME NEW i \in 0..n, V[i].open = N PROVE V[i].at = p \/ Inside(p, g)
  <2>1. CASE i \in 0..2
    <3>1. i = 0 \/ i = 1 \/ i = 2
      BY <2>1
    <3> QED BY <1>11, <3>1
  <2>2. CASE i \in 3..n /\ q[3].k \in {"join", "end define"}
    <3>1. W[3].open = N - 1
      BY <1>6, <1>7, <2>2 DEF Way
    <3>2. W[i].open <= W[3].open
      <4>1. 3 \in 0..n /\ i \in 0..n /\ 3 <= i
        <5>1. i \in 3..n
          BY <2>2
        <5> QED BY ONLY <1>15, <5>1
      <4> QED BY <1>5, <4>1
    <3>3. W[i].open = N
      BY <1>12, <1>13, <2>2
    <3> QED BY ONLY <1>15, <3>1, <3>2, <3>3
  <2>3. CASE q[3].k = "repeat"
    <3>1. Inside(W[2].at, g)
      BY <1>6, <2>3 DEF Way
    <3> QED BY <1>7, <3>1, InsideBelow
  <2>4. i \in 0..2 \/ i \in 3..n
    BY ONLY <1>15, <1>13
  <2>5. q[3].k \in {"join", "repeat", "end define"}
    BY <1>4
  <2> QED BY ONLY <2>1, <2>2, <2>3, <2>4, <2>5
<1>14. V[n].open = 1
  <2>1. n \in 3..n
    BY ONLY <1>15
  <2> QED BY <1>5, <1>12, <2>1
<1> QED BY <1>3, <1>8, <1>10, <1>11, <1>13, <1>14

LEMMA DeclarePlace ==
    ASSUME HomeInv, ClosedInv, NEW g, PlaceInv(g), At("stmt"),
           outcome' = outcome, owner' = owner, ip' = ip, loops' = loops,
           NEW id, NEW var, var.block = ip, var.at = Len(blocks[ip].code) + 1,
           NEW one, Single(one), one[1].op = "alloca", one[1].var = var, one[1].to = {}, Emit(one),
           scopes' = Append(Front(scopes), Insert(Last(scopes), id, var)),
           Do(<< It("expr"), Store(id) >>)
    PROVE  DomInv'
<1>1. /\ g.bs = blocks /\ g.sc = scopes /\ g.f = owner /\ Graph(g) /\ Tabled(g) /\ AreBlocks(g.bs)
      /\ Home(g.bs) /\ ip \in 1..Len(g.bs) /\ IsSeq(todo) /\ todo # <<>> /\ Running
      /\ Pending(todo, g.loops \ loops) /\ Len(g.sc) \in Nat /\ ip \in Near(g.bs, g.f)
      /\ \A i \in 1..Len(todo) : Targets(todo[i]) \subseteq Near(g.bs, g.f)
  BY KindsLevel, HereFacts
<1>2. PICK h : h = [bs |-> blocks', dom |-> g.dom, loops |-> g.loops, sc |-> scopes, f |-> owner']
  OBVIOUS
<1>3. h.bs = blocks' /\ h.dom = g.dom /\ h.loops = g.loops /\ h.sc = g.sc /\ h.f = g.f
  BY <1>1, <1>2
<1>4. PICK p, N : p = ip /\ N = Len(g.sc)
  OBVIOUS
<1>5. Extends_(g, h) /\ Graph(h) /\ Valid(var, p, h)
  <2>1. /\ AreBlocks(g.bs) /\ Home(g.bs) /\ Graph(g) /\ p \in 1..Len(g.bs) /\ Single(one)
        /\ var.block = p /\ var.at = Len(g.bs[p].code) + 1
        /\ one[1].op = "alloca" /\ one[1].var = var /\ one[1].to = {}
        /\ h.bs = Append_(g.bs, p, one) /\ h.dom = g.dom /\ g.loops \subseteq h.loops
    BY <1>1, <1>3, <1>4 DEF Emit
  <2> QED BY ONLY <2>1, AllocaView
<1>6. PICK V : /\ Course(todo, V, g) /\ V[Len(todo)].open = 1 /\ V[0].open = N
               /\ V[0].at = p /\ V[1].at = p /\ V[1].open = N /\ N >= 2
               /\ \A i \in 0..Len(todo) : V[i].open = N => V[i].at = p \/ Inside(p, g)
  BY <1>4, ListCourse
<1>7. Course(todo, V, h)
  <2>1. Same(g, h, V[0].open)
    BY <1>1, <1>3, <1>4, <1>6 DEF Same
  <2> QED BY <1>1, <1>3, <1>5, <1>6, <2>1, CourseKept
<1>8. ASSUME NEW i \in 0..Len(todo), V[i].open = N PROVE Valid(var, V[i].at, h)
  <2>1. V[i].at = p \/ Inside(p, g)
    BY <1>6, <1>8
  <2>2. CASE V[i].at = p
    BY <1>5, <2>2
  <2>3. CASE Inside(p, g)
    <3>1. Inside(p, h)
      BY <1>3, <2>3 DEF Inside
    <3>2. V[i].at \in Near(h.bs, h.f) /\ p \in Near(h.bs, h.f)
      <4>1. Fit(V[i], h) /\ Fit(V[0], h)
        <5>1. 0 \in 0..Len(todo)
          BY <1>1, SeqTail
        <5> QED BY <1>7, <5>1 DEF Course
      <4> QED BY <1>6, <4>1 DEF Fit
    <3>3. h.bs[V[i].at].fn = h.bs[p].fn
      BY <3>2 DEF Near
    <3> QED BY <1>4, <1>5, <3>1, <3>3 DEF Valid
  <2> QED BY <2>1, <2>2, <2>3
<1>9. PICK k : k = [bs |-> blocks', dom |-> g.dom, loops |-> g.loops, sc |-> scopes', f |-> owner']
  OBVIOUS
<1>10. /\ k.bs = blocks' /\ k.sc = scopes' /\ k.f = owner' /\ k.loops = g.loops
       /\ k.bs = h.bs /\ k.dom = h.dom /\ k.loops = h.loops /\ k.f = h.f
  BY <1>1, <1>3, <1>9
<1>11. PICK s, t, table : /\ s = g.sc /\ t = k.sc /\ table = Insert(Last(s), id, var)
  OBVIOUS
<1>12. /\ IsSeq(s) /\ IsSeq(t) /\ Len(s) = N /\ Len(t) = N /\ t[N] = table /\ s # <<>> /\ N \in Nat
       /\ \A j \in 1..N-1 : t[j] = s[j]
  <2>1. IsSeq(s) /\ s # <<>> /\ Len(s) = N /\ N \in Nat
    BY <1>1, <1>4, <1>11 DEF Tabled
  <2>2. Replaced(t, s, table)
    BY <1>1, <1>10, <1>11 DEF Replaced
  <2>3. IsSeq(t) /\ Len(t) = Len(s) /\ t[Len(s)] = table /\ \A j \in 1..Len(s)-1 : t[j] = s[j]
    BY ONLY <2>1, <2>2, ReplacedTable
  <2> QED BY ONLY <2>1, <2>3
<1>13. /\ DOMAIN s[N] \subseteq DOMAIN t[N] /\ id \in DOMAIN t[N]
       /\ \A x \in DOMAIN t[N] : t[N][x] = var \/ (x \in DOMAIN s[N] /\ t[N][x] = s[N][x])
  <2>1. PICK old : old = s[N]
    OBVIOUS
  <2>2. t[N] = [x \in DOMAIN old \union {id} |-> IF x = id THEN var ELSE old[x]]
    BY <1>11, <1>12, <2>1 DEF Insert, Last
  <2> QED BY <2>1, <2>2
<1>14. Course(todo, V, k)
  <2>1. /\ k.bs = h.bs /\ k.dom = h.dom /\ k.loops = h.loops /\ k.f = h.f
        /\ N \in Nat /\ Len(h.sc) = N /\ Len(k.sc) = N /\ (\A j \in 1..N-1 : k.sc[j] = h.sc[j])
        /\ DOMAIN h.sc[N] \subseteq DOMAIN k.sc[N]
        /\ (\A x \in DOMAIN k.sc[N] :
              k.sc[N][x] = var \/ (x \in DOMAIN h.sc[N] /\ k.sc[N][x] = h.sc[N][x]))
        /\ IsSeq(todo) /\ Course(todo, V, h)
        /\ (\A i \in 0..Len(todo) : V[i].open = N => Valid(var, V[i].at, h))
    BY <1>1, <1>3, <1>7, <1>8, <1>10, <1>11, <1>12, <1>13
  <2> QED BY ONLY <2>1, CourseDeclared
<1>15. Graph(k) /\ Tabled(k)
  <2>1. Graph(k)
    BY <1>5, <1>10, SameGraph
  <2>2. 1 \in 1..N-1 /\ t[1] = s[1] /\ t # <<>>
    <3>1. 1 \in 1..N-1
      BY ONLY <1>6, <1>12
    <3>2. Len(t) # 0
      BY <1>6, <1>12
    <3> QED BY <1>12, <3>1, <3>2, NotEmpty
  <2>3. Tabled(k)
    BY <1>1, <1>11, <1>12, <2>2 DEF Tabled
  <2> QED BY <2>1, <2>3
<1>16. PICK X, r : (\A i \in 0..Len(todo)-1 : X[i] = V[i + 1]) /\ r = Tail(todo)
  <2>1. \A i \in 0..Len(todo)-1 : [j \in 0..Len(todo)-1 |-> V[j + 1]][i] = V[i + 1]
    OBVIOUS
  <2> QED BY <2>1
<1>17. /\ Course(r, X, k) /\ X[0] = V[1] /\ X[Len(r)] = V[Len(todo)] /\ Fit(V[0], k) /\ Fit(V[1], k)
  <2>1. PICK q : q = todo
    OBVIOUS
  <2>2. /\ IsSeq(q) /\ q # <<>> /\ Course(q, V, k) /\ (\A i \in 0..Len(q)-1 : X[i] = V[i + 1])
    BY <1>1, <1>14, <1>16, <2>1
  <2>3. /\ Course(Tail(q), X, k) /\ X[0] = V[1] /\ X[Len(Tail(q))] = V[Len(q)]
        /\ Fit(V[0], k) /\ Fit(V[1], k) /\ Way(Head(q), V[0], V[1], k)
    BY ONLY <2>2, CourseTail
  <2> QED BY <1>16, <2>1, <2>3
<1>18. PICK items : items = << It("expr"), Store(id) >>
  OBVIOUS
<1>19. Level(items, N, k)
  <2>1. \E j \in 1..N : id \in DOMAIN k.sc[j]
    <3>1. N \in 1..N
      BY ONLY <1>6, <1>12
    <3> QED BY <1>11, <1>13, <3>1
  <2>2. Level(<<Store(id)>>, N, k) /\ Level(<<It("expr")>>, N, k)
    BY <2>1, LevelItems
  <2> QED BY <1>18, <2>2, LevelTwo
<1>20. PICK U : /\ Course(items, U, k) /\ U[Len(items)] = X[0] /\ U[0].open = N
                /\ k.dom[U[0].at] \subseteq k.dom[p]
  <2>1. PICK x : x = X[0]
    OBVIOUS
  <2>2. Fit(x, k) /\ Level(items, x.open, k) /\ k.dom[x.at] \subseteq k.dom[x.at] /\ x.open = x.open
        /\ x.open = N /\ x.at = p
    BY <1>6, <1>17, <1>19, <2>1
  <2>3. \E U : /\ Course(items, U, k) /\ U[Len(items)] = x /\ U[0].open = x.open
                /\ k.dom[U[0].at] \subseteq k.dom[x.at] /\ (items # <<>> => U[0] = x)
    BY ONLY <2>2, LevelCourse
  <2> QED BY <2>1, <2>2, <2>3
<1>21. Pending(items \o Tail(todo), k.loops \ loops')
  <2>1. IsSeq(items)
    BY <1>19 DEF Level
  <2>2. Head(todo).k = "stmt"
    BY KindsLevel
  <2>3. \A l \in k.loops \ loops' : l \in g.loops \ loops /\ ~(Head(todo).k = "while" /\ Head(todo).body = l)
    BY <1>10, <2>2
  <2> QED BY <1>1, <2>1, <2>3, PendingMoves
<1>22. /\ IsSeq(items) /\ Do(items) /\ Course(Tail(todo), X, k) /\ X[Len(Tail(todo))].open = 1
       /\ U[0].open = Len(k.sc) /\ k.dom[U[0].at] \subseteq k.dom[ip']
  BY <1>4, <1>6, <1>11, <1>12, <1>16, <1>17, <1>18, <1>19, <1>20 DEF Level
<1> QED BY <1>1, <1>10, <1>15, <1>20, <1>21, <1>22, TailStep

LEMMA AssignPlace ==
    ASSUME HomeInv, ClosedInv, NEW g, PlaceInv(g), AssignStmt
    PROVE  DomInv'
<1>1. At("stmt") /\ outcome' = outcome /\ owner' = owner /\ ip' = ip /\ loops' = loops
  BY DEF AssignStmt, Keep
<1>2. PICK s \in Stmt("assign") :
        LET var == [block |-> ip, at |-> Len(blocks[ip].code) + 1, arg |-> 0] IN
        /\ Do(<< It("expr"), Store(s.id) >>)
        /\ IF Found(s.id)
           THEN UNCHANGED <<blocks, scopes>>
           ELSE /\ Emit(<< Instr("alloca", var, {}) >>)
                /\ scopes' = Append(Front(scopes), Insert(Last(scopes), s.id, var))
  BY DEF AssignStmt
<1>3. PICK id, items : id = s.id /\ items = << It("expr"), Store(id) >>
  OBVIOUS
<1>4. CASE Found(id)
  <2>1. Level_ /\ blocks' = blocks /\ Do(items)
    BY <1>1, <1>2, <1>3, <1>4 DEF Level_
  <2>2. g.sc = scopes /\ \E k \in 1..Len(scopes) : id \in DOMAIN scopes[k]
    BY <1>1, <1>4, KindsLevel, FoundValid, HereFacts
  <2>3. Level(<<Store(id)>>, Len(scopes), g) /\ Level(<<It("expr")>>, Len(scopes), g)
    BY <2>2, LevelItems
  <2>4. Level(items, Len(scopes), g)
    BY <1>3, <2>3, LevelTwo
  <2> QED BY <1>1, <2>1, <2>4, KindsLevel, LevelKept
<1>5. CASE ~Found(id)
  <2>1. PICK var : var = [block |-> ip, at |-> Len(blocks[ip].code) + 1, arg |-> 0]
    OBVIOUS
  <2>2. PICK one : one = << Instr("alloca", var, {}) >>
    OBVIOUS
  <2>3. /\ Emit(one) /\ scopes' = Append(Front(scopes), Insert(Last(scopes), id, var))
        /\ Do(<< It("expr"), Store(id) >>)
    BY <1>2, <1>3, <1>5, <2>1, <2>2
  <2>4. Single(one) /\ one[1].op = "alloca" /\ one[1].var = var /\ one[1].to = {}
    BY <2>2, OneInstrIs
  <2>5. var.block = ip /\ var.at = Len(blocks[ip].code) + 1
    BY <2>1
  <2> QED BY <1>1, <2>3, <2>4, <2>5, DeclarePlace
<1> QED BY <1>4, <1>5

(* Branches and loops.                                                     *)

(* The items lead from one stage to another.                               *)
Leads(q, x, y, g) == \E V : Course(q, V, g) /\ V[0] = x /\ V[Len(q)] = y

LEMMA LeadsLevel ==
    ASSUME NEW g, NEW x, NEW y, Fit(x, g), Fit(y, g), y.open = x.open,
           g.dom[y.at] \subseteq g.dom[x.at], NEW q, q # <<>>, Level(q, x.open, g)
    PROVE  Leads(q, x, y, g)
<1>1. PICK V : /\ Course(q, V, g) /\ V[Len(q)] = y /\ V[0].open = x.open
               /\ g.dom[V[0].at] \subseteq g.dom[x.at] /\ (q # <<>> => V[0] = x)
  BY LevelCourse
<1> QED BY <1>1 DEF Leads

LEMMA LeadsOne ==
    ASSUME NEW g, NEW x, NEW y, Fit(x, g), Fit(y, g), y.open <= x.open,
           NEW it, Way(it, x, y, g)
    PROVE  Leads(<<it>>, x, y, g)
<1>1. \E V : Course(<<it>>, V, g) /\ V[0] = x /\ V[Len(<<it>>)] = y
  BY CourseOne
<1> DEFINE q == <<it>>
<1>2. PICK V : Course(q, V, g) /\ V[0] = x /\ V[Len(q)] = y
  BY <1>1
<1> HIDE DEF q
<1>3. Leads(q, x, y, g)
  BY <1>2 DEF Leads
<1> QED BY <1>3 DEF q

LEMMA LeadsBoth ==
    ASSUME NEW g, NEW x, NEW y, NEW z, NEW p, NEW q, IsSeq(p), IsSeq(q),
           Leads(p, x, y, g), Leads(q, y, z, g)
    PROVE  Leads(p \o q, x, z, g)
<1>1. PICK V : Course(p, V, g) /\ V[0] = x /\ V[Len(p)] = y
  BY DEF Leads
<1>2. PICK W : Course(q, W, g) /\ W[0] = y /\ W[Len(q)] = z
  BY DEF Leads
<1>3. PICK U : Course(p \o q, U, g) /\ U[0] = V[0] /\ U[Len(p \o q)] = W[Len(q)]
  BY <1>1, <1>2, CourseBoth
<1> QED BY <1>1, <1>2, <1>3 DEF Leads

LEMMA LeadsNone ==
    ASSUME NEW g, NEW x, Fit(x, g), NEW q, q = <<>>
    PROVE  Leads(q, x, x, g) /\ IsSeq(q)
<1> DEFINE V == [i \in {0} |-> x]
<1>1. V[0] = x
  OBVIOUS
<1> HIDE DEF V
<1>2. Len(q) = 0
  OBVIOUS
<1>3. x.open \in Nat
  BY DEF Fit
<1>4. Course(q, V, g)
  <2>1. \A i \in 0..0 : i = 0
    OBVIOUS
  <2>2. \A i \in 0..0 : Fit(V[i], g)
    BY <1>1, <2>1
  <2>3. \A i, j \in 0..0 : V[j].open <= V[i].open
    BY <1>1, <1>3, <2>1
  <2> QED BY <1>2, <2>2, <2>3 DEF Course
<1>5. q \in Seq({})
  OBVIOUS
<1> QED BY <1>1, <1>2, <1>4, <1>5 DEF Leads, IsSeq

(* A stage of new blocks or with a new table.                              *)
LEMMA FitNew ==
    ASSUME NEW g, NEW h, Extends_(g, h), h.f = g.f, NEW x, Fit(x, g), Same(g, h, x.open),
           NEW z, z.at \in Near(h.bs, h.f), h.dom[x.at] \subseteq h.dom[z.at],
           \/ z.open = x.open
           \/ z.open = x.open + 1 /\ z.open <= Len(h.sc) /\ h.sc[z.open] = NoNames
    PROVE  Fit(z, h)
<1>1. Fit(x, h)
  BY FitKept
<1>2. /\ x.at \in Near(h.bs, h.f) /\ x.open \in Nat /\ x.open <= Len(h.sc)
      /\ \A k \in 2..x.open : \A id \in DOMAIN h.sc[k] : Valid(h.sc[k][id], x.at, h)
  BY <1>1 DEF Fit
<1>3. h.bs[x.at].fn = h.bs[z.at].fn
  BY <1>2 DEF Near
<1>4. ASSUME NEW k \in 2..z.open, NEW id \in DOMAIN h.sc[k] PROVE Valid(h.sc[k][id], z.at, h)
  <2>1. CASE k \in 2..x.open
    <3>1. Valid(h.sc[k][id], x.at, h)
      BY <1>2, <2>1
    <3> QED BY <1>3, <3>1, ValidBelow
  <2>2. CASE k \notin 2..x.open
    <3>1. k = z.open /\ h.sc[k] = NoNames
      BY <1>2, <2>2
    <3>2. DOMAIN NoNames = {}
      BY DEF NoNames
    <3> QED BY <3>1, <3>2
  <2> QED BY <2>1, <2>2
<1>5. z.open \in Nat /\ z.open <= Len(h.sc)
  BY <1>2
<1> QED BY <1>4, <1>5 DEF Fit

LEMMA LeadsStep ==
    ASSUME HomeInv, ClosedInv, Running, NEW g, PlaceInv(g),
           outcome' = outcome, owner' = owner,
           NEW items, IsSeq(items), Do(items),
           NEW h, h.bs = blocks', h.sc = scopes', h.f = owner',
           Extends_(g, h), Graph(h), Tabled(h),
           NEW W, Standing(todo, W, ip, g), Same(g, h, W[1].open),
           NEW x, Leads(items, x, W[1], h), x.open = Len(h.sc), h.dom[x.at] \subseteq h.dom[ip'],
           Pending(items \o Tail(todo), h.loops \ loops')
    PROVE  DomInv'
<1>1. PICK V : Course(items, V, h) /\ V[0] = x /\ V[Len(items)] = W[1]
  BY DEF Leads
<1> QED BY <1>1, StageStep

(* An item is done, and nothing comes in its place.                        *)
LEMMA CloseStep ==
    ASSUME HomeInv, ClosedInv, Running, NEW g, PlaceInv(g),
           outcome' = outcome, owner' = owner, Do(<<>>),
           NEW h, h.bs = blocks', h.sc = scopes', h.f = owner', h.loops = g.loops,
           Extends_(g, h), Graph(h), Tabled(h),
           NEW W, Standing(todo, W, ip, g), Len(h.sc) = W[1].open, Same(g, h, W[1].open),
           h.dom[W[1].at] \subseteq h.dom[ip'],
           \A l \in g.loops \ loops' : l \notin loops /\ ~(Head(todo).k = "while" /\ Head(todo).body = l)
    PROVE  DomInv'
<1>1. /\ g.f = owner /\ IsSeq(todo) /\ todo # <<>> /\ Pending(todo, g.loops \ loops)
  BY HereFacts
<1>2. PICK x, items : x = W[1] /\ items = <<>>
  OBVIOUS
<1>3. Fit(x, h)
  <2>1. Fit(W[1], g)
    BY HereWay
  <2> QED BY <1>1, <1>2, <2>1, FitKept
<1>4. Leads(items, x, x, h) /\ IsSeq(items)
  BY <1>2, <1>3, LeadsNone
<1>5. Pending(items \o Tail(todo), h.loops \ loops')
  <2>1. \A l \in h.loops \ loops' : l \in g.loops \ loops /\ ~(Head(todo).k = "while" /\ Head(todo).body = l)
    OBVIOUS
  <2> QED BY <1>1, <1>4, <2>1, PendingMoves
<1>6. /\ Do(items) /\ Leads(items, x, W[1], h) /\ x.open = Len(h.sc) /\ h.dom[x.at] \subseteq h.dom[ip']
  BY <1>2, <1>4
<1> QED BY <1>4, <1>5, <1>6, LeadsStep

(* The block the builder is at is ended by a jump, or was ended before.    *)
LEMMA JumpView ==
    ASSUME NEW g, AreBlocks(g.bs), Home(g.bs), Graph(g), NEW p \in 1..Len(g.bs), NEW one, Single(one),
           one[1].var = None, \A d \in one[1].to : d \in 1..Len(g.bs) /\ Below(d, p, g),
           NEW h, h.bs = g.bs \/ h.bs = Append_(g.bs, p, one), h.dom = g.dom, h.loops = g.loops
    PROVE  Extends_(g, h) /\ Graph(h) /\ AreBlocks(h.bs) /\ Len(h.bs) = Len(g.bs)
<1>1. CASE h.bs = g.bs
  <2>1. Extends_(g, g)
    BY ExtendsSelf
  <2>2. Extends_(g, h)
    BY <1>1, <2>1 DEF Extends_
  <2> QED BY <1>1, <2>2, SameGraph
<1>2. CASE h.bs = Append_(g.bs, p, one)
  <2>1. Valid(one[1].var, p, g) /\ g.loops \subseteq h.loops
    BY NoneValid
  <2> QED BY <1>2, <2>1, UseView
<1> QED BY <1>1, <1>2

(* The items in front that name blocks.                                    *)
LEMMA AtJump ==
    ASSUME HomeInv, ClosedInv, NEW k \in {"then", "join", "while", "repeat"}, At(k), NEW g, PlaceInv(g)
    PROVE  /\ Running /\ Head(todo).k = k
           /\ \E W : Standing(todo, W, ip, g) /\ W[0].at = ip /\ W[0].open = Len(g.sc)
<1>1. Running /\ Head(todo).k = k
  BY DEF At
<1> QED BY <1>1, HereCourse

LEMMA JumpInstr ==
    ASSUME NEW b, NEW c, NEW one
    PROVE  /\ one = << Br(b) >> => Single(one) /\ one[1].var = None /\ one[1].to = {b}
           /\ one = << CondBr(b, c) >> => Single(one) /\ one[1].var = None /\ one[1].to = {b, c}
<1>1. PICK s, t : s = {b} /\ t = {b, c}
  OBVIOUS
<1>2. Br(b) = Instr("br", None, s) /\ CondBr(b, c) = Instr("br", None, t)
  BY <1>1 DEF Br, CondBr
<1> QED BY <1>1, <1>2, OneInstrIs

(* One view for all steps that keep the passed blocks and the loops.       *)
View(g) == [bs |-> blocks', dom |-> g.dom, loops |-> g.loops, sc |-> scopes', f |-> owner']

LEMMA NextView ==
    ASSUME HomeInv, ClosedInv, Running, NEW g, PlaceInv(g), owner' = owner,
           NEW one, Single(one), one[1].var = None,
           \A d \in one[1].to : d \in Near(blocks, owner) /\ Below(d, ip, g),
           blocks' = blocks \/ Emit(one)
    PROVE  \E h : /\ h.bs = blocks' /\ h.sc = scopes' /\ h.f = owner' /\ h.loops = g.loops /\ h.dom = g.dom
                  /\ Extends_(g, h) /\ Graph(h)
<1>1. /\ g.bs = blocks /\ g.f = owner /\ Graph(g) /\ AreBlocks(g.bs) /\ Home(g.bs)
      /\ ip \in 1..Len(g.bs)
  BY HereFacts
<1>2. PICK h : h = View(g)
  OBVIOUS
<1>3. h.bs = blocks' /\ h.sc = scopes' /\ h.f = owner' /\ h.loops = g.loops /\ h.dom = g.dom
  BY <1>2 DEF View
<1>4. PICK p : p = ip
  OBVIOUS
<1>5. /\ AreBlocks(g.bs) /\ Home(g.bs) /\ Graph(g) /\ p \in 1..Len(g.bs) /\ Single(one)
      /\ one[1].var = None /\ (\A d \in one[1].to : d \in 1..Len(g.bs) /\ Below(d, p, g))
      /\ (h.bs = g.bs \/ h.bs = Append_(g.bs, p, one)) /\ h.dom = g.dom /\ h.loops = g.loops
  BY <1>1, <1>3, <1>4 DEF Emit, Near
<1>6. Extends_(g, h) /\ Graph(h)
  BY ONLY <1>5, JumpView
<1> QED BY <1>3, <1>6

LEMMA EndBranchPlace ==
    ASSUME HomeInv, ClosedInv, NEW g, PlaceInv(g), EndBranch
    PROVE  DomInv'
<1>1. /\ At("join") /\ outcome' = outcome /\ owner' = owner /\ loops' = loops /\ Do(<<>>)
      /\ (blocks' = blocks \/ Emit(<< Br(Head(todo).exit) >>))
      /\ scopes' = PopScope /\ ip' = Head(todo).next
  BY DEF EndBranch, Keep, CloseScope
<1>2. Running /\ Head(todo).k = "join"
  BY <1>1 DEF At
<1>3. PICK W : Standing(todo, W, ip, g) /\ W[0].at = ip /\ W[0].open = Len(g.sc)
  BY <1>1, AtJump
<1>4. /\ g.bs = blocks /\ g.sc = scopes /\ g.f = owner /\ Tabled(g) /\ Len(g.sc) \in Nat
  BY <1>2, HereFacts
<1>5. Head(todo).exit \in Near(blocks, owner) /\ Head(todo).next \in Near(blocks, owner)
  BY <1>1, HeadTargets
<1>6. /\ Fit(W[0], g) /\ Fit(W[1], g) /\ Way(Head(todo), W[0], W[1], g) /\ Len(todo) \in Nat \ {0}
  BY <1>2, <1>3, HereWay
<1>7. Owes(Head(todo)) = Head(todo).next /\ Head(todo).next # 0
  BY <1>2, <1>4, <1>5 DEF Owes, Near
<1>8. /\ W[1].open = Len(g.sc) - 1 /\ g.dom[W[1].at] \subseteq g.dom[Head(todo).next]
      /\ Below(Head(todo).exit, ip, g)
  BY <1>2, <1>3, <1>6, <1>7 DEF Way
<1>9. PICK one : one = << Br(Head(todo).exit) >>
  OBVIOUS
<1>10. Single(one) /\ one[1].var = None /\ one[1].to = {Head(todo).exit}
  BY <1>9, OneInstrIs DEF Br
<1>11. blocks' = blocks \/ Emit(one)
  BY <1>1, <1>9
<1>12. \A d \in one[1].to : d \in Near(blocks, owner) /\ Below(d, ip, g)
  BY <1>5, <1>8, <1>10
<1>13. PICK h : /\ h.bs = blocks' /\ h.sc = scopes' /\ h.f = owner' /\ h.loops = g.loops /\ h.dom = g.dom
                /\ Extends_(g, h) /\ Graph(h)
  BY <1>1, <1>2, <1>10, <1>11, <1>12, NextView
<1>14. PICK s, t : s = g.sc /\ t = h.sc
  OBVIOUS
<1>15. IsSeq(t) /\ Len(s) \in Nat \ {0} /\ Len(t) = Len(s) - 1 /\ \A k \in 1..Len(s)-1 : t[k] = s[k]
  <2>1. IsSeq(s) /\ s # <<>> /\ t = SubSeq(s, 1, Len(s) - 1)
    BY <1>1, <1>4, <1>13, <1>14 DEF Tabled, PopScope
  <2> QED BY ONLY <2>1, PoppedTables
<1>16. Len(s) >= 2
  <2>1. W[Len(todo)].open = 1 /\ Course(todo, W, g)
    BY <1>3 DEF Standing
  <2>2. 1 \in 0..Len(todo) /\ Len(todo) \in 0..Len(todo) /\ 1 <= Len(todo)
    BY <1>6
  <2>3. 1 <= W[1].open
    BY <2>1, <2>2 DEF Course
  <2> QED BY <1>8, <1>14, <1>15, <2>3
<1>17. Tabled(h)
  <2>1. 1 \in 1..Len(s)-1
    BY ONLY <1>15, <1>16
  <2>2. Len(t) # 0
    BY ONLY <1>15, <1>16
  <2>3. t[1] = s[1] /\ t # <<>>
    BY <1>15, <2>1, <2>2, NotEmpty
  <2> QED BY <1>4, <1>14, <1>15, <2>3 DEF Tabled
<1>18. Len(h.sc) = W[1].open /\ Same(g, h, W[1].open)
  BY <1>8, <1>14, <1>15 DEF Same
<1>19. h.dom[W[1].at] \subseteq h.dom[ip']
  BY <1>1, <1>8, <1>13
<1>20. \A l \in g.loops \ loops' : l \notin loops /\ ~(Head(todo).k = "while" /\ Head(todo).body = l)
  BY <1>1, <1>2
<1> QED BY <1>1, <1>2, <1>3, <1>13, <1>17, <1>18, <1>19, <1>20, CloseStep

(* The tables are kept.                                                    *)
LEMMA TablesKept ==
    ASSUME NEW g, Tabled(g), NEW h, h.sc = g.sc, NEW n, n = Len(g.sc)
    PROVE  Tabled(h) /\ Len(h.sc) = n /\ Same(g, h, n) /\ n \in Nat
<1>1. PICK S : g.sc \in Seq(S)
  BY DEF Tabled, IsSeq
<1> QED BY <1>1 DEF Tabled, Same

LEMMA TestPlace ==
    ASSUME HomeInv, ClosedInv, NEW g, PlaceInv(g), TestCondition
    PROVE  DomInv'
<1>1. CASE Stop("assert")
  BY <1>1, StopPlace DEF DomInv
<1>2. CASE ~Stop("assert")
  <2> DEFINE body == Head(todo).body
             exit == Head(todo).exit
  <2>1. /\ At("while") /\ outcome' = outcome /\ owner' = owner /\ loops' = loops \union {body} /\ Do(<<>>)
        /\ Emit(<< CondBr(body, exit) >>) /\ scopes' = scopes /\ ip' = body
    BY <1>2 DEF TestCondition, Keep
  <2>2. Running /\ Head(todo).k = "while"
    BY <2>1 DEF At
  <2>3. PICK W : Standing(todo, W, ip, g) /\ W[0].at = ip /\ W[0].open = Len(g.sc)
    BY <2>1, AtJump
  <2>4. g.bs = blocks /\ g.sc = scopes /\ g.f = owner /\ Tabled(g)
    BY <2>2, HereFacts
  <2>5. body \in Near(blocks, owner) /\ exit \in Near(blocks, owner)
    BY <2>1, HeadTargets
  <2>6. Way(Head(todo), W[0], W[1], g)
    BY <2>2, <2>3, HereWay
  <2>7. Owes(Head(todo)) = body /\ body # 0
    BY <2>2, <2>5 DEF Owes, Near
  <2>8. /\ W[1].open = Len(g.sc) /\ g.dom[W[1].at] \subseteq g.dom[body]
        /\ Below(body, ip, g) /\ Below(exit, ip, g)
    BY <2>2, <2>3, <2>6, <2>7 DEF Way
  <2>9. PICK one : one = << CondBr(body, exit) >>
    OBVIOUS
  <2>10. Single(one) /\ one[1].var = None /\ one[1].to = {body, exit} /\ Emit(one)
    <3>1. PICK b, c : b = body /\ c = exit
      OBVIOUS
    <3>2. one = << CondBr(b, c) >>
      BY <2>9, <3>1
    <3>3. Single(one) /\ one[1].var = None /\ one[1].to = {b, c}
      BY ONLY <3>2, JumpInstr
    <3> QED BY <2>1, <2>9, <3>1, <3>3
  <2>11. \A d \in one[1].to : d \in Near(blocks, owner) /\ Below(d, ip, g)
    BY <2>5, <2>8, <2>10
  <2>12. PICK h : /\ h.bs = blocks' /\ h.sc = scopes' /\ h.f = owner' /\ h.loops = g.loops /\ h.dom = g.dom
                  /\ Extends_(g, h) /\ Graph(h)
    BY <2>1, <2>2, <2>10, <2>11, NextView
  <2>13. Tabled(h) /\ Len(h.sc) = W[1].open /\ Same(g, h, W[1].open)
    BY <2>1, <2>4, <2>8, <2>12, TablesKept
  <2>14. h.dom[W[1].at] \subseteq h.dom[ip']
    BY <2>1, <2>8, <2>12
  <2>15. \A l \in g.loops \ loops' : l \notin loops /\ ~(Head(todo).k = "while" /\ Head(todo).body = l)
    BY <2>1
  <2> QED BY <2>1, <2>2, <2>3, <2>12, <2>13, <2>14, <2>15, CloseStep
<1> QED BY <1>1, <1>2

LEMMA LoopPlace ==
    ASSUME HomeInv, ClosedInv, NEW g, PlaceInv(g), compile_while
    PROVE  DomInv'
<1> DEFINE cond == Head(todo).cond
           exit == Head(todo).exit
<1>1. /\ At("repeat") /\ outcome' = outcome /\ owner' = owner /\ loops' = loops /\ Do(<<>>)
      /\ (blocks' = blocks \/ Emit(<< Br(cond) >>)) /\ scopes' = scopes /\ ip' = exit
  BY DEF compile_while, Keep
<1>2. Running /\ Head(todo).k = "repeat"
  BY <1>1 DEF At
<1>3. PICK W : Standing(todo, W, ip, g) /\ W[0].at = ip /\ W[0].open = Len(g.sc)
  BY <1>1, AtJump
<1>4. g.bs = blocks /\ g.sc = scopes /\ g.f = owner /\ Tabled(g)
  BY <1>2, HereFacts
<1>5. cond \in Near(blocks, owner) /\ exit \in Near(blocks, owner)
  BY <1>1, HeadTargets
<1>6. Way(Head(todo), W[0], W[1], g)
  BY <1>2, <1>3, HereWay
<1>7. Owes(Head(todo)) = exit /\ exit # 0
  BY <1>2, <1>5 DEF Owes, Near
<1>8. /\ W[1].open = Len(g.sc) /\ g.dom[W[1].at] \subseteq g.dom[exit]
      /\ Below(cond, ip, g)
  BY <1>2, <1>3, <1>6, <1>7 DEF Way
<1>9. PICK one : one = << Br(cond) >>
  OBVIOUS
<1>10. /\ Single(one) /\ one[1].var = None /\ one[1].to = {cond}
       /\ blocks' = blocks \/ Emit(one)
  <2>1. PICK b : b = cond
    OBVIOUS
  <2>2. one = << Br(b) >>
    BY <1>9, <2>1
  <2>3. Single(one) /\ one[1].var = None /\ one[1].to = {b}
    BY ONLY <2>2, JumpInstr
  <2> QED BY <1>1, <1>9, <2>1, <2>3
<1>11. \A d \in one[1].to : d \in Near(blocks, owner) /\ Below(d, ip, g)
  BY <1>5, <1>8, <1>10
<1>12. PICK h : /\ h.bs = blocks' /\ h.sc = scopes' /\ h.f = owner' /\ h.loops = g.loops /\ h.dom = g.dom
                /\ Extends_(g, h) /\ Graph(h)
  BY <1>1, <1>2, <1>10, <1>11, NextView
<1>13. Tabled(h) /\ Len(h.sc) = W[1].open /\ Same(g, h, W[1].open)
  BY <1>1, <1>4, <1>8, <1>12, TablesKept
<1>14. h.dom[W[1].at] \subseteq h.dom[ip']
  BY <1>1, <1>8, <1>12
<1>15. \A l \in g.loops \ loops' : l \notin loops /\ ~(Head(todo).k = "while" /\ Head(todo).body = l)
  BY <1>1, <1>2
<1> QED BY <1>1, <1>2, <1>3, <1>12, <1>13, <1>14, <1>15, CloseStep

(* A list of statements, and the item it ends with.                        *)
LEMMA LeadsList ==
    ASSUME NEW g, NEW x, NEW y, Fit(x, g), Fit(y, g), y.open <= x.open, NEW it, Way(it, x, y, g)
    PROVE  Leads(Body \o << it >>, x, y, g) /\ IsSeq(Body \o << it >>)
<1>1. PICK q, r : q = Body /\ r = << it >>
  OBVIOUS
<1>2. Level(q, x.open, g) /\ IsSeq(r)
  BY <1>1, LevelBody, SeqOne
<1>3. IsSeq(q) /\ q # <<>>
  BY <1>1, <1>2 DEF Level, Body
<1>4. Leads(q, x, x, g)
  BY <1>2, <1>3, LeadsLevel
<1>5. Leads(r, x, y, g)
  BY <1>1, LeadsOne
<1>6. Leads(q \o r, x, y, g) /\ IsSeq(q \o r)
  BY <1>2, <1>3, <1>4, <1>5, LeadsBoth, SeqConcat
<1> QED BY <1>1, <1>6

LEMMA BranchPlace ==
    ASSUME HomeInv, ClosedInv, NEW g, PlaceInv(g), Branch
    PROVE  DomInv'
<1>1. PICK b, exit : b = Head(todo).b /\ exit = Head(todo).exit
  OBVIOUS
<1>2. /\ At("then") /\ outcome' = outcome /\ owner' = owner /\ loops' = loops
      /\ Do(Body \o << Join(exit, exit) >>) /\ blocks' = blocks /\ scopes' = OpenScope /\ ip' = b
  BY <1>1 DEF Branch, Keep
<1>3. Running /\ Head(todo).k = "then"
  BY <1>2 DEF At
<1>4. PICK W : Standing(todo, W, ip, g) /\ W[0].at = ip /\ W[0].open = Len(g.sc)
  BY <1>2, AtJump
<1>5. /\ g.bs = blocks /\ g.sc = scopes /\ g.f = owner /\ Graph(g) /\ Tabled(g) /\ AreBlocks(g.bs)
      /\ IsSeq(todo) /\ todo # <<>> /\ Pending(todo, g.loops \ loops) /\ ip \in Near(g.bs, g.f)
      /\ outcome = "none"
  BY <1>3, HereFacts
<1>6. b \in Near(blocks, owner) /\ exit \in Near(blocks, owner)
  BY <1>1, <1>2, HeadTargets
<1>7. ip = b
  <2>1. WalkNow
    BY <1>5 DEF ClosedInv
  <2> QED BY <1>1, <1>3, <1>5, <2>1 DEF WalkNow, Walk
<1>8. Fit(W[0], g) /\ Fit(W[1], g) /\ Way(Head(todo), W[0], W[1], g)
  BY <1>3, <1>4, HereWay
<1>9. Owes(Head(todo)) = exit /\ exit # 0
  BY <1>1, <1>3, <1>6 DEF Owes, Near
<1>10. /\ W[1].open = Len(g.sc) /\ g.dom[W[1].at] \subseteq g.dom[exit]
       /\ Below(exit, b, g)
  BY <1>1, <1>3, <1>4, <1>8, <1>9 DEF Way
<1>11. PICK h : h = [bs |-> blocks', dom |-> g.dom, loops |-> g.loops, sc |-> scopes', f |-> owner']
  OBVIOUS
<1>12. /\ h.bs = blocks' /\ h.sc = scopes' /\ h.f = owner' /\ h.loops = g.loops /\ h.dom = g.dom
       /\ h.bs = g.bs /\ h.f = g.f
  BY <1>2, <1>5, <1>11
<1>13. Graph(h) /\ Extends_(g, h)
  <2>1. Extends_(g, g)
    BY <1>5, ExtendsSelf
  <2> QED BY <1>5, <1>12, <2>1, SameGraph DEF Extends_
<1>14. PICK s, t, N : s = g.sc /\ t = h.sc /\ N = Len(s)
  OBVIOUS
<1>15. /\ IsSeq(t) /\ N \in Nat /\ N # 0 /\ Len(t) = N + 1 /\ t[N + 1] = NoNames
       /\ \A k \in 1..N : t[k] = s[k]
  <2>1. IsSeq(s) /\ s # <<>> /\ Added(t, s, NoNames)
    BY <1>2, <1>5, <1>12, <1>14 DEF Tabled, OpenScope, Added
  <2>2. /\ IsSeq(t) /\ Len(s) \in Nat /\ Len(t) = Len(s) + 1 /\ t[Len(s) + 1] = NoNames
        /\ \A k \in 1..Len(s) : t[k] = s[k]
    BY ONLY <2>1, AddedTable
  <2>3. Len(s) # 0
    <3>1. PICK S : s \in Seq(S)
      BY <2>1 DEF IsSeq
    <3> QED BY <2>1, <3>1
  <2> QED BY <1>14, <2>2, <2>3
<1>16. Tabled(h)
  <2>1. 1 \in 1..N /\ Len(t) # 0
    BY ONLY <1>15
  <2>2. t[1] = s[1] /\ t # <<>>
    BY <1>15, <2>1, NotEmpty
  <2> QED BY <1>5, <1>14, <1>15, <2>2 DEF Tabled
<1>17. Same(g, h, N) /\ N <= Len(h.sc)
  BY <1>14, <1>15 DEF Same
<1>18. Fit(W[1], h)
  BY <1>8, <1>10, <1>12, <1>13, <1>14, <1>17, FitKept
<1>19. PICK x : x = [at |-> b, open |-> N + 1]
  OBVIOUS
<1>20. x.at = b /\ x.open = N + 1
  BY <1>19
<1>21. Fit(x, h)
  <2>1. PICK y : y = W[0]
    OBVIOUS
  <2>2. /\ Extends_(g, h) /\ h.f = g.f /\ Fit(y, g) /\ Same(g, h, y.open)
        /\ x.at \in Near(h.bs, h.f) /\ h.dom[y.at] \subseteq h.dom[x.at]
        /\ x.open = y.open + 1 /\ x.open <= Len(h.sc) /\ h.sc[x.open] = NoNames
    BY <1>4, <1>5, <1>7, <1>8, <1>12, <1>13, <1>14, <1>15, <1>17, <1>20, <2>1
  <2> QED BY ONLY <2>2, FitNew
<1>22. PICK it : it = Join(exit, exit)
  OBVIOUS
<1>23. Way(it, x, W[1], h)
  <2>1. it.k = "join" /\ it.exit = exit /\ Owes(it) = exit
    BY <1>22 DEF Join, Owes
  <2>2. W[1].open = x.open - 1
    BY <1>10, <1>14, <1>15, <1>20
  <2>3. h.dom[W[1].at] \subseteq h.dom[exit] /\ Below(exit, x.at, h)
    BY <1>10, <1>12, <1>20 DEF Below
  <2> QED BY <1>9, <2>1, <2>2, <2>3 DEF Way
<1>24. PICK items : items = Body \o << it >>
  OBVIOUS
<1>25. Leads(items, x, W[1], h) /\ IsSeq(items)
  <2>1. W[1].open <= x.open
    BY <1>10, <1>14, <1>15, <1>20
  <2>2. PICK y : y = W[1]
    OBVIOUS
  <2>3. Fit(x, h) /\ Fit(y, h) /\ y.open <= x.open /\ Way(it, x, y, h)
    BY <1>18, <1>21, <1>23, <2>1, <2>2
  <2>4. Leads(Body \o << it >>, x, y, h) /\ IsSeq(Body \o << it >>)
    BY ONLY <2>3, LeadsList
  <2> QED BY <1>24, <2>2, <2>4
<1>26. Pending(items \o Tail(todo), h.loops \ loops')
  <2>1. \A l \in h.loops \ loops' : l \in g.loops \ loops /\ ~(Head(todo).k = "while" /\ Head(todo).body = l)
    BY <1>2, <1>3, <1>12
  <2> QED BY <1>5, <1>25, <2>1, PendingMoves
<1>27. /\ Do(items) /\ Same(g, h, W[1].open) /\ x.open = Len(h.sc) /\ h.dom[x.at] \subseteq h.dom[ip']
  BY <1>2, <1>10, <1>14, <1>15, <1>17, <1>20, <1>22, <1>24
<1> QED BY <1>2, <1>3, <1>4, <1>12, <1>13, <1>16, <1>25, <1>26, <1>27, LeadsStep

(* The view with three new blocks, for which D is passed.                  *)
Three(g, one, N, D, L, bs) ==
    /\ Single(one) /\ one[1].var = None /\ N = Len(blocks)
    /\ \A b \in N+1..N+3 : b \in D[b] /\ D[b] \subseteq g.dom[ip] \union N+1..N+3
    /\ \A d \in one[1].to : d \in N+1..N+3 /\ D[d] \subseteq g.dom[ip] \union {d}
    /\ g.loops \subseteq L /\ bs = Append_(blocks, ip, one) \o New(3, owner)

LEMMA ThreeView ==
    ASSUME HomeInv, ClosedInv, Running, NEW g, PlaceInv(g), NEW one, NEW N, NEW D, NEW L, NEW bs,
           Three(g, one, N, D, L, bs)
    PROVE  \E h : /\ h.bs = bs /\ h.sc = scopes' /\ h.f = owner /\ h.loops = L
                  /\ Extends_(g, h) /\ Graph(h) /\ AreBlocks(h.bs) /\ Len(h.bs) = N + 3
                  /\ \A b \in 1..N : h.dom[b] = g.dom[b]
                  /\ \A b \in N+1..N+3 : h.dom[b] = D[b] /\ b \in Near(h.bs, h.f)
<1>0. /\ Single(one) /\ one[1].var = None /\ N = Len(blocks)
      /\ \A b \in N+1..N+3 : b \in D[b] /\ D[b] \subseteq g.dom[ip] \union N+1..N+3
      /\ \A d \in one[1].to : d \in N+1..N+3 /\ D[d] \subseteq g.dom[ip] \union {d}
      /\ g.loops \subseteq L /\ bs = Append_(blocks, ip, one) \o New(3, owner)
  BY DEF Three
<1> USE <1>0
<1>1. /\ g.bs = blocks /\ g.f = owner /\ Graph(g) /\ AreBlocks(g.bs) /\ Home(g.bs)
      /\ ip \in 1..Len(g.bs) /\ owner = g.bs[ip].fn /\ Len(g.bs) \in Nat
  <2>1. /\ g.bs = blocks /\ g.f = owner /\ Graph(g) /\ AreBlocks(g.bs) /\ Home(g.bs)
        /\ ip \in 1..Len(g.bs) /\ g.f = g.bs[ip].fn /\ Len(g.bs) \in Nat
    BY HereFacts
  <2> QED BY <2>1
<1>2. PICK h : h = [bs |-> bs, dom |-> [b \in 1..N+3 |-> IF b <= N THEN g.dom[b] ELSE D[b]],
                    loops |-> L, sc |-> scopes', f |-> owner]
  OBVIOUS
<1>3. h.bs = bs /\ h.sc = scopes' /\ h.f = owner /\ h.loops = L
  BY <1>2
<1>4. /\ \A b \in 1..N : h.dom[b] = g.dom[b]
      /\ \A b \in N+1..N+3 : h.dom[b] = D[b]
  <2>1. h.dom = [b \in 1..N+3 |-> IF b <= N THEN g.dom[b] ELSE D[b]] /\ N \in Nat
    BY <1>1, <1>2
  <2> QED BY ONLY <2>1
<1>5. PICK p, f, made, more : p = ip /\ f = owner /\ made = Append_(g.bs, ip, one) /\ more = New(3, owner)
  OBVIOUS
<1>6. \A d \in one[1].to : Below(d, p, h)
  <2> TAKE d \in one[1].to
  <2>1. d \in N+1..N+3 /\ D[d] \subseteq g.dom[ip] \union {d}
    OBVIOUS
  <2>2. h.dom[d] = D[d] /\ h.dom[ip] = g.dom[ip]
    BY <1>1, <1>4, <2>1
  <2> QED BY <1>5, <2>1, <2>2 DEF Below
<1>7. /\ AreBlocks(g.bs) /\ Home(g.bs) /\ Graph(g) /\ p \in 1..Len(g.bs) /\ Single(one)
      /\ one[1].var = None /\ f = g.bs[p].fn
      /\ made = Append_(g.bs, p, one) /\ more = New(3, f) /\ h.bs = made \o more /\ N = Len(g.bs)
      /\ (\A b \in 1..N : h.dom[b] = g.dom[b]) /\ g.loops \subseteq h.loops
      /\ (\A b \in N+1..N+3 : b \in h.dom[b] /\ h.dom[b] \subseteq g.dom[p] \union N+1..N+3)
      /\ (\A d \in one[1].to : Below(d, p, h))
  BY <1>1, <1>3, <1>4, <1>5, <1>6
<1>8. /\ Extends_(g, h) /\ Graph(h) /\ AreBlocks(h.bs) /\ Len(h.bs) = N + 3
      /\ \A b \in N+1..N+3 : h.bs[b].fn = f
  <2>1. Opens(g, h, p, one, f, made, more, N)
    BY <1>7 DEF Opens
  <2> QED BY ONLY <2>1, OpenView
<1>9. \A b \in N+1..N+3 : b \in Near(h.bs, h.f)
  <2>1. N+1..N+3 \subseteq 1..Len(h.bs)
    BY ONLY <1>1, <1>7, <1>8
  <2> QED BY <1>3, <1>5, <1>8, <2>1 DEF Near
<1> QED BY <1>3, <1>4, <1>8, <1>9

(* A list of statements, and the two items it ends with.                   *)
LEMMA ListAndTwo ==
    ASSUME NEW x, NEW y
    PROVE  (Body \o << x >>) \o << y >> = Body \o << x, y >>
<1> DEFINE u == <<x>>
           v == <<y>>
           w == Body
<1>1. IsSeq(u) /\ IsSeq(v) /\ IsSeq(w)
  BY SeqOne, PlainBody DEF Plain
<1> HIDE DEF u, v, w
<1>2. PICK A : u \in Seq(A)
  BY <1>1 DEF IsSeq
<1>3. PICK B : v \in Seq(B)
  BY <1>1 DEF IsSeq
<1>4. PICK C : w \in Seq(C)
  BY <1>1 DEF IsSeq
<1> DEFINE U == A \union B \union C
<1>5. u \in Seq(U) /\ v \in Seq(U) /\ w \in Seq(U)
  BY <1>2, <1>3, <1>4
<1> HIDE DEF U
<1>6. (w \o u) \o v = w \o (u \o v)
  BY <1>5, ConcatAssociative
<1>7. (Body \o <<x>>) \o <<y>> = Body \o (<<x>> \o <<y>>)
  BY <1>6 DEF u, v, w
<1> QED BY <1>7, TwoAre

LEMMA LeadsIf ==
    ASSUME NEW g, NEW x, NEW y, NEW z, Fit(x, g), Fit(y, g), Fit(z, g), y.open <= x.open, z.open <= y.open,
           NEW j, Way(j, x, y, g), NEW t, Way(t, y, z, g)
    PROVE  Leads(Body \o << j, t >>, x, z, g) /\ IsSeq(Body \o << j, t >>)
<1>1. PICK p, q : p = Body \o << j >> /\ q = << t >>
  OBVIOUS
<1>2. Leads(p, x, y, g) /\ IsSeq(p)
  <2>1. Leads(Body \o << j >>, x, y, g) /\ IsSeq(Body \o << j >>)
    BY LeadsList
  <2> QED BY <1>1, <2>1
<1>3. Leads(q, y, z, g) /\ IsSeq(q)
  BY <1>1, LeadsOne, SeqOne
<1>4. Leads(p \o q, x, z, g) /\ IsSeq(p \o q)
  BY <1>2, <1>3, LeadsBoth, SeqConcat
<1>5. p \o q = Body \o << j, t >>
  BY <1>1, ListAndTwo
<1> QED BY <1>4, <1>5

LEMMA PrefixTwice ==
    ASSUME NEW p, NEW q, NEW r, Prefix(p, q), Prefix(q, r)
    PROVE  Prefix(p, r)
<1>1. /\ Len(p) \in Nat /\ Len(q) \in Nat /\ Len(r) \in Nat /\ Len(p) <= Len(q) /\ Len(q) <= Len(r)
      /\ \A i \in 1..Len(p) : q[i] = p[i]
      /\ \A i \in 1..Len(q) : r[i] = q[i]
  BY DEF Prefix
<1>2. ASSUME NEW i \in 1..Len(p) PROVE r[i] = p[i]
  <2>1. i \in 1..Len(q)
    BY <1>1
  <2> QED BY <1>1, <2>1
<1>3. Len(p) <= Len(r)
  BY <1>1
<1> QED BY <1>1, <1>2, <1>3 DEF Prefix

LEMMA ExtendsTwice ==
    ASSUME NEW g, NEW h, NEW k, Extends_(g, h), Extends_(h, k)
    PROVE  Extends_(g, k)
<1>1. /\ Len(g.bs) \in Nat /\ Len(h.bs) \in Nat /\ Len(k.bs) \in Nat
      /\ Len(g.bs) <= Len(h.bs) /\ Len(h.bs) <= Len(k.bs)
      /\ g.loops \subseteq h.loops /\ h.loops \subseteq k.loops
  BY DEF Extends_
<1>2. ASSUME NEW b \in 1..Len(g.bs)
      PROVE  k.bs[b].fn = g.bs[b].fn /\ k.dom[b] = g.dom[b] /\ Prefix(g.bs[b].code, k.bs[b].code)
  <2>1. b \in 1..Len(h.bs)
    BY <1>1
  <2>2. /\ h.bs[b].fn = g.bs[b].fn /\ h.dom[b] = g.dom[b] /\ Prefix(g.bs[b].code, h.bs[b].code)
        /\ k.bs[b].fn = h.bs[b].fn /\ k.dom[b] = h.dom[b] /\ Prefix(h.bs[b].code, k.bs[b].code)
    BY <2>1 DEF Extends_
  <2>3. Prefix(g.bs[b].code, k.bs[b].code)
    BY <2>2, PrefixTwice
  <2> QED BY <2>2, <2>3
<1>3. Len(g.bs) <= Len(k.bs) /\ g.loops \subseteq k.loops
  BY <1>1
<1> QED BY <1>1, <1>2, <1>3 DEF Extends_

(* A table is opened.                                                      *)
LEMMA TablesOpened ==
    ASSUME NEW g, Tabled(g), NEW h, Added(h.sc, g.sc, NoNames), NEW n, n = Len(g.sc)
    PROVE  /\ Tabled(h) /\ n \in Nat /\ Len(h.sc) = n + 1 /\ h.sc[n + 1] = NoNames
           /\ Same(g, h, n)
<1>1. PICK s, t : s = g.sc /\ t = h.sc
  OBVIOUS
<1>2. /\ IsSeq(t) /\ n \in Nat /\ n # 0 /\ Len(t) = n + 1 /\ t[n + 1] = NoNames
      /\ \A k \in 1..n : t[k] = s[k]
  <2>1. IsSeq(s) /\ s # <<>> /\ Added(t, s, NoNames)
    BY <1>1 DEF Tabled
  <2>2. /\ IsSeq(t) /\ Len(s) \in Nat /\ Len(t) = Len(s) + 1 /\ t[Len(s) + 1] = NoNames
        /\ \A k \in 1..Len(s) : t[k] = s[k]
    BY ONLY <2>1, AddedTable
  <2>3. Len(s) # 0
    <3>1. PICK S : s \in Seq(S)
      BY <2>1 DEF IsSeq
    <3> QED BY <2>1, <3>1
  <2> QED BY <1>1, <2>2, <2>3
<1>3. 1 \in 1..n /\ Len(t) # 0
  BY ONLY <1>2
<1>4. t[1] = s[1] /\ t # <<>>
  BY <1>2, <1>3, NotEmpty
<1>5. Tabled(h)
  BY <1>1, <1>2, <1>4 DEF Tabled
<1>6. n <= Len(h.sc)
  BY <1>1, <1>2
<1> QED BY <1>1, <1>2, <1>5, <1>6 DEF Same

(* The stages of a branch: the blocks for `then', `else' and what follows. *)
LEMMA IfStages ==
    ASSUME NEW h, NEW a, NEW b, NEW c, NEW P, h.dom[a] = P \union {a}, h.dom[b] = P \union {b},
           h.dom[c] = P \union {c}, NEW z, h.dom[z.at] \subseteq P, a # 0, c # 0,
           NEW x, NEW y, x.at = b, y.at = a, x.open = y.open + 1, z.open = y.open, y.open \in Nat
    PROVE  Way(Join(c, a), x, y, h) /\ Way(Then(a, c), y, z, h)
<1>1. PICK j, t : j = Join(c, a) /\ t = Then(a, c)
  OBVIOUS
<1>2. /\ j.k = "join" /\ j.exit = c /\ j.next = a /\ t.k = "then" /\ t.b = a /\ t.exit = c
  BY <1>1 DEF Join, Then
<1>3. Owes(j) = a /\ Owes(t) = c
  BY <1>2 DEF Owes
<1>4. Below(c, b, h) /\ Below(c, a, h)
  BY DEF Below
<1>5. y.open = x.open - 1
  OBVIOUS
<1>6. Way(j, x, y, h)
  BY <1>2, <1>3, <1>4, <1>5 DEF Way
<1>7. h.dom[z.at] \subseteq h.dom[c]
  OBVIOUS
<1>8. Way(t, y, z, h)
  BY <1>2, <1>3, <1>4, <1>7 DEF Way
<1> QED BY <1>1, <1>6, <1>8

LEMMA IfPlace ==
    ASSUME HomeInv, ClosedInv, NEW g, PlaceInv(g), compile_if
    PROVE  DomInv'
<1>1. CASE Stop("assert")
  BY <1>1, StopPlace DEF DomInv
<1>2. CASE ~Stop("assert")
  <2>0. At("if") /\ Running /\ Head(todo).k = "if"
    BY DEF compile_if, At
  <2>1. PICK N, a, b, c : N = Len(blocks) /\ a = N + 1 /\ b = N + 2 /\ c = N + 3
    OBVIOUS
  <2>2. PICK one, bs : one = << CondBr(a, b) >> /\ bs = Append_(blocks, ip, one) \o New(3, owner)
    OBVIOUS
  <2>3. /\ outcome' = outcome /\ owner' = owner /\ loops' = loops
        /\ \/ /\ blocks' = bs /\ ip' = b /\ scopes' = OpenScope
              /\ Do(Body \o << Join(c, a), Then(a, c) >>)
           \/ /\ blocks' = Append_(bs, b, << Br(c) >>) /\ ip' = a /\ scopes' = scopes
              /\ Do(<< Then(a, c) >>)
    <3>1. [i \in 1..3 |-> Block(Parent)] = New(3, owner)
      BY <2>0, NewBlocks
    <3> QED BY <1>2, <2>1, <2>2, <3>1 DEF compile_if, Keep, BlocksMade
  <2>4. /\ g.bs = blocks /\ g.sc = scopes /\ g.f = owner /\ Graph(g) /\ Tabled(g)
        /\ N \in Nat /\ Len(g.sc) \in Nat /\ ip \in 1..N /\ IsSeq(todo) /\ todo # <<>>
        /\ Pending(todo, g.loops \ loops)
    BY <2>0, <2>1, HereFacts
  <2>5. PICK W : Standing(todo, W, ip, g) /\ W[0].at = ip /\ W[0].open = Len(g.sc)
    BY <2>0, HereCourse
  <2>6. Fit(W[0], g) /\ Fit(W[1], g) /\ Way(Head(todo), W[0], W[1], g)
    BY <2>0, <2>5, HereWay
  <2>7. W[1].open = Len(g.sc) /\ g.dom[W[1].at] \subseteq g.dom[ip] /\ W[1].at \in 1..N
    <3>1. Owes(Head(todo)) = 0
      BY <2>0 DEF Owes
    <3> QED BY <2>0, <2>1, <2>4, <2>5, <2>6, <3>1 DEF Way, Fit, Near
  <2>8. Single(one) /\ one[1].var = None /\ one[1].to = {a, b}
    BY <2>2, JumpInstr
  <2>9. PICK P, D, L : P = g.dom[ip] /\ D = [d \in N+1..N+3 |-> P \union {d}] /\ L = g.loops
    OBVIOUS
  <2>10. a \in N+1..N+3 /\ b \in N+1..N+3 /\ c \in N+1..N+3 /\ a # 0 /\ c # 0
    BY <2>1, <2>4
  <2>11. PICK h : /\ h.bs = bs /\ h.sc = scopes' /\ h.f = owner /\ h.loops = L
                  /\ Extends_(g, h) /\ Graph(h) /\ AreBlocks(h.bs) /\ Len(h.bs) = N + 3
                  /\ \A d \in 1..N : h.dom[d] = g.dom[d]
                  /\ \A d \in N+1..N+3 : h.dom[d] = D[d] /\ d \in Near(h.bs, h.f)
    <3>1. \A d \in N+1..N+3 : D[d] = P \union {d}
      BY <2>9
    <3>2. \A d \in N+1..N+3 : d \in D[d] /\ D[d] \subseteq g.dom[ip] \union N+1..N+3
      BY <2>9, <3>1
    <3>3. \A d \in one[1].to : d \in N+1..N+3 /\ D[d] \subseteq g.dom[ip] \union {d}
      BY <2>8, <2>9, <2>10, <3>1
    <3>4. Three(g, one, N, D, L, bs)
      BY <2>1, <2>2, <2>8, <2>9, <3>2, <3>3 DEF Three
    <3> QED BY <2>0, <3>4, ThreeView
  <2>12. /\ h.dom[a] = P \union {a} /\ h.dom[b] = P \union {b} /\ h.dom[c] = P \union {c}
         /\ a \in Near(h.bs, h.f) /\ b \in Near(h.bs, h.f) /\ c \in Near(h.bs, h.f)
         /\ h.dom[ip] = P /\ h.dom[W[1].at] = g.dom[W[1].at] /\ h.f = g.f
    BY <2>4, <2>7, <2>9, <2>10, <2>11
  <2>13. PICK m, y, z : m = Len(g.sc) /\ y = [at |-> a, open |-> m] /\ z = W[1]
    OBVIOUS
  <2>14. /\ y.at = a /\ y.open = m /\ m \in Nat /\ z.open = m /\ h.dom[z.at] \subseteq P
         /\ g.dom[ip] = P
    BY <2>4, <2>7, <2>9, <2>12, <2>13
  <2>15. CASE /\ blocks' = bs /\ ip' = b /\ scopes' = OpenScope
              /\ Do(Body \o << Join(c, a), Then(a, c) >>)
    <3>1. Added(h.sc, g.sc, NoNames)
      BY <2>4, <2>11, <2>15 DEF OpenScope, Added
    <3>2. /\ Tabled(h) /\ Len(h.sc) = m + 1 /\ h.sc[m + 1] = NoNames /\ Same(g, h, m)
      BY <2>4, <2>13, <3>1, TablesOpened
    <3>3. PICK x, w : x = [at |-> b, open |-> m + 1] /\ w = W[0]
      OBVIOUS
    <3>4. x.at = b /\ x.open = m + 1 /\ w.at = ip /\ w.open = m /\ Fit(w, g)
      BY <2>5, <2>6, <2>13, <3>3
    <3>5. Fit(x, h)
      <4>1. /\ Extends_(g, h) /\ h.f = g.f /\ Fit(w, g) /\ Same(g, h, w.open)
            /\ x.at \in Near(h.bs, h.f) /\ h.dom[w.at] \subseteq h.dom[x.at]
            /\ x.open = w.open + 1 /\ x.open <= Len(h.sc) /\ h.sc[x.open] = NoNames
        BY <2>11, <2>12, <2>14, <3>2, <3>4
      <4> QED BY ONLY <4>1, FitNew
    <3>6. Fit(y, h)
      <4>1. /\ Extends_(g, h) /\ h.f = g.f /\ Fit(w, g) /\ Same(g, h, w.open)
            /\ y.at \in Near(h.bs, h.f) /\ h.dom[w.at] \subseteq h.dom[y.at]
            /\ y.open = w.open
        BY <2>11, <2>12, <2>14, <3>2, <3>4
      <4> QED BY ONLY <4>1, FitNew
    <3>7. Fit(z, h)
      BY <2>6, <2>11, <2>12, <2>13, <2>14, <3>2, FitKept
    <3>8. PICK j, t : j = Join(c, a) /\ t = Then(a, c)
      OBVIOUS
    <3>9. Way(j, x, y, h) /\ Way(t, y, z, h)
      <4>1. /\ h.dom[a] = P \union {a} /\ h.dom[b] = P \union {b} /\ h.dom[c] = P \union {c}
            /\ h.dom[z.at] \subseteq P /\ a # 0 /\ c # 0 /\ x.at = b /\ y.at = a
            /\ x.open = y.open + 1 /\ z.open = y.open /\ y.open \in Nat
        BY <2>10, <2>12, <2>14, <3>4
      <4>2. Way(Join(c, a), x, y, h) /\ Way(Then(a, c), y, z, h)
        BY ONLY <4>1, IfStages
      <4> QED BY <3>8, <4>2
    <3>10. PICK items : items = Body \o << j, t >>
      OBVIOUS
    <3>11. Leads(items, x, z, h) /\ IsSeq(items)
      <4>1. /\ Fit(x, h) /\ Fit(y, h) /\ Fit(z, h) /\ y.open <= x.open /\ z.open <= y.open
            /\ Way(j, x, y, h) /\ Way(t, y, z, h)
        BY <2>14, <3>4, <3>5, <3>6, <3>7, <3>9
      <4>2. Leads(Body \o << j, t >>, x, z, h) /\ IsSeq(Body \o << j, t >>)
        BY ONLY <4>1, LeadsIf
      <4> QED BY <3>10, <4>2
    <3>12. Pending(items \o Tail(todo), h.loops \ loops')
      <4>1. \A l \in h.loops \ loops' : l \in g.loops \ loops /\ ~(Head(todo).k = "while" /\ Head(todo).body = l)
        BY <2>0, <2>3, <2>9, <2>11
      <4> QED BY <2>4, <3>11, <4>1, PendingMoves
    <3>13. /\ Do(items) /\ Same(g, h, W[1].open) /\ x.open = Len(h.sc) /\ h.dom[x.at] \subseteq h.dom[ip']
           /\ Leads(items, x, W[1], h) /\ h.bs = blocks' /\ h.f = owner'
      BY <2>3, <2>11, <2>13, <2>14, <2>15, <3>2, <3>4, <3>8, <3>10, <3>11
    <3> QED BY <2>0, <2>3, <2>5, <2>11, <3>2, <3>11, <3>12, <3>13, LeadsStep
  <2>16. CASE /\ blocks' = Append_(bs, b, << Br(c) >>) /\ ip' = a /\ scopes' = scopes
              /\ Do(<< Then(a, c) >>)
    <3>1. PICK two : two = << Br(c) >>
      OBVIOUS
    <3>2. Single(two) /\ two[1].var = None /\ two[1].to = {c}
      BY <3>1, JumpInstr
    <3>3. Home(h.bs)
      <4>1. PICK to : to = {a, b}
        OBVIOUS
      <4>2. CondBr(a, b) = Instr("br", None, to) /\ to \subseteq Reach(3)
        BY <2>0, <2>1, <4>1, NewBlocks DEF CondBr, BlocksMade
      <4>3. bs = Append_(blocks, ip, << Instr("br", None, to) >>) \o New(3, owner)
        BY <2>2, <4>2
      <4>4. Home(bs)
        BY <2>0, <4>2, <4>3, Jumped
      <4> QED BY <2>11, <4>4
    <3>4. PICK k : k = [bs |-> blocks', dom |-> h.dom, loops |-> h.loops, sc |-> scopes', f |-> owner']
      OBVIOUS
    <3>5. /\ k.bs = blocks' /\ k.sc = scopes' /\ k.f = owner' /\ k.loops = h.loops /\ k.dom = h.dom
      BY <3>4
    <3>6. /\ AreBlocks(h.bs) /\ Home(h.bs) /\ Graph(h) /\ b \in 1..Len(h.bs) /\ Single(two)
          /\ two[1].var = None /\ (\A d \in two[1].to : d \in 1..Len(h.bs) /\ Below(d, b, h))
          /\ (k.bs = h.bs \/ k.bs = Append_(h.bs, b, two)) /\ k.dom = h.dom /\ k.loops = h.loops
      <4>1. b \in 1..Len(h.bs) /\ c \in 1..Len(h.bs)
        BY <2>12 DEF Near
      <4>2. Below(c, b, h)
        BY <2>12 DEF Below
      <4> QED BY <2>11, <2>16, <3>1, <3>2, <3>3, <3>5, <4>1, <4>2
    <3>7. Extends_(h, k) /\ Graph(k)
      BY ONLY <3>6, JumpView
    <3>8. Extends_(g, k)
      BY <2>11, <3>7, ExtendsTwice
    <3>9. a \in Near(k.bs, k.f)
      <4>1. k.f = h.f
        BY <2>3, <2>11, <3>5
      <4> QED BY <2>12, <3>7, <4>1 DEF Extends_, Near
    <3>10. Tabled(k) /\ Len(k.sc) = m /\ Same(g, k, m)
      BY <2>4, <2>13, <2>16, <3>5, TablesKept
    <3>11. PICK w : w = W[0]
      OBVIOUS
    <3>12. Fit(y, k)
      <4>1. /\ Extends_(g, k) /\ k.f = g.f /\ Fit(w, g) /\ Same(g, k, w.open)
            /\ y.at \in Near(k.bs, k.f) /\ k.dom[w.at] \subseteq k.dom[y.at]
            /\ y.open = w.open
        BY <2>3, <2>4, <2>5, <2>6, <2>12, <2>13, <2>14, <3>5, <3>8, <3>9, <3>10, <3>11
      <4> QED BY ONLY <4>1, FitNew
    <3>13. Fit(z, k)
      <4>1. Extends_(g, k) /\ k.f = g.f /\ Fit(z, g) /\ Same(g, k, z.open)
        BY <2>3, <2>4, <2>6, <2>13, <2>14, <3>5, <3>8, <3>10
      <4> QED BY ONLY <4>1, FitKept
    <3>14. PICK t : t = Then(a, c)
      OBVIOUS
    <3>15. Way(t, y, z, k)
      <4>1. PICK x : x = [at |-> b, open |-> m + 1]
        OBVIOUS
      <4>2. /\ k.dom[a] = P \union {a} /\ k.dom[b] = P \union {b} /\ k.dom[c] = P \union {c}
            /\ k.dom[z.at] \subseteq P /\ a # 0 /\ c # 0 /\ x.at = b /\ y.at = a
            /\ x.open = y.open + 1 /\ z.open = y.open /\ y.open \in Nat
        BY <2>10, <2>12, <2>14, <3>5, <4>1
      <4>3. Way(Then(a, c), y, z, k)
        BY ONLY <4>2, IfStages
      <4> QED BY <3>14, <4>3
    <3>16. PICK items : items = << t >>
      OBVIOUS
    <3>17. Leads(items, y, z, k) /\ IsSeq(items)
      <4>1. Fit(y, k) /\ Fit(z, k) /\ z.open <= y.open /\ Way(t, y, z, k)
        BY <2>14, <3>12, <3>13, <3>15
      <4>2. Leads(<< t >>, y, z, k)
        BY ONLY <4>1, LeadsOne
      <4> QED BY <3>16, <4>2, SeqOne
    <3>18. Pending(items \o Tail(todo), k.loops \ loops')
      <4>1. \A l \in k.loops \ loops' : l \in g.loops \ loops /\ ~(Head(todo).k = "while" /\ Head(todo).body = l)
        BY <2>0, <2>3, <2>9, <2>11, <3>5
      <4> QED BY <2>4, <3>17, <4>1, PendingMoves
    <3>19. /\ Do(items) /\ Same(g, k, W[1].open) /\ y.open = Len(k.sc) /\ k.dom[y.at] \subseteq k.dom[ip']
           /\ Leads(items, y, W[1], k)
      BY <2>7, <2>13, <2>14, <2>16, <3>10, <3>14, <3>16, <3>17
    <3> QED BY <2>0, <2>3, <2>5, <3>5, <3>7, <3>8, <3>10, <3>17, <3>18, <3>19, LeadsStep
  <2> QED BY <2>3, <2>15, <2>16
<1> QED BY <1>1, <1>2

(* The stages of a loop: the blocks for the condition, the body and what   *)
(* follows.                                                                *)
LoopStages(h, c, b, e, P, x, y, z) ==
    /\ h.dom[c] = P \union {c} /\ h.dom[b] = P \union {c, b} /\ h.dom[e] = P \union {c, e}
    /\ b \in h.loops /\ h.dom[z.at] \subseteq P /\ b # 0 /\ e # 0
    /\ x.at = c /\ y.at = b /\ x.open = z.open /\ y.open = z.open

LEMMA WhileStages ==
    ASSUME NEW h, NEW c, NEW b, NEW e, NEW P, NEW x, NEW y, NEW z, LoopStages(h, c, b, e, P, x, y, z)
    PROVE  Way(It("expr"), x, x, h) /\ Way(While(b, e), x, y, h) /\ Way(Repeat(c, e), y, z, h)
<1> USE DEF LoopStages
<1>1. PICK a, w, r : a = It("expr") /\ w = While(b, e) /\ r = Repeat(c, e)
  OBVIOUS
<1>2. /\ a.k = "expr" /\ w.k = "while" /\ w.body = b /\ w.exit = e /\ r.k = "repeat" /\ r.cond = c /\ r.exit = e
  BY <1>1 DEF It, While, Repeat
<1>3. Owes(a) = 0 /\ Owes(w) = b /\ Owes(r) = e
  BY <1>2 DEF Owes
<1>4. Below(b, c, h) /\ Below(e, c, h) /\ Below(c, b, h) /\ Inside(b, h)
  BY DEF Below, Inside
<1>5. Way(a, x, x, h)
  BY <1>2, <1>3 DEF Way
<1>6. Way(w, x, y, h)
  BY <1>2, <1>3, <1>4 DEF Way
<1>7. h.dom[z.at] \subseteq h.dom[e]
  OBVIOUS
<1>8. Way(r, y, z, h)
  BY <1>2, <1>3, <1>4, <1>7 DEF Way
<1> QED BY <1>1, <1>5, <1>6, <1>8

(* A condition, a body and the jump back.                                  *)
Looping(items, a, w, r) == items = << a, w >> \o Body \o << r >>

LEMMA LeadsWhile ==
    ASSUME NEW g, NEW x, NEW y, NEW z, Fit(x, g), Fit(y, g), Fit(z, g), y.open <= x.open, z.open <= y.open,
           x.open <= x.open, NEW a, Way(a, x, x, g), NEW w, Way(w, x, y, g), NEW r, Way(r, y, z, g),
           NEW items, Looping(items, a, w, r)
    PROVE  Leads(items, x, z, g) /\ IsSeq(items) /\ \E i \in 1..Len(items) : items[i] = w
<1>1. PICK p, q, s, t, u : p = << a >> /\ q = << w >> /\ s = << a, w >> /\ t = Body /\ u = << r >>
  OBVIOUS
<1>2. Leads(p, x, x, g) /\ Leads(q, x, y, g) /\ Leads(u, y, z, g)
  BY <1>1, LeadsOne
<1>3. IsSeq(p) /\ IsSeq(q) /\ IsSeq(u)
  BY <1>1, SeqOne
<1>4. s = p \o q
  BY <1>1, TwoAre
<1>5. Leads(s, x, y, g) /\ IsSeq(s)
  BY <1>2, <1>3, <1>4, LeadsBoth, SeqConcat
<1>6. Leads(t, y, y, g) /\ IsSeq(t)
  <2>1. Level(t, y.open, g)
    BY <1>1, LevelBody
  <2>2. IsSeq(t) /\ t # <<>>
    BY <1>1, <2>1 DEF Level, Body
  <2> QED BY <2>1, <2>2, LeadsLevel
<1>7. PICK v : v = s \o t
  OBVIOUS
<1>8. Leads(v, x, y, g) /\ IsSeq(v)
  BY <1>5, <1>6, <1>7, LeadsBoth, SeqConcat
<1>9. items = v \o u
  BY <1>1, <1>7 DEF Looping
<1>10. Leads(items, x, z, g) /\ IsSeq(items)
  BY <1>2, <1>3, <1>8, <1>9, LeadsBoth, SeqConcat
<1>11. \E i \in 1..Len(items) : items[i] = w
  <2>1. Len(s) = 2 /\ s[2] = w
    BY <1>1
  <2>2. /\ Len(v) = Len(s) + Len(t) /\ Len(t) \in Nat /\ \A i \in 1..Len(s) : v[i] = s[i]
    BY <1>5, <1>6, <1>7, SeqConcat
  <2>3. /\ Len(items) = Len(v) + Len(u) /\ Len(u) \in Nat /\ \A i \in 1..Len(v) : items[i] = v[i]
    BY <1>3, <1>8, <1>9, SeqConcat
  <2>4. 2 \in 1..Len(s) /\ 2 \in 1..Len(v) /\ 2 \in 1..Len(items)
    BY ONLY <2>1, <2>2, <2>3
  <2> QED BY <2>1, <2>2, <2>3, <2>4
<1> QED BY <1>10, <1>11

LEMMA WhilePlace ==
    ASSUME HomeInv, ClosedInv, NEW g, PlaceInv(g), WhileStmt
    PROVE  DomInv'
<1>0. At("stmt") /\ Running /\ Head(todo).k = "stmt"
  BY DEF WhileStmt, At
<1>1. PICK N, c, b, e : N = Len(blocks) /\ c = N + 1 /\ b = N + 2 /\ e = N + 3
  OBVIOUS
<1>2. PICK one, bs, items : /\ one = << Br(c) >> /\ bs = Append_(blocks, ip, one) \o New(3, owner)
                            /\ items = << It("expr"), While(b, e) >> \o Body \o << Repeat(c, e) >>
  OBVIOUS
<1>3. /\ outcome' = outcome /\ owner' = owner /\ loops' = loops
      /\ blocks' = bs /\ ip' = c /\ scopes' = scopes /\ Do(items)
  <2>1. [i \in 1..3 |-> Block(Parent)] = New(3, owner)
    BY <1>0, NewBlocks
  <2> QED BY <1>1, <1>2, <2>1 DEF WhileStmt, Pure, Keep, BlocksMade
<1>4. /\ g.bs = blocks /\ g.sc = scopes /\ g.f = owner /\ Graph(g) /\ Tabled(g)
      /\ N \in Nat /\ Len(g.sc) \in Nat /\ ip \in 1..N /\ IsSeq(todo) /\ todo # <<>>
      /\ Pending(todo, g.loops \ loops)
  BY <1>0, <1>1, HereFacts
<1>5. PICK W : Standing(todo, W, ip, g) /\ W[0].at = ip /\ W[0].open = Len(g.sc)
  BY <1>0, HereCourse
<1>6. Fit(W[0], g) /\ Fit(W[1], g) /\ Way(Head(todo), W[0], W[1], g)
  BY <1>0, <1>5, HereWay
<1>7. W[1].open = Len(g.sc) /\ g.dom[W[1].at] \subseteq g.dom[ip] /\ W[1].at \in 1..N
  <2>1. Owes(Head(todo)) = 0
    BY <1>0 DEF Owes
  <2> QED BY <1>0, <1>1, <1>4, <1>5, <1>6, <2>1 DEF Way, Fit, Near
<1>8. Single(one) /\ one[1].var = None /\ one[1].to = {c}
  BY <1>2, JumpInstr
<1>9. PICK P, D, L : /\ P = g.dom[ip] /\ L = g.loops \union {b}
                     /\ D = [d \in N+1..N+3 |-> IF d = c THEN P \union {c} ELSE P \union {c, d}]
  OBVIOUS
<1>10. /\ c \in N+1..N+3 /\ b \in N+1..N+3 /\ e \in N+1..N+3 /\ b # 0 /\ e # 0 /\ b # c /\ e # c
  BY <1>1, <1>4
<1>11. PICK h : /\ h.bs = bs /\ h.sc = scopes' /\ h.f = owner /\ h.loops = L
                /\ Extends_(g, h) /\ Graph(h) /\ AreBlocks(h.bs) /\ Len(h.bs) = N + 3
                /\ \A d \in 1..N : h.dom[d] = g.dom[d]
                /\ \A d \in N+1..N+3 : h.dom[d] = D[d] /\ d \in Near(h.bs, h.f)
  <2>1. \A d \in N+1..N+3 : D[d] = IF d = c THEN P \union {c} ELSE P \union {c, d}
    BY <1>9
  <2>2. \A d \in N+1..N+3 : d \in D[d] /\ D[d] \subseteq g.dom[ip] \union N+1..N+3
    BY <1>9, <1>10, <2>1
  <2>3. \A d \in one[1].to : d \in N+1..N+3 /\ D[d] \subseteq g.dom[ip] \union {d}
    BY <1>8, <1>9, <1>10, <2>1
  <2>4. Three(g, one, N, D, L, bs)
    BY <1>1, <1>2, <1>8, <1>9, <2>2, <2>3 DEF Three
  <2> QED BY <1>0, <2>4, ThreeView
<1>12. /\ h.dom[c] = P \union {c} /\ h.dom[b] = P \union {c, b} /\ h.dom[e] = P \union {c, e}
       /\ c \in Near(h.bs, h.f) /\ b \in Near(h.bs, h.f) /\ b \in h.loops
       /\ h.dom[ip] = P /\ h.dom[W[1].at] = g.dom[W[1].at] /\ h.f = g.f
  BY <1>4, <1>7, <1>9, <1>10, <1>11
<1>13. PICK m, x, y, z, v : /\ m = Len(g.sc) /\ x = [at |-> c, open |-> m] /\ y = [at |-> b, open |-> m]
                            /\ z = W[1] /\ v = W[0]
  OBVIOUS
<1>14. /\ x.at = c /\ x.open = m /\ y.at = b /\ y.open = m /\ m \in Nat /\ z.open = m
       /\ h.dom[z.at] \subseteq P /\ v.at = ip /\ v.open = m /\ Fit(v, g)
  BY <1>4, <1>5, <1>6, <1>7, <1>9, <1>12, <1>13
<1>15. Tabled(h) /\ Len(h.sc) = m /\ Same(g, h, m)
  BY <1>3, <1>4, <1>11, <1>13, TablesKept
<1>16. Fit(x, h)
  <2>1. /\ Extends_(g, h) /\ h.f = g.f /\ Fit(v, g) /\ Same(g, h, v.open)
        /\ x.at \in Near(h.bs, h.f) /\ h.dom[v.at] \subseteq h.dom[x.at] /\ x.open = v.open
    BY <1>11, <1>12, <1>14, <1>15
  <2> QED BY ONLY <2>1, FitNew
<1>17. Fit(y, h)
  <2>1. /\ Extends_(g, h) /\ h.f = g.f /\ Fit(v, g) /\ Same(g, h, v.open)
        /\ y.at \in Near(h.bs, h.f) /\ h.dom[v.at] \subseteq h.dom[y.at] /\ y.open = v.open
    BY <1>11, <1>12, <1>14, <1>15
  <2> QED BY ONLY <2>1, FitNew
<1>18. Fit(z, h)
  <2>1. Extends_(g, h) /\ h.f = g.f /\ Fit(z, g) /\ Same(g, h, z.open)
    BY <1>6, <1>11, <1>12, <1>13, <1>14, <1>15
  <2> QED BY ONLY <2>1, FitKept
<1>19. PICK a, w, r : a = It("expr") /\ w = While(b, e) /\ r = Repeat(c, e)
  OBVIOUS
<1>20. Way(a, x, x, h) /\ Way(w, x, y, h) /\ Way(r, y, z, h)
  <2>1. LoopStages(h, c, b, e, P, x, y, z)
    BY <1>10, <1>12, <1>14 DEF LoopStages
  <2>2. Way(It("expr"), x, x, h) /\ Way(While(b, e), x, y, h) /\ Way(Repeat(c, e), y, z, h)
    BY ONLY <2>1, WhileStages
  <2> QED BY <1>19, <2>2
<1>21. Leads(items, x, z, h) /\ IsSeq(items) /\ \E i \in 1..Len(items) : items[i] = w
  <2>1. /\ Fit(x, h) /\ Fit(y, h) /\ Fit(z, h) /\ y.open <= x.open /\ z.open <= y.open /\ x.open <= x.open
        /\ Way(a, x, x, h) /\ Way(w, x, y, h) /\ Way(r, y, z, h)
        /\ Looping(items, a, w, r)
    BY <1>2, <1>14, <1>16, <1>17, <1>18, <1>19, <1>20 DEF Looping
  <2> QED BY ONLY <2>1, LeadsWhile
<1>22. Pending(items \o Tail(todo), h.loops \ loops')
  <2>1. w.k = "while" /\ w.body = b
    BY <1>19 DEF While
  <2>2. \E i \in 1..Len(items) : items[i].k = "while" /\ items[i].body = b
    BY <1>21, <2>1
  <2>3. \A l \in h.loops \ loops' :
           \/ l \in g.loops \ loops /\ ~(Head(todo).k = "while" /\ Head(todo).body = l)
           \/ \E i \in 1..Len(items) : items[i].k = "while" /\ items[i].body = l
    BY <1>0, <1>3, <1>9, <1>11, <2>2
  <2> QED BY <1>4, <1>21, <2>3, PendingMoves
<1>23. /\ Same(g, h, W[1].open) /\ x.open = Len(h.sc) /\ h.dom[x.at] \subseteq h.dom[ip']
       /\ Leads(items, x, W[1], h) /\ h.bs = blocks' /\ h.f = owner'
  BY <1>3, <1>7, <1>11, <1>13, <1>14, <1>15, <1>21
<1> QED BY <1>0, <1>3, <1>5, <1>11, <1>15, <1>21, <1>22, <1>23, LeadsStep

(* Between top-level statements.                                           *)

LEMMA TopFacts ==
    ASSUME HomeInv, NEW g, PlaceInv(g), outcome = "none", todo = <<>>
    PROVE  /\ g.bs = blocks /\ g.sc = scopes /\ g.f = owner /\ Graph(g)
           /\ AreBlocks(g.bs) /\ Home(g.bs) /\ g.loops \subseteq loops /\ owner = globals_init
           /\ top # 0 => Tabled(g) /\ Len(g.sc) = 1
<1>1. /\ g.bs = blocks /\ g.sc = scopes /\ g.f = owner /\ Graph(g)
      /\ Pending(todo, g.loops \ loops) /\ (top # 0 => Tabled(g) /\ Len(g.sc) = 1)
  BY DEF PlaceInv
<1>2. Len(<<>>) = 0
  OBVIOUS
<1>3. g.loops \subseteq loops
  BY <1>1, <1>2 DEF Pending
<1>4. AreBlocks(g.bs) /\ Home(g.bs)
  BY <1>1 DEF HomeInv
<1> QED BY <1>1, <1>3, <1>4, BetweenTops

(* Nothing is left to be compiled.                                         *)
LEMMA TopStep ==
    ASSUME todo' = <<>>, NEW h, h.bs = blocks', h.sc = scopes', h.f = owner', Graph(h),
           h.loops \subseteq loops', Tabled(h), Len(h.sc) = 1
    PROVE  DomInv'
<1>1. Pending(todo', h.loops \ loops')
  BY DEF Pending
<1>2. PlaceInv(h)'
  BY <1>1 DEF PlaceInv
<1> QED BY <1>2 DEF DomInv

LEMMA OneTable ==
    ASSUME NEW h, NEW table, h.sc = << table >>, \A id \in DOMAIN table : table[id] = None
    PROVE  Tabled(h) /\ Len(h.sc) = 1 /\ h.sc[1] = table
<1>1. PICK t : t = << table >>
  OBVIOUS
<1>2. IsSeq(t) /\ Len(t) = 1 /\ t[1] = table
  BY <1>1, SeqOne
<1>3. t # <<>>
  BY <1>2
<1> QED BY <1>1, <1>2, <1>3 DEF Tabled

LEMMA DeclareTop == HomeInv /\ ClosedInv /\ DomInv /\ declare_functions => DomInv'
<1> SUFFICES ASSUME HomeInv, ClosedInv, DomInv, declare_functions PROVE DomInv'
  OBVIOUS
<1>1. CASE Stop("exception")
  BY <1>1, StopPlace
<1>2. CASE ~Stop("exception")
  <2>1. /\ outcome = "none" /\ top = 0 /\ scopes' = << NoNames >> /\ todo' = todo /\ blocks' = blocks
        /\ owner' = owner /\ loops' = loops
    BY <1>2 DEF declare_functions, aux
  <2>2. todo = <<>>
    BY <2>1 DEF ClosedInv
  <2>3. PICK g : PlaceInv(g)
    BY DEF DomInv
  <2>4. g.bs = blocks /\ Graph(g) /\ g.loops \subseteq loops
    BY <2>1, <2>2, <2>3, TopFacts
  <2>5. PICK h : h = [bs |-> blocks', dom |-> g.dom, loops |-> g.loops, sc |-> scopes', f |-> owner']
    OBVIOUS
  <2>6. h.bs = blocks' /\ h.sc = scopes' /\ h.f = owner' /\ h.loops = g.loops /\ h.dom = g.dom
    BY <2>5
  <2>7. Graph(h)
    BY <2>1, <2>4, <2>6, SameGraph
  <2>8. \A id \in DOMAIN NoNames : NoNames[id] = None
    BY DEF NoNames
  <2>9. PICK table : table = NoNames
    OBVIOUS
  <2>10. h.sc = << table >> /\ \A id \in DOMAIN table : table[id] = None
    BY <2>1, <2>6, <2>8, <2>9
  <2>11. Tabled(h) /\ Len(h.sc) = 1
    BY ONLY <2>10, OneTable
  <2>12. todo' = <<>> /\ h.loops \subseteq loops'
    BY <2>1, <2>2, <2>4, <2>6
  <2> QED BY <2>6, <2>7, <2>11, <2>12, TopStep
<1> QED BY <1>1, <1>2

LEMMA EndDefineTop ==
    ASSUME HomeInv, ClosedInv, NEW g, PlaceInv(g), EndDefine
    PROVE  DomInv'
<1>1. /\ At("end define") /\ Running /\ Head(todo).k = "end define" /\ scopes' = PopScope
      /\ blocks' = blocks /\ loops' = loops
  BY DEF EndDefine, At, module
<1>2. Tail(todo) = <<>> /\ todo' = <<>>
  BY EndIsLast
<1>3. /\ g.bs = blocks /\ g.sc = scopes /\ g.f = owner /\ Graph(g) /\ Tabled(g) /\ Len(g.sc) \in Nat
      /\ IsSeq(todo) /\ todo # <<>> /\ Pending(todo, g.loops \ loops)
  BY <1>1, HereFacts
<1>4. Len(todo) = 1 /\ todo[1] = Head(todo)
  <2>1. Len(todo) \in Nat \ {0} /\ Head(todo) = todo[1] /\ Len(Tail(todo)) = Len(todo) - 1
    BY ONLY <1>3, SeqTail
  <2>2. Len(<<>>) = 0
    OBVIOUS
  <2>3. Len(Tail(todo)) = 0
    BY ONLY <1>2, <2>2
  <2>4. Len(todo) = 1
    <3>1. PICK n, m : n = Len(todo) /\ m = Len(Tail(todo))
      OBVIOUS
    <3>2. n \in Nat \ {0} /\ m = n - 1 /\ m = 0
      BY <2>1, <2>3, <3>1
    <3>3. n = 1
      BY ONLY <3>2
    <3> QED BY <3>1, <3>3
  <2> QED BY <2>1, <2>4
<1>5. g.loops \subseteq loops
  <2>1. \A i \in 1..Len(todo) : i = 1
    BY ONLY <1>4
  <2>2. \A i \in 1..Len(todo) : todo[i].k # "while"
    BY <1>1, <1>4, <2>1
  <2> QED BY <1>3, <2>2 DEF Pending
<1>6. PICK W : Standing(todo, W, ip, g) /\ W[0].at = ip /\ W[0].open = Len(g.sc)
  BY <1>1, HereCourse
<1>7. Len(g.sc) = 2
  <2>1. Way(Head(todo), W[0], W[1], g)
    BY <1>1, <1>6, HereWay
  <2>2. W[1].open = 1
    BY <1>4, <1>6 DEF Standing
  <2>3. W[1].open = Len(g.sc) - 1
    BY <1>1, <1>6, <2>1 DEF Way
  <2>4. 1 = Len(g.sc) - 1
    BY <2>2, <2>3
  <2> QED BY ONLY <1>3, <2>4
<1>8. PICK h : h = [bs |-> blocks', dom |-> g.dom, loops |-> g.loops, sc |-> scopes', f |-> owner']
  OBVIOUS
<1>9. h.bs = blocks' /\ h.sc = scopes' /\ h.f = owner' /\ h.loops = g.loops /\ h.dom = g.dom
  BY <1>8
<1>10. Graph(h)
  BY <1>1, <1>3, <1>9, SameGraph
<1>11. PICK s, t : s = g.sc /\ t = h.sc
  OBVIOUS
<1>12. IsSeq(t) /\ Len(t) = 1 /\ t[1] = s[1]
  <2>1. IsSeq(s) /\ s # <<>> /\ t = SubSeq(s, 1, Len(s) - 1)
    BY <1>1, <1>3, <1>9, <1>11 DEF Tabled, PopScope
  <2>2. IsSeq(t) /\ Len(s) \in Nat \ {0} /\ Len(t) = Len(s) - 1 /\ \A k \in 1..Len(s)-1 : t[k] = s[k]
    BY ONLY <2>1, PoppedTables
  <2>3. Len(s) = 2
    BY <1>7, <1>11
  <2> QED BY ONLY <2>2, <2>3
<1>13. Tabled(h) /\ Len(h.sc) = 1
  <2>1. t # <<>>
    BY <1>12
  <2> QED BY <1>3, <1>11, <1>12, <2>1 DEF Tabled
<1>14. h.loops \subseteq loops'
  BY <1>1, <1>5, <1>9
<1> QED BY <1>2, <1>9, <1>10, <1>13, <1>14, TopStep

(* A list that has been begun.                                             *)
LEMMA BeginStep ==
    ASSUME NEW h, h.bs = blocks', h.sc = scopes', h.f = owner', Graph(h), h.loops \subseteq loops',
           Tabled(h), todo' # <<>>, outcome' = "none",
           NEW x, NEW z, Leads(todo', x, z, h), x.open = Len(h.sc), z.open = 1, x.at = ip'
    PROVE  DomInv'
<1>1. Pending(todo', h.loops \ loops')
  BY DEF Pending
<1>2. PICK V : Course(todo', V, h) /\ V[0] = x /\ V[Len(todo')] = z
  BY DEF Leads
<1>3. Standing(todo', V, ip', h)
  BY <1>2 DEF Standing
<1>4. PlaceInv(h)'
  BY <1>1, <1>3 DEF PlaceInv
<1> QED BY <1>4 DEF DomInv

(* A stage with the table of the global variables only.                    *)
LEMMA FitBottom ==
    ASSUME NEW h, NEW x, x.at \in Near(h.bs, h.f), x.open = 1, 1 <= Len(h.sc)
    PROVE  Fit(x, h)
<1>1. \A k \in 2..x.open : FALSE
  OBVIOUS
<1> QED BY <1>1 DEF Fit

LEMMA GlobalTop ==
    ASSUME HomeInv, ClosedInv, NEW g, PlaceInv(g), GlobalAssign
    PROVE  DomInv'
<1>1. outcome = "none" /\ todo = <<>> /\ top \in 1..Len(tree)
  BY DEF GlobalAssign, AtTop
<1>2. CASE Found(tree[top].id)
  <2>1. outcome' = "exception" /\ Stays
    BY <1>2 DEF GlobalAssign, Stays, module, aux
  <2> QED BY <2>1, HaltStep DEF DomInv
<1>3. CASE ~Found(tree[top].id)
  <2>1. PICK id, table : id = tree[top].id /\ table = Insert(scopes[1], id, None)
    OBVIOUS
  <2>2. /\ scopes' = << table >> /\ ip' = Back(globals_init) /\ todo' = << It("expr"), Store(id) >>
        /\ outcome' = outcome /\ blocks' = blocks /\ owner' = owner /\ loops' = loops
    BY <1>3, <2>1 DEF GlobalAssign, SetInsertPoint, aux
  <2>3. top # 0
    BY <1>1
  <2>4. /\ g.bs = blocks /\ g.sc = scopes /\ g.f = owner /\ Graph(g) /\ g.loops \subseteq loops
        /\ owner = globals_init /\ Tabled(g)
    BY <1>1, <2>3, TopFacts
  <2>5. PICK h : h = [bs |-> blocks', dom |-> g.dom, loops |-> g.loops, sc |-> scopes', f |-> owner']
    OBVIOUS
  <2>6. h.bs = blocks' /\ h.sc = scopes' /\ h.f = owner' /\ h.loops = g.loops /\ h.dom = g.dom
    BY <2>5
  <2>7. Graph(h)
    BY <2>2, <2>4, <2>6, SameGraph
  <2>8. (\A i \in DOMAIN table : table[i] = None) /\ id \in DOMAIN table
    <3>1. \A i \in DOMAIN scopes[1] : scopes[1][i] = None
      BY <2>4 DEF Tabled
    <3> QED BY <2>1, <3>1 DEF Insert
  <2>9. h.sc = << table >>
    BY <2>2, <2>6
  <2>10. Tabled(h) /\ Len(h.sc) = 1 /\ h.sc[1] = table
    BY <2>8, <2>9, OneTable
  <2>11. PICK x, a, s : x = [at |-> ip', open |-> 1] /\ a = It("expr") /\ s = Store(id)
    OBVIOUS
  <2>12. x.at = ip' /\ x.open = 1 /\ a.k = "expr" /\ s.k = "store" /\ s.id = id
    BY <2>11 DEF It, Store
  <2>13. Fit(x, h)
    <3>1. ip' \in Near(h.bs, h.f)
      BY <1>1, <2>2, <2>4, <2>6, BetweenTops, BackIsBack
    <3>2. 1 <= Len(h.sc)
      BY <2>10
    <3> QED BY <2>12, <3>1, <3>2, FitBottom
  <2>14. Way(a, x, x, h) /\ Way(s, x, x, h)
    <3>1. Owes(a) = 0 /\ Owes(s) = 0
      BY <2>12 DEF Owes
    <3>2. 1 \in 1..x.open
      BY <2>12
    <3>3. \E k \in 1..x.open : s.id \in DOMAIN h.sc[k]
      BY <2>8, <2>10, <2>12, <3>2
    <3> QED BY <2>12, <3>1, <3>3 DEF Way
  <2>15. x.open <= x.open
    BY <2>12
  <2>16. PICK p, q : p = << a >> /\ q = << s >>
    OBVIOUS
  <2>17. Leads(p, x, x, h) /\ Leads(q, x, x, h) /\ IsSeq(p) /\ IsSeq(q)
    BY <2>13, <2>14, <2>15, <2>16, LeadsOne, SeqOne
  <2>18. Leads(p \o q, x, x, h)
    BY <2>17, LeadsBoth
  <2>19. todo' = p \o q
    <3>1. <<a>> \o <<s>> = <<a, s>>
      BY TwoAre
    <3> QED BY <2>2, <2>11, <2>16, <3>1
  <2>20. Leads(todo', x, x, h) /\ todo' # <<>>
    <3>1. << It("expr"), Store(id) >> # <<>>
      OBVIOUS
    <3> QED BY <2>2, <2>18, <2>19, <3>1
  <2>21. h.loops \subseteq loops' /\ outcome' = "none" /\ x.open = Len(h.sc)
    BY <1>1, <2>2, <2>4, <2>6, <2>10, <2>12
  <2> QED BY <2>6, <2>7, <2>10, <2>12, <2>20, <2>21, BeginStep
<1> QED BY <1>2, <1>3

(* A block is added with its code.                                         *)
LEMMA BlockView ==
    ASSUME NEW g, AreBlocks(g.bs), Home(g.bs), Graph(g), NEW h, NEW new,
           Added(h.bs, g.bs, new), NEW N, N = Len(g.bs),
           \A b \in 1..N : h.dom[b] = g.dom[b], h.dom[N + 1] = {N + 1}, h.loops = g.loops,
           \A i \in 1..Len(new.code) : Fair(i, N + 1, h)
    PROVE  /\ Extends_(g, h) /\ Graph(h) /\ N \in Nat /\ Len(h.bs) = N + 1 /\ h.bs[N + 1] = new
           /\ \A b \in 1..N : h.bs[b] = g.bs[b]
<1>1. PICK bs, cs : bs = g.bs /\ cs = h.bs
  OBVIOUS
<1>2. /\ N \in Nat /\ Len(cs) = N + 1 /\ cs[N + 1] = new
      /\ \A b \in 1..N : cs[b] = bs[b]
  <2>1. PICK S : bs \in Seq(BlockOf(S))
    BY <1>1 DEF AreBlocks
  <2>2. IsSeq(bs) /\ Added(cs, bs, new)
    BY <1>1, <2>1 DEF IsSeq
  <2>3. /\ Len(bs) \in Nat /\ Len(cs) = Len(bs) + 1 /\ cs[Len(bs) + 1] = new
        /\ \A k \in 1..Len(bs) : cs[k] = bs[k]
    BY ONLY <2>2, AddedTable
  <2> QED BY <1>1, <2>3
<1>3. ASSUME NEW b \in 1..N PROVE h.bs[b].fn = g.bs[b].fn /\ Prefix(g.bs[b].code, h.bs[b].code)
  <2>1. IsSeq(bs[b].code)
    BY <1>1, Types
  <2>2. Prefix(bs[b].code, bs[b].code)
    BY <2>1, PrefixConcat
  <2> QED BY <1>1, <1>2, <2>2
<1>4. Extends_(g, h)
  <2>1. Len(h.bs) = N + 1 /\ Len(g.bs) = N /\ N <= N + 1 /\ N \in Nat
    BY <1>1, <1>2
  <2> QED BY <1>3, <2>1 DEF Extends_
<1>5. Placed(N + 1, h)
  <2>1. N + 1 \in 1..Len(cs)
    BY ONLY <1>2
  <2>2. N + 1 \in Near(h.bs, h.bs[N + 1].fn)
    BY <1>1, <2>1 DEF Near
  <2> QED BY <2>2 DEF Placed
<1>6. \A b \in Len(g.bs)+1..Len(h.bs) : Placed(b, h)
  <2>1. \A b \in Len(g.bs)+1..Len(h.bs) : b = N + 1
    <3>1. N \in Nat /\ Len(h.bs) = N + 1 /\ Len(g.bs) = N
      BY <1>1, <1>2
    <3> QED BY ONLY <3>1
  <2> QED BY <1>5, <2>1
<1>7. \A b \in 1..Len(h.bs) : \A i \in 1..Len(h.bs[b].code) :
         Fair(i, b, h) \/ (b <= Len(g.bs) /\ i <= Len(g.bs[b].code))
  <2> SUFFICES ASSUME NEW b \in 1..Len(h.bs), NEW i \in 1..Len(h.bs[b].code)
               PROVE  Fair(i, b, h) \/ (b <= Len(g.bs) /\ i <= Len(g.bs[b].code))
    OBVIOUS
  <2>1. b = N + 1 \/ b \in 1..N
    <3>1. N \in Nat /\ Len(h.bs) = N + 1
      BY <1>1, <1>2
    <3> QED BY ONLY <3>1
  <2>2. CASE b = N + 1
    BY <1>1, <1>2, <2>2
  <2>3. CASE b \in 1..N
    <3>1. g.bs[b].code = h.bs[b].code /\ Len(g.bs[b].code) \in Nat
      BY <1>1, <1>2, <2>3, Types
    <3> QED BY <2>3, <3>1
  <2> QED BY <2>1, <2>2, <2>3
<1>8. Graph(h)
  BY <1>4, <1>6, <1>7, GraphGrown
<1> QED BY <1>1, <1>2, <1>4, <1>8

(* The stores of the arguments: an allocation, then a store, of each.      *)
Stored(locals, code, params, b, f) ==
    locals = Locals(params, b) /\ code = StoreLocals(locals, f)
Square(m, n) == n \in Nat /\ m = n * n

LEMMA LocalsAre ==
    ASSUME NEW params, NEW m, Square(m, Len(params)), NEW b, NEW f, NEW locals, NEW code,
           Stored(locals, code, params, b, f)
    PROVE  /\ m \in Nat /\ Len(locals) = m
           /\ \A j \in 1..m : locals[j].block = b /\ locals[j].at = 2 * j - 1
<1> DEFINE n == Len(params)
           Local(i) == [block |-> b, at |-> 2 * i - 1, arg |-> ((i - 1) % n) + 1]
           S == {Local(i) : i \in 1..m}
<1>1. m \in Nat /\ m = n * n
  BY DEF Square
<1>2. locals = [i \in 1..m |-> Local(i)]
  BY <1>1 DEF Locals, Stored
<1>3. \A i \in 1..m : Local(i).block = b /\ Local(i).at = 2 * i - 1
  OBVIOUS
<1> HIDE DEF Local
<1>4. locals \in [1..m -> S] /\ \A i \in 1..m : locals[i] = Local(i)
  BY <1>2
<1> HIDE DEF S
<1>5. locals \in Seq(S) /\ Len(locals) = m
  BY <1>1, <1>4, LenProperties
<1> QED BY <1>1, <1>3, <1>4, <1>5

Paired(code, locals, m) ==
    /\ Len(code) = 2 * m
    /\ \A i \in 1..2*m : /\ code[i].to = {} /\ code[i].var = locals[(i + 1) \div 2]
                         /\ i % 2 = 1 => code[i].op = "alloca"

LEMMA StoresAre ==
    ASSUME NEW params, NEW m \in Nat, NEW b, NEW f, NEW locals, NEW code,
           Stored(locals, code, params, b, f), Len(locals) = m
    PROVE  Paired(code, locals, m)
<1> DEFINE k == 2 * m
           item(i) == [op |-> IF i % 2 = 1 THEN "alloca" ELSE "store",
                       var |-> locals[(i + 1) \div 2], to |-> {}, src |-> f]
           S == {item(i) : i \in 1..k}
<1>1. k \in Nat
  OBVIOUS
<1>2. code = [i \in 1..k |-> item(i)]
  BY DEF StoreLocals, Stored
<1>3. \A i : item(i).to = {} /\ item(i).var = locals[(i + 1) \div 2] /\ (i % 2 = 1 => item(i).op = "alloca")
  OBVIOUS
<1> HIDE DEF item, k
<1>4. code \in [1..k -> S] /\ \A i \in 1..k : code[i] = item(i)
  BY <1>2
<1> HIDE DEF S
<1>5. code \in Seq(S) /\ Len(code) = k
  BY <1>1, <1>4, LenProperties
<1> QED BY <1>3, <1>4, <1>5 DEF k, Paired

LEMMA Halves ==
    ASSUME NEW m \in Nat, NEW i \in 1..2*m, NEW j, j = (i + 1) \div 2
    PROVE  j \in 1..m /\ 2 * j - 1 \in 1..2*m /\ 2 * j - 1 <= i /\ (2 * j - 1) % 2 = 1
  OBVIOUS

LEMMA Odd ==
    ASSUME NEW m \in Nat, NEW j \in 1..m
    PROVE  2 * j - 1 \in 1..2*m /\ (2 * j - 1) % 2 = 1
  OBVIOUS

LEMMA StoresFair ==
    ASSUME NEW params, NEW m, Square(m, Len(params)), NEW b, NEW f, NEW locals, NEW code,
           Stored(locals, code, params, b, f)
    PROVE  /\ m \in Nat
           /\ \A i \in 1..Len(code) :
                 /\ code[i].to = {} /\ code[i].var.block = b /\ code[i].var.at <= i
                 /\ code[i].var.at \in 1..Len(code) /\ code[code[i].var.at].op = "alloca"
           /\ \A j \in 1..m :
                 /\ locals[j].block = b /\ locals[j].at \in 1..Len(code)
                 /\ code[locals[j].at].op = "alloca"
<1>1. /\ m \in Nat /\ Len(locals) = m
      /\ \A j \in 1..m : locals[j].block = b /\ locals[j].at = 2 * j - 1
  BY LocalsAre
<1>2. /\ Len(code) = 2 * m
      /\ \A i \in 1..2*m : /\ code[i].to = {} /\ code[i].var = locals[(i + 1) \div 2]
                           /\ i % 2 = 1 => code[i].op = "alloca"
  <2>1. m \in Nat /\ Stored(locals, code, params, b, f) /\ Len(locals) = m
    BY <1>1
  <2>2. Paired(code, locals, m)
    BY ONLY <2>1, StoresAre
  <2> QED BY <2>2 DEF Paired
<1>3. ASSUME NEW i \in 1..Len(code)
      PROVE  /\ code[i].to = {} /\ code[i].var.block = b /\ code[i].var.at <= i
             /\ code[i].var.at \in 1..Len(code) /\ code[code[i].var.at].op = "alloca"
  <2>1. PICK j, at : j = (i + 1) \div 2 /\ at = 2 * j - 1
    OBVIOUS
  <2>2. i \in 1..2*m
    BY <1>2
  <2>3. j \in 1..m /\ at \in 1..2*m /\ at <= i /\ at % 2 = 1
    BY ONLY <1>1, <2>1, <2>2, Halves
  <2>4. code[i].to = {} /\ code[i].var = locals[j] /\ locals[j].block = b /\ locals[j].at = at
    BY <1>1, <1>2, <2>1, <2>2, <2>3
  <2>5. code[at].op = "alloca"
    BY <1>2, <2>3
  <2> QED BY <1>2, <2>3, <2>4, <2>5
<1>4. ASSUME NEW j \in 1..m
      PROVE  locals[j].block = b /\ locals[j].at \in 1..Len(code) /\ code[locals[j].at].op = "alloca"
  <2>1. PICK at : at = 2 * j - 1
    OBVIOUS
  <2>2. at \in 1..2*m /\ at % 2 = 1
    BY <1>1, <2>1, Odd
  <2> QED BY <1>1, <1>2, <2>1, <2>2
<1> QED BY <1>1, <1>3, <1>4

(* Every parameter is bound to one of the allocations.                     *)
LEMMA ParamsBound ==
    ASSUME NEW params \in Seq(STRING), NEW m, Square(m, Len(params)),
           NEW locals, NEW table, table = ParamScope(params, locals), NEW id \in DOMAIN table
    PROVE  \E j \in 1..m : table[id] = locals[j]
<1>0. PICK n : n = Len(params)
  OBVIOUS
<1> DEFINE T == {i \in 1..n : params[i] = id}
<1>1. n \in Nat /\ n = Len(params) /\ m = n * n /\ id \in ToSet(params) /\ table[id] = locals[(BoundTo(params, id) - 1) * n + 1]
  BY <1>0 DEF ParamScope, Square
<1>2. T \in SUBSET Nat /\ T # {}
  BY <1>1 DEF ToSet
<1>3. PICK i \in T : \A j \in T : i <= j
  <2> HIDE DEF T
  <2> QED BY <1>2, NatMinimum
<1>4. i \in 1..n /\ params[i] = id /\ \A j \in 1..i-1 : params[j] # id
  <2>1. i \in 1..n /\ params[i] = id
    OBVIOUS
  <2>2. \A j \in 1..i-1 : j \in 1..n /\ ~(i <= j)
    BY <1>1, <2>1
  <2> QED BY <1>3, <2>1, <2>2
<1>5. PICK k : k = BoundTo(params, id)
  OBVIOUS
<1>6. k \in 1..n
  BY <1>1, <1>4, <1>5 DEF BoundTo
<1>7. (k - 1) * n + 1 \in 1..m
  <2>1. n \in Nat /\ k \in 1..n
    BY ONLY <1>1, <1>6
  <2>2. PICK a \in Nat : a = k - 1
    BY <2>1
  <2>3. PICK d \in Nat : d = n - k
    BY ONLY <2>1
  <2>4. n = a + d + 1
    BY <2>1, <2>2, <2>3
  <2>5. a * n \in Nat /\ d * n \in Nat /\ n >= 1
    BY <2>1, <2>2, <2>3
  <2>6. n * n = a * n + d * n + n
    BY <2>1, <2>2, <2>3, <2>4
  <2>7. a * n + 1 \in 1..n*n
    BY ONLY <2>1, <2>5, <2>6
  <2> QED BY <1>1, <2>2, <2>7
<1> QED BY <1>1, <1>5, <1>7 

LEMMA DefineTop ==
    ASSUME HomeInv, ClosedInv, NEW g, PlaceInv(g), compile_define
    PROVE  DomInv'
<1>1. PICK N, b, params, f : N = Len(blocks) /\ b = N + 1 /\ params = tree[top].params /\ f = tree[top].id
  OBVIOUS
<1>2. PICK locals, m : locals = Locals(params, b) /\ m = Len(params) * Len(params)
  OBVIOUS
<1>3. PICK code, table : code = StoreLocals(locals, f) /\ table = ParamScope(params, locals)
  OBVIOUS
<1>4. PICK new, it : new = [fn |-> f, code |-> code] /\ it = It("end define")
  OBVIOUS
<1>5. /\ outcome = "none" /\ todo = <<>> /\ top \in 1..Len(tree) /\ outcome' = outcome
      /\ blocks' = Append(blocks, new) /\ ip' = b /\ scopes' = Append(scopes, table)
      /\ owner' = f /\ loops' = loops /\ todo' = Body \o << it >>
  BY <1>1, <1>2, <1>3, <1>4 DEF compile_define, AtTop, BlocksMade
<1>6. /\ g.bs = blocks /\ g.sc = scopes /\ g.f = owner /\ Graph(g) /\ g.loops \subseteq loops
      /\ AreBlocks(g.bs) /\ Home(g.bs) /\ Tabled(g) /\ Len(g.sc) = 1
  <2>1. top # 0
    BY <1>5
  <2> QED BY <1>5, <2>1, TopFacts
<1>7. params \in Seq(STRING) /\ Len(params) \in Nat
  <2>1. tree \in Seq(TopNode)
    BY IRGenAssumption DEF HomeInv
  <2>2. tree[top] \in TopNode
    BY ONLY <1>5, <2>1, ElementOfSeq
  <2>3. params \in Seq(STRING)
    BY <1>1, <2>2 DEF TopNode
  <2> QED BY <2>3, LenProperties
<1>8. Square(m, Len(params)) /\ Stored(locals, code, params, b, f)
  BY <1>2, <1>3, <1>7 DEF Square, Stored
<1>9. /\ \A i \in 1..Len(code) :
            /\ code[i].to = {} /\ code[i].var.block = b /\ code[i].var.at <= i
            /\ code[i].var.at \in 1..Len(code) /\ code[code[i].var.at].op = "alloca"
      /\ \A j \in 1..m :
            /\ locals[j].block = b /\ locals[j].at \in 1..Len(code)
            /\ code[locals[j].at].op = "alloca"
  BY <1>8, StoresFair
<1>10. PICK h : h = [bs |-> blocks', dom |-> [c \in 1..N+1 |-> IF c <= N THEN g.dom[c] ELSE {N + 1}],
                     loops |-> g.loops, sc |-> scopes', f |-> owner']
  OBVIOUS
<1>11. h.bs = blocks' /\ h.sc = scopes' /\ h.f = owner' /\ h.loops = g.loops
  BY <1>10
<1>12. N \in Nat /\ N = Len(g.bs) /\ Added(h.bs, g.bs, new)
  <2>1. N \in Nat
    BY <1>1, <1>6, BlocksType
  <2> QED BY <1>1, <1>5, <1>6, <1>11, <2>1 DEF Added
<1>13. (\A c \in 1..N : h.dom[c] = g.dom[c]) /\ h.dom[b] = {b}
  <2>1. h.dom = [c \in 1..N+1 |-> IF c <= N THEN g.dom[c] ELSE {N + 1}] /\ N \in Nat
    BY <1>10, <1>12
  <2>2. (\A c \in 1..N : h.dom[c] = g.dom[c]) /\ h.dom[N + 1] = {N + 1}
    BY ONLY <2>1
  <2> QED BY <1>1, <2>2
<1>14. h.bs[b] = new /\ new.fn = f /\ new.code = code /\ Len(h.bs) = b /\ b \in 1..Len(h.bs) /\ b # 0
  <2>1. PICK bs, cs : bs = g.bs /\ cs = h.bs
    OBVIOUS
  <2>2. PICK S : bs \in Seq(BlockOf(S))
    BY <1>6, <2>1 DEF AreBlocks
  <2>3. IsSeq(bs) /\ Added(cs, bs, new)
    BY <1>12, <2>1, <2>2 DEF IsSeq
  <2>4. Len(cs) = Len(bs) + 1 /\ cs[Len(bs) + 1] = new
    BY ONLY <2>3, AddedTable
  <2>5. N + 1 \in 1..N+1 /\ N + 1 # 0
    BY <1>12
  <2>6. Len(bs) = N
    BY <1>12, <2>1
  <2>7. Len(cs) = N + 1 /\ cs[N + 1] = new
    BY ONLY <2>4, <2>6
  <2>8. new.fn = f /\ new.code = code
    BY <1>4
  <2> QED BY <1>1, <2>1, <2>5, <2>7, <2>8
<1>15. ASSUME NEW var, var.block = b, var.at \in 1..Len(code), code[var.at].op = "alloca"
       PROVE  Valid(var, b, h)
  BY <1>13, <1>14, <1>15 DEF Valid
<1>16. \A i \in 1..Len(new.code) : Fair(i, b, h)
  <2> SUFFICES ASSUME NEW i \in 1..Len(code) PROVE Fair(i, b, h)
    BY <1>14
  <2>1. PICK var : var = code[i].var
    OBVIOUS
  <2>2. /\ code[i].to = {} /\ var.block = b /\ var.at <= i /\ var.at \in 1..Len(code)
        /\ code[var.at].op = "alloca"
    BY <1>9, <2>1
  <2>3. Valid(var, b, h)
    BY <1>15, <2>2
  <2> QED BY <1>14, <2>1, <2>2, <2>3 DEF Fair
<1>17. Graph(h)
  <2>1. /\ AreBlocks(g.bs) /\ Home(g.bs) /\ Graph(g) /\ Added(h.bs, g.bs, new) /\ N = Len(g.bs)
        /\ (\A c \in 1..N : h.dom[c] = g.dom[c]) /\ h.dom[N + 1] = {N + 1} /\ h.loops = g.loops
        /\ (\A i \in 1..Len(new.code) : Fair(i, N + 1, h))
    BY <1>1, <1>6, <1>11, <1>12, <1>13, <1>16
  <2> QED BY ONLY <2>1, BlockView
<1>18. Tabled(h) /\ Len(h.sc) = 2 /\ h.sc[2] = table
  <2>1. PICK s, t : s = g.sc /\ t = h.sc
    OBVIOUS
  <2>2. IsSeq(s) /\ Added(t, s, table)
    BY <1>5, <1>6, <1>11, <2>1 DEF Tabled, Added
  <2>3. /\ IsSeq(t) /\ Len(t) = Len(s) + 1 /\ t[Len(s) + 1] = table /\ \A k \in 1..Len(s) : t[k] = s[k]
    BY ONLY <2>2, AddedTable
  <2>4. Len(t) = 2 /\ t[2] = table /\ t[1] = s[1]
    <3>1. Len(s) = 1
      BY <1>6, <2>1
    <3> QED BY ONLY <2>3, <3>1
  <2>5. t # <<>>
    BY <2>4
  <2> QED BY <1>6, <2>1, <2>3, <2>4, <2>5 DEF Tabled
<1>19. PICK x, z : x = [at |-> b, open |-> 2] /\ z = [at |-> b, open |-> 1]
  OBVIOUS
<1>20. x.at = b /\ x.open = 2 /\ z.at = b /\ z.open = 1
  BY <1>19
<1>21. b \in Near(h.bs, h.f)
  BY <1>5, <1>11, <1>14 DEF Near
<1>22. Fit(x, h)
  <2>1. \A k \in 2..x.open : k = 2
    BY <1>20
  <2>2. \A id \in DOMAIN table : Valid(table[id], b, h)
    <3> SUFFICES ASSUME NEW id \in DOMAIN table PROVE Valid(table[id], b, h)
      OBVIOUS
    <3>1. PICK j \in 1..m : table[id] = locals[j]
      BY <1>3, <1>7, <1>8, ParamsBound
    <3> QED BY <1>9, <1>15, <3>1
  <2>3. x.open <= Len(h.sc) /\ x.open \in Nat
    BY <1>18, <1>20
  <2> QED BY <1>18, <1>20, <1>21, <2>1, <2>2, <2>3 DEF Fit
<1>23. Fit(z, h)
  BY <1>18, <1>20, <1>21, FitBottom
<1>24. Way(it, x, z, h)
  <2>1. it.k = "end define"
    BY <1>4 DEF It
  <2>2. Owes(it) = 0
    BY <2>1 DEF Owes
  <2>3. z.open = x.open - 1
    BY ONLY <1>20
  <2>4. h.dom[z.at] \subseteq h.dom[x.at]
    BY <1>20
  <2> QED BY <2>1, <2>2, <2>3, <2>4 DEF Way
<1>25. Leads(todo', x, z, h)
  <2>1. z.open <= x.open
    BY <1>20
  <2>2. Leads(Body \o << it >>, x, z, h)
    BY <1>22, <1>23, <1>24, <2>1, LeadsList
  <2> QED BY <1>5, <2>2
<1>26. todo' # <<>>
  <2>1. << It("stmt"), It("more") >> \o << it >> = << It("stmt"), It("more"), it >>
    BY TwoAndOne
  <2>2. << It("stmt"), It("more"), it >> # <<>>
    OBVIOUS
  <2> QED BY <1>5, <2>1, <2>2 DEF Body
<1> QED BY <1>5, <1>6, <1>11, <1>17, <1>18, <1>20, <1>25, <1>26, BeginStep

(* The module is printed.                                                  *)
LEMMA PrintStep ==
    ASSUME outcome' = "printed", NEW h, h.bs = blocks', h.sc = scopes', h.f = owner', Graph(h),
           h.loops \subseteq loops'
    PROVE  DomInv'
<1>1. PlaceInv(h)'
  BY DEF PlaceInv
<1> QED BY <1>1 DEF DomInv

LEMMA RetInstr ==
    ASSUME NEW one, one = << Ret >>
    PROVE  Single(one) /\ one[1].var = None /\ one[1].to = {}
<1>1. PICK none : none = {}
  OBVIOUS
<1>2. Ret = Instr("ret", None, none)
  BY <1>1 DEF Ret
<1> QED BY <1>1, <1>2, OneInstrIs

(* A view of the module with the initialiser ended.                        *)
LEMMA EndedView ==
    ASSUME HomeInv, NEW g, PlaceInv(g), outcome = "none", todo = <<>>,
           NEW ended, ended = Append_(blocks, Back(globals_init), << Ret >>)
    PROVE  \E h : /\ h.bs = ended /\ h.sc = scopes' /\ h.f = owner' /\ h.loops = g.loops /\ h.dom = g.dom
                  /\ Graph(h) /\ AreBlocks(h.bs) /\ Home(h.bs) /\ Len(h.bs) = Len(blocks)
                  /\ \A f : Near(h.bs, f) = Near(blocks, f)
<1>1. /\ g.bs = blocks /\ Graph(g) /\ AreBlocks(g.bs) /\ Home(g.bs) /\ owner = globals_init
      /\ Back(globals_init) \in Near(blocks, owner) /\ Ends(blocks)
  BY TopFacts, BetweenTops, BackIsBack DEF HomeInv
<1>2. PICK p, one : p = Back(globals_init) /\ one = << Ret >>
  OBVIOUS
<1>3. Single(one) /\ one[1].var = None /\ one[1].to = {}
  BY <1>2, RetInstr
<1>4. PICK h : h = [bs |-> ended, dom |-> g.dom, loops |-> g.loops, sc |-> scopes', f |-> owner']
  OBVIOUS
<1>5. h.bs = ended /\ h.sc = scopes' /\ h.f = owner' /\ h.loops = g.loops /\ h.dom = g.dom
  BY <1>4
<1>6. /\ AreBlocks(g.bs) /\ Home(g.bs) /\ Graph(g) /\ p \in 1..Len(g.bs) /\ Single(one)
      /\ one[1].var = None /\ (\A d \in one[1].to : d \in 1..Len(g.bs) /\ Below(d, p, g))
      /\ (h.bs = g.bs \/ h.bs = Append_(g.bs, p, one)) /\ h.dom = g.dom /\ h.loops = g.loops
  BY <1>1, <1>2, <1>3, <1>5 DEF Near
<1>7. Extends_(g, h) /\ Graph(h) /\ AreBlocks(h.bs) /\ Len(h.bs) = Len(g.bs)
  BY ONLY <1>6, JumpView
<1>8. Home(ended)
  <2>1. {} \subseteq Near(blocks, owner)
    OBVIOUS
  <2>2. ended = Append_(blocks, p, << Instr("ret", None, {}) >>)
    BY <1>2 DEF Ret
  <2> QED BY <1>1, <1>2, <2>1, <2>2, OneMore
<1>9. \A f : Near(h.bs, f) = Near(blocks, f)
  BY <1>1, <1>7 DEF Near, Extends_
<1> QED BY <1>1, <1>5, <1>7, <1>8, <1>9

LEMMA EndTop ==
    ASSUME HomeInv, ClosedInv, NEW g, PlaceInv(g), EndCompile
    PROVE  DomInv'
<1> DEFINE mains == {b \in 1..BlocksMade : blocks[b].fn = "main"}
           first == CHOOSE b \in mains : \A c \in mains : b <= c
<1>1. PICK N, entry, ended : /\ N = Len(blocks) /\ entry = first
                             /\ ended = Append_(blocks, Back(globals_init), << Ret >>)
  OBVIOUS
<1>2. PICK one, two : /\ one = [op |-> "call", var |-> None, to |-> {}, src |-> "main"]
                      /\ two = [op |-> "br", var |-> None, to |-> {entry}, src |-> "main"]
  OBVIOUS
<1>3. PICK new : new = [fn |-> "main", code |-> << one, two >>]
  OBVIOUS
<1>4. outcome = "none" /\ todo = <<>> /\ loops' = loops /\ owner' = owner
  BY DEF EndCompile, aux
<1>5. \/ outcome' = "assert" /\ blocks' = blocks /\ scopes' = scopes
      \/ outcome' = "printed" /\ blocks' = ended
      \/ outcome' = "printed" /\ mains # {} /\ blocks' = Append(ended, new)
  BY <1>1, <1>2, <1>3 DEF EndCompile
<1>6. CASE outcome' = "assert" /\ blocks' = blocks /\ scopes' = scopes
  <2>1. Stays /\ DomInv
    BY <1>4, <1>6 DEF Stays, DomInv
  <2> QED BY <1>6, <2>1, HaltStep
<1>7. PICK h : /\ h.bs = ended /\ h.sc = scopes' /\ h.f = owner' /\ h.loops = g.loops /\ h.dom = g.dom
               /\ Graph(h) /\ AreBlocks(h.bs) /\ Home(h.bs) /\ Len(h.bs) = Len(blocks)
               /\ \A f : Near(h.bs, f) = Near(blocks, f)
  BY <1>1, <1>4, EndedView
<1>8. g.bs = blocks /\ Graph(g) /\ g.loops \subseteq loops /\ AreBlocks(g.bs)
  BY <1>4, TopFacts
<1>9. CASE outcome' = "printed" /\ blocks' = ended
  BY <1>4, <1>7, <1>8, <1>9, PrintStep
<1>10. CASE outcome' = "printed" /\ mains # {} /\ blocks' = Append(ended, new)
  <2>1. entry \in Near(blocks, "main") /\ IsFront(blocks, "main", entry)
    <3>1. mains = Near(blocks, "main")
      BY DEF BlocksMade, Near
    <3>2. \E b \in mains : \A c \in mains : b <= c
      BY <1>10, <3>1 DEF HomeInv, Ends, IsFront
    <3>3. entry \in mains /\ \A c \in mains : entry <= c
      BY <1>1, <3>2
    <3> HIDE DEF mains
    <3> QED BY <3>1, <3>3 DEF IsFront
  <2>2. g.dom[entry] = {entry} /\ entry \in 1..N /\ N \in Nat
    <3>1. entry \in 1..N /\ blocks[entry].fn = "main"
      BY <1>1, <2>1 DEF Near
    <3> QED BY <1>1, <1>8, <2>1, <3>1, BlocksType DEF Graph, Placed
  <2>3. PICK k : k = [bs |-> blocks', dom |-> [c \in 1..N+1 |-> IF c <= N THEN g.dom[c] ELSE {N + 1}],
                      loops |-> g.loops, sc |-> scopes', f |-> owner']
    OBVIOUS
  <2>4. k.bs = blocks' /\ k.sc = scopes' /\ k.f = owner' /\ k.loops = g.loops
    BY <2>3
  <2>5. (\A c \in 1..N : k.dom[c] = g.dom[c]) /\ k.dom[N + 1] = {N + 1}
    <3>1. k.dom = [c \in 1..N+1 |-> IF c <= N THEN g.dom[c] ELSE {N + 1}] /\ N \in Nat
      BY <2>2, <2>3
    <3> QED BY ONLY <3>1
  <2>6. Added(k.bs, h.bs, new)
    BY <1>7, <1>10, <2>4 DEF Added
  <2>7. k.bs[N + 1] = new
    <3>1. PICK bs, cs : bs = h.bs /\ cs = k.bs
      OBVIOUS
    <3>2. PICK S : bs \in Seq(BlockOf(S))
      BY <1>7, <3>1 DEF AreBlocks
    <3>3. IsSeq(bs) /\ Added(cs, bs, new)
      BY <2>6, <3>1, <3>2 DEF IsSeq
    <3>4. cs[Len(bs) + 1] = new
      BY ONLY <3>3, AddedTable
    <3> QED BY <1>1, <1>7, <3>1, <3>4
  <2>8. \A i \in 1..Len(new.code) : Fair(i, N + 1, k)
    <3>1. Len(new.code) = 2 /\ new.code[1] = one /\ new.code[2] = two
      BY <1>3
    <3>2. one.to = {} /\ one.var = None /\ two.to = {entry} /\ two.var = None
      BY <1>2
    <3>3. Below(entry, N + 1, k)
      BY <2>2, <2>5 DEF Below
    <3>4. \A b : Valid(None, b, k)
      BY NoneValid
    <3>5. None.block = 0 /\ N + 1 # 0
      BY <2>2 DEF None
    <3>6. Fair(1, N + 1, k) /\ Fair(2, N + 1, k)
      BY <2>7, <3>1, <3>2, <3>3, <3>4, <3>5 DEF Fair
    <3> QED BY <3>1, <3>6
  <2>9. Graph(k)
    <3>1. /\ AreBlocks(h.bs) /\ Home(h.bs) /\ Graph(h) /\ Added(k.bs, h.bs, new) /\ N = Len(h.bs)
          /\ (\A c \in 1..N : k.dom[c] = h.dom[c]) /\ k.dom[N + 1] = {N + 1} /\ k.loops = h.loops
          /\ (\A i \in 1..Len(new.code) : Fair(i, N + 1, k))
      BY <1>1, <1>7, <2>4, <2>5, <2>6, <2>8
    <3> QED BY ONLY <3>1, BlockView
  <2> QED BY <1>4, <1>8, <1>10, <2>4, <2>9, PrintStep
<1> QED BY <1>5, <1>6, <1>9, <1>10

(* The blocks that are reached, and what that says of the blocks passed.   *)

(* f[k] is what is reached after k rounds, of n.                           *)
Rounds(f, from, but, n) ==
    /\ f[0] = {from} \ {but} /\ Reached(from, but) = f[n]
    /\ \A k \in 1..n : f[k] = Onward(f[k - 1], but)

LEMMA ReachedIs ==
    ASSUME Len(blocks) \in Nat, NEW from, NEW but
    PROVE  \E f : Rounds(f, from, but, Len(blocks))
<1> DEFINE N == Len(blocks)
           first == {from} \ {but}
           Upto(g, n) == g[0] = first /\ \A k \in 1..n : g[k] = Onward(g[k - 1], but)
           T == {n \in Nat : \E g : Upto(g, n)}
           Eq(h) == h = [k \in 0..N |-> IF k = 0 THEN first ELSE Onward(h[k - 1], but)]
<1> HIDE DEF first
<1>1. 0 \in T
  <2>1. Upto([k \in {0} |-> first], 0)
    OBVIOUS
  <2> HIDE DEF Upto
  <2> QED BY <2>1
<1>2. ASSUME NEW n \in Nat, n \in T
      PROVE  n + 1 \in T
  <2>1. PICK g : Upto(g, n)
    BY <1>2
  <2> DEFINE h == [k \in 0..(n + 1) |-> IF k <= n THEN g[k] ELSE Onward(g[n], but)]
  <2>2. /\ h[0] = g[0] /\ h[n] = g[n] /\ h[n + 1] = Onward(g[n], but)
        /\ \A k \in 1..n : h[k] = g[k] /\ h[k - 1] = g[k - 1]
    OBVIOUS
  <2> HIDE DEF h
  <2>3. ASSUME NEW k \in 1..(n + 1)
        PROVE  h[k] = Onward(h[k - 1], but)
    <3>1. CASE k \in 1..n
      BY <2>1, <2>2, <3>1
    <3>2. CASE k = n + 1
      <4>1. k - 1 = n
        BY <3>2
      <4> QED BY <2>2, <3>2, <4>1
    <3> QED BY <3>1, <3>2
  <2>4. Upto(h, n + 1)
    BY <2>1, <2>2, <2>3
  <2> HIDE DEF Upto
  <2> QED BY <2>4
<1>3. N \in T
  <2> HIDE DEF T
  <2> QED BY <1>1, <1>2, Induction
<1>4. PICK g : Upto(g, N)
  BY <1>3
<1> DEFINE u == [k \in 0..N |-> g[k]]
<1>5. Eq(u)
  <2>1. \A k \in 0..N : u[k] = g[k]
    OBVIOUS
  <2>2. ASSUME NEW k \in 0..N
        PROVE  u[k] = IF k = 0 THEN first ELSE Onward(u[k - 1], but)
    <3>1. CASE k = 0
      BY <1>4, <2>1, <3>1
    <3>2. CASE k # 0
      <4>1. k \in 1..N /\ k - 1 \in 0..N
        BY <3>2
      <4> QED BY <1>4, <2>1, <3>2, <4>1
    <3> QED BY <3>1, <3>2
  <2>3. u = [k \in 0..N |-> u[k]]
    OBVIOUS
  <2> HIDE DEF u
  <2> QED BY <2>2, <2>3
<1> HIDE DEF u
<1> DEFINE h == CHOOSE v : Eq(v)
<1>6. Reached(from, but) = h[N]
  BY DEF Reached, first
<1>7. Eq(h)
  <2> HIDE DEF Eq
  <2> QED BY <1>5
<1> HIDE DEF h
<1>8. \A k \in 0..N : h[k] = IF k = 0 THEN first ELSE Onward(h[k - 1], but)
  BY <1>7
<1>9. h[0] = first /\ \A k \in 1..N : h[k] = Onward(h[k - 1], but)
  <2>1. 0 \in 0..N /\ \A k \in 1..N : k \in 0..N /\ k # 0
    OBVIOUS
  <2> QED BY <1>8, <2>1
<1>10. Rounds(h, from, but, N)
  BY <1>6, <1>9 DEF first, Rounds
<1> QED BY <1>10

(* A set of blocks that no jump leaves, but to `but', holds all of them.   *)
LEMMA ReachedWithin ==
    ASSUME Len(blocks) \in Nat, NEW from, NEW but, NEW X, {from} \ {but} \subseteq X,
           \A b \in X : Jumps(b) \ {but} \subseteq X
    PROVE  Reached(from, but) \subseteq X
<1>1. PICK f : Rounds(f, from, but, Len(blocks))
  <2>1. \E h : Rounds(h, from, but, Len(blocks))
    BY ReachedIs
  <2> QED BY <2>1
<1> DEFINE N == Len(blocks)
           T == {n \in Nat : n <= N => f[n] \subseteq X}
<1>2. /\ f[0] = {from} \ {but} /\ Reached(from, but) = f[N]
      /\ \A k \in 1..N : f[k] = Onward(f[k - 1], but)
  BY <1>1 DEF Rounds
<1> HIDE DEF N
<1>3. 0 \in T
  BY <1>2
<1>4. ASSUME NEW n \in Nat, n \in T
      PROVE  n + 1 \in T
  <2> SUFFICES ASSUME n + 1 <= N PROVE f[n + 1] \subseteq X
    OBVIOUS
  <2>1. n <= N /\ n + 1 \in 1..N /\ (n + 1) - 1 = n
    BY DEF N
  <2>2. f[n] \subseteq X /\ f[n + 1] = Onward(f[n], but)
    BY <1>2, <1>4, <2>1
  <2>3. PICK S, R : S = f[n] /\ R = f[n + 1]
    OBVIOUS
  <2>4. S \subseteq X /\ R = Onward(S, but)
    BY <2>2, <2>3
  <2> DEFINE U == UNION {Jumps(b) : b \in S}
  <2>5. R = S \union (U \ {but})
    BY ONLY <2>4 DEF Onward
  <2>6. \A x \in U : \E b \in S : x \in Jumps(b)
    OBVIOUS
  <2> HIDE DEF U
  <2>7. \A x \in U \ {but} : x \in X
    BY <2>4, <2>6
  <2>8. R \subseteq X
    BY ONLY <2>4, <2>5, <2>7
  <2> QED BY <2>3, <2>8
<1>5. N \in T
  <2>1. N \in Nat
    BY DEF N
  <2> HIDE DEF T
  <2> QED BY <1>3, <1>4, <2>1, Induction
<1> QED BY <1>2, <1>5 DEF N

(* What is passed before a block dominates it.                             *)
LEMMA PassedDominates ==
    ASSUME HomeInv, NEW g, g.bs = blocks, Graph(g), NEW b \in 1..Len(blocks), NEW a \in g.dom[b]
    PROVE  Dominates(a, b)
<1>1. AreBlocks(blocks) /\ Home(blocks) /\ Made = 1..Len(blocks) /\ Len(blocks) \in Nat
  <2>1. AreBlocks(blocks) /\ Home(blocks)
    BY DEF HomeInv
  <2> QED BY <2>1, BlocksType DEF Made
<1>2. PICK f, e : f = blocks[b].fn /\ e = Entry(f)
  OBVIOUS
<1>3. IsFront(blocks, f, e)
  <2> DEFINE T == Near(blocks, f)
  <2>1. T \in SUBSET Nat /\ T # {}
    BY <1>1, <1>2 DEF Near
  <2>2. PICK m \in T : \A c \in T : m <= c
    <3> HIDE DEF T
    <3> QED BY <2>1, NatMinimum
  <2>3. m \in Made /\ blocks[m].fn = f /\ \A c \in Made : blocks[c].fn = f => m <= c
    BY <1>1, <2>2 DEF Near
  <2>4. e \in Made /\ blocks[e].fn = f /\ \A c \in Made : blocks[c].fn = f => e <= c
    BY <1>2, <2>3 DEF Entry
  <2> QED BY <1>1, <2>4 DEF IsFront, Near
<1>4. g.dom[e] = {e} /\ e \in 1..Len(blocks)
  <2>1. e \in 1..Len(blocks) /\ blocks[e].fn = f
    BY <1>3 DEF IsFront, Near
  <2> QED BY <1>3, <2>1 DEF Graph, Placed
<1> DEFINE X == {x \in 1..Len(blocks) : a \notin g.dom[x]}
<1>5. {e} \ {a} \subseteq X
  BY <1>4
<1>6. ASSUME NEW x \in X, NEW d \in Jumps(x), d # a
      PROVE  d \in X
  <2>1. PICK i \in DOMAIN blocks[x].code : d \in blocks[x].code[i].to
    BY DEF Jumps, CodeOf
  <2>2. i \in 1..Len(blocks[x].code)
    <3>1. IsSeq(blocks[x].code)
      BY <1>1, Types
    <3>2. PICK S : blocks[x].code \in Seq(S)
      BY <3>1 DEF IsSeq
    <3> QED BY <2>1, <3>2
  <2>3. Below(d, x, g)
    BY <2>1, <2>2 DEF Graph, Fair
  <2>4. d \in 1..Len(blocks)
    BY <1>1, <2>1, <2>2 DEF Home, AllAtHome, AtHome, Near
  <2> QED BY <1>6, <2>3, <2>4 DEF Below
<1> HIDE DEF X
<1>7. Reached(e, a) \subseteq X
  <2>1. \A x \in X : Jumps(x) \ {a} \subseteq X
    BY <1>6
  <2> QED BY <1>1, <1>5, <2>1, ReachedWithin
<1>8. b \notin X
  BY DEF X
<1> QED BY <1>2, <1>7, <1>8 DEF Dominates

(* Of a printed module, the view says all of VariablesAllocated.           *)
LEMMA PlacesSuffice == HomeInv /\ DomInv => VariablesAllocated
<1> SUFFICES ASSUME HomeInv, DomInv, outcome = "printed",
                    NEW b \in Made, NEW i \in DOMAIN CodeOf(b), NEW var, var = CodeOf(b)[i].var, var.block # 0
             PROVE  /\ blocks[var.block].fn = blocks[b].fn
                    /\ CodeOf(var.block)[var.at].op = "alloca"
                    /\ var.block = b => var.at <= i
                    /\ InLoop(var.block) \/ Dominates(var.block, b)
  BY DEF VariablesAllocated
<1>1. PICK g : g.bs = blocks /\ Graph(g) /\ g.loops \subseteq loops
  BY DEF DomInv, PlaceInv
<1>2. AreBlocks(blocks) /\ Made = 1..Len(blocks)
  <2>1. AreBlocks(blocks)
    BY DEF HomeInv
  <2> QED BY <2>1, BlocksType DEF Made
<1>3. i \in 1..Len(blocks[b].code)
  <2>1. IsSeq(blocks[b].code)
    BY <1>2, Types
  <2>2. PICK S : blocks[b].code \in Seq(S)
    BY <2>1 DEF IsSeq
  <2> QED BY <2>2 DEF CodeOf
<1>4. Valid(var, b, g) /\ (var.block = b => var.at <= i)
  BY <1>1, <1>2, <1>3 DEF Graph, Fair, CodeOf
<1>5. /\ var.block \in 1..Len(blocks) /\ blocks[var.block].fn = blocks[b].fn
      /\ blocks[var.block].code[var.at].op = "alloca"
      /\ var.block \in g.dom[b] \/ Inside(var.block, g)
  BY <1>1, <1>4 DEF Valid
<1>6. CASE var.block \in g.dom[b]
  <2>1. Dominates(var.block, b)
    BY <1>1, <1>2, <1>6, PassedDominates
  <2> QED BY <1>4, <1>5, <2>1 DEF CodeOf
<1>7. CASE Inside(var.block, g)
  <2>1. PICK a, l : a = var.block /\ l \in g.loops /\ l \in g.dom[a]
    BY <1>7 DEF Inside
  <2>2. l \in loops /\ blocks[l].fn = blocks[a].fn
    BY <1>1, <1>5, <2>1 DEF Graph, Placed, Near
  <2>3. Dominates(l, a)
    BY <1>1, <1>5, <2>1, PassedDominates
  <2>4. InLoop(var.block)
    BY <2>1, <2>2, <2>3 DEF InLoop
  <2> QED BY <1>4, <1>5, <2>4 DEF CodeOf
<1> QED BY <1>5, <1>6, <1>7

LEMMA PlaceInit == Init => DomInv
<1> SUFFICES ASSUME Init PROVE DomInv
  OBVIOUS
<1>1. /\ blocks = << Block(globals_init) >> /\ todo = <<>> /\ outcome = "none" /\ top = 0
  BY DEF Init
<1>2. PICK g : g = [bs |-> blocks, dom |-> [b \in {1} |-> {1}], loops |-> {}, sc |-> scopes, f |-> owner]
  OBVIOUS
<1>3. /\ g.bs = blocks /\ g.sc = scopes /\ g.f = owner /\ g.loops = {} /\ g.dom[1] = {1}
  BY <1>2
<1>4. PICK new : new = Block(globals_init)
  OBVIOUS
<1>5. new.code = <<>> /\ Len(blocks) = 1 /\ blocks[1] = new
  BY <1>1, <1>4 DEF Block
<1>6. Graph(g)
  <2>1. \A b \in 1..Len(g.bs) : b = 1
    BY <1>3, <1>5
  <2>2. Placed(1, g)
    BY <1>3, <1>5 DEF Placed, Near
  <2>3. Len(g.bs[1].code) = 0
    BY <1>3, <1>5
  <2>4. \A i \in 1..Len(g.bs[1].code) : FALSE
    BY <2>3
  <2> QED BY <2>1, <2>2, <2>4 DEF Graph
<1>7. Pending(todo, g.loops \ loops)
  BY <1>3 DEF Pending
<1> QED BY <1>1, <1>3, <1>6, <1>7 DEF DomInv, PlaceInv

LEMMA PlaceStep == HomeInv /\ ClosedInv /\ DomInv /\ [Next]_vars => DomInv'
<1> SUFFICES ASSUME HomeInv, ClosedInv, DomInv, [Next]_vars PROVE DomInv'
  OBVIOUS
<1>1. PICK g : PlaceInv(g)
  BY DEF DomInv
<1>2. CASE UNCHANGED vars \/ Terminating
  <2>1. /\ blocks' = blocks /\ scopes' = scopes /\ owner' = owner /\ outcome' = outcome /\ top' = top
        /\ todo' = todo /\ loops' = loops /\ ip' = ip
    BY <1>2 DEF Terminating, vars, module, aux
  <2>2. PlaceInv(g)'
    BY <1>1, <2>1 DEF PlaceInv
  <2> QED BY <2>2 DEF DomInv
<1>3. CASE Top
  BY <1>1, <1>3, DeclareTop, DefineTop, EndDefineTop, GlobalTop, EndTop DEF Top
<1>4. CASE Expr_
  BY <1>1, <1>4, ExprPlace
<1>5. CASE Statement
  BY <1>1, <1>5, StmtPlace, AssignPlace, IfPlace, BranchPlace, EndBranchPlace, WhilePlace, TestPlace, LoopPlace
     DEF Statement
<1> QED BY <1>2, <1>3, <1>4, <1>5 DEF Next

(* For every program: a variable is read and written in its own function   *)
(* only, and where its allocation has been executed on every way from the  *)
(* entry, but for those that the body of a loop declares.                  *)
THEOREM VariablesAreAllocated == Spec => []VariablesAllocated
<1>1. HomeInv /\ ClosedInv /\ DomInv /\ [Next]_vars => (HomeInv /\ ClosedInv /\ DomInv)'
  BY HomeStep, ClosedStep, PlaceStep
<1>2. Spec => [](HomeInv /\ ClosedInv /\ DomInv)
  BY HomeInit, ClosedInit, PlaceInit, <1>1, PTL DEF Spec
<1> QED
  BY <1>2, PlacesSuffice, PTL
====
