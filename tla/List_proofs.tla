---- MODULE List_proofs ----
(***************************************************************************)
(* lib/list.cpp, proved: a live list is at all times its nodes in an order *)
(* (InOrder), a chain of free cells (Chained), and nothing else (Covered). *)
(* From that the links are what verify_list checks, and every call does to *)
(* the sequence of items what its name says, whatever the items and        *)
(* however long the list grows.                                            *)
(***************************************************************************)
EXTENDS List, FiniteSetTheorems, WellFoundedInduction, SequenceTheorems, TLAPS

(* A set of numbers that is not empty has a least one.                     *)
LEMMA NatMinimum ==
    ASSUME NEW T \in SUBSET Nat, T # {}
    PROVE  \E m \in T : \A n \in T : m <= n
<1> DEFINE Below == {0..m : m \in T}
             R     == StrictSubsetOrdering(Nat)
<1>1. Below \subseteq FiniteSubsetsOf(Nat) /\ Below # {}
  <2>1. \A m \in T : IsFiniteSet(0..m) /\ 0..m \in SUBSET Nat
    BY FS_Interval
  <2> QED BY <2>1 DEF FiniteSubsetsOf
<1>2. PICK x \in Below : \A y \in Below : <<y, x>> \notin R
  <2> HIDE DEF Below
  <2> QED BY <1>1, FS_StrictSubsetOrderingWellFounded, WFMin
<1>3. PICK m \in T : x = 0..m
    BY <1>2
<1>4. ASSUME NEW n \in T, ~(m <= n)
        PROVE  FALSE
  <2>1. n \in Nat /\ m \in Nat /\ n < m
    BY <1>4
  <2>2. 0..n \subseteq 0..m /\ m \in 0..m /\ m \notin 0..n
    BY <2>1
  <2>3. <<0..n, 0..m>> \in R
    BY <2>2, <2>1 DEF StrictSubsetOrdering
  <2> QED BY <1>2, <1>3, <2>3
<1> QED BY <1>3, <1>4

(* What holds of 0 and of the successor of each of its members holds of    *)
(* every number.                                                           *)
LEMMA Induction ==
    ASSUME NEW T, 0 \in T, \A n \in Nat : n \in T => n + 1 \in T
    PROVE  \A n \in Nat : n \in T
<1> SUFFICES ASSUME NEW k \in Nat, k \notin T
             PROVE  FALSE
  OBVIOUS
<1> DEFINE U == Nat \ T
<1>1. PICK n \in U : \A m \in U : n <= m
  <2>1. U \in SUBSET Nat /\ U # {}  OBVIOUS
  <2> HIDE DEF U
  <2> QED  BY <2>1, NatMinimum
<1>2. n # 0
  OBVIOUS
<1>3. n - 1 \in Nat /\ n - 1 \notin U
  BY <1>1, <1>2
<1> QED  BY <1>3

(* A list and the sequence of its nodes.                                   *)

IsHeader(l) ==
    l = [nodes |-> l.nodes, capacity |-> l.capacity, head |-> l.head, tail |-> l.tail,
         free |-> l.free, n_nodes |-> l.n_nodes, linear |-> l.linear]

(* The cells that are not nodes, but for cell 0.                           *)
Spare(l) == l.capacity - 1 - l.n_nodes

(* w[1], ..., w[n] are the cells of the nodes in their order, between two  *)
(* zeros: the links of a node are its neighbours in w.                     *)
InOrder(l, w) ==
    /\ w[0] = 0 /\ w[l.n_nodes + 1] = 0
    /\ l.head = w[1] /\ l.tail = w[l.n_nodes]
    /\ \A i \in 1..l.n_nodes :
          /\ w[i] \in 1..(l.capacity - 1)
          /\ l.nodes[w[i]].prev = w[i - 1] /\ l.nodes[w[i]].next = w[i + 1]
          /\ l.nodes[w[i]].data \in Data
    /\ \A i, j \in 1..l.n_nodes : w[i] = w[j] => i = j

(* c[1], c[2], ... are the free cells from `free' on, and a zero.          *)
Chained(l, c) ==
    /\ l.free = c[1] /\ c[Spare(l) + 1] = 0
    /\ \A i \in 1..Spare(l) :
          /\ c[i] \in 1..(l.capacity - 1)
          /\ l.nodes[c[i]].prev = FREE_PREV /\ l.nodes[c[i]].next = c[i + 1]
    /\ \A i, j \in 1..Spare(l) : c[i] = c[j] => i = j

(* Every cell but 0 is one of them.                                        *)
Covered(l, w, c) ==
    \A x \in 1..(l.capacity - 1) :
        (\E i \in 1..l.n_nodes : w[i] = x) \/ (\E i \in 1..Spare(l) : c[i] = x)

Represents(l, w, c) ==
    /\ IsHeader(l) /\ IsList(l) /\ Spare(l) \in Nat
    /\ l.nodes[0].prev = 0 /\ l.nodes[0].next = 0
    /\ InOrder(l, w) /\ Chained(l, c) /\ Covered(l, w, c)

(* The nodes are in the first cells, in order, and the chain of the free   *)
(* cells goes through the others in order.                                 *)
Straight(l, w) ==
    /\ \A i \in 1..l.n_nodes : w[i] = i
    /\ l.free # 0 => l.free = l.n_nodes + 1
    /\ \A y \in (l.n_nodes + 1)..(l.capacity - 2) : l.nodes[y].next = y + 1

(* Follow is any function that follows the links.                          *)
LEMMA FollowIs ==
    ASSUME NEW nodes, NEW first, NEW n \in Nat, NEW f,
           n > 0 => f[1] = first,
           \A i \in 1..(n - 1) : nodes[f[i]].next = f[i + 1]
    PROVE  Follow(nodes, first, n) = [i \in 1..n |-> f[i]]
<1> DEFINE Eq(h) == h = [i \in 1..n |-> IF i = 1 THEN first ELSE nodes[h[i - 1]].next]
           g == [i \in 1..n |-> f[i]]
<1>1. Eq(g)
  <2>1. ASSUME NEW i \in 1..n, i # 1
        PROVE  g[i] = nodes[g[i - 1]].next
    <3>1. i - 1 \in 1..(n - 1) /\ i - 1 \in 1..n /\ (i - 1) + 1 = i
      BY <2>1
    <3>2. g[i] = f[i] /\ g[i - 1] = f[i - 1]
      BY <3>1
    <3>3. nodes[f[i - 1]].next = f[(i - 1) + 1]
      BY <3>1
    <3> QED  BY <3>1, <3>2, <3>3
  <2>2. ASSUME NEW i \in 1..n, i = 1
        PROVE  g[i] = first
    BY <2>2
  <2> DEFINE R == [i \in 1..n |-> IF i = 1 THEN first ELSE nodes[g[i - 1]].next]
  <2>3. \A i \in 1..n : g[i] = R[i]
    <3> HIDE DEF g
    <3> QED  BY <2>1, <2>2
  <2> QED  BY <2>3
<1>2. ASSUME NEW h, Eq(h)
      PROVE  h = g
  <2> DEFINE T == {i \in Nat : i + 1 <= n => h[i + 1] = f[i + 1]}
  <2>0. /\ h = [i \in 1..n |-> h[i]]
        /\ \A i \in 1..n : h[i] = IF i = 1 THEN first ELSE nodes[h[i - 1]].next
    BY <1>2
  <2> HIDE DEF Eq
  <2>1. 0 \in T
    BY <2>0
  <2>2. ASSUME NEW i \in Nat, i \in T
        PROVE  i + 1 \in T
    <3> SUFFICES ASSUME (i + 1) + 1 <= n
                 PROVE  h[(i + 1) + 1] = f[(i + 1) + 1]
      OBVIOUS
    <3>1. /\ (i + 1) + 1 \in 1..n /\ (i + 1) + 1 # 1 /\ ((i + 1) + 1) - 1 = i + 1
          /\ i + 1 \in 1..(n - 1) /\ i + 1 <= n
      OBVIOUS
    <3>2. h[i + 1] = f[i + 1]
      BY <2>2, <3>1
    <3>3. h[(i + 1) + 1] = nodes[h[i + 1]].next
      BY <2>0, <3>1
    <3>4. nodes[f[i + 1]].next = f[(i + 1) + 1]
      BY <3>1
    <3> QED  BY <3>2, <3>3, <3>4
  <2>3. ASSUME NEW i \in 1..n
        PROVE  h[i] = f[i]
    <3>1. i - 1 \in Nat /\ (i - 1) + 1 = i
      OBVIOUS
    <3>2. i - 1 \in T
      <4> HIDE DEF T
      <4> QED  BY <2>1, <2>2, <3>1, Induction
    <3> QED  BY <3>1, <3>2
  <2> QED  BY <2>0, <2>3
<1>3. Eq(CHOOSE h : Eq(h))
  <2> HIDE DEF Eq, g
  <2> QED  BY <1>1
<1>4. Follow(nodes, first, n) = CHOOSE h : Eq(h)
  BY DEF Follow
<1> HIDE DEF Eq
<1> QED  BY <1>2, <1>3, <1>4

(* The walk from head visits the nodes in their order, the chain from      *)
(* `free' the free cells and the zero.                                     *)
LEMMA WalkIs ==
    ASSUME NEW l, l.n_nodes \in Nat, NEW w, InOrder(l, w)
    PROVE  Walk(l) = [i \in 1..l.n_nodes |-> w[i]]
<1>1. /\ l.head = w[1]
      /\ \A i \in 1..(l.n_nodes - 1) : l.nodes[w[i]].next = w[i + 1]
  <2>1. \A i \in 1..(l.n_nodes - 1) : i \in 1..l.n_nodes
    OBVIOUS
  <2> QED  BY <2>1 DEF InOrder
<1> QED  BY <1>1, FollowIs DEF Walk

(* The chain from `free' visits the free cells, and the zero.              *)
LEMMA ChainIs ==
    ASSUME NEW l, l.n_nodes \in Nat, l.capacity \in Nat, Spare(l) \in Nat, NEW c, Chained(l, c)
    PROVE  Chain(l) = [i \in 1..(Spare(l) + 1) |-> c[i]]
<1>1. l.capacity - l.n_nodes = Spare(l) + 1 /\ Spare(l) + 1 \in Nat /\ (Spare(l) + 1) - 1 = Spare(l)
  BY DEF Spare
<1>2. l.free = c[1] /\ \A i \in 1..Spare(l) : l.nodes[c[i]].next = c[i + 1]
  BY DEF Chained
<1> QED  BY <1>1, <1>2, FollowIs DEF Chain

(* The nodes and the free cells are told apart by prev.                    *)
LEMMA FreeIs ==
    ASSUME NEW l, NEW w, NEW c, Represents(l, w, c)
    PROVE  /\ l.capacity \in Nat /\ l.n_nodes \in Nat /\ Spare(l) \in Nat
           /\ \A i \in 0..l.n_nodes + 1 : w[i] \in Nat
           /\ Free(l) = {c[i] : i \in 1..Spare(l)}
           /\ (1..(l.capacity - 1)) \ Free(l) = {w[i] : i \in 1..l.n_nodes}
<1>1. l.capacity \in Nat /\ l.n_nodes \in Nat /\ Spare(l) \in Nat
  BY DEF Represents, IsList
<1>2. ASSUME NEW i \in 0..l.n_nodes + 1
      PROVE  w[i] \in Nat
  <2>1. i = 0 \/ i = l.n_nodes + 1 \/ i \in 1..l.n_nodes
    BY <1>1
  <2> QED  BY <1>1, <2>1 DEF Represents, InOrder
<1>3. ASSUME NEW i \in 1..l.n_nodes
      PROVE  w[i] \in 1..(l.capacity - 1) /\ w[i] \notin Free(l)
  <2>1. l.nodes[w[i]].prev = w[i - 1] /\ w[i] \in 1..(l.capacity - 1)
    BY DEF Represents, InOrder
  <2>2. i - 1 \in 0..l.n_nodes + 1
    BY <1>1
  <2> QED  BY <1>2, <2>1, <2>2 DEF Free, FREE_PREV
<1>4. ASSUME NEW i \in 1..Spare(l)
      PROVE  c[i] \in Free(l)
  BY DEF Represents, Chained, Free
<1>5. ASSUME NEW x \in 1..(l.capacity - 1)
      PROVE  (\E i \in 1..l.n_nodes : w[i] = x) \/ (\E i \in 1..Spare(l) : c[i] = x)
  BY DEF Represents, Covered
<1>6. Free(l) \subseteq 1..(l.capacity - 1)
  BY DEF Free
<1> QED  BY <1>1, <1>2, <1>3, <1>4, <1>5, <1>6

(* There are as many free cells as the chain is long.                      *)
LEMMA FreeCount ==
    ASSUME NEW l, NEW w, NEW c, Represents(l, w, c)
    PROVE  Cardinality(Free(l)) = Spare(l)
<1> DEFINE f == [i \in 1..Spare(l) |-> c[i]]
<1>1. Free(l) = {c[i] : i \in 1..Spare(l)} /\ Spare(l) \in Nat
  BY FreeIs
<1>2. \A i, j \in 1..Spare(l) : c[i] = c[j] => i = j
  BY DEF Represents, Chained
<1>3. f \in Bijection(1..Spare(l), Free(l))
  BY <1>1, <1>2 DEF Bijection, Injection, IsInjective, Surjection
<1>4. IsFiniteSet(1..Spare(l)) /\ Cardinality(1..Spare(l)) = Spare(l)
  BY <1>1, FS_Interval
<1> QED  BY <1>3, <1>4, FS_Bijection DEF ExistsBijection

(* Such a list is as verify_list wants it.                                 *)
LEMMA RepresentsWell ==
    ASSUME NEW l, NEW w, NEW c, Represents(l, w, c)
    PROVE  IsWellFormed(l)
<1>1. /\ l.capacity \in Nat /\ l.n_nodes \in Nat /\ Spare(l) \in Nat
      /\ Free(l) = {c[i] : i \in 1..Spare(l)}
      /\ (1..(l.capacity - 1)) \ Free(l) = {w[i] : i \in 1..l.n_nodes}
  BY FreeIs
<1>2. l.nodes[0].prev = 0 /\ l.nodes[0].next = 0 /\ InOrder(l, w) /\ Chained(l, c)
  BY DEF Represents
<1>3. w[0] = 0 /\ w[l.n_nodes + 1] = 0 /\ l.head = w[1] /\ l.tail = w[l.n_nodes]
  BY <1>2 DEF InOrder
<1>4. ASSUME NEW i \in 1..l.n_nodes
      PROVE  l.nodes[w[i]].prev = w[i - 1] /\ l.nodes[w[i]].next = w[i + 1]
  BY <1>2 DEF InOrder
<1>5. l.nodes[l.head].prev = 0 /\ l.nodes[l.tail].next = 0
  <2>1. CASE l.n_nodes = 0
    BY <1>2, <1>3, <2>1
  <2>2. CASE l.n_nodes # 0
    <3>1. 1 \in 1..l.n_nodes /\ l.n_nodes \in 1..l.n_nodes
      BY <1>1, <2>2
    <3> QED  BY <1>3, <1>4, <3>1
  <2> QED  BY <2>1, <2>2
<1>6. ASSUME NEW x \in (1..(l.capacity - 1)) \ Free(l)
      PROVE  /\ x = l.head \/ l.nodes[l.nodes[x].prev].next = x
             /\ x = l.tail \/ l.nodes[l.nodes[x].next].prev = x
  <2>1. PICK i \in 1..l.n_nodes : x = w[i]
    BY <1>1
  <2>2. CASE i = 1 /\ i = l.n_nodes
    BY <1>3, <2>1, <2>2
  <2>3. i # 1 => i - 1 \in 1..l.n_nodes /\ (i - 1) + 1 = i
    BY <1>1
  <2>4. i # l.n_nodes => i + 1 \in 1..l.n_nodes /\ (i + 1) - 1 = i
    BY <1>1
  <2> QED  BY <1>3, <1>4, <2>1, <2>3, <2>4
<1>7. Walk(l) = [i \in 1..l.n_nodes |-> w[i]]
  BY <1>1, <1>2, WalkIs
<1>8. {Walk(l)[i] : i \in 1..l.n_nodes} = (1..(l.capacity - 1)) \ Free(l)
  BY <1>1, <1>7
<1>9. l.n_nodes > 0 => Walk(l)[l.n_nodes] = l.tail
  <2>1. l.n_nodes > 0 => l.n_nodes \in 1..l.n_nodes
    BY <1>1
  <2> QED  BY <1>3, <1>7, <2>1
<1>10. l.n_nodes + Cardinality(Free(l)) = l.capacity - 1
  <2>1. Cardinality(Free(l)) = Spare(l)
    BY FreeCount
  <2> QED  BY <1>1, <2>1 DEF Spare
<1>11. {Chain(l)[i] : i \in DOMAIN Chain(l)} = Free(l) \union {0}
  <2>1. Chain(l) = [i \in 1..(Spare(l) + 1) |-> c[i]]
    BY <1>1, <1>2, ChainIs
  <2>2. c[Spare(l) + 1] = 0
    BY <1>2 DEF Chained
  <2>3. \A i : i \in 1..(Spare(l) + 1) <=> i \in 1..Spare(l) \/ i = Spare(l) + 1
    BY <1>1
  <2> QED  BY <1>1, <2>1, <2>2, <2>3
<1> QED  BY <1>2, <1>5, <1>6, <1>8, <1>9, <1>10, <1>11 DEF IsWellFormed

(* Growing.                                                                *)

(* What is used most of a list and the sequence of its nodes.              *)
LEMMA OrderFacts ==
    ASSUME NEW l, NEW w, NEW c, Represents(l, w, c)
    PROVE  /\ l.capacity \in Nat /\ l.n_nodes \in Nat /\ Spare(l) \in Nat
           /\ l.capacity = l.n_nodes + Spare(l) + 1
           /\ w[0] = 0 /\ w[l.n_nodes + 1] = 0 /\ l.head = w[1] /\ l.tail = w[l.n_nodes]
           /\ \A i \in 1..l.n_nodes :
                 /\ w[i] \in 1..(l.capacity - 1)
                 /\ l.nodes[w[i]].prev = w[i - 1] /\ l.nodes[w[i]].next = w[i + 1]
                 /\ l.nodes[w[i]].data \in Data
           /\ \A i \in 1..l.n_nodes : \A j \in 0..(l.n_nodes + 1) : w[i] = w[j] => i = j
           /\ \A i \in 0..(l.n_nodes + 1) : w[i] \in 0..(l.capacity - 1)
<1>1. l.capacity \in Nat /\ l.n_nodes \in Nat /\ Spare(l) \in Nat
  BY DEF Represents, IsList
<1>2. l.capacity = l.n_nodes + Spare(l) + 1
  BY <1>1 DEF Spare
<1>3. w[0] = 0 /\ w[l.n_nodes + 1] = 0 /\ l.head = w[1] /\ l.tail = w[l.n_nodes]
  BY DEF Represents, InOrder
<1>4. ASSUME NEW i \in 1..l.n_nodes
      PROVE  /\ w[i] \in 1..(l.capacity - 1)
             /\ l.nodes[w[i]].prev = w[i - 1] /\ l.nodes[w[i]].next = w[i + 1]
             /\ l.nodes[w[i]].data \in Data
  BY DEF Represents, InOrder
<1>5. \A i \in 0..(l.n_nodes + 1) : i = 0 \/ i = l.n_nodes + 1 \/ i \in 1..l.n_nodes
  BY <1>1
<1>6. \A i, j \in 1..l.n_nodes : w[i] = w[j] => i = j
  BY DEF Represents, InOrder
<1>7. ASSUME NEW i \in 1..l.n_nodes, NEW j \in 0..(l.n_nodes + 1), w[i] = w[j]
      PROVE  i = j
  <2>1. w[i] # 0
    BY <1>1, <1>4
  <2> QED  BY <1>3, <1>5, <1>6, <1>7, <2>1
<1>8. ASSUME NEW i \in 0..(l.n_nodes + 1)
      PROVE  w[i] \in 0..(l.capacity - 1)
  <2>1. 0 \in 0..(l.capacity - 1) /\ 1..(l.capacity - 1) \subseteq 0..(l.capacity - 1)
    BY <1>1, <1>2
  <2> QED  BY <1>3, <1>4, <1>5, <2>1
<1> QED  BY <1>1, <1>2, <1>3, <1>4, <1>7, <1>8

(* The same of the free cells.                                             *)
LEMMA ChainFacts ==
    ASSUME NEW l, NEW w, NEW c, Represents(l, w, c)
    PROVE  /\ l.free = c[1] /\ c[Spare(l) + 1] = 0
           /\ \A i \in 1..Spare(l) :
                 /\ c[i] \in 1..(l.capacity - 1)
                 /\ l.nodes[c[i]].prev = FREE_PREV /\ l.nodes[c[i]].next = c[i + 1]
           /\ \A i, j \in 1..Spare(l) : c[i] = c[j] => i = j
           /\ l.free = 0 <=> Spare(l) = 0
           /\ \A i \in 1..l.n_nodes : \A j \in 1..Spare(l) : w[i] # c[j]
<1>1. /\ l.free = c[1] /\ c[Spare(l) + 1] = 0
      /\ \A i \in 1..Spare(l) :
            /\ c[i] \in 1..(l.capacity - 1)
            /\ l.nodes[c[i]].prev = FREE_PREV /\ l.nodes[c[i]].next = c[i + 1]
      /\ \A i, j \in 1..Spare(l) : c[i] = c[j] => i = j
  BY DEF Represents, Chained
<1>2. Spare(l) \in Nat /\ l.n_nodes \in Nat /\ l.capacity \in Nat
  BY OrderFacts
<1>3. l.free = 0 <=> Spare(l) = 0
  <2>1. Spare(l) # 0 => 1 \in 1..Spare(l)
    BY <1>2
  <2>2. Spare(l) = 0 => Spare(l) + 1 = 1
    OBVIOUS
  <2> QED  BY <1>1, <1>2, <2>1, <2>2
<1>4. ASSUME NEW i \in 1..l.n_nodes, NEW j \in 1..Spare(l)
      PROVE  w[i] # c[j]
  <2>1. l.nodes[w[i]].prev = w[i - 1] /\ w[i - 1] \in 0..(l.capacity - 1)
    <3>1. i - 1 \in 0..(l.n_nodes + 1)
      BY <1>2
    <3> QED  BY <3>1, OrderFacts
  <2>2. l.nodes[c[j]].prev = FREE_PREV
    BY <1>1
  <2> QED  BY <1>2, <2>1, <2>2 DEF FREE_PREV
<1> QED  BY <1>1, <1>3, <1>4

(* The fields of the list realloc_list returns.                            *)
LEMMA ReallocFields ==
    ASSUME NEW l, IsHeader(l), NEW cap
    PROVE  LET m == realloc_list(l, cap)
           IN  /\ IsHeader(m)
               /\ m.capacity = cap /\ m.free = l.capacity /\ m.head = l.head
               /\ m.tail = l.tail /\ m.n_nodes = l.n_nodes /\ m.linear = l.linear
               /\ m.nodes = [i \in 0..(cap - 1) |->
                      IF i < l.capacity THEN l.nodes[i]
                      ELSE Cell(IF i = cap - 1 THEN l.free ELSE i + 1, FREE_PREV, FREE_DATA)]
<1> DEFINE N == [i \in 0..(cap - 1) |->
                    IF i < l.capacity THEN l.nodes[i]
                    ELSE Cell(IF i = cap - 1 THEN l.free ELSE i + 1, FREE_PREV, FREE_DATA)]
           m == realloc_list(l, cap)
<1>1. m = [l EXCEPT !.capacity = cap, !.free = l.capacity, !.nodes = N]
  BY DEF realloc_list
<1> HIDE DEF N, m
<1>2. /\ IsHeader(m)
      /\ m.capacity = cap /\ m.free = l.capacity /\ m.head = l.head
      /\ m.tail = l.tail /\ m.n_nodes = l.n_nodes /\ m.linear = l.linear /\ m.nodes = N
  BY <1>1 DEF IsHeader
<1> QED  BY <1>2 DEF N, m

(* A full list that is given more cells keeps its nodes; the new cells are *)
(* the free ones, in their order.                                          *)
LEMMA GrowRepresents ==
    ASSUME NEW l, NEW w, NEW c, Represents(l, w, c), l.free = 0,
           NEW cap \in Nat, cap > l.capacity
    PROVE  LET m == realloc_list(l, cap)
           IN  \E d : /\ Represents(m, w, d) /\ m.free = l.capacity /\ m.n_nodes = l.n_nodes
                      /\ m.capacity = cap
                      /\ \A i \in 0..(l.capacity - 1) : m.nodes[i] = l.nodes[i]
                      /\ m.head = l.head /\ m.tail = l.tail /\ m.linear = l.linear
<1> DEFINE m == realloc_list(l, cap)
           k == cap - l.capacity
           d == [i \in 1..(k + 1) |-> IF i = k + 1 THEN 0 ELSE l.capacity + i - 1]
<1>0. IsHeader(l) /\ IsList(l)
  BY DEF Represents
<1>1. /\ l.capacity \in Nat /\ l.n_nodes \in Nat /\ l.capacity = l.n_nodes + 1 /\ Spare(l) = 0
      /\ l.n_nodes + 1 < cap
  <2>1. l.free = 0 <=> Spare(l) = 0
    BY ChainFacts
  <2>2. /\ l.capacity \in Nat /\ l.n_nodes \in Nat /\ Spare(l) \in Nat
        /\ l.capacity = l.n_nodes + Spare(l) + 1
    BY OrderFacts
  <2> QED  BY <2>1, <2>2
<1>2. /\ IsHeader(m) /\ m.capacity = cap /\ m.free = l.capacity /\ m.head = l.head
      /\ m.tail = l.tail /\ m.n_nodes = l.n_nodes /\ m.linear = l.linear
      /\ m.nodes = [i \in 0..(cap - 1) |->
             IF i < l.capacity THEN l.nodes[i]
             ELSE Cell(IF i = cap - 1 THEN l.free ELSE i + 1, FREE_PREV, FREE_DATA)]
  BY <1>0, ReallocFields
<1> HIDE DEF m
<1>3. k \in Nat \ {0} /\ Spare(m) = k
  BY <1>1, <1>2 DEF Spare
<1>4. /\ \A i \in 0..(l.capacity - 1) : m.nodes[i] = l.nodes[i]
      /\ \A i \in l.capacity..(cap - 1) :
             m.nodes[i] = Cell(IF i = cap - 1 THEN 0 ELSE i + 1, FREE_PREV, FREE_DATA)
  <2>1. /\ \A i \in 0..(l.capacity - 1) : i \in 0..(cap - 1) /\ i < l.capacity
        /\ \A i \in l.capacity..(cap - 1) : i \in 0..(cap - 1) /\ ~(i < l.capacity)
    BY <1>1
  <2> QED  BY <1>2, <2>1
<1>5. IsList(m)
  <2>1. l.nodes \in [0..(l.capacity - 1) -> [next : 0..(l.capacity - 1),
                                            prev : FREE_PREV..(l.capacity - 1),
                                            data : Data \union {FREE_DATA}]]
    BY <1>0 DEF IsList
  <2> DEFINE C == [next : 0..(cap - 1), prev : FREE_PREV..(cap - 1),
                   data : Data \union {FREE_DATA}]
  <2>2. ASSUME NEW i \in 0..(cap - 1)
        PROVE  m.nodes[i] \in C
    <3>1. CASE i \in 0..(l.capacity - 1)
      <4>1. m.nodes[i] \in [next : 0..(l.capacity - 1), prev : FREE_PREV..(l.capacity - 1),
                            data : Data \union {FREE_DATA}]
        BY <1>4, <2>1, <3>1
      <4>2. 0..(l.capacity - 1) \subseteq 0..(cap - 1)
            /\ FREE_PREV..(l.capacity - 1) \subseteq FREE_PREV..(cap - 1)
        BY <1>1 DEF FREE_PREV
      <4> QED  BY <4>1, <4>2
    <3>2. CASE i \in l.capacity..(cap - 1)
      <4>1. (IF i = cap - 1 THEN 0 ELSE i + 1) \in 0..(cap - 1)
        BY <1>1
      <4>2. FREE_PREV \in FREE_PREV..(cap - 1)
        BY DEF FREE_PREV
      <4>3. m.nodes[i] = Cell(IF i = cap - 1 THEN 0 ELSE i + 1, FREE_PREV, FREE_DATA)
        BY <1>4, <3>2
      <4> QED  BY <4>1, <4>2, <4>3 DEF Cell
    <3> QED  BY <1>1, <3>1, <3>2
  <2> HIDE DEF C
  <2>3. m.nodes \in [0..(cap - 1) -> C]
    BY <1>2, <2>2
  <2>4. /\ {l.head, l.tail, l.free} \subseteq 0..(l.capacity - 1)
        /\ l.linear \in {0, 1}
    BY <1>0 DEF IsList
  <2>5. {m.head, m.tail, m.free} \subseteq 0..(cap - 1) /\ m.n_nodes \in 0..cap
    BY <1>1, <1>2, <2>4
  <2> QED  BY <1>2, <2>3, <2>4, <2>5 DEF C, IsList
<1>6. m.nodes[0].prev = 0 /\ m.nodes[0].next = 0
  <2>1. l.nodes[0].prev = 0 /\ l.nodes[0].next = 0
    BY DEF Represents
  <2> QED  BY <1>1, <1>4, <2>1
<1>7. InOrder(m, w)
  <2>1. ASSUME NEW i \in 1..l.n_nodes
        PROVE  /\ w[i] \in 1..(cap - 1) /\ w[i] \in 1..(l.capacity - 1)
               /\ m.nodes[w[i]].prev = w[i - 1] /\ m.nodes[w[i]].next = w[i + 1]
               /\ m.nodes[w[i]].data \in Data
    <3>1. /\ w[i] \in 1..(l.capacity - 1)
          /\ l.nodes[w[i]].prev = w[i - 1] /\ l.nodes[w[i]].next = w[i + 1]
          /\ l.nodes[w[i]].data \in Data
      BY OrderFacts
    <3> QED  BY <1>1, <1>4, <3>1
  <2> QED  BY <1>2, <2>1 DEF InOrder, Represents
<1>8. Chained(m, d)
  <2> HIDE DEF k
  <2>0. /\ 1 \in 1..(k + 1) /\ k + 1 \in 1..(k + 1) /\ 1 # k + 1
        /\ \A i \in 1..k : i \in 1..(k + 1) /\ i + 1 \in 1..(k + 1) /\ i # k + 1
    BY <1>3
  <2>1. d[1] = l.capacity /\ d[k + 1] = 0
    <3>1. l.capacity + 1 - 1 = l.capacity
      BY <1>1
    <3> QED  BY <2>0, <3>1
  <2>2. ASSUME NEW i \in 1..k
        PROVE  /\ d[i] \in 1..(cap - 1) /\ d[i] = l.capacity + i - 1
               /\ m.nodes[d[i]].prev = FREE_PREV /\ m.nodes[d[i]].next = d[i + 1]
    <3>0. k = cap - l.capacity
      BY DEF k
    <3>1. d[i] = l.capacity + i - 1
      BY <2>0
    <3>2. d[i + 1] = IF i + 1 = k + 1 THEN 0 ELSE l.capacity + (i + 1) - 1
      BY <2>0
    <3> HIDE DEF d
    <3>3. d[i] \in l.capacity..(cap - 1) /\ d[i] \in 1..(cap - 1)
      BY <1>1, <1>3, <3>0, <3>1
    <3>4. d[i + 1] = IF d[i] = cap - 1 THEN 0 ELSE d[i] + 1
      BY <1>1, <1>3, <3>0, <3>1, <3>2
    <3>5. m.nodes[d[i]] = Cell(IF d[i] = cap - 1 THEN 0 ELSE d[i] + 1, FREE_PREV, FREE_DATA)
      BY <1>4, <3>3
    <3>6. m.nodes[d[i]].prev = FREE_PREV /\ m.nodes[d[i]].next = d[i + 1]
      BY <3>4, <3>5 DEF Cell
    <3> QED  BY <3>1, <3>3, <3>6
  <2> HIDE DEF d
  <2>3. \A i, j \in 1..k : d[i] = d[j] => i = j
    BY <1>1, <2>2
  <2> QED  BY <1>2, <1>3, <2>1, <2>2, <2>3 DEF Chained
<1>9. Covered(m, w, d)
  <2> SUFFICES ASSUME NEW x \in 1..(cap - 1)
               PROVE  (\E i \in 1..l.n_nodes : w[i] = x) \/ (\E i \in 1..k : d[i] = x)
    BY <1>2, <1>3 DEF Covered
  <2>1. CASE x \in 1..(l.capacity - 1)
    <3>1. (\E i \in 1..l.n_nodes : w[i] = x) \/ (\E i \in 1..Spare(l) : c[i] = x)
      BY <2>1 DEF Represents, Covered
    <3> QED  BY <1>1, <3>1
  <2>2. CASE x \in l.capacity..(cap - 1)
    <3>1. x - l.capacity + 1 \in 1..k /\ d[x - l.capacity + 1] = x
      BY <1>1, <2>2
    <3> QED  BY <3>1
  <2> QED  BY <1>1, <2>1, <2>2
<1> HIDE DEF d
<1>10. Represents(m, w, d)
  BY <1>2, <1>3, <1>5, <1>6, <1>7, <1>8, <1>9 DEF Represents
<1> QED  BY <1>2, <1>4, <1>10 DEF m

(* Insertion.                                                              *)

(* r is m with x put in its first free cell, between the cells p and q.    *)
Spliced(m, r, p, q, x) ==
    LET at == m.free
    IN  /\ IsHeader(r)
        /\ r.capacity = m.capacity /\ r.linear = m.linear /\ r.n_nodes = m.n_nodes + 1
        /\ r.free = m.nodes[at].next
        /\ r.head = IF p = 0 THEN at ELSE m.head
        /\ r.tail = IF q = 0 THEN at ELSE m.tail
        /\ r.nodes = [y \in 0..(m.capacity - 1) |->
              IF y = at THEN Cell(q, p, x)
              ELSE Cell(IF y # 0 /\ y = p THEN at ELSE m.nodes[y].next,
                        IF y # 0 /\ y = q THEN at ELSE m.nodes[y].prev,
                        m.nodes[y].data)]

(* w with the cell at after the first g.                                   *)
Widened(w, n, g, at) ==
    [i \in 0..(n + 2) |-> IF i <= g THEN w[i] ELSE IF i = g + 1 THEN at ELSE w[i - 1]]

(* A list with a node spliced in has the type of a list.                   *)
LEMMA SplicedList ==
    ASSUME NEW m, NEW w, NEW c, Represents(m, w, c), m.free # 0,
           NEW p \in 0..(m.capacity - 1), NEW q \in 0..(m.capacity - 1), NEW x \in Data,
           NEW r, Spliced(m, r, p, q, x)
    PROVE  /\ IsList(r) /\ m.free \in 1..(m.capacity - 1) /\ Spare(m) \in Nat \ {0}
           /\ r.nodes[m.free] = Cell(q, p, x)
           /\ \A y \in 0..(m.capacity - 1) : y # m.free =>
                 r.nodes[y] = Cell(IF y # 0 /\ y = p THEN m.free ELSE m.nodes[y].next,
                                   IF y # 0 /\ y = q THEN m.free ELSE m.nodes[y].prev,
                                   m.nodes[y].data)
<1> DEFINE at == m.free
           C  == [next : 0..(m.capacity - 1), prev : FREE_PREV..(m.capacity - 1),
                  data : Data \union {FREE_DATA}]
<1>1. /\ m.capacity \in Nat /\ m.n_nodes \in Nat /\ Spare(m) \in Nat \ {0}
      /\ m.capacity = m.n_nodes + Spare(m) + 1 /\ at \in 1..(m.capacity - 1)
  <2>1. /\ m.capacity \in Nat /\ m.n_nodes \in Nat /\ Spare(m) \in Nat
        /\ m.capacity = m.n_nodes + Spare(m) + 1
    BY OrderFacts
  <2>2. Spare(m) # 0 /\ at = c[1] /\ \A i \in 1..Spare(m) : c[i] \in 1..(m.capacity - 1)
    BY ChainFacts
  <2>3. 1 \in 1..Spare(m)
    BY <2>1, <2>2
  <2> QED  BY <2>1, <2>2, <2>3
<1>2. /\ m.nodes \in [0..(m.capacity - 1) -> C] /\ m.linear \in {0, 1}
      /\ {m.head, m.tail, m.free} \subseteq 0..(m.capacity - 1)
  BY DEF Represents, IsList
<1>3. \A y \in 0..(m.capacity - 1) :
         r.nodes[y] = IF y = at THEN Cell(q, p, x)
                      ELSE Cell(IF y # 0 /\ y = p THEN at ELSE m.nodes[y].next,
                                IF y # 0 /\ y = q THEN at ELSE m.nodes[y].prev,
                                m.nodes[y].data)
  BY DEF Spliced
<1>4. at \in 0..(m.capacity - 1) /\ at \in FREE_PREV..(m.capacity - 1)
      /\ p \in FREE_PREV..(m.capacity - 1)
  BY <1>1 DEF FREE_PREV
<1>5. r.nodes \in [0..(m.capacity - 1) -> C]
  <2>1. ASSUME NEW y \in 0..(m.capacity - 1)
        PROVE  r.nodes[y] \in C
    <3>1. m.nodes[y] \in C
      BY <1>2
    <3>2. Cell(q, p, x) \in C
      BY <1>4 DEF Cell
    <3>3. Cell(IF y # 0 /\ y = p THEN at ELSE m.nodes[y].next,
               IF y # 0 /\ y = q THEN at ELSE m.nodes[y].prev, m.nodes[y].data) \in C
      BY <1>4, <3>1 DEF Cell
    <3> QED  BY <1>3, <3>2, <3>3
  <2>2. r.nodes = [y \in 0..(m.capacity - 1) |-> r.nodes[y]]
    BY DEF Spliced
  <2> HIDE DEF C
  <2> QED  BY <2>1, <2>2
<1>6. m.nodes[at].next \in 0..(m.capacity - 1)
  BY <1>2, <1>4
<1>7. /\ r.capacity = m.capacity /\ r.n_nodes \in 0..m.capacity /\ r.linear \in {0, 1}
      /\ {r.head, r.tail, r.free} \subseteq 0..(m.capacity - 1)
  <2>1. /\ r.capacity = m.capacity /\ r.linear = m.linear /\ r.n_nodes = m.n_nodes + 1
        /\ r.free = m.nodes[at].next
        /\ r.head = IF p = 0 THEN at ELSE m.head
        /\ r.tail = IF q = 0 THEN at ELSE m.tail
    BY DEF Spliced
  <2>2. m.n_nodes + 1 \in 0..m.capacity
    BY <1>1
  <2> QED  BY <1>2, <1>4, <1>6, <2>1, <2>2
<1>8. IsList(r)
  BY <1>1, <1>5, <1>7 DEF IsList
<1> QED  BY <1>1, <1>3, <1>4, <1>8

(* Put between two neighbours, the cell is the node between them.          *)
LEMMA SpliceRepresents ==
    ASSUME NEW m, NEW w, NEW c, Represents(m, w, c), m.free # 0,
           NEW g \in 0..m.n_nodes, NEW x \in Data, NEW r, Spliced(m, r, w[g], w[g + 1], x)
    PROVE  /\ \E d : Represents(r, Widened(w, m.n_nodes, g, m.free), d)
           /\ r.nodes[m.free].data = x
           /\ \A i \in 1..m.n_nodes : r.nodes[w[i]].data = m.nodes[w[i]].data
<1> DEFINE n == m.n_nodes
           k == Spare(m)
           at == m.free
           v == Widened(w, n, g, at)
           d == [i \in 1..k |-> c[i + 1]]
           p == w[g]
           q == w[g + 1]
<1>1. /\ m.capacity \in Nat /\ n \in Nat /\ k \in Nat /\ m.capacity = n + k + 1
      /\ w[0] = 0 /\ w[n + 1] = 0 /\ m.head = w[1] /\ m.tail = w[n]
      /\ \A i \in 1..n : /\ w[i] \in 1..(m.capacity - 1)
                         /\ m.nodes[w[i]].prev = w[i - 1] /\ m.nodes[w[i]].next = w[i + 1]
                         /\ m.nodes[w[i]].data \in Data
      /\ \A i \in 1..n : \A j \in 0..(n + 1) : w[i] = w[j] => i = j
      /\ \A i \in 0..(n + 1) : w[i] \in 0..(m.capacity - 1)
      /\ g \in 0..n
  BY OrderFacts
<1>2. /\ at = c[1] /\ c[k + 1] = 0
      /\ \A i \in 1..k : /\ c[i] \in 1..(m.capacity - 1)
                         /\ m.nodes[c[i]].prev = FREE_PREV /\ m.nodes[c[i]].next = c[i + 1]
      /\ \A i, j \in 1..k : c[i] = c[j] => i = j
      /\ \A i \in 1..n : \A j \in 1..k : w[i] # c[j]
  BY ChainFacts
<1>3. p \in 0..(m.capacity - 1) /\ q \in 0..(m.capacity - 1)
  <2>1. g \in 0..(n + 1) /\ g + 1 \in 0..(n + 1)
    BY <1>1
  <2> QED  BY <1>1, <2>1
<1>4. /\ IsList(r) /\ at \in 1..(m.capacity - 1) /\ k \in Nat \ {0}
      /\ r.nodes[at] = Cell(q, p, x)
      /\ \A y \in 0..(m.capacity - 1) : y # at =>
            r.nodes[y] = Cell(IF y # 0 /\ y = p THEN at ELSE m.nodes[y].next,
                              IF y # 0 /\ y = q THEN at ELSE m.nodes[y].prev,
                              m.nodes[y].data)
  BY <1>3, SplicedList
<1>5. /\ IsHeader(r) /\ r.capacity = m.capacity /\ r.n_nodes = n + 1 /\ Spare(r) = k - 1
      /\ r.free = m.nodes[at].next
      /\ r.head = IF p = 0 THEN at ELSE m.head
      /\ r.tail = IF q = 0 THEN at ELSE m.tail
  <2>1. /\ IsHeader(r) /\ r.capacity = m.capacity /\ r.n_nodes = n + 1
        /\ r.free = m.nodes[at].next
        /\ r.head = IF p = 0 THEN at ELSE m.head
        /\ r.tail = IF q = 0 THEN at ELSE m.tail
    BY DEF Spliced
  <2> QED  BY <1>1, <2>1 DEF Spare
<1>6. /\ \A i \in 0..g : v[i] = w[i]
      /\ v[g + 1] = at
      /\ \A i \in (g + 2)..(n + 2) : v[i] = w[i - 1]
  <2>1. /\ \A i \in 0..g : i \in 0..(n + 2) /\ i <= g
        /\ g + 1 \in 0..(n + 2) /\ ~(g + 1 <= g)
        /\ \A i \in (g + 2)..(n + 2) : i \in 0..(n + 2) /\ ~(i <= g) /\ i # g + 1
    BY <1>1
  <2> QED  BY <2>1 DEF Widened
<1>7. /\ \A i \in 0..(n + 1) : p = w[i] /\ p # 0 => i = g
      /\ \A i \in 0..(n + 1) : q = w[i] /\ q # 0 => i = g + 1
      /\ p = 0 <=> g = 0
      /\ q = 0 <=> g = n
  <2>0. n \in Nat /\ g \in 0..n
    BY <1>1
  <2>1. /\ g = 0 \/ g \in 1..n
        /\ g = n \/ g + 1 \in 1..n
        /\ \A i \in 0..(n + 1) : i = 0 \/ i = n + 1 \/ i \in 1..n
    BY ONLY <2>0
  <2>2. \A i \in 1..n : w[i] # 0
    BY <1>1
  <2>3. g + 1 \in 0..(n + 1) /\ g \in 0..(n + 1) /\ 0 \in 0..(n + 1) /\ n + 1 \in 0..(n + 1)
    BY <1>1
  <2>4. g = n => g + 1 \notin 1..n
    BY <1>1
  <2> QED  BY <1>1, <2>1, <2>2, <2>3, <2>4
<1>8. \A i \in 1..n : w[i] # at /\ w[i] # 0 /\ w[i] \in 0..(m.capacity - 1)
  <2>1. 1 \in 1..k
    BY <1>4
  <2> QED  BY <1>1, <1>2, <2>1
<1>9. ASSUME NEW i \in 1..n
      PROVE  /\ r.nodes[w[i]].next = IF i = g THEN at ELSE w[i + 1]
             /\ r.nodes[w[i]].prev = IF i = g + 1 THEN at ELSE w[i - 1]
             /\ r.nodes[w[i]].data = m.nodes[w[i]].data
  <2>1. r.nodes[w[i]] = Cell(IF w[i] # 0 /\ w[i] = p THEN at ELSE m.nodes[w[i]].next,
                             IF w[i] # 0 /\ w[i] = q THEN at ELSE m.nodes[w[i]].prev,
                             m.nodes[w[i]].data)
    BY <1>4, <1>8
  <2>2. i \in 0..(n + 1)
    BY <1>1
  <2>3. (w[i] = p <=> i = g) /\ (w[i] = q <=> i = g + 1) /\ w[i] # 0
    BY <1>7, <1>8, <2>2
  <2>4. m.nodes[w[i]].prev = w[i - 1] /\ m.nodes[w[i]].next = w[i + 1]
    BY <1>1
  <2> HIDE DEF p, q
  <2> QED  BY <2>1, <2>3, <2>4 DEF Cell
<1> HIDE DEF v, p, q, n, k, at
<1>10. ASSUME NEW i \in 1..(n + 1)
       PROVE  /\ v[i] \in 1..(m.capacity - 1)
              /\ r.nodes[v[i]].prev = v[i - 1] /\ r.nodes[v[i]].next = v[i + 1]
              /\ r.nodes[v[i]].data \in Data
  <2>1. CASE i \in 1..g
    <3>1. i \in 0..g /\ i - 1 \in 0..g /\ i \in 1..n /\ i # g + 1
      BY <1>1, <2>1
    <3>2. v[i] = w[i] /\ v[i - 1] = w[i - 1]
      BY <1>6, <3>1
    <3>3. v[i + 1] = IF i = g THEN at ELSE w[i + 1]
      <4>1. i = g \/ i + 1 \in 0..g
        BY <2>1
      <4> QED  BY <1>1, <1>6, <4>1
    <3> QED  BY <1>1, <1>9, <3>1, <3>2, <3>3
  <2>2. CASE i = g + 1
    <3>1. v[i] = at /\ v[i - 1] = p /\ v[i + 1] = q
      <4>1. g \in 0..g /\ i - 1 = g /\ i + 1 \in (g + 2)..(n + 2) /\ (i + 1) - 1 = g + 1
        BY <1>1, <2>2
      <4> QED  BY <1>6, <2>2, <4>1 DEF p, q
    <3> QED  BY <1>4, <3>1 DEF Cell
  <2>3. CASE i \in (g + 2)..(n + 1)
    <3>1. /\ i \in (g + 2)..(n + 2) /\ i + 1 \in (g + 2)..(n + 2) /\ (i + 1) - 1 = i
          /\ i - 1 \in 1..n /\ i - 1 # g /\ (i - 1) + 1 = i
      BY <1>1, <2>3
    <3>2. v[i] = w[i - 1] /\ v[i + 1] = w[i]
      BY <1>6, <3>1
    <3>3. v[i - 1] = IF i - 1 = g + 1 THEN at ELSE w[(i - 1) - 1]
      <4>1. i - 1 = g + 1 \/ i - 1 \in (g + 2)..(n + 2)
        BY <1>1, <2>3
      <4> QED  BY <1>6, <4>1
    <3> QED  BY <1>1, <1>9, <3>1, <3>2, <3>3
  <2> QED  BY <1>1, <2>1, <2>2, <2>3
<1>11. InOrder(r, v)
  <2>1. v[0] = 0 /\ v[n + 2] = 0
    <3>1. 0 \in 0..g /\ n + 2 \in (g + 2)..(n + 2) /\ (n + 2) - 1 = n + 1
      BY <1>1
    <3> QED  BY <1>1, <1>6, <3>1
  <2>2. v[1] = r.head
    <3>1. g = 0 => v[1] = at
      BY <1>6
    <3>2. g # 0 => v[1] = w[1]
      BY <1>1, <1>6
    <3> QED  BY <1>1, <1>5, <1>7, <3>1, <3>2
  <2>3. v[n + 1] = r.tail
    <3>1. g = n => v[n + 1] = at
      BY <1>6
    <3>2. g # n => n + 1 \in (g + 2)..(n + 2) /\ (n + 1) - 1 = n
      BY <1>1
    <3> QED  BY <1>1, <1>5, <1>6, <1>7, <3>1, <3>2
  <2>4. ASSUME NEW i \in 1..(n + 1), NEW j \in 1..(n + 1), v[i] = v[j]
        PROVE  i = j
    <3>1. ASSUME NEW e \in 1..(n + 1)
          PROVE  \/ e = g + 1 /\ v[e] = at
                 \/ e \in 1..g /\ e \in 1..n /\ v[e] = w[e]
                 \/ e \in (g + 2)..(n + 1) /\ e - 1 \in 1..n /\ v[e] = w[e - 1]
      <4>1. \/ e = g + 1
            \/ e \in 1..g /\ e \in 1..n /\ e \in 0..g
            \/ e \in (g + 2)..(n + 1) /\ e \in (g + 2)..(n + 2) /\ e - 1 \in 1..n
        BY <1>1
      <4> QED  BY <1>6, <4>1
    <3>2. \A a, b \in 1..n : w[a] = w[b] => a = b
      <4>1. \A a \in 1..n : a \in 0..(n + 1)
        BY <1>1
      <4> QED  BY <1>1, <4>1
    <3>3. \/ i = g + 1 /\ v[i] = at
          \/ i \in 1..g /\ i \in 1..n /\ v[i] = w[i]
          \/ i \in (g + 2)..(n + 1) /\ i - 1 \in 1..n /\ v[i] = w[i - 1]
      BY <3>1
    <3>4. \/ j = g + 1 /\ v[j] = at
          \/ j \in 1..g /\ j \in 1..n /\ v[j] = w[j]
          \/ j \in (g + 2)..(n + 1) /\ j - 1 \in 1..n /\ v[j] = w[j - 1]
      BY <3>1
    <3>5. CASE i = g + 1 \/ j = g + 1
      BY <1>8, <2>4, <3>3, <3>4, <3>5
    <3>6. CASE i \in 1..g /\ j \in 1..g
      BY <2>4, <3>2, <3>3, <3>4, <3>6
    <3>7. CASE i \in 1..g /\ j \in (g + 2)..(n + 1)
      BY <2>4, <3>2, <3>3, <3>4, <3>7
    <3>8. CASE i \in (g + 2)..(n + 1) /\ j \in 1..g
      BY <2>4, <3>2, <3>3, <3>4, <3>8
    <3>9. CASE i \in (g + 2)..(n + 1) /\ j \in (g + 2)..(n + 1)
      <4>1. i - 1 = j - 1
        BY <2>4, <3>2, <3>3, <3>4, <3>9
      <4> QED  BY <4>1
    <3> QED  BY <3>3, <3>4, <3>5, <3>6, <3>7, <3>8, <3>9
  <2>5. (n + 1) + 1 = n + 2
    BY <1>1
  <2> QED  BY <1>5, <1>10, <2>1, <2>2, <2>3, <2>4, <2>5 DEF InOrder
<1>12. Chained(r, d)
  <2>0. /\ \A i \in 1..(k - 1) : i \in 1..k /\ i + 1 \in 1..k
        /\ k \in 1..k /\ 1 \in 1..k /\ (k - 1) + 1 = k
    BY <1>4
  <2>1. /\ \A i \in 1..k : d[i] = c[i + 1]
        /\ d[1] = r.free /\ d[k] = 0
    <3>1. m.nodes[at].next = c[1 + 1]
      BY <1>2, <2>0
    <3> QED  BY <1>2, <1>5, <2>0, <3>1
  <2> HIDE DEF d
  <2>2. ASSUME NEW i \in 1..(k - 1)
        PROVE  /\ d[i] \in 1..(m.capacity - 1)
               /\ r.nodes[d[i]].prev = FREE_PREV /\ r.nodes[d[i]].next = d[i + 1]
    <3>1. /\ d[i] = c[i + 1] /\ d[i + 1] = c[(i + 1) + 1] /\ c[i + 1] \in 1..(m.capacity - 1)
          /\ m.nodes[c[i + 1]].prev = FREE_PREV /\ m.nodes[c[i + 1]].next = c[(i + 1) + 1]
      BY <1>2, <2>0, <2>1
    <3>2. c[i + 1] # at /\ c[i + 1] \in 0..(m.capacity - 1)
      <4>1. i + 1 # 1
        OBVIOUS
      <4> QED  BY <1>2, <2>0, <3>1, <4>1
    <3>3. c[i + 1] # 0 => c[i + 1] # p /\ c[i + 1] # q
      <4>1. p = 0 \/ g \in 1..n
        BY <1>1, <1>7
      <4>2. q = 0 \/ g + 1 \in 1..n
        BY <1>1, <1>7
      <4> QED  BY <1>2, <2>0, <4>1, <4>2 DEF p, q
    <3>4. r.nodes[c[i + 1]] = Cell(m.nodes[c[i + 1]].next, m.nodes[c[i + 1]].prev,
                                   m.nodes[c[i + 1]].data)
      BY <1>4, <3>2, <3>3
    <3> QED  BY <3>1, <3>4 DEF Cell
  <2>3. ASSUME NEW i \in 1..(k - 1), NEW j \in 1..(k - 1), d[i] = d[j]
        PROVE  i = j
    <3>1. i + 1 = j + 1
      BY <1>2, <2>0, <2>1, <2>3
    <3> QED  BY <3>1
  <2> QED  BY <1>5, <2>0, <2>1, <2>2, <2>3 DEF Chained
<1>13. Covered(r, v, d)
  <2> SUFFICES ASSUME NEW y \in 1..(m.capacity - 1)
               PROVE  (\E i \in 1..(n + 1) : v[i] = y) \/ (\E i \in 1..(k - 1) : d[i] = y)
    BY <1>5 DEF Covered
  <2>1. (\E i \in 1..n : w[i] = y) \/ (\E i \in 1..k : c[i] = y)
    BY DEF Represents, Covered, n, k
  <2>2. ASSUME NEW i \in 1..n, w[i] = y
        PROVE  \E j \in 1..(n + 1) : v[j] = y
    <3>1. CASE i \in 1..g
      <4>1. i \in 0..g /\ i \in 1..(n + 1)
        BY <1>1, <3>1
      <4> QED  BY <1>6, <2>2, <4>1
    <3>2. CASE i \in (g + 1)..n
      <4>1. i + 1 \in (g + 2)..(n + 2) /\ i + 1 \in 1..(n + 1) /\ (i + 1) - 1 = i
        BY <1>1, <3>2
      <4>2. v[i + 1] = y
        BY <1>6, <2>2, <4>1
      <4> QED  BY <4>1, <4>2
    <3> QED  BY <1>1, <3>1, <3>2
  <2>3. ASSUME NEW i \in 1..k, c[i] = y
        PROVE  (\E j \in 1..(n + 1) : v[j] = y) \/ (\E j \in 1..(k - 1) : d[j] = y)
    <3>1. CASE i = 1
      <4>1. g + 1 \in 1..(n + 1)
        BY <1>1
      <4> QED  BY <1>2, <1>6, <2>3, <3>1, <4>1
    <3>2. CASE i # 1
      <4>1. i - 1 \in 1..(k - 1) /\ i - 1 \in 1..k /\ (i - 1) + 1 = i
        BY <1>4, <3>2
      <4>2. d[i - 1] = y
        BY <2>3, <4>1
      <4> QED  BY <4>1, <4>2
    <3> QED  BY <3>1, <3>2
  <2> QED  BY <2>1, <2>2, <2>3
<1>14. r.nodes[0].prev = 0 /\ r.nodes[0].next = 0
  <2>1. m.nodes[0].prev = 0 /\ m.nodes[0].next = 0
    BY DEF Represents
  <2>2. 0 \in 0..(m.capacity - 1) /\ 0 # at
    BY <1>1, <1>4
  <2>3. r.nodes[0] = Cell(m.nodes[0].next, m.nodes[0].prev, m.nodes[0].data)
    BY <1>4, <2>2
  <2> QED  BY <2>1, <2>3 DEF Cell
<1>15. Spare(r) \in Nat
  BY <1>4, <1>5
<1> HIDE DEF d
<1>16. Represents(r, v, d)
  BY <1>4, <1>5, <1>11, <1>12, <1>13, <1>14, <1>15 DEF Represents
<1>17. r.nodes[at].data = x
  BY <1>4 DEF Cell
<1> QED  BY <1>9, <1>16, <1>17 DEF v, d, n, k, at

(* The list list_insert takes its cell from.                               *)
Room(l) == IF l.free = 0 THEN realloc_list(l, l.capacity * 2) ELSE l

(* The list with room for one more node has the same nodes, and a free     *)
(* cell, which is where the node goes.                                     *)
LEMMA RoomRepresents ==
    ASSUME NEW l, NEW w, NEW c, Represents(l, w, c)
    PROVE  LET m == Room(l)
           IN  \E d : /\ Represents(m, w, d) /\ m.free # 0 /\ m.free = Inserted(l)
                      /\ m.n_nodes = l.n_nodes /\ m.head = l.head /\ m.tail = l.tail
                      /\ m.linear = l.linear /\ m.capacity \in Nat /\ l.capacity \in Nat
                      /\ l.capacity <= m.capacity
                      /\ \A i \in 0..(l.capacity - 1) : m.nodes[i] = l.nodes[i]
<1>1. l.capacity \in Nat /\ l.capacity > 0
  BY OrderFacts
<1>2. CASE l.free = 0
  <2>1. l.capacity * 2 \in Nat /\ l.capacity * 2 > l.capacity
    BY <1>1
  <2> DEFINE m == realloc_list(l, l.capacity * 2)
  <2>2. PICK d : /\ Represents(m, w, d) /\ m.free = l.capacity /\ m.n_nodes = l.n_nodes
                 /\ m.capacity = l.capacity * 2
                 /\ \A i \in 0..(l.capacity - 1) : m.nodes[i] = l.nodes[i]
                 /\ m.head = l.head /\ m.tail = l.tail /\ m.linear = l.linear
    BY <1>2, <2>1, GrowRepresents
  <2>3. Room(l) = m /\ Inserted(l) = l.capacity
    BY <1>2 DEF Room, Inserted
  <2> HIDE DEF m
  <2> QED  BY <1>1, <2>1, <2>2, <2>3
<1>3. CASE l.free # 0
  <2>1. Room(l) = l /\ Inserted(l) = l.free
    BY <1>3 DEF Room, Inserted
  <2> QED  BY <1>1, <1>3, <2>1
<1> QED  BY <1>2, <1>3

(* The fields of the list list_insert returns, before its neighbours are   *)
(* told.                                                                   *)
LEMMA InsertFields ==
    ASSUME NEW l, NEW m, m = Room(l), IsHeader(m), NEW p, NEW q, NEW x
    PROVE  LET r == list_insert(l, x, q, p)
           IN  /\ IsHeader(r)
               /\ r.capacity = m.capacity /\ r.linear = m.linear /\ r.n_nodes = m.n_nodes + 1
               /\ r.free = m.nodes[m.free].next
               /\ r.head = IF p = 0 THEN m.free ELSE m.head
               /\ r.tail = IF q = 0 THEN m.free ELSE m.tail
               /\ r.nodes = [m.nodes EXCEPT ![m.free] = Cell(q, p, x)]
<1> DEFINE r == list_insert(l, x, q, p)
           at == m.free
           N == [m.nodes EXCEPT ![at] = Cell(q, p, x)]
<1>1. r = [m EXCEPT !.free = m.nodes[at].next, !.nodes[at] = Cell(q, p, x),
                    !.head = IF p = 0 THEN at ELSE @,
                    !.tail = IF q = 0 THEN at ELSE @, !.n_nodes = @ + 1]
  BY DEF list_insert, Room
<1>2. r = [m EXCEPT !.free = m.nodes[at].next, !.nodes = N,
                    !.head = IF p = 0 THEN at ELSE @,
                    !.tail = IF q = 0 THEN at ELSE @, !.n_nodes = @ + 1]
  BY <1>1 DEF IsHeader
<1> HIDE DEF N, r
<1>3. /\ IsHeader(r)
      /\ r.capacity = m.capacity /\ r.linear = m.linear /\ r.n_nodes = m.n_nodes + 1
      /\ r.free = m.nodes[at].next
      /\ r.head = IF p = 0 THEN at ELSE m.head
      /\ r.tail = IF q = 0 THEN at ELSE m.tail
      /\ r.nodes = N
  BY <1>2 DEF IsHeader
<1> QED  BY <1>3 DEF r, N

(* Cells are records; a link of one of them is set.                        *)
IsCells(nodes, cap) ==
    nodes = [y \in 0..(cap - 1) |-> Cell(nodes[y].next, nodes[y].prev, nodes[y].data)]

(* The array of a list is an array of cells.                               *)
LEMMA ListCells ==
    ASSUME NEW l, IsList(l)
    PROVE  IsCells(l.nodes, l.capacity)
<1> DEFINE C == [next : 0..(l.capacity - 1), prev : FREE_PREV..(l.capacity - 1),
                 data : Data \union {FREE_DATA}]
<1>1. l.nodes \in [0..(l.capacity - 1) -> C]
  BY DEF IsList
<1>2. \A z \in C : z = Cell(z.next, z.prev, z.data)
  BY DEF Cell
<1> HIDE DEF C
<1>3. \A y \in 0..(l.capacity - 1) :
         l.nodes[y] = Cell(l.nodes[y].next, l.nodes[y].prev, l.nodes[y].data)
  BY <1>1, <1>2
<1>4. l.nodes = [y \in 0..(l.capacity - 1) |-> l.nodes[y]]
  BY <1>1
<1> QED  BY <1>3, <1>4 DEF IsCells

(* A cell is made of its three fields,                                     *)
LEMMA CellAt ==
    ASSUME NEW nodes, NEW cap, IsCells(nodes, cap), NEW y \in 0..(cap - 1)
    PROVE  nodes[y] = Cell(nodes[y].next, nodes[y].prev, nodes[y].data)
BY DEF IsCells

(* and a cell that is made of three values has them in its fields.         *)
LEMMA CellOf ==
    ASSUME NEW z, NEW a, NEW b, NEW x, z = Cell(a, b, x)
    PROVE  /\ z = Cell(z.next, z.prev, z.data)
           /\ z.next = a /\ z.prev = b /\ z.data = x
BY DEF Cell

WithNext(nodes, at, to) == [nodes EXCEPT ![at].next = to]
WithPrev(nodes, at, to) == [nodes EXCEPT ![at].prev = to]

(* Setting the next of a cell changes that and nothing else,               *)
LEMMA SetNext ==
    ASSUME NEW nodes, NEW cap, IsCells(nodes, cap), NEW at \in 0..(cap - 1), NEW to,
           NEW r, r = WithNext(nodes, at, to)
    PROVE  /\ IsCells(r, cap)
           /\ r[at] = Cell(to, nodes[at].prev, nodes[at].data)
           /\ \A y \in 0..(cap - 1) : y # at => r[y] = nodes[y]
<1>1. /\ r[at] = Cell(to, nodes[at].prev, nodes[at].data)
      /\ \A y \in 0..(cap - 1) : y # at => r[y] = nodes[y]
  <2>1. nodes[at] = Cell(nodes[at].next, nodes[at].prev, nodes[at].data)
    BY CellAt
  <2>2. /\ r[at] = [nodes[at] EXCEPT !.next = to]
        /\ \A y \in 0..(cap - 1) : y # at => r[y] = nodes[y]
    BY DEF IsCells, WithNext
  <2> QED  BY <2>1, <2>2 DEF Cell
<1>2. r = [y \in 0..(cap - 1) |-> r[y]]
  BY DEF IsCells, WithNext
<1>3. ASSUME NEW y \in 0..(cap - 1)
      PROVE  r[y] = Cell(r[y].next, r[y].prev, r[y].data)
  <2>1. CASE y = at
    BY <1>1, <2>1, CellOf
  <2>2. CASE y # at
    BY <1>1, <2>2, CellAt
  <2> QED  BY <2>1, <2>2
<1>4. IsCells(r, cap)
  BY <1>2, <1>3 DEF IsCells
<1> QED  BY <1>1, <1>4

(* and so does setting the prev.                                           *)
LEMMA SetPrev ==
    ASSUME NEW nodes, NEW cap, IsCells(nodes, cap), NEW at \in 0..(cap - 1), NEW to,
           NEW r, r = WithPrev(nodes, at, to)
    PROVE  /\ IsCells(r, cap)
           /\ r[at] = Cell(nodes[at].next, to, nodes[at].data)
           /\ \A y \in 0..(cap - 1) : y # at => r[y] = nodes[y]
<1>1. /\ r[at] = Cell(nodes[at].next, to, nodes[at].data)
      /\ \A y \in 0..(cap - 1) : y # at => r[y] = nodes[y]
  <2>1. nodes[at] = Cell(nodes[at].next, nodes[at].prev, nodes[at].data)
    BY CellAt
  <2>2. /\ r[at] = [nodes[at] EXCEPT !.prev = to]
        /\ \A y \in 0..(cap - 1) : y # at => r[y] = nodes[y]
    BY DEF IsCells, WithPrev
  <2> QED  BY <2>1, <2>2 DEF Cell
<1>2. r = [y \in 0..(cap - 1) |-> r[y]]
  BY DEF IsCells, WithPrev
<1>3. ASSUME NEW y \in 0..(cap - 1)
      PROVE  r[y] = Cell(r[y].next, r[y].prev, r[y].data)
  <2>1. CASE y = at
    BY <1>1, <2>1, CellOf
  <2>2. CASE y # at
    BY <1>1, <2>2, CellAt
  <2> QED  BY <2>1, <2>2
<1>4. IsCells(r, cap)
  BY <1>2, <1>3 DEF IsCells
<1> QED  BY <1>1, <1>4

(* A cell is replaced.                                                     *)
LEMMA SetCell ==
    ASSUME NEW nodes, NEW cap, IsCells(nodes, cap), NEW at \in 0..(cap - 1),
           NEW a, NEW b, NEW x
    PROVE  LET r == [nodes EXCEPT ![at] = Cell(a, b, x)]
           IN  /\ IsCells(r, cap)
               /\ \A y \in 0..(cap - 1) : r[y] = IF y = at THEN Cell(a, b, x) ELSE nodes[y]
<1> DEFINE r == [nodes EXCEPT ![at] = Cell(a, b, x)]
<1>1. /\ \A y \in 0..(cap - 1) : r[y] = IF y = at THEN Cell(a, b, x) ELSE nodes[y]
      /\ r = [y \in 0..(cap - 1) |-> r[y]]
  BY DEF IsCells
<1> HIDE DEF r
<1>2. ASSUME NEW y \in 0..(cap - 1)
      PROVE  r[y] = Cell(r[y].next, r[y].prev, r[y].data)
  <2>1. nodes[y] = Cell(nodes[y].next, nodes[y].prev, nodes[y].data)
    BY CellAt
  <2> QED  BY <1>1, <2>1 DEF Cell
<1>3. IsCells(r, cap)
  BY <1>1, <1>2 DEF IsCells
<1> QED  BY <1>1, <1>3 DEF r

(* To set a prev in a list is to set it in the array.                      *)
LEMMA RelinkPrev ==
    ASSUME NEW m, IsHeader(m), NEW at, NEW to
    PROVE  LET r == [m EXCEPT !.nodes[at].prev = to]
           IN  /\ IsHeader(r) /\ r.nodes = WithPrev(m.nodes, at, to)
               /\ r.capacity = m.capacity /\ r.head = m.head /\ r.tail = m.tail
               /\ r.free = m.free /\ r.n_nodes = m.n_nodes /\ r.linear = m.linear
<1> DEFINE N == WithPrev(m.nodes, at, to)
           r == [m EXCEPT !.nodes[at].prev = to]
<1>1. r = [m EXCEPT !.nodes = N]
  BY DEF IsHeader, WithPrev
<1> HIDE DEF N, r
<1>2. /\ IsHeader(r) /\ r.nodes = N
      /\ r.capacity = m.capacity /\ r.head = m.head /\ r.tail = m.tail
      /\ r.free = m.free /\ r.n_nodes = m.n_nodes /\ r.linear = m.linear
  BY <1>1 DEF IsHeader
<1> QED  BY <1>2 DEF N, r

(* To set a next in a list is to set it in the array.                      *)
LEMMA RelinkNext ==
    ASSUME NEW m, IsHeader(m), NEW at, NEW to
    PROVE  LET r == [m EXCEPT !.nodes[at].next = to]
           IN  /\ IsHeader(r) /\ r.nodes = WithNext(m.nodes, at, to)
               /\ r.capacity = m.capacity /\ r.head = m.head /\ r.tail = m.tail
               /\ r.free = m.free /\ r.n_nodes = m.n_nodes /\ r.linear = m.linear
<1> DEFINE N == WithNext(m.nodes, at, to)
           r == [m EXCEPT !.nodes[at].next = to]
<1>1. r = [m EXCEPT !.nodes = N]
  BY DEF IsHeader, WithNext
<1> HIDE DEF N, r
<1>2. /\ IsHeader(r) /\ r.nodes = N
      /\ r.capacity = m.capacity /\ r.head = m.head /\ r.tail = m.tail
      /\ r.free = m.free /\ r.n_nodes = m.n_nodes /\ r.linear = m.linear
  BY <1>1 DEF IsHeader
<1> QED  BY <1>2 DEF N, r

(* list_insert with the links of the neighbours put in, one after the      *)
(* other, is a splice.                                                     *)
LinkNext(l, at, to) == IF at = 0 THEN l ELSE [l EXCEPT !.nodes[at].next = to]
LinkPrev(l, at, to) == IF at = 0 THEN l ELSE [l EXCEPT !.nodes[at].prev = to]

(* The prev of the cell behind the new one is set, when there is such a    *)
(* cell.                                                                   *)
LEMMA LinkNextIs ==
    ASSUME NEW m, IsHeader(m), IsCells(m.nodes, m.capacity), NEW at \in 0..(m.capacity - 1), NEW to
    PROVE  LET r == LinkNext(m, at, to)
           IN  /\ IsHeader(r) /\ IsCells(r.nodes, m.capacity)
               /\ r.capacity = m.capacity /\ r.head = m.head /\ r.tail = m.tail
               /\ r.free = m.free /\ r.n_nodes = m.n_nodes /\ r.linear = m.linear
               /\ \A y \in 0..(m.capacity - 1) :
                     r.nodes[y] = Cell(IF y # 0 /\ y = at THEN to ELSE m.nodes[y].next,
                                       m.nodes[y].prev, m.nodes[y].data)
<1>1. CASE at = 0
  <2>1. LinkNext(m, at, to) = m
    BY <1>1 DEF LinkNext
  <2>2. \A y \in 0..(m.capacity - 1) : m.nodes[y] = Cell(m.nodes[y].next, m.nodes[y].prev, m.nodes[y].data)
    BY CellAt
  <2> QED  BY <1>1, <2>1, <2>2
<1>2. CASE at # 0
  <2> DEFINE r == [m EXCEPT !.nodes[at].next = to]
             N == WithNext(m.nodes, at, to)
  <2>1. LinkNext(m, at, to) = r
    BY <1>2 DEF LinkNext
  <2>2. /\ IsHeader(r) /\ r.nodes = N
        /\ r.capacity = m.capacity /\ r.head = m.head /\ r.tail = m.tail
        /\ r.free = m.free /\ r.n_nodes = m.n_nodes /\ r.linear = m.linear
    BY RelinkNext
  <2>3. /\ IsCells(N, m.capacity)
        /\ N[at] = Cell(to, m.nodes[at].prev, m.nodes[at].data)
        /\ \A y \in 0..(m.capacity - 1) : y # at => N[y] = m.nodes[y]
    BY SetNext
  <2> HIDE DEF r, N
  <2>4. ASSUME NEW y \in 0..(m.capacity - 1)
        PROVE  r.nodes[y] = Cell(IF y # 0 /\ y = at THEN to ELSE m.nodes[y].next,
                                 m.nodes[y].prev, m.nodes[y].data)
    <3>1. m.nodes[y] = Cell(m.nodes[y].next, m.nodes[y].prev, m.nodes[y].data)
      BY CellAt
    <3> QED  BY <1>2, <2>2, <2>3, <3>1
  <2> QED  BY <2>1, <2>2, <2>3, <2>4
<1> QED  BY <1>1, <1>2

(* The next of the cell before the new one is set, when there is such a    *)
(* cell.                                                                   *)
LEMMA LinkPrevIs ==
    ASSUME NEW m, IsHeader(m), IsCells(m.nodes, m.capacity), NEW at \in 0..(m.capacity - 1), NEW to
    PROVE  LET r == LinkPrev(m, at, to)
           IN  /\ IsHeader(r) /\ IsCells(r.nodes, m.capacity)
               /\ r.capacity = m.capacity /\ r.head = m.head /\ r.tail = m.tail
               /\ r.free = m.free /\ r.n_nodes = m.n_nodes /\ r.linear = m.linear
               /\ \A y \in 0..(m.capacity - 1) :
                     r.nodes[y] = Cell(m.nodes[y].next,
                                       IF y # 0 /\ y = at THEN to ELSE m.nodes[y].prev,
                                       m.nodes[y].data)
<1>1. CASE at = 0
  <2>1. LinkPrev(m, at, to) = m
    BY <1>1 DEF LinkPrev
  <2>2. \A y \in 0..(m.capacity - 1) : m.nodes[y] = Cell(m.nodes[y].next, m.nodes[y].prev, m.nodes[y].data)
    BY CellAt
  <2> QED  BY <1>1, <2>1, <2>2
<1>2. CASE at # 0
  <2> DEFINE r == [m EXCEPT !.nodes[at].prev = to]
             N == WithPrev(m.nodes, at, to)
  <2>1. LinkPrev(m, at, to) = r
    BY <1>2 DEF LinkPrev
  <2>2. /\ IsHeader(r) /\ r.nodes = N
        /\ r.capacity = m.capacity /\ r.head = m.head /\ r.tail = m.tail
        /\ r.free = m.free /\ r.n_nodes = m.n_nodes /\ r.linear = m.linear
    BY RelinkPrev
  <2>3. /\ IsCells(N, m.capacity)
        /\ N[at] = Cell(m.nodes[at].next, to, m.nodes[at].data)
        /\ \A y \in 0..(m.capacity - 1) : y # at => N[y] = m.nodes[y]
    BY SetPrev
  <2> HIDE DEF r, N
  <2>4. ASSUME NEW y \in 0..(m.capacity - 1)
        PROVE  r.nodes[y] = Cell(m.nodes[y].next,
                                 IF y # 0 /\ y = at THEN to ELSE m.nodes[y].prev,
                                 m.nodes[y].data)
    <3>1. m.nodes[y] = Cell(m.nodes[y].next, m.nodes[y].prev, m.nodes[y].data)
      BY CellAt
    <3> QED  BY <1>2, <2>2, <2>3, <3>1
  <2> QED  BY <2>1, <2>2, <2>3, <2>4
<1> QED  BY <1>1, <1>2

(* A list that agrees with a splice is one.                                *)
LEMMA SplicedIf ==
    ASSUME NEW m, NEW r, NEW p, NEW q, NEW x, IsHeader(r), IsCells(r.nodes, m.capacity),
           r.capacity = m.capacity, r.linear = m.linear, r.n_nodes = m.n_nodes + 1,
           r.free = m.nodes[m.free].next,
           r.head = IF p = 0 THEN m.free ELSE m.head,
           r.tail = IF q = 0 THEN m.free ELSE m.tail,
           \A y \in 0..(m.capacity - 1) :
               r.nodes[y] = IF y = m.free THEN Cell(q, p, x)
                            ELSE Cell(IF y # 0 /\ y = p THEN m.free ELSE m.nodes[y].next,
                                      IF y # 0 /\ y = q THEN m.free ELSE m.nodes[y].prev,
                                      m.nodes[y].data)
    PROVE  Spliced(m, r, p, q, x)
<1>1. r.nodes = [y \in 0..(m.capacity - 1) |-> r.nodes[y]]
  BY DEF IsCells
<1>2. r.nodes = [y \in 0..(m.capacity - 1) |->
              IF y = m.free THEN Cell(q, p, x)
              ELSE Cell(IF y # 0 /\ y = p THEN m.free ELSE m.nodes[y].next,
                        IF y # 0 /\ y = q THEN m.free ELSE m.nodes[y].prev,
                        m.nodes[y].data)]
  BY <1>1
<1> QED  BY <1>2 DEF Spliced

(* list_insert and the links to the new cell splice it in.                 *)
LEMMA SplicedByLinks ==
    ASSUME NEW m, IsHeader(m), IsCells(m.nodes, m.capacity), m.capacity \in Nat,
           m.free \in 0..(m.capacity - 1),
           NEW l, m = Room(l), m.free = Inserted(l),
           NEW p \in 0..(m.capacity - 1), NEW q \in 0..(m.capacity - 1), p # m.free, q # m.free,
           NEW x
    PROVE  LET s == list_insert(l, x, q, p)
           IN  /\ Spliced(m, LinkNext(LinkPrev(s, q, Inserted(l)), p, Inserted(l)), p, q, x)
               /\ Spliced(m, LinkPrev(LinkNext(s, p, Inserted(l)), q, Inserted(l)), p, q, x)
               /\ p = 0 /\ q = 0 => Spliced(m, s, p, q, x)
<1> DEFINE s == list_insert(l, x, q, p)
           at == m.free
           N  == [m.nodes EXCEPT ![at] = Cell(q, p, x)]
<1>1. /\ IsHeader(s)
      /\ s.capacity = m.capacity /\ s.linear = m.linear /\ s.n_nodes = m.n_nodes + 1
      /\ s.free = m.nodes[at].next
      /\ s.head = IF p = 0 THEN at ELSE m.head
      /\ s.tail = IF q = 0 THEN at ELSE m.tail
      /\ s.nodes = N
  BY InsertFields
<1>2. /\ IsCells(N, m.capacity)
      /\ \A y \in 0..(m.capacity - 1) : N[y] = IF y = at THEN Cell(q, p, x) ELSE m.nodes[y]
  BY SetCell
<1>3. Inserted(l) = at
  OBVIOUS
<1> HIDE DEF s, N, at
<1>4. \A y \in 0..(m.capacity - 1) :
         /\ m.nodes[y] = Cell(m.nodes[y].next, m.nodes[y].prev, m.nodes[y].data)
         /\ s.nodes[y].next = IF y = at THEN q ELSE m.nodes[y].next
         /\ s.nodes[y].prev = IF y = at THEN p ELSE m.nodes[y].prev
         /\ s.nodes[y].data = IF y = at THEN x ELSE m.nodes[y].data
  <2>1. \A y \in 0..(m.capacity - 1) :
           m.nodes[y] = Cell(m.nodes[y].next, m.nodes[y].prev, m.nodes[y].data)
    BY CellAt
  <2>2. Cell(q, p, x).next = q /\ Cell(q, p, x).prev = p /\ Cell(q, p, x).data = x
    BY DEF Cell
  <2> QED  BY <1>1, <1>2, <2>1, <2>2
<1>5. Spliced(m, LinkNext(LinkPrev(s, q, at), p, at), p, q, x)
  <2> DEFINE u == LinkPrev(s, q, at)
             r == LinkNext(u, p, at)
  <2>1. /\ IsHeader(u) /\ IsCells(u.nodes, m.capacity)
        /\ u.capacity = s.capacity /\ u.head = s.head /\ u.tail = s.tail
        /\ u.free = s.free /\ u.n_nodes = s.n_nodes /\ u.linear = s.linear
        /\ \A y \in 0..(m.capacity - 1) :
              u.nodes[y] = Cell(s.nodes[y].next, IF y # 0 /\ y = q THEN at ELSE s.nodes[y].prev,
                                s.nodes[y].data)
    BY <1>1, <1>2, LinkPrevIs
  <2> HIDE DEF u
  <2>2. /\ IsHeader(r) /\ IsCells(r.nodes, m.capacity)
        /\ r.capacity = u.capacity /\ r.head = u.head /\ r.tail = u.tail
        /\ r.free = u.free /\ r.n_nodes = u.n_nodes /\ r.linear = u.linear
        /\ \A y \in 0..(m.capacity - 1) :
              r.nodes[y] = Cell(IF y # 0 /\ y = p THEN at ELSE u.nodes[y].next, u.nodes[y].prev,
                                u.nodes[y].data)
    BY <1>1, <2>1, LinkNextIs
  <2> HIDE DEF r
  <2>3. ASSUME NEW y \in 0..(m.capacity - 1)
        PROVE  r.nodes[y] = IF y = at THEN Cell(q, p, x)
                            ELSE Cell(IF y # 0 /\ y = p THEN at ELSE m.nodes[y].next,
                                      IF y # 0 /\ y = q THEN at ELSE m.nodes[y].prev,
                                      m.nodes[y].data)
    <3>1. /\ u.nodes[y].next = s.nodes[y].next /\ u.nodes[y].data = s.nodes[y].data
          /\ u.nodes[y].prev = IF y # 0 /\ y = q THEN at ELSE s.nodes[y].prev
      BY <2>1, CellOf
    <3>2. r.nodes[y] = Cell(IF y # 0 /\ y = p THEN at ELSE s.nodes[y].next,
                            IF y # 0 /\ y = q THEN at ELSE s.nodes[y].prev, s.nodes[y].data)
      BY <2>2, <3>1
    <3>3. y = at => y # p /\ y # q
      BY DEF at
    <3> QED  BY <1>4, <3>2, <3>3
  <2>4. Spliced(m, r, p, q, x)
    BY <1>1, <2>1, <2>2, <2>3, SplicedIf DEF at
  <2> QED  BY <2>4 DEF r, u
<1>6. Spliced(m, LinkPrev(LinkNext(s, p, at), q, at), p, q, x)
  <2> DEFINE u == LinkNext(s, p, at)
             r == LinkPrev(u, q, at)
  <2>1. /\ IsHeader(u) /\ IsCells(u.nodes, m.capacity)
        /\ u.capacity = s.capacity /\ u.head = s.head /\ u.tail = s.tail
        /\ u.free = s.free /\ u.n_nodes = s.n_nodes /\ u.linear = s.linear
        /\ \A y \in 0..(m.capacity - 1) :
              u.nodes[y] = Cell(IF y # 0 /\ y = p THEN at ELSE s.nodes[y].next, s.nodes[y].prev,
                                s.nodes[y].data)
    BY <1>1, <1>2, LinkNextIs
  <2> HIDE DEF u
  <2>2. /\ IsHeader(r) /\ IsCells(r.nodes, m.capacity)
        /\ r.capacity = u.capacity /\ r.head = u.head /\ r.tail = u.tail
        /\ r.free = u.free /\ r.n_nodes = u.n_nodes /\ r.linear = u.linear
        /\ \A y \in 0..(m.capacity - 1) :
              r.nodes[y] = Cell(u.nodes[y].next, IF y # 0 /\ y = q THEN at ELSE u.nodes[y].prev,
                                u.nodes[y].data)
    BY <1>1, <2>1, LinkPrevIs
  <2> HIDE DEF r
  <2>3. ASSUME NEW y \in 0..(m.capacity - 1)
        PROVE  r.nodes[y] = IF y = at THEN Cell(q, p, x)
                            ELSE Cell(IF y # 0 /\ y = p THEN at ELSE m.nodes[y].next,
                                      IF y # 0 /\ y = q THEN at ELSE m.nodes[y].prev,
                                      m.nodes[y].data)
    <3>1. /\ u.nodes[y].prev = s.nodes[y].prev /\ u.nodes[y].data = s.nodes[y].data
          /\ u.nodes[y].next = IF y # 0 /\ y = p THEN at ELSE s.nodes[y].next
      BY <2>1, CellOf
    <3>2. r.nodes[y] = Cell(IF y # 0 /\ y = p THEN at ELSE s.nodes[y].next,
                            IF y # 0 /\ y = q THEN at ELSE s.nodes[y].prev, s.nodes[y].data)
      BY <2>2, <3>1
    <3>3. y = at => y # p /\ y # q
      BY DEF at
    <3> QED  BY <1>4, <3>2, <3>3
  <2>4. Spliced(m, r, p, q, x)
    BY <1>1, <2>1, <2>2, <2>3, SplicedIf DEF at
  <2> QED  BY <2>4 DEF r, u
<1>7. ASSUME p = 0, q = 0
      PROVE  Spliced(m, s, p, q, x)
  <2>1. LinkPrev(s, q, at) = s /\ LinkNext(s, p, at) = s
    BY <1>7 DEF LinkPrev, LinkNext
  <2> QED  BY <1>5, <2>1
<1> QED  BY <1>3, <1>5, <1>6, <1>7 DEF s

(* What either way to insert comes to.                                     *)
Puts(l, w, g, x, r) ==
    \/ r = list_insert_after(l, w[g], x) /\ (g # 0 \/ l.n_nodes = 0)
    \/ r = list_insert_before(l, w[g + 1], x) /\ (g # l.n_nodes \/ l.n_nodes = 0)

(* So either way to insert splices a node in between its neighbours.       *)
LEMMA PutsSplices ==
    ASSUME NEW l, NEW w, NEW c, Represents(l, w, c), NEW g \in 0..l.n_nodes, NEW x, NEW r,
           Puts(l, w, g, x, r), NEW d, Represents(Room(l), w, d), Room(l).free = Inserted(l),
           Room(l).free # 0
    PROVE  Spliced(Room(l), r, w[g], w[g + 1], x)
<1> DEFINE m == Room(l)
           p == w[g]
           q == w[g + 1]
           at == Inserted(l)
           s == list_insert(l, x, q, p)
           n == l.n_nodes
<1>1. /\ n \in Nat /\ w[0] = 0 /\ w[n + 1] = 0
      /\ \A i \in 1..n : w[i] # 0 /\ l.nodes[w[i]].prev = w[i - 1] /\ l.nodes[w[i]].next = w[i + 1]
      /\ l.nodes[0].next = 0 /\ l.nodes[0].prev = 0
  <2>1. l.capacity \in Nat /\ \A i \in 1..n : w[i] \in 1..(l.capacity - 1)
    BY OrderFacts
  <2> QED  BY <2>1, OrderFacts DEF Represents
<1>2. /\ IsHeader(m) /\ IsCells(m.nodes, m.capacity) /\ m.capacity \in Nat
      /\ m.free \in 0..(m.capacity - 1) /\ m.n_nodes = n
      /\ p \in 0..(m.capacity - 1) /\ q \in 0..(m.capacity - 1) /\ p # m.free /\ q # m.free
  <2>1. m.n_nodes = n
    BY RoomRepresents
  <2>2. m.capacity \in Nat /\ \A i \in 0..(n + 1) : w[i] \in 0..(m.capacity - 1)
    BY <2>1, OrderFacts
  <2>3. IsHeader(m) /\ IsList(m)
    BY DEF Represents
  <2>4. m.free \in 0..(m.capacity - 1)
    BY <2>3 DEF IsList
  <2>5. IsCells(m.nodes, m.capacity)
    BY <2>3, ListCells
  <2>6. \A i \in 0..(n + 1) : w[i] # m.free
    <3>1. Spare(m) \in Nat
      BY OrderFacts
    <3>2. /\ m.free = d[1] /\ (m.free = 0 <=> Spare(m) = 0)
          /\ \A i \in 1..m.n_nodes : \A j \in 1..Spare(m) : w[i] # d[j]
      BY ChainFacts
    <3>3. 1 \in 1..Spare(m)
      BY <3>1, <3>2
    <3>4. \A i \in 0..(n + 1) : i = 0 \/ i = n + 1 \/ i \in 1..n
      BY <1>1
    <3> QED  BY <1>1, <2>1, <3>2, <3>3, <3>4
  <2>7. g \in 0..(n + 1) /\ g + 1 \in 0..(n + 1)
    BY <1>1
  <2> QED  BY <2>1, <2>2, <2>3, <2>4, <2>5, <2>6, <2>7
<1>3. /\ Spliced(m, LinkNext(LinkPrev(s, q, at), p, at), p, q, x)
      /\ Spliced(m, LinkPrev(LinkNext(s, p, at), q, at), p, q, x)
      /\ p = 0 /\ q = 0 => Spliced(m, s, p, q, x)
  BY <1>2, SplicedByLinks
<1>4. CASE r = list_insert_after(l, p, x) /\ (g # 0 \/ n = 0)
  <2>1. l.nodes[p].next = q
    <3>1. CASE g # 0
      <4>1. g \in 1..n
        BY <1>1, <3>1
      <4> QED  BY <1>1, <4>1
    <3>2. CASE g = 0 /\ n = 0
      BY <1>1, <3>2
    <3> QED  BY <1>4, <3>1, <3>2
  <2>2. r = IF p = 0 THEN s ELSE LinkNext(LinkPrev(s, q, at), p, at)
    BY <1>4, <2>1 DEF list_insert_after, LinkNext, LinkPrev
  <2>3. p = 0 => q = 0
    <3>1. p = 0 => g \notin 1..n
      BY <1>1
    <3>2. g = 0 \/ g \in 1..n
      BY <1>1
    <3> QED  BY <1>1, <1>4, <3>1, <3>2
  <2> HIDE DEF m, s, p, q, at
  <2>4. Spliced(m, r, p, q, x)
    BY <1>3, <2>2, <2>3
  <2> QED  BY <2>4 DEF m, p, q
<1>5. CASE r = list_insert_before(l, q, x) /\ (g # n \/ n = 0)
  <2>0. g = n \/ g + 1 \in 1..n
    BY <1>1
  <2>1. l.nodes[q].prev = p
    <3>1. CASE g # n
      <4>1. g + 1 \in 1..n /\ (g + 1) - 1 = g
        BY <1>1, <2>0, <3>1
      <4> QED  BY <1>1, <4>1
    <3>2. CASE g = n /\ n = 0
      BY <1>1, <3>2
    <3> QED  BY <1>5, <3>1, <3>2
  <2>2. r = IF q = 0 THEN s ELSE LinkPrev(LinkNext(s, p, at), q, at)
    BY <1>5, <2>1 DEF list_insert_before, LinkNext, LinkPrev
  <2>3. q = 0 => p = 0
    <3>1. q = 0 => g + 1 \notin 1..n
      BY <1>1
    <3> QED  BY <1>1, <1>5, <2>0, <3>1
  <2> HIDE DEF m, s, p, q, at
  <2>4. Spliced(m, r, p, q, x)
    BY <1>3, <2>2, <2>3
  <2> QED  BY <2>4 DEF m, p, q
<1> QED  BY <1>4, <1>5 DEF Puts

(* An item put behind the first g is the one after them.                   *)
LEMMA InsertRepresents ==
    ASSUME NEW l, NEW w, NEW c, Represents(l, w, c), NEW g \in 0..l.n_nodes, NEW x \in Data,
           NEW r, Puts(l, w, g, x, r)
    PROVE  \E v, d : /\ Represents(r, v, d) /\ r.n_nodes = l.n_nodes + 1
                     /\ \A i \in 1..g : r.nodes[v[i]].data = l.nodes[w[i]].data
                     /\ r.nodes[v[g + 1]].data = x
                     /\ \A i \in (g + 1)..l.n_nodes :
                           r.nodes[v[i + 1]].data = l.nodes[w[i]].data
<1> DEFINE m == Room(l)
           n == l.n_nodes
<1>1. PICK b : /\ Represents(m, w, b) /\ m.free # 0 /\ m.free = Inserted(l) /\ m.n_nodes = n
               /\ l.capacity \in Nat
               /\ \A i \in 0..(l.capacity - 1) : m.nodes[i] = l.nodes[i]
  BY RoomRepresents
<1>2. Spliced(m, r, w[g], w[g + 1], x)
  BY <1>1, PutsSplices
<1> DEFINE v == Widened(w, n, g, m.free)
<1>3. PICK d : /\ Represents(r, v, d) /\ r.nodes[m.free].data = x
               /\ \A i \in 1..n : r.nodes[w[i]].data = m.nodes[w[i]].data
  <2> HIDE DEF m, n
  <2>1. g \in 0..m.n_nodes
    BY <1>1 DEF n
  <2>2. /\ \E d : Represents(r, Widened(w, m.n_nodes, g, m.free), d)
        /\ r.nodes[m.free].data = x
        /\ \A i \in 1..m.n_nodes : r.nodes[w[i]].data = m.nodes[w[i]].data
    BY <1>1, <1>2, <2>1, SpliceRepresents
  <2> QED  BY <1>1, <2>2
<1>4. n \in Nat /\ \A i \in 1..n : w[i] \in 0..(l.capacity - 1)
  <2>1. n \in Nat /\ \A i \in 0..(n + 1) : w[i] \in 0..(l.capacity - 1)
    BY OrderFacts
  <2>2. \A i \in 1..n : i \in 0..(n + 1)
    BY <2>1
  <2> QED  BY <2>1, <2>2
<1>5. \A i \in 1..n : r.nodes[w[i]].data = l.nodes[w[i]].data
  BY <1>1, <1>3, <1>4
<1>6. r.n_nodes = n + 1
  BY <1>1, <1>2 DEF Spliced
<1>7. /\ \A i \in 1..g : v[i] = w[i] /\ i \in 1..n
      /\ v[g + 1] = m.free
      /\ \A i \in (g + 1)..n : v[i + 1] = w[i] /\ i \in 1..n
  <2>1. /\ \A i \in 1..g : i \in 0..(n + 2) /\ i <= g /\ i \in 1..n
        /\ g + 1 \in 0..(n + 2) /\ ~(g + 1 <= g)
        /\ \A i \in (g + 1)..n : /\ i + 1 \in 0..(n + 2) /\ ~(i + 1 <= g) /\ i + 1 # g + 1
                                 /\ (i + 1) - 1 = i /\ i \in 1..n
    BY <1>4
  <2> QED  BY <2>1 DEF Widened
<1> HIDE DEF v
<1> QED  BY <1>3, <1>5, <1>6, <1>7

(* Deletion.                                                               *)

(* r is l without the node at, whose neighbours are p and q.               *)
Unlinked(l, r, at, p, q) ==
    /\ IsHeader(r) /\ IsCells(r.nodes, l.capacity)
    /\ r.capacity = l.capacity /\ r.linear = l.linear /\ r.n_nodes = l.n_nodes - 1
    /\ r.free = at
    /\ r.head = IF p = 0 THEN q ELSE l.head
    /\ r.tail = IF q = 0 THEN p ELSE l.tail
    /\ r.nodes[at] = Cell(l.free, FREE_PREV, FREE_DATA)
    /\ \A y \in 0..(l.capacity - 1) :
          y # at => r.nodes[y] = Cell(IF y # 0 /\ y = p THEN q ELSE l.nodes[y].next,
                                      IF y # 0 /\ y = q THEN p ELSE l.nodes[y].prev,
                                      l.nodes[y].data)

(* The parts of list_delete.                                               *)
SetHead(l, x)  == [l EXCEPT !.head = x]
SetTail(l, x)  == [l EXCEPT !.tail = x]
PutNext(l, at, to) == [l EXCEPT !.nodes[at].next = to]
PutPrev(l, at, to) == [l EXCEPT !.nodes[at].prev = to]
Release(v, free, pos) == [v EXCEPT !.nodes[pos] = Cell(free, FREE_PREV, FREE_DATA),
                                   !.free = pos, !.n_nodes = @ - 1]

(* The header is given its new fields, the cell is put in the chain.       *)
LEMMA ReleaseFields ==
    ASSUME NEW v, IsHeader(v), IsCells(v.nodes, v.capacity),
           NEW pos \in 0..(v.capacity - 1),
           NEW free, NEW r, r = Release(v, free, pos)
    PROVE  /\ IsHeader(r) /\ IsCells(r.nodes, v.capacity)
           /\ r.capacity = v.capacity /\ r.linear = v.linear /\ r.n_nodes = v.n_nodes - 1
           /\ r.free = pos /\ r.head = v.head /\ r.tail = v.tail
           /\ \A y \in 0..(v.capacity - 1) :
                 r.nodes[y] = IF y = pos THEN Cell(free, FREE_PREV, FREE_DATA) ELSE v.nodes[y]
<1> DEFINE N == [v.nodes EXCEPT ![pos] = Cell(free, FREE_PREV, FREE_DATA)]
<1>1. r = [v EXCEPT !.nodes = N, !.free = pos, !.n_nodes = @ - 1]
  BY DEF IsHeader, Release
<1>2. /\ IsCells(N, v.capacity)
      /\ \A y \in 0..(v.capacity - 1) :
            N[y] = IF y = pos THEN Cell(free, FREE_PREV, FREE_DATA) ELSE v.nodes[y]
  BY SetCell
<1> HIDE DEF N
<1>3. /\ IsHeader(r) /\ r.nodes = N
      /\ r.capacity = v.capacity /\ r.linear = v.linear /\ r.n_nodes = v.n_nodes - 1
      /\ r.free = pos /\ r.head = v.head /\ r.tail = v.tail
  BY <1>1 DEF IsHeader
<1> QED  BY <1>2, <1>3

(* To set the head of a list changes nothing else,                         *)
LEMMA HeadFields ==
    ASSUME NEW l, IsHeader(l), NEW x, NEW h, h = SetHead(l, x)
    PROVE  /\ IsHeader(h) /\ h.nodes = l.nodes /\ h.capacity = l.capacity /\ h.head = x
           /\ h.tail = l.tail /\ h.free = l.free /\ h.n_nodes = l.n_nodes /\ h.linear = l.linear
BY DEF IsHeader, SetHead

(* and to set its tail does not either.                                    *)
LEMMA TailFields ==
    ASSUME NEW l, IsHeader(l), NEW x, NEW t, t = SetTail(l, x)
    PROVE  /\ IsHeader(t) /\ t.nodes = l.nodes /\ t.capacity = l.capacity /\ t.head = l.head
           /\ t.tail = x /\ t.free = l.free /\ t.n_nodes = l.n_nodes /\ t.linear = l.linear
BY DEF IsHeader, SetTail

(* list_delete takes the cell out from between its neighbours and frees    *)
(* it.                                                                     *)
LEMMA DeleteUnlinks ==
    ASSUME NEW l, NEW w, NEW c, Represents(l, w, c), NEW g \in 1..l.n_nodes
    PROVE  Unlinked(l, list_delete(l, w[g]), w[g], w[g - 1], w[g + 1])
<1> DEFINE n == l.n_nodes
           pos == w[g]
           p == w[g - 1]
           q == w[g + 1]
           cap == l.capacity
<1>1. /\ n \in Nat /\ cap \in Nat /\ l.head = w[1] /\ l.tail = w[n]
      /\ l.nodes[pos].prev = p /\ l.nodes[pos].next = q
      /\ pos \in 0..(cap - 1) /\ p \in 0..(cap - 1) /\ q \in 0..(cap - 1)
      /\ (g = 1 => p = 0) /\ (g = n => q = 0)
      /\ (p = 0 => g = 1) /\ (q = 0 => g = n) /\ pos # p /\ pos # q
      /\ (pos = w[1] <=> g = 1) /\ (pos = w[n] <=> g = n)
  <2>1. /\ n \in Nat /\ cap \in Nat /\ l.head = w[1] /\ l.tail = w[n]
        /\ w[0] = 0 /\ w[n + 1] = 0
        /\ \A i \in 1..n : /\ w[i] \in 1..(cap - 1)
                           /\ l.nodes[w[i]].prev = w[i - 1] /\ l.nodes[w[i]].next = w[i + 1]
        /\ \A i \in 1..n : \A j \in 0..(n + 1) : w[i] = w[j] => i = j
        /\ \A i \in 0..(n + 1) : w[i] \in 0..(cap - 1)
    BY OrderFacts
  <2>2. /\ g \in 0..(n + 1) /\ g - 1 \in 0..(n + 1) /\ g + 1 \in 0..(n + 1)
        /\ 1 \in 0..(n + 1) /\ n \in 0..(n + 1) /\ 1 \in 1..n /\ n \in 1..n
        /\ g - 1 # g /\ g + 1 # g
        /\ (g # 1 => g - 1 \in 1..n) /\ (g # n => g + 1 \in 1..n)
    BY <2>1
  <2>3. \A i \in 1..n : w[i] # 0
    BY <2>1
  <2> QED  BY <2>1, <2>2, <2>3
<1>2. IsHeader(l) /\ IsCells(l.nodes, cap)
  BY ListCells DEF Represents
<1> DEFINE u == IF l.head = pos THEN SetHead(l, q) ELSE LinkNext(l, p, q)
           v == IF l.tail = pos THEN SetTail(u, p) ELSE LinkPrev(u, q, p)
           r == Release(v, l.free, pos)
<1>3. list_delete(l, pos) = r
  <2>1. l.head # pos => p # 0
    BY <1>1
  <2>2. l.tail # pos => q # 0
    BY <1>1
  <2> DEFINE a == l.nodes[pos]
             s == IF l.head = pos THEN SetHead(l, a.next) ELSE PutNext(l, a.prev, a.next)
             t == IF l.tail = pos THEN SetTail(s, a.prev) ELSE PutPrev(s, a.next, a.prev)
  <2>3. list_delete(l, pos) = Release(t, l.free, pos)
    BY DEF list_delete, SetHead, SetTail, PutNext, PutPrev, Release
  <2>4. a.prev = p /\ a.next = q
    BY <1>1
  <2>5. \A z : /\ p # 0 => LinkNext(z, p, q) = PutNext(z, p, q)
               /\ q # 0 => LinkPrev(z, q, p) = PutPrev(z, q, p)
    BY DEF LinkNext, LinkPrev, PutNext, PutPrev
  <2> HIDE DEF a, p, q, pos
  <2>6. s = u
    <3>1. CASE l.head = pos
      <4>1. s = SetHead(l, a.next) /\ u = SetHead(l, q)
        BY <3>1
      <4> QED  BY <2>4, <4>1
    <3>2. CASE l.head # pos
      <4>1. s = PutNext(l, a.prev, a.next) /\ u = LinkNext(l, p, q) /\ p # 0
        BY <2>1, <3>2
      <4> QED  BY <2>4, <2>5, <4>1
    <3> QED  BY <3>1, <3>2
  <2> HIDE DEF s, u
  <2>7. t = v
    <3>1. CASE l.tail = pos
      <4>1. t = SetTail(s, a.prev) /\ v = SetTail(u, p)
        BY <3>1
      <4> QED  BY <2>4, <2>6, <4>1
    <3>2. CASE l.tail # pos
      <4>1. t = PutPrev(s, a.next, a.prev) /\ v = LinkPrev(u, q, p) /\ q # 0
        BY <2>2, <3>2
      <4> QED  BY <2>4, <2>5, <2>6, <4>1
    <3> QED  BY <3>1, <3>2
  <2> QED  BY <2>3, <2>7
<1>4. /\ IsHeader(u) /\ IsCells(u.nodes, cap) /\ u.capacity = cap /\ u.tail = l.tail
      /\ u.head = (IF p = 0 THEN q ELSE l.head)
      /\ u.free = l.free /\ u.n_nodes = n /\ u.linear = l.linear
      /\ \A y \in 0..(cap - 1) :
            u.nodes[y] = Cell(IF y # 0 /\ y = p THEN q ELSE l.nodes[y].next,
                              l.nodes[y].prev, l.nodes[y].data)
  <2>1. CASE l.head = pos
    <3>1. u = SetHead(l, q) /\ p = 0
      BY <1>1, <2>1
    <3> HIDE DEF u, p, q
    <3>2. /\ IsHeader(u) /\ u.nodes = l.nodes /\ u.capacity = l.capacity /\ u.head = q
          /\ u.tail = l.tail /\ u.free = l.free /\ u.n_nodes = l.n_nodes /\ u.linear = l.linear
      BY <1>2, <3>1, HeadFields
    <3>3. \A y \in 0..(cap - 1) : l.nodes[y] = Cell(l.nodes[y].next, l.nodes[y].prev, l.nodes[y].data)
      BY <1>2, CellAt
    <3> QED  BY <1>2, <3>1, <3>2, <3>3
  <2>2. CASE l.head # pos
    <3>1. u = LinkNext(l, p, q) /\ p # 0 /\ p \in 0..(cap - 1)
      BY <1>1, <2>2
    <3> HIDE DEF u, p, q
    <3> QED  BY <1>2, <3>1, LinkNextIs
  <2> QED  BY <2>1, <2>2
<1>5. /\ IsHeader(v) /\ IsCells(v.nodes, cap) /\ v.capacity = cap /\ v.head = u.head
      /\ v.tail = (IF q = 0 THEN p ELSE l.tail)
      /\ v.free = l.free /\ v.n_nodes = n /\ v.linear = l.linear
      /\ \A y \in 0..(cap - 1) :
            v.nodes[y] = Cell(u.nodes[y].next,
                              IF y # 0 /\ y = q THEN p ELSE u.nodes[y].prev, u.nodes[y].data)
  <2>1. CASE l.tail = pos
    <3>1. v = SetTail(u, p) /\ q = 0
      BY <1>1, <2>1
    <3> HIDE DEF u, v, p, q
    <3>2. /\ IsHeader(v) /\ v.nodes = u.nodes /\ v.capacity = u.capacity /\ v.tail = p
          /\ v.head = u.head /\ v.free = u.free /\ v.n_nodes = u.n_nodes /\ v.linear = u.linear
      BY <1>4, <3>1, TailFields
    <3>3. \A y \in 0..(cap - 1) : u.nodes[y] = Cell(u.nodes[y].next, u.nodes[y].prev, u.nodes[y].data)
      BY <1>4, CellAt
    <3> QED  BY <1>4, <3>1, <3>2, <3>3
  <2>2. CASE l.tail # pos
    <3>1. v = LinkPrev(u, q, p) /\ q # 0 /\ q \in 0..(cap - 1)
      BY <1>1, <2>2
    <3> HIDE DEF u, v, p, q
    <3> QED  BY <1>4, <3>1, LinkPrevIs
  <2> QED  BY <2>1, <2>2
<1>6. /\ IsHeader(r) /\ IsCells(r.nodes, cap)
      /\ r.capacity = cap /\ r.linear = v.linear /\ r.n_nodes = v.n_nodes - 1
      /\ r.free = pos /\ r.head = v.head /\ r.tail = v.tail
      /\ \A y \in 0..(cap - 1) :
            r.nodes[y] = IF y = pos THEN Cell(l.free, FREE_PREV, FREE_DATA) ELSE v.nodes[y]
  <2>1. r = Release(v, l.free, pos)
    OBVIOUS
  <2>2. v.capacity = cap /\ IsHeader(v) /\ IsCells(v.nodes, v.capacity) /\ pos \in 0..(v.capacity - 1)
    BY <1>1, <1>5
  <2> HIDE DEF r, v, pos, cap
  <2>3. /\ IsHeader(r) /\ IsCells(r.nodes, v.capacity)
        /\ r.capacity = v.capacity /\ r.linear = v.linear /\ r.n_nodes = v.n_nodes - 1
        /\ r.free = pos /\ r.head = v.head /\ r.tail = v.tail
        /\ \A y \in 0..(v.capacity - 1) :
              r.nodes[y] = IF y = pos THEN Cell(l.free, FREE_PREV, FREE_DATA) ELSE v.nodes[y]
    <3> DEFINE free == l.free
    <3>1. r = Release(v, free, pos)
      BY <2>1
    <3> HIDE DEF free
    <3>2. /\ IsHeader(r) /\ IsCells(r.nodes, v.capacity)
          /\ r.capacity = v.capacity /\ r.linear = v.linear /\ r.n_nodes = v.n_nodes - 1
          /\ r.free = pos /\ r.head = v.head /\ r.tail = v.tail
          /\ \A y \in 0..(v.capacity - 1) :
                r.nodes[y] = IF y = pos THEN Cell(free, FREE_PREV, FREE_DATA) ELSE v.nodes[y]
      BY <2>2, <3>1, ReleaseFields
    <3> QED  BY <3>2 DEF free
  <2> QED  BY <2>2, <2>3
<1> HIDE DEF u, v, r
<1>7. r.nodes[pos] = Cell(l.free, FREE_PREV, FREE_DATA)
  BY <1>1, <1>6
<1>8. ASSUME NEW y \in 0..(cap - 1), y # pos
      PROVE  r.nodes[y] = Cell(IF y # 0 /\ y = p THEN q ELSE l.nodes[y].next,
                               IF y # 0 /\ y = q THEN p ELSE l.nodes[y].prev,
                               l.nodes[y].data)
  <2>1. /\ u.nodes[y].next = (IF y # 0 /\ y = p THEN q ELSE l.nodes[y].next)
        /\ u.nodes[y].prev = l.nodes[y].prev /\ u.nodes[y].data = l.nodes[y].data
    BY <1>4, CellOf
  <2> HIDE DEF p, q, pos
  <2> QED  BY <1>5, <1>6, <1>8, <2>1
<1> HIDE DEF p, q, pos
<1>9. Unlinked(l, r, pos, p, q)
  BY <1>4, <1>5, <1>6, <1>7, <1>8 DEF Unlinked
<1> QED  BY <1>3, <1>9 DEF pos, p, q

(* w without the g-th.                                                     *)
Narrowed(w, n, g) == [i \in 0..n |-> IF i < g THEN w[i] ELSE w[i + 1]]

(* A list with a node taken out is the other nodes in their order, and a   *)
(* chain one cell longer.                                                  *)
LEMMA UnlinkRepresents ==
    ASSUME NEW l, NEW w, NEW c, Represents(l, w, c), NEW g \in 1..l.n_nodes,
           NEW r, Unlinked(l, r, w[g], w[g - 1], w[g + 1])
    PROVE  /\ \E d : Represents(r, Narrowed(w, l.n_nodes, g), d)
           /\ r.n_nodes = l.n_nodes - 1
           /\ \A i \in 1..l.n_nodes : i # g => r.nodes[w[i]].data = l.nodes[w[i]].data
<1> DEFINE n == l.n_nodes
           k == Spare(l)
           cap == l.capacity
           at == w[g]
           v == Narrowed(w, n, g)
           d == [i \in 1..(k + 2) |-> IF i = 1 THEN at ELSE c[i - 1]]
           p == w[g - 1]
           q == w[g + 1]
<1>1. /\ cap \in Nat /\ n \in Nat /\ k \in Nat /\ cap = n + k + 1 /\ g \in 1..n
      /\ w[0] = 0 /\ w[n + 1] = 0 /\ l.head = w[1] /\ l.tail = w[n]
      /\ \A i \in 1..n : /\ w[i] \in 1..(cap - 1)
                         /\ l.nodes[w[i]].prev = w[i - 1] /\ l.nodes[w[i]].next = w[i + 1]
                         /\ l.nodes[w[i]].data \in Data
      /\ \A i \in 1..n : \A j \in 0..(n + 1) : w[i] = w[j] => i = j
      /\ \A i \in 0..(n + 1) : w[i] \in 0..(cap - 1)
  BY OrderFacts
<1>2. /\ l.free = c[1] /\ c[k + 1] = 0
      /\ \A i \in 1..k : /\ c[i] \in 1..(cap - 1)
                         /\ l.nodes[c[i]].prev = FREE_PREV /\ l.nodes[c[i]].next = c[i + 1]
      /\ \A i, j \in 1..k : c[i] = c[j] => i = j
      /\ \A i \in 1..n : \A j \in 1..k : w[i] # c[j]
  BY ChainFacts
<1>3. /\ IsHeader(r) /\ IsCells(r.nodes, cap)
      /\ r.capacity = cap /\ r.linear = l.linear /\ r.n_nodes = n - 1 /\ r.free = at
      /\ r.head = (IF p = 0 THEN q ELSE l.head)
      /\ r.tail = (IF q = 0 THEN p ELSE l.tail)
      /\ r.nodes[at] = Cell(l.free, FREE_PREV, FREE_DATA)
      /\ \A y \in 0..(cap - 1) :
            y # at => r.nodes[y] = Cell(IF y # 0 /\ y = p THEN q ELSE l.nodes[y].next,
                                        IF y # 0 /\ y = q THEN p ELSE l.nodes[y].prev,
                                        l.nodes[y].data)
  BY DEF Unlinked
<1>4. Spare(r) = k + 1
  BY <1>1, <1>3 DEF Spare
<1>5. /\ g - 1 \in 0..(n + 1) /\ g + 1 \in 0..(n + 1) /\ g \in 0..(n + 1)
      /\ g = 1 \/ g - 1 \in 1..n
      /\ g = n \/ g + 1 \in 1..n
      /\ g = n => g + 1 = n + 1
      /\ g = 1 => g - 1 = 0
      /\ \A i \in 1..n : i \in 0..(n + 1)
  BY <1>1
<1>6. /\ at \in 1..(cap - 1) /\ at \in 0..(cap - 1) /\ p \in 0..(cap - 1) /\ q \in 0..(cap - 1)
      /\ (p = 0 <=> g = 1) /\ (q = 0 <=> g = n)
      /\ \A i \in 1..n : (w[i] = p <=> i = g - 1) /\ (w[i] = q <=> i = g + 1)
      /\ \A i \in 1..n : (w[i] = at <=> i = g) /\ w[i] # 0 /\ w[i] \in 0..(cap - 1)
  <2>1. \A i \in 1..n : w[i] # 0 /\ w[i] \in 0..(cap - 1)
    BY <1>1
  <2>2. (g = 1 => p = 0) /\ (g = n => q = 0) /\ (g # 1 => p # 0) /\ (g # n => q # 0)
    BY <1>1, <1>5, <2>1
  <2>3. ASSUME NEW i \in 1..n
        PROVE  (w[i] = p <=> i = g - 1) /\ (w[i] = q <=> i = g + 1) /\ (w[i] = at <=> i = g)
    BY <1>1, <1>5
  <2> QED  BY <1>1, <1>5, <2>1, <2>2, <2>3
<1>7. ASSUME NEW i \in 1..n, i # g
      PROVE  /\ r.nodes[w[i]].next = IF i = g - 1 THEN q ELSE w[i + 1]
             /\ r.nodes[w[i]].prev = IF i = g + 1 THEN p ELSE w[i - 1]
             /\ r.nodes[w[i]].data = l.nodes[w[i]].data
  <2>1. r.nodes[w[i]] = Cell(IF w[i] # 0 /\ w[i] = p THEN q ELSE l.nodes[w[i]].next,
                             IF w[i] # 0 /\ w[i] = q THEN p ELSE l.nodes[w[i]].prev,
                             l.nodes[w[i]].data)
    BY <1>3, <1>6, <1>7
  <2>2. l.nodes[w[i]].prev = w[i - 1] /\ l.nodes[w[i]].next = w[i + 1]
    BY <1>1
  <2>3. (w[i] = p <=> i = g - 1) /\ (w[i] = q <=> i = g + 1) /\ w[i] # 0
    BY <1>6
  <2> HIDE DEF p, q
  <2> QED  BY <2>1, <2>2, <2>3 DEF Cell
<1>8. /\ \A i \in 0..(g - 1) : v[i] = w[i]
      /\ \A i \in g..n : v[i] = w[i + 1]
  <2>1. /\ \A i \in 0..(g - 1) : i \in 0..n /\ i < g
        /\ \A i \in g..n : i \in 0..n /\ ~(i < g)
    BY <1>1
  <2> QED  BY <2>1 DEF Narrowed
<1>9. /\ d[1] = at /\ \A i \in 2..(k + 2) : d[i] = c[i - 1]
  <2>1. 1 \in 1..(k + 2) /\ \A i \in 2..(k + 2) : i \in 1..(k + 2) /\ i # 1
    BY <1>1
  <2> QED  BY <2>1
<1> HIDE DEF v, p, q, n, k, at, cap, d
<1>10. IsList(r)
  <2> DEFINE C == [next : 0..(cap - 1), prev : FREE_PREV..(cap - 1), data : Data \union {FREE_DATA}]
  <2>1. /\ l.nodes \in [0..(cap - 1) -> C] /\ l.linear \in {0, 1}
        /\ {l.head, l.tail, l.free} \subseteq 0..(cap - 1)
    BY DEF Represents, IsList, cap
  <2>2. p \in FREE_PREV..(cap - 1) /\ FREE_PREV \in FREE_PREV..(cap - 1)
    BY <1>1, <1>6 DEF FREE_PREV
  <2>3. ASSUME NEW y \in 0..(cap - 1)
        PROVE  r.nodes[y] \in C
    <3>1. CASE y = at
      <4>1. Cell(l.free, FREE_PREV, FREE_DATA) \in C
        BY <2>1, <2>2 DEF Cell
      <4> QED  BY <1>3, <3>1, <4>1
    <3>2. CASE y # at
      <4>1. l.nodes[y] \in C
        BY <2>1
      <4>2. Cell(IF y # 0 /\ y = p THEN q ELSE l.nodes[y].next,
                 IF y # 0 /\ y = q THEN p ELSE l.nodes[y].prev, l.nodes[y].data) \in C
        BY <1>6, <2>2, <4>1 DEF Cell
      <4> QED  BY <1>3, <3>2, <4>2
    <3> QED  BY <3>1, <3>2
  <2>4. r.nodes = [y \in 0..(cap - 1) |-> r.nodes[y]]
    BY <1>3 DEF IsCells
  <2> HIDE DEF C
  <2>5. r.nodes \in [0..(cap - 1) -> C]
    BY <2>3, <2>4
  <2>6. r.n_nodes \in 0..cap /\ {r.head, r.tail, r.free} \subseteq 0..(cap - 1)
    BY <1>1, <1>3, <1>6, <2>1
  <2> QED  BY <1>1, <1>3, <2>1, <2>5, <2>6 DEF IsList, C
<1>11. r.nodes[0].prev = 0 /\ r.nodes[0].next = 0
  <2>1. l.nodes[0].prev = 0 /\ l.nodes[0].next = 0
    BY DEF Represents
  <2>2. 0 \in 0..(cap - 1) /\ 0 # at
    BY <1>1, <1>6
  <2>3. r.nodes[0] = Cell(l.nodes[0].next, l.nodes[0].prev, l.nodes[0].data)
    BY <1>3, <2>2
  <2> QED  BY <2>1, <2>3 DEF Cell
<1>12. ASSUME NEW i \in 1..(n - 1)
       PROVE  /\ v[i] \in 1..(cap - 1)
              /\ r.nodes[v[i]].prev = v[i - 1] /\ r.nodes[v[i]].next = v[i + 1]
              /\ r.nodes[v[i]].data \in Data
  <2>1. CASE i \in 1..(g - 1)
    <3>1. /\ i \in 0..(g - 1) /\ i - 1 \in 0..(g - 1) /\ i \in 1..n /\ i # g /\ i # g + 1
          /\ v[i] = w[i] /\ v[i - 1] = w[i - 1]
      BY <1>1, <1>8, <2>1
    <3>2. v[i + 1] = IF i = g - 1 THEN q ELSE w[i + 1]
      <4>1. CASE i = g - 1
        <5>1. i + 1 = g /\ g \in g..n
          BY <1>1, <4>1
        <5> QED  BY <1>8, <4>1, <5>1 DEF q
      <4>2. CASE i # g - 1
        <5>1. i + 1 \in 0..(g - 1)
          BY <1>1, <2>1, <4>2
        <5> QED  BY <1>8, <4>2, <5>1
      <4> QED  BY <4>1, <4>2
    <3> QED  BY <1>1, <1>7, <3>1, <3>2
  <2>2. CASE i \in g..(n - 1)
    <3>1. /\ i \in g..n /\ i + 1 \in g..n /\ i + 1 \in 1..n /\ i + 1 # g /\ i + 1 # g - 1
          /\ v[i] = w[i + 1] /\ v[i + 1] = w[(i + 1) + 1] /\ (i + 1) - 1 = i
      BY <1>1, <1>8, <2>2
    <3>2. v[i - 1] = IF i + 1 = g + 1 THEN p ELSE w[i]
      <4>1. CASE i = g
        <5>1. i - 1 \in 0..(g - 1)
          BY <1>1, <4>1
        <5> QED  BY <1>8, <4>1, <5>1 DEF p
      <4>2. CASE i # g
        <5>1. i - 1 \in g..n /\ (i - 1) + 1 = i /\ i + 1 # g + 1
          BY <1>1, <2>2, <4>2
        <5> QED  BY <1>8, <5>1
      <4> QED  BY <4>1, <4>2
    <3> QED  BY <1>1, <1>7, <3>1, <3>2
  <2> QED  BY <1>1, <2>1, <2>2
<1>13. InOrder(r, v)
  <2>1. v[0] = 0 /\ v[n] = 0
    <3>1. 0 \in 0..(g - 1) /\ n \in g..n
      BY <1>1
    <3> QED  BY <1>1, <1>8, <3>1
  <2>2. v[1] = r.head
    <3>1. CASE g = 1
      <4>1. 1 \in g..n
        BY <1>1, <3>1
      <4> QED  BY <1>3, <1>6, <1>8, <3>1, <4>1 DEF q
    <3>2. CASE g # 1
      <4>1. 1 \in 0..(g - 1)
        BY <1>1, <3>2
      <4> QED  BY <1>1, <1>3, <1>6, <1>8, <3>2, <4>1
    <3> QED  BY <3>1, <3>2
  <2>3. v[n - 1] = r.tail
    <3>1. CASE g = n
      <4>1. n - 1 \in 0..(g - 1)
        BY <1>1, <3>1
      <4> QED  BY <1>3, <1>6, <1>8, <3>1, <4>1 DEF p
    <3>2. CASE g # n
      <4>1. n - 1 \in g..n /\ (n - 1) + 1 = n
        BY <1>1, <3>2
      <4> QED  BY <1>1, <1>3, <1>6, <1>8, <3>2, <4>1
    <3> QED  BY <3>1, <3>2
  <2>4. ASSUME NEW i \in 1..(n - 1), NEW j \in 1..(n - 1), v[i] = v[j]
        PROVE  i = j
    <3>1. ASSUME NEW e \in 1..(n - 1)
          PROVE  \/ e < g /\ e \in 1..n /\ v[e] = w[e]
                 \/ e >= g /\ e + 1 \in 1..n /\ v[e] = w[e + 1]
      <4>1. \/ e < g /\ e \in 1..n /\ e \in 0..(g - 1)
            \/ e >= g /\ e + 1 \in 1..n /\ e \in g..n
        BY <1>1
      <4> QED  BY <1>8, <4>1
    <3>2. \A a, b \in 1..n : w[a] = w[b] => a = b
      BY <1>1, <1>5
    <3>3. \/ i < g /\ i \in 1..n /\ v[i] = w[i]
          \/ i >= g /\ i + 1 \in 1..n /\ v[i] = w[i + 1]
      BY <3>1
    <3>4. \/ j < g /\ j \in 1..n /\ v[j] = w[j]
          \/ j >= g /\ j + 1 \in 1..n /\ v[j] = w[j + 1]
      BY <3>1
    <3>5. \/ i = j
          \/ i + 1 = j + 1
          \/ i < g /\ j >= g /\ i = j + 1
          \/ j < g /\ i >= g /\ j = i + 1
      BY <2>4, <3>2, <3>3, <3>4
    <3> QED  BY <1>1, <3>5
  <2>5. (n - 1) + 1 = n
    BY <1>1
  <2> QED  BY <1>3, <1>12, <2>1, <2>2, <2>3, <2>4, <2>5 DEF InOrder
<1>14. Chained(r, d)
  <2>0. /\ k + 2 \in 2..(k + 2) /\ (k + 2) - 1 = k + 1 /\ (k + 1) + 1 = k + 2
        /\ 2 \in 2..(k + 2) /\ 1 + 1 = 2 /\ 2 - 1 = 1
        /\ \A i \in 2..(k + 1) : /\ i \in 2..(k + 2) /\ i + 1 \in 2..(k + 2)
                                 /\ i - 1 \in 1..k /\ (i + 1) - 1 = (i - 1) + 1
        /\ \A i \in 1..(k + 1) : i = 1 \/ i \in 2..(k + 1)
    BY <1>1
  <2>1. d[1] = r.free /\ d[k + 2] = 0
    BY <1>2, <1>3, <1>9, <2>0
  <2>2. ASSUME NEW i \in 1..(k + 1)
        PROVE  /\ d[i] \in 1..(cap - 1)
               /\ r.nodes[d[i]].prev = FREE_PREV /\ r.nodes[d[i]].next = d[i + 1]
    <3>1. CASE i = 1
      <4>1. d[i] = at /\ d[i + 1] = c[1]
        BY <1>9, <2>0, <3>1
      <4> QED  BY <1>2, <1>3, <1>6, <4>1 DEF Cell
    <3>2. CASE i \in 2..(k + 1)
      <4> DEFINE y == c[i - 1]
      <4>1. d[i] = y /\ d[i + 1] = c[(i - 1) + 1]
        BY <1>9, <2>0, <3>2
      <4>2. /\ y \in 1..(cap - 1) /\ y \in 0..(cap - 1) /\ l.nodes[y].prev = FREE_PREV
            /\ l.nodes[y].next = c[(i - 1) + 1] /\ \A j \in 1..n : w[j] # y
        BY <1>1, <1>2, <2>0, <3>2
      <4>3. y # at /\ ~(y # 0 /\ y = p) /\ ~(y # 0 /\ y = q)
        BY <1>1, <1>5, <4>2 DEF at, p, q
      <4> HIDE DEF y
      <4>4. r.nodes[y] = Cell(l.nodes[y].next, l.nodes[y].prev, l.nodes[y].data)
        BY <1>3, <4>2, <4>3
      <4> QED  BY <4>1, <4>2, <4>4 DEF Cell
    <3> QED  BY <2>0, <3>1, <3>2
  <2>3. ASSUME NEW i \in 1..(k + 1), NEW j \in 1..(k + 1), d[i] = d[j]
        PROVE  i = j
    <3>1. \A e \in 2..(k + 1) : d[e] = c[e - 1] /\ e - 1 \in 1..k /\ d[e] # at
      BY <1>1, <1>2, <1>9, <2>0 DEF at
    <3>2. (i = 1 \/ i \in 2..(k + 1)) /\ (j = 1 \/ j \in 2..(k + 1))
      BY <2>0
    <3>3. CASE i \in 2..(k + 1) /\ j \in 2..(k + 1)
      <4>1. i - 1 = j - 1
        BY <1>2, <2>3, <3>1, <3>3
      <4> QED  BY <4>1
    <3> QED  BY <1>9, <2>3, <3>1, <3>2, <3>3
  <2> QED  BY <1>3, <1>4, <2>0, <2>1, <2>2, <2>3 DEF Chained
<1>15. Covered(r, v, d)
  <2> SUFFICES ASSUME NEW y \in 1..(cap - 1)
               PROVE  (\E i \in 1..(n - 1) : v[i] = y) \/ (\E i \in 1..(k + 1) : d[i] = y)
    BY <1>3, <1>4 DEF Covered
  <2>1. (\E i \in 1..n : w[i] = y) \/ (\E i \in 1..k : c[i] = y)
    BY DEF Represents, Covered, n, k, cap
  <2>2. ASSUME NEW i \in 1..k, c[i] = y
        PROVE  \E j \in 1..(k + 1) : d[j] = y
    <3>1. i + 1 \in 2..(k + 2) /\ i + 1 \in 1..(k + 1) /\ (i + 1) - 1 = i
      BY <1>1
    <3>2. d[i + 1] = y
      BY <1>9, <2>2, <3>1
    <3> QED  BY <3>1, <3>2
  <2>3. ASSUME NEW i \in 1..n, w[i] = y
        PROVE  (\E j \in 1..(n - 1) : v[j] = y) \/ (\E j \in 1..(k + 1) : d[j] = y)
    <3>1. CASE i < g
      <4>1. i \in 0..(g - 1) /\ i \in 1..(n - 1)
        BY <1>1, <3>1
      <4> QED  BY <1>8, <2>3, <4>1
    <3>2. CASE i = g
      <4>1. 1 \in 1..(k + 1)
        BY <1>1
      <4> QED  BY <1>9, <2>3, <3>2, <4>1 DEF at
    <3>3. CASE i > g
      <4>1. i - 1 \in g..n /\ i - 1 \in 1..(n - 1) /\ (i - 1) + 1 = i
        BY <1>1, <3>3
      <4>2. v[i - 1] = y
        BY <1>8, <2>3, <4>1
      <4> QED  BY <4>1, <4>2
    <3> QED  BY <1>1, <3>1, <3>2, <3>3
  <2> QED  BY <2>1, <2>2, <2>3
<1>16. Spare(r) \in Nat
  BY <1>1, <1>4
<1>17. Represents(r, v, d)
  BY <1>3, <1>10, <1>11, <1>13, <1>14, <1>15, <1>16 DEF Represents
<1> QED  BY <1>3, <1>7, <1>17 DEF v, n

(* The g-th node is taken out; the others stay in their order.             *)
LEMMA DeleteRepresents ==
    ASSUME NEW l, NEW w, NEW c, Represents(l, w, c), NEW g \in 1..l.n_nodes,
           NEW r, r = list_delete(l, w[g])
    PROVE  \E v, d : /\ Represents(r, v, d) /\ r.n_nodes = l.n_nodes - 1
                     /\ \A i \in 1..(g - 1) : r.nodes[v[i]].data = l.nodes[w[i]].data
                     /\ \A i \in g..(l.n_nodes - 1) :
                           r.nodes[v[i]].data = l.nodes[w[i + 1]].data
<1> DEFINE n == l.n_nodes
           v == Narrowed(w, n, g)
<1>1. Unlinked(l, r, w[g], w[g - 1], w[g + 1])
  BY DeleteUnlinks
<1>2. n \in Nat
  BY OrderFacts
<1>3. PICK d : Represents(r, v, d)
  BY <1>1, UnlinkRepresents
<1>4. /\ r.n_nodes = n - 1
      /\ \A i \in 1..n : i # g => r.nodes[w[i]].data = l.nodes[w[i]].data
  BY <1>1, UnlinkRepresents
<1>5. /\ \A i \in 1..(g - 1) : v[i] = w[i] /\ i \in 1..n /\ i # g
      /\ \A i \in g..(n - 1) : v[i] = w[i + 1] /\ i + 1 \in 1..n /\ i + 1 # g
  <2>1. /\ \A i \in 1..(g - 1) : i \in 0..n /\ i < g /\ i \in 1..n /\ i # g
        /\ \A i \in g..(n - 1) : i \in 0..n /\ ~(i < g) /\ i + 1 \in 1..n /\ i + 1 # g
    BY <1>2
  <2> QED  BY <2>1 DEF Narrowed
<1> HIDE DEF v
<1> QED  BY <1>3, <1>4, <1>5

(* make_linear_list.                                                       *)

CellType(cap) == [next : 0..(cap - 1), prev : FREE_PREV..(cap - 1), data : Data \union {FREE_DATA}]
NodesType(cap) == [0..(cap - 1) -> CellType(cap)]

(* The fields of the cells of an array of cells are in their types,        *)
LEMMA TypedCells ==
    ASSUME NEW cap, NEW nodes \in NodesType(cap)
    PROVE  /\ IsCells(nodes, cap)
           /\ \A y \in 0..(cap - 1) : /\ nodes[y].next \in 0..(cap - 1)
                                      /\ nodes[y].prev \in FREE_PREV..(cap - 1)
                                      /\ nodes[y].data \in Data \union {FREE_DATA}
<1>1. \A z \in CellType(cap) : /\ z = Cell(z.next, z.prev, z.data)
                               /\ z.next \in 0..(cap - 1) /\ z.prev \in FREE_PREV..(cap - 1)
                               /\ z.data \in Data \union {FREE_DATA}
  BY DEF CellType, Cell
<1>2. /\ nodes = [y \in 0..(cap - 1) |-> nodes[y]]
      /\ \A y \in 0..(cap - 1) : nodes[y] \in CellType(cap)
  BY DEF NodesType
<1> QED  BY <1>1, <1>2 DEF IsCells

(* and cells whose fields are in their types make such an array.           *)
LEMMA CellsTyped ==
    ASSUME NEW cap, NEW nodes, IsCells(nodes, cap),
           \A y \in 0..(cap - 1) : /\ nodes[y].next \in 0..(cap - 1)
                                   /\ nodes[y].prev \in FREE_PREV..(cap - 1)
                                   /\ nodes[y].data \in Data \union {FREE_DATA}
    PROVE  nodes \in NodesType(cap)
<1>1. ASSUME NEW y \in 0..(cap - 1)
      PROVE  nodes[y] \in CellType(cap)
  <2>1. nodes[y] = Cell(nodes[y].next, nodes[y].prev, nodes[y].data)
    BY CellAt
  <2> QED  BY <2>1 DEF CellType, Cell
<1>2. nodes = [y \in 0..(cap - 1) |-> nodes[y]]
  BY DEF IsCells
<1> QED  BY <1>1, <1>2 DEF NodesType

(* The neighbours of the node in wr are told that it goes to nd.           *)
Retold(nodes, wr, nd) ==
    LET u == WithNext(nodes, nodes[wr].prev, nd)
    IN  WithPrev(u, u[wr].next, nd)

Swapped(nodes, a, b) == [nodes EXCEPT ![a] = nodes[b], ![b] = nodes[a]]

(* Two cells that are swapped; the others stay.                            *)
LEMMA SwappedCells ==
    ASSUME NEW cap, NEW nodes, IsCells(nodes, cap), NEW a \in 0..(cap - 1), NEW b \in 0..(cap - 1),
           a # b, NEW r, r = Swapped(nodes, a, b)
    PROVE  /\ IsCells(r, cap)
           /\ r[a] = nodes[b] /\ r[b] = nodes[a]
           /\ \A y \in 0..(cap - 1) : y # a /\ y # b => r[y] = nodes[y]
<1>1. /\ r = [y \in 0..(cap - 1) |-> r[y]]
      /\ r[a] = nodes[b] /\ r[b] = nodes[a]
      /\ \A y \in 0..(cap - 1) : y # a /\ y # b => r[y] = nodes[y]
  BY DEF Swapped, IsCells
<1>2. ASSUME NEW y \in 0..(cap - 1)
      PROVE  r[y] = Cell(r[y].next, r[y].prev, r[y].data)
  <2>1. \A z \in 0..(cap - 1) : nodes[z] = Cell(nodes[z].next, nodes[z].prev, nodes[z].data)
    BY CellAt
  <2> QED  BY <1>1, <2>1
<1> QED  BY <1>1, <1>2 DEF IsCells

IsRetold(nodes, cap, nd, p, q, t) ==
    /\ IsCells(t, cap)
    /\ \A y \in 0..(cap - 1) :
          /\ t[y].next = IF y = p THEN nd ELSE nodes[y].next
          /\ t[y].prev = IF y = q THEN nd ELSE nodes[y].prev
          /\ t[y].data = nodes[y].data

(* What telling the neighbours changes: a next and a prev.                 *)
LEMMA RetoldCells ==
    ASSUME NEW cap, NEW nodes \in NodesType(cap), cap \in Nat,
           NEW wr \in 0..(cap - 1), NEW nd \in 0..(cap - 1),
           NEW p \in 0..(cap - 1), NEW q \in 0..(cap - 1),
           p = nodes[wr].prev, q = nodes[wr].next, p # wr,
           NEW t, t = Retold(nodes, wr, nd)
    PROVE  IsRetold(nodes, cap, nd, p, q, t)
<1> DEFINE u == WithNext(nodes, p, nd)
<1>1. IsCells(nodes, cap)
  BY TypedCells
<1>2. /\ IsCells(u, cap) /\ u[p] = Cell(nd, nodes[p].prev, nodes[p].data)
      /\ \A y \in 0..(cap - 1) : y # p => u[y] = nodes[y]
  BY <1>1, SetNext
<1>3. t = WithPrev(u, q, nd)
  <2>1. t = WithPrev(u, u[wr].next, nd)
    BY DEF Retold
  <2> HIDE DEF u
  <2>2. u[wr].next = q
    BY <1>2
  <2> QED  BY <2>1, <2>2
<1> HIDE DEF u
<1>4. /\ IsCells(t, cap) /\ t[q] = Cell(u[q].next, nd, u[q].data)
      /\ \A y \in 0..(cap - 1) : y # q => t[y] = u[y]
  BY <1>2, <1>3, SetPrev
<1>5. ASSUME NEW y \in 0..(cap - 1)
      PROVE  /\ t[y].next = IF y = p THEN nd ELSE nodes[y].next
             /\ t[y].prev = IF y = q THEN nd ELSE nodes[y].prev
             /\ t[y].data = nodes[y].data
  <2>1. /\ u[y].next = IF y = p THEN nd ELSE nodes[y].next
        /\ u[y].prev = nodes[y].prev /\ u[y].data = nodes[y].data
    BY <1>2, CellOf
  <2> QED  BY <1>4, <2>1, CellOf
<1> QED  BY <1>4, <1>5 DEF IsRetold

(* Move is the one or the other, or nothing.                               *)
LEMMA MoveIs ==
    ASSUME NEW nodes, NEW wr, NEW nd
    PROVE  Move(nodes, wr, nd) =
               IF wr = nd THEN nodes
               ELSE IF nodes[wr].prev = FREE_PREV THEN Swapped(nodes, wr, nd)
               ELSE Swapped(Retold(nodes, wr, nd), wr, nd)
<1>1. CASE wr = nd
  BY <1>1 DEF Move
<1>2. CASE wr # nd /\ nodes[wr].prev = FREE_PREV
  BY <1>2 DEF Move, Swapped
<1>3. CASE wr # nd /\ nodes[wr].prev # FREE_PREV
  BY <1>3 DEF Move, Swapped, Retold, WithNext, WithPrev
<1> QED  BY <1>1, <1>2, <1>3

(* While the nodes are gathered: v is the order of the cells of the nodes  *)
(* now, the first j are in place, and nd is the cell of the next one,      *)
(* whose prev may not be right.                                            *)
Gathering(l, w, j, nodes, nd, v) ==
    LET n == l.n_nodes
        cap == l.capacity
    IN  /\ nodes \in NodesType(cap)
        /\ v[0] = 0 /\ v[n + 1] = 0 /\ nd = v[j + 1]
        /\ \A i \in 1..j : v[i] = i
        /\ \A i \in 1..n :
              /\ v[i] \in 1..(cap - 1)
              /\ nodes[v[i]].next = v[i + 1]
              /\ nodes[v[i]].data = l.nodes[w[i]].data
              /\ nodes[v[i]].prev \in 0..(cap - 1)
              /\ i # j + 1 => nodes[v[i]].prev = v[i - 1]
        /\ \A a, b \in 1..n : v[a] = v[b] => a = b
        /\ \A y \in 1..(cap - 1) : (\A i \in 1..n : v[i] # y) => nodes[y].prev = FREE_PREV

(* After the move of the node that belongs in wr, and before the links     *)
(* between it and the one before it are set.                               *)
Moved(l, w, wr, nodes, v) ==
    LET n == l.n_nodes
        cap == l.capacity
    IN  /\ nodes \in NodesType(cap)
        /\ v[0] = 0 /\ v[n + 1] = 0
        /\ \A i \in 1..wr : v[i] = i
        /\ \A i \in 1..n :
              /\ v[i] \in 1..(cap - 1)
              /\ i # wr - 1 => nodes[v[i]].next = v[i + 1]
              /\ nodes[v[i]].data = l.nodes[w[i]].data
              /\ i # wr => nodes[v[i]].prev \in 0..(cap - 1)
              /\ i # wr /\ i # wr + 1 => nodes[v[i]].prev = v[i - 1]
        /\ \A a, b \in 1..n : v[a] = v[b] => a = b
        /\ \A y \in 1..(cap - 1) : (\A i \in 1..n : v[i] # y) => nodes[y].prev = FREE_PREV

(* The node is there already.                                              *)
LEMMA MovedNot ==
    ASSUME NEW l, l.n_nodes \in Nat, l.capacity \in Nat, NEW w,
           NEW j \in 0..(l.n_nodes - 1), NEW nodes, NEW v,
           Gathering(l, w, j, nodes, j + 1, v)
    PROVE  Moved(l, w, j + 1, nodes, v)
<1>1. \A i \in 1..(j + 1) : i = j + 1 \/ i \in 1..j
  OBVIOUS
<1> QED  BY <1>1 DEF Gathering, Moved

(* The cell is free: the node goes there.                                  *)
LEMMA MovedToFree ==
    ASSUME NEW l, l.n_nodes \in Nat, l.capacity \in Nat, NEW w,
           NEW j \in 0..(l.n_nodes - 1), NEW nodes, NEW nd, NEW v,
           Gathering(l, w, j, nodes, nd, v), NEW wr, wr = j + 1, wr # nd,
           wr \in 1..(l.capacity - 1),
           nodes[wr].prev = FREE_PREV,
           NEW r, r = Swapped(nodes, wr, nd)
    PROVE  \E u : Moved(l, w, wr, r, u)
<1> DEFINE n == l.n_nodes
           cap == l.capacity
           u == [i \in 0..(n + 1) |-> IF i = wr THEN wr ELSE v[i]]
<1>1. /\ nodes \in NodesType(cap) /\ v[0] = 0 /\ v[n + 1] = 0 /\ nd = v[wr]
      /\ \A i \in 1..j : v[i] = i
      /\ \A i \in 1..n :
            /\ v[i] \in 1..(cap - 1)
            /\ nodes[v[i]].next = v[i + 1]
            /\ nodes[v[i]].data = l.nodes[w[i]].data
            /\ nodes[v[i]].prev \in 0..(cap - 1)
            /\ i # wr => nodes[v[i]].prev = v[i - 1]
      /\ \A a, b \in 1..n : v[a] = v[b] => a = b
      /\ \A y \in 1..(cap - 1) : (\A i \in 1..n : v[i] # y) => nodes[y].prev = FREE_PREV
  BY DEF Gathering
<1>2. n \in Nat /\ cap \in Nat /\ j \in 0..(n - 1) /\ wr \in 1..n /\ wr = j + 1
  OBVIOUS
<1>3. wr \in 0..(cap - 1) /\ nd \in 0..(cap - 1) /\ nd \in 1..(cap - 1)
  BY <1>1, <1>2
<1>4. IsCells(nodes, cap)
  BY <1>1, TypedCells
<1>5. /\ IsCells(r, cap) /\ r[wr] = nodes[nd] /\ r[nd] = nodes[wr]
      /\ \A y \in 0..(cap - 1) : y # wr /\ y # nd => r[y] = nodes[y]
  BY <1>3, <1>4, SwappedCells
<1>6. r \in NodesType(cap)
  <2>1. \A y \in 0..(cap - 1) : /\ nodes[y].next \in 0..(cap - 1)
                                /\ nodes[y].prev \in FREE_PREV..(cap - 1)
                                /\ nodes[y].data \in Data \union {FREE_DATA}
    BY <1>1, TypedCells
  <2>2. \A y \in 0..(cap - 1) : r[y] = nodes[y] \/ r[y] = nodes[nd] \/ r[y] = nodes[wr]
    BY <1>5
  <2>3. \A y \in 0..(cap - 1) : /\ r[y].next \in 0..(cap - 1)
                                /\ r[y].prev \in FREE_PREV..(cap - 1)
                                /\ r[y].data \in Data \union {FREE_DATA}
    BY <1>3, <2>1, <2>2
  <2> QED  BY <1>5, <2>3, CellsTyped
<1>7. \A i \in 1..n : v[i] # wr
  BY <1>1, <1>2 DEF FREE_PREV
<1>8. u[wr] = wr /\ \A i \in 0..(n + 1) : i # wr => u[i] = v[i]
  BY <1>2
<1> HIDE DEF u
<1>9. u[0] = 0 /\ u[n + 1] = 0 /\ \A i \in 1..wr : u[i] = i
  <2>1. /\ 0 \in 0..(n + 1) /\ n + 1 \in 0..(n + 1) /\ 0 # wr /\ n + 1 # wr
        /\ \A i \in 1..wr : i = wr \/ (i \in 1..j /\ i \in 0..(n + 1) /\ i # wr)
    BY <1>2
  <2> QED  BY <1>1, <1>8, <2>1
<1>10. ASSUME NEW i \in 1..n
       PROVE  /\ u[i] \in 1..(cap - 1)
              /\ i # wr - 1 => r[u[i]].next = u[i + 1]
              /\ r[u[i]].data = l.nodes[w[i]].data
              /\ i # wr => r[u[i]].prev \in 0..(cap - 1)
              /\ i # wr /\ i # wr + 1 => r[u[i]].prev = u[i - 1]
  <2>1. /\ i \in 0..(n + 1) /\ i + 1 \in 0..(n + 1) /\ i - 1 \in 0..(n + 1)
        /\ i # wr - 1 => i + 1 # wr
        /\ i # wr + 1 => i - 1 # wr
    BY <1>2
  <2>2. CASE i = wr
    <3>1. u[i] = wr /\ r[u[i]] = nodes[v[i]] /\ u[i + 1] = v[i + 1]
      BY <1>1, <1>2, <1>5, <1>8, <2>1, <2>2
    <3> QED  BY <1>1, <1>2, <2>2, <3>1
  <2>3. CASE i # wr
    <3>1. v[i] # wr /\ v[i] # nd /\ v[i] \in 0..(cap - 1)
      BY <1>1, <1>2, <1>7, <2>3
    <3>2. u[i] = v[i] /\ r[u[i]] = nodes[v[i]]
      BY <1>5, <1>8, <2>1, <2>3, <3>1
    <3>3. (i # wr - 1 => u[i + 1] = v[i + 1]) /\ (i # wr + 1 => u[i - 1] = v[i - 1])
      BY <1>8, <2>1
    <3> QED  BY <1>1, <2>3, <3>2, <3>3
  <2> QED  BY <2>2, <2>3
<1>11. ASSUME NEW a \in 1..n, NEW b \in 1..n, u[a] = u[b]
       PROVE  a = b
  <2>1. a \in 0..(n + 1) /\ b \in 0..(n + 1)
    BY <1>2
  <2> QED  BY <1>1, <1>7, <1>8, <1>11, <2>1
<1>12. ASSUME NEW y \in 1..(cap - 1), \A i \in 1..n : u[i] # y
       PROVE  r[y].prev = FREE_PREV
  <2>1. y # wr /\ y \in 0..(cap - 1)
    BY <1>2, <1>8, <1>12
  <2>2. CASE y = nd
    BY <1>5, <2>2
  <2>3. CASE y # nd
    <3>1. \A i \in 1..n : v[i] # y
      <4>1. \A i \in 1..n : i \in 0..(n + 1)
        BY <1>2
      <4> QED  BY <1>1, <1>8, <1>12, <2>3, <4>1
    <3> QED  BY <1>1, <1>5, <2>1, <2>3, <3>1
  <2> QED  BY <2>2, <2>3
<1>13. Moved(l, w, wr, r, u)
  BY <1>6, <1>9, <1>10, <1>11, <1>12 DEF Moved
<1> QED  BY <1>13

(* The cell is a later node's: the two change places.                      *)
LEMMA MovedBySwap ==
    ASSUME NEW l, l.n_nodes \in Nat, l.capacity \in Nat, NEW w,
           NEW j \in 0..(l.n_nodes - 1), NEW nodes, NEW nd, NEW v,
           Gathering(l, w, j, nodes, nd, v), NEW wr, wr = j + 1, wr # nd,
           wr \in 1..(l.capacity - 1),
           nodes[wr].prev # FREE_PREV,
           NEW r, r = Swapped(Retold(nodes, wr, nd), wr, nd)
    PROVE  \E u : Moved(l, w, wr, r, u)
<1> DEFINE n == l.n_nodes
           cap == l.capacity
<1>1. /\ nodes \in NodesType(cap) /\ v[0] = 0 /\ v[n + 1] = 0 /\ nd = v[wr]
      /\ \A i \in 1..j : v[i] = i
      /\ \A i \in 1..n :
            /\ v[i] \in 1..(cap - 1)
            /\ nodes[v[i]].next = v[i + 1]
            /\ nodes[v[i]].data = l.nodes[w[i]].data
            /\ nodes[v[i]].prev \in 0..(cap - 1)
            /\ i # wr => nodes[v[i]].prev = v[i - 1]
      /\ \A a, b \in 1..n : v[a] = v[b] => a = b
      /\ \A y \in 1..(cap - 1) : (\A i \in 1..n : v[i] # y) => nodes[y].prev = FREE_PREV
  BY DEF Gathering
<1>2. n \in Nat /\ cap \in Nat /\ j \in 0..(n - 1) /\ wr \in 1..n /\ wr = j + 1
  OBVIOUS
<1>3. wr \in 0..(cap - 1) /\ nd \in 0..(cap - 1) /\ nd \in 1..(cap - 1)
  BY <1>1, <1>2
<1>4. PICK e \in 1..n : v[e] = wr
  BY <1>1
<1>5. e \in (wr + 1)..n
  <2>1. e \in 1..j \/ e = wr \/ e \in (wr + 1)..n
    BY <1>2
  <2>2. e \notin 1..j
    BY <1>1, <1>2, <1>4
  <2>3. e # wr
    BY <1>1, <1>4
  <2> QED  BY <2>1, <2>2, <2>3
<1>6. /\ \A i \in 0..(n + 1) : v[i] \in 0..(cap - 1)
      /\ \A i \in 1..n : \A k \in 0..(n + 1) : v[i] = v[k] => i = k
  <2>1. \A k \in 0..(n + 1) : k = 0 \/ k = n + 1 \/ k \in 1..n
    BY <1>2
  <2>2. \A i \in 1..n : v[i] # 0 /\ v[i] \in 0..(cap - 1)
    BY <1>1
  <2>3. 0 \in 0..(cap - 1)
    BY <1>2, <1>3
  <2> QED  BY <1>1, <2>1, <2>2, <2>3
<1> DEFINE p == v[e - 1]
           q == v[e + 1]
           t == Retold(nodes, wr, nd)
           u == [i \in 0..(n + 1) |-> IF i = wr THEN wr ELSE IF i = e THEN nd ELSE v[i]]
<1>7. /\ p = nodes[wr].prev /\ q = nodes[wr].next
      /\ p \in 0..(cap - 1) /\ q \in 0..(cap - 1) /\ p # wr /\ q # wr
  <2>1. /\ e # wr /\ e - 1 \in 0..(n + 1) /\ e + 1 \in 0..(n + 1)
        /\ e - 1 # e /\ e + 1 # e
    BY <1>2, <1>5
  <2>2. nodes[v[e]].prev = v[e - 1] /\ nodes[v[e]].next = v[e + 1]
    BY <1>1, <2>1
  <2> QED  BY <1>4, <1>6, <2>1, <2>2
<1>8. /\ \A i \in 1..n : (v[i] = p <=> i = e - 1) /\ (v[i] = q <=> i = e + 1)
      /\ \A i \in 1..n : (v[i] = wr <=> i = e) /\ (v[i] = nd <=> i = wr)
  <2>1. e - 1 \in 0..(n + 1) /\ e + 1 \in 0..(n + 1) /\ e \in 0..(n + 1) /\ wr \in 0..(n + 1)
    BY <1>2, <1>5
  <2> QED  BY <1>1, <1>4, <1>6, <2>1
<1> HIDE DEF p, q
<1>9. /\ IsCells(t, cap)
      /\ \A y \in 0..(cap - 1) : /\ t[y].next = IF y = p THEN nd ELSE nodes[y].next
                                 /\ t[y].prev = IF y = q THEN nd ELSE nodes[y].prev
                                 /\ t[y].data = nodes[y].data
  <2>1. t = Retold(nodes, wr, nd)
    OBVIOUS
  <2>2. /\ nodes \in NodesType(cap) /\ cap \in Nat
        /\ wr \in 0..(cap - 1) /\ nd \in 0..(cap - 1)
        /\ p \in 0..(cap - 1) /\ q \in 0..(cap - 1)
        /\ p = nodes[wr].prev /\ q = nodes[wr].next /\ p # wr
    BY <1>1, <1>2, <1>3, <1>7
  <2> HIDE DEF t, cap, n
  <2>3. IsRetold(nodes, cap, nd, p, q, t)
    BY ONLY <2>1, <2>2, RetoldCells
  <2> QED  BY <2>3 DEF IsRetold
<1> HIDE DEF t
<1>10. /\ IsCells(r, cap) /\ r[wr] = t[nd] /\ r[nd] = t[wr]
       /\ \A y \in 0..(cap - 1) : y # wr /\ y # nd => r[y] = t[y]
  <2>1. r = Swapped(t, wr, nd)
    BY DEF t
  <2>2. wr # nd /\ wr \in 0..(cap - 1) /\ nd \in 0..(cap - 1) /\ IsCells(t, cap)
    BY <1>3, <1>9
  <2> HIDE DEF cap
  <2> QED  BY <2>1, <2>2, SwappedCells
<1>11. r \in NodesType(cap)
  <2>1. \A y \in 0..(cap - 1) : /\ nodes[y].next \in 0..(cap - 1)
                                /\ nodes[y].prev \in FREE_PREV..(cap - 1)
                                /\ nodes[y].data \in Data \union {FREE_DATA}
    BY <1>1, TypedCells
  <2>2. nd \in FREE_PREV..(cap - 1)
    BY <1>2, <1>3 DEF FREE_PREV
  <2>3. \A y \in 0..(cap - 1) : /\ t[y].next \in 0..(cap - 1)
                                /\ t[y].prev \in FREE_PREV..(cap - 1)
                                /\ t[y].data \in Data \union {FREE_DATA}
    BY <1>3, <1>9, <2>1, <2>2
  <2>4. \A y \in 0..(cap - 1) : r[y] = t[y] \/ r[y] = t[nd] \/ r[y] = t[wr]
    BY <1>10
  <2>5. \A y \in 0..(cap - 1) : /\ r[y].next \in 0..(cap - 1)
                                /\ r[y].prev \in FREE_PREV..(cap - 1)
                                /\ r[y].data \in Data \union {FREE_DATA}
    BY <1>3, <2>3, <2>4
  <2> QED  BY <1>10, <2>5, CellsTyped
<1>12. /\ u[wr] = wr /\ u[e] = nd
       /\ \A i \in 0..(n + 1) : i # wr /\ i # e => u[i] = v[i]
  <2>1. wr \in 0..(n + 1) /\ e \in 0..(n + 1) /\ e # wr
    BY <1>2, <1>5
  <2> QED  BY <2>1
<1> HIDE DEF u
<1>13. u[0] = 0 /\ u[n + 1] = 0 /\ \A i \in 1..wr : u[i] = i
  <2>1. /\ 0 \in 0..(n + 1) /\ n + 1 \in 0..(n + 1) /\ 0 # wr /\ n + 1 # wr /\ 0 # e /\ n + 1 # e
        /\ \A i \in 1..wr : i = wr \/ (i \in 1..j /\ i \in 0..(n + 1) /\ i # wr /\ i # e)
    BY <1>2, <1>5
  <2> QED  BY <1>1, <1>12, <2>1
<1>14. ASSUME NEW i \in 1..n
       PROVE  /\ u[i] \in 1..(cap - 1)
              /\ i # wr - 1 => r[u[i]].next = u[i + 1]
              /\ r[u[i]].data = l.nodes[w[i]].data
              /\ i # wr => r[u[i]].prev \in 0..(cap - 1)
              /\ i # wr /\ i # wr + 1 => r[u[i]].prev = u[i - 1]
  <2>1. /\ i \in 0..(n + 1) /\ i + 1 \in 0..(n + 1) /\ i - 1 \in 0..(n + 1)
        /\ i # wr - 1 => i + 1 # wr
        /\ i # wr + 1 => i - 1 # wr
        /\ i + 1 = e <=> i = e - 1
        /\ i - 1 = e <=> i = e + 1
        /\ wr + 1 # wr /\ e # wr /\ e + 1 # e /\ e - 1 # e /\ e + 1 # wr
    BY <1>2, <1>5
  <2>2. /\ i # wr - 1 => u[i + 1] = IF i = e - 1 THEN nd ELSE v[i + 1]
        /\ i # wr + 1 => u[i - 1] = IF i = e + 1 THEN nd ELSE v[i - 1]
    BY <1>12, <2>1
  <2>3. /\ v[i] \in 1..(cap - 1) /\ v[i] \in 0..(cap - 1)
        /\ nodes[v[i]].next = v[i + 1]
        /\ nodes[v[i]].data = l.nodes[w[i]].data
        /\ nodes[v[i]].prev \in 0..(cap - 1)
        /\ i # wr => nodes[v[i]].prev = v[i - 1]
    BY <1>1, <1>6, <2>1
  <2>4. /\ t[v[i]].next = IF i = e - 1 THEN nd ELSE v[i + 1]
        /\ t[v[i]].prev = IF i = e + 1 THEN nd ELSE nodes[v[i]].prev
        /\ t[v[i]].data = l.nodes[w[i]].data
    BY <1>8, <1>9, <2>3
  <2>5. t[v[i]].prev \in 0..(cap - 1)
    BY <1>3, <2>3, <2>4
  <2>6. u[i] \in 1..(cap - 1) /\ r[u[i]] = t[v[i]]
    <3>1. CASE i = wr
      BY <1>1, <1>2, <1>10, <1>12, <3>1
    <3>2. CASE i = e
      BY <1>3, <1>4, <1>10, <1>12, <3>2
    <3>3. CASE i # wr /\ i # e
      <4>1. u[i] = v[i] /\ v[i] # wr /\ v[i] # nd
        BY <1>8, <1>12, <2>1, <3>3
      <4> QED  BY <1>10, <2>3, <4>1
    <3> QED  BY <3>1, <3>2, <3>3
  <2> HIDE DEF n, cap
  <2> QED  BY <2>2, <2>3, <2>4, <2>5, <2>6
<1>15. ASSUME NEW a \in 1..n, NEW b \in 1..n, u[a] = u[b]
       PROVE  a = b
  <2>1. a \in 0..(n + 1) /\ b \in 0..(n + 1)
    BY <1>2
  <2>2. wr \in 1..n /\ e \in 1..n /\ v[e] = wr /\ v[wr] = nd
    BY <1>1, <1>2, <1>4
  <2> QED  BY <1>1, <1>8, <1>12, <1>15, <2>1, <2>2
<1>16. ASSUME NEW y \in 1..(cap - 1), \A i \in 1..n : u[i] # y
       PROVE  r[y].prev = FREE_PREV
  <2>1. y # wr /\ y # nd /\ y \in 0..(cap - 1)
    BY <1>2, <1>4, <1>12, <1>16
  <2>2. \A i \in 1..n : v[i] # y
    <3>1. \A i \in 1..n : i \in 0..(n + 1)
      BY <1>2
    <3> QED  BY <1>1, <1>4, <1>12, <1>16, <2>1, <3>1
  <2>3. y # q
    <3>1. q = 0 \/ \E i \in 1..n : v[i] = q
      <4>1. e + 1 = n + 1 \/ e + 1 \in 1..n
        BY <1>2, <1>5
      <4> QED  BY <1>1, <4>1 DEF q
    <3>2. y # 0
      BY <1>2
    <3> QED  BY <2>2, <3>1, <3>2
  <2>4. r[y].prev = nodes[y].prev
    BY <1>9, <1>10, <2>1, <2>3
  <2> QED  BY <1>1, <2>2, <2>4
<1>17. Moved(l, w, wr, r, u)
  BY <1>11, <1>13, <1>14, <1>15, <1>16 DEF Moved
<1> QED  BY <1>17

(* One round of the loop.                                                  *)
LEMMA GatherIs ==
    ASSUME NEW s, NEW wr, NEW g, g = Gather(s, wr)
    PROVE  /\ g.nodes = WithNext(WithPrev(Move(s.nodes, wr, s.nd), wr, wr - 1), wr - 1, wr)
           /\ g.nd = g.nodes[wr].next
BY DEF Gather, WithNext, WithPrev

(* It puts one more node in place.                                         *)
LEMMA GatherKeeps ==
    ASSUME NEW l, l.n_nodes \in Nat, l.capacity \in Nat, NEW w,
           NEW j \in 0..(l.n_nodes - 1), NEW s, NEW v,
           Gathering(l, w, j, s.nodes, s.nd, v), NEW wr, wr = j + 1,
           wr \in 1..(l.capacity - 1),
           NEW g, g = Gather(s, wr)
    PROVE  \E u : Gathering(l, w, wr, g.nodes, g.nd, u)
<1> DEFINE n == l.n_nodes
           cap == l.capacity
           o == Move(s.nodes, wr, s.nd)
           m == WithPrev(o, wr, wr - 1)
           r == g.nodes
<1>1. r = WithNext(m, wr - 1, wr) /\ g.nd = r[wr].next
  BY GatherIs
<1>2. \E u : Moved(l, w, wr, o, u)
  <2>1. CASE wr = s.nd
    <3>1. o = s.nodes /\ s.nd = j + 1
      BY <2>1, MoveIs
    <3> HIDE DEF o
    <3> QED  BY <3>1, MovedNot
  <2>2. CASE wr # s.nd /\ s.nodes[wr].prev = FREE_PREV
    <3>1. o = Swapped(s.nodes, wr, s.nd)
      BY <2>2, MoveIs
    <3> HIDE DEF o
    <3> QED  BY <2>2, <3>1, MovedToFree
  <2>3. CASE wr # s.nd /\ s.nodes[wr].prev # FREE_PREV
    <3>1. o = Swapped(Retold(s.nodes, wr, s.nd), wr, s.nd)
      BY <2>3, MoveIs
    <3> HIDE DEF o
    <3> QED  BY <2>3, <3>1, MovedBySwap
  <2> QED  BY <2>1, <2>2, <2>3
<1>3. PICK u : Moved(l, w, wr, o, u)
  BY <1>2
<1> HIDE DEF o
<1>4. /\ o \in NodesType(cap)
      /\ u[0] = 0 /\ u[n + 1] = 0
      /\ \A i \in 1..wr : u[i] = i
      /\ \A i \in 1..n :
            /\ u[i] \in 1..(cap - 1)
            /\ i # wr - 1 => o[u[i]].next = u[i + 1]
            /\ o[u[i]].data = l.nodes[w[i]].data
            /\ i # wr => o[u[i]].prev \in 0..(cap - 1)
            /\ i # wr /\ i # wr + 1 => o[u[i]].prev = u[i - 1]
      /\ \A a, b \in 1..n : u[a] = u[b] => a = b
      /\ \A y \in 1..(cap - 1) : (\A i \in 1..n : u[i] # y) => o[y].prev = FREE_PREV
  BY <1>3 DEF Moved
<1>5. /\ n \in Nat /\ cap \in Nat /\ wr \in 1..n /\ wr \in 0..(cap - 1) /\ wr - 1 \in 0..(cap - 1)
      /\ wr - 1 # wr /\ wr \in 1..(cap - 1)
  OBVIOUS
<1>6. IsCells(o, cap)
  BY <1>4, TypedCells
<1>7. /\ IsCells(m, cap) /\ m[wr] = Cell(o[wr].next, wr - 1, o[wr].data)
      /\ \A y \in 0..(cap - 1) : y # wr => m[y] = o[y]
  <2>1. m = WithPrev(o, wr, wr - 1)
    OBVIOUS
  <2> HIDE DEF m, cap
  <2> QED  BY <1>5, <1>6, <2>1, SetPrev
<1> HIDE DEF m
<1>8. /\ IsCells(r, cap) /\ r[wr - 1] = Cell(wr, m[wr - 1].prev, m[wr - 1].data)
      /\ \A y \in 0..(cap - 1) : y # wr - 1 => r[y] = m[y]
  <2> HIDE DEF r, cap
  <2> QED  BY <1>1, <1>5, <1>7, SetNext
<1> HIDE DEF r
<1>9. /\ \A y \in 0..(cap - 1) : /\ r[y].next = IF y = wr - 1 THEN wr ELSE o[y].next
                                 /\ r[y].prev = IF y = wr THEN wr - 1 ELSE o[y].prev
                                 /\ r[y].data = o[y].data
  <2>1. ASSUME NEW y \in 0..(cap - 1)
        PROVE  /\ m[y].next = o[y].next /\ m[y].data = o[y].data
               /\ m[y].prev = IF y = wr THEN wr - 1 ELSE o[y].prev
    BY <1>7, CellOf
  <2>2. ASSUME NEW y \in 0..(cap - 1)
        PROVE  /\ r[y].next = IF y = wr - 1 THEN wr ELSE o[y].next
               /\ r[y].prev = IF y = wr THEN wr - 1 ELSE o[y].prev
               /\ r[y].data = o[y].data
    <3>1. CASE y = wr - 1
      BY <1>5, <1>8, <2>1, <3>1, CellOf
    <3>2. CASE y # wr - 1
      BY <1>8, <2>1, <3>2
    <3> QED  BY <3>1, <3>2
  <2> QED  BY <2>2
<1>10. r \in NodesType(cap)
  <2>1. \A y \in 0..(cap - 1) : /\ o[y].next \in 0..(cap - 1)
                                /\ o[y].prev \in FREE_PREV..(cap - 1)
                                /\ o[y].data \in Data \union {FREE_DATA}
    BY <1>4, TypedCells
  <2>2. wr - 1 \in FREE_PREV..(cap - 1)
    BY <1>5 DEF FREE_PREV
  <2>3. \A y \in 0..(cap - 1) : /\ r[y].next \in 0..(cap - 1)
                                /\ r[y].prev \in FREE_PREV..(cap - 1)
                                /\ r[y].data \in Data \union {FREE_DATA}
    BY <1>5, <1>9, <2>1, <2>2
  <2> QED  BY <1>8, <2>3, CellsTyped
<1>11. g.nd = u[wr + 1]
  <2>1. g.nd = o[wr].next
    BY <1>1, <1>5, <1>9 DEF r
  <2>2. u[wr] = wr /\ wr # wr - 1
    BY <1>4, <1>5
  <2> QED  BY <1>4, <1>5, <2>1, <2>2
<1>12. ASSUME NEW i \in 1..n
       PROVE  /\ u[i] \in 1..(cap - 1)
              /\ r[u[i]].next = u[i + 1]
              /\ r[u[i]].data = l.nodes[w[i]].data
              /\ r[u[i]].prev \in 0..(cap - 1)
              /\ i # wr + 1 => r[u[i]].prev = u[i - 1]
  <2>1. u[i] \in 1..(cap - 1) /\ u[i] \in 0..(cap - 1)
    BY <1>4, <1>5
  <2>2. (u[i] = wr <=> i = wr) /\ (u[i] = wr - 1 <=> i = wr - 1)
    <3>1. u[wr] = wr
      BY <1>4, <1>5
    <3>2. i = wr - 1 => u[i] = wr - 1
      BY <1>4, <1>5
    <3>3. u[i] = wr - 1 => i = wr - 1
      <4>1. SUFFICES ASSUME u[i] = wr - 1
                     PROVE  i = wr - 1
        OBVIOUS
      <4>2. wr - 1 \in 1..wr /\ wr - 1 \in 1..n
        BY <1>5, <2>1, <4>1
      <4> QED  BY <1>4, <4>1, <4>2
    <3> QED  BY <1>4, <1>5, <3>1, <3>2, <3>3
  <2>3. r[u[i]].next = u[i + 1]
    <3>1. CASE i = wr - 1
      <4>1. i + 1 = wr /\ wr \in 1..wr
        BY <1>5, <3>1
      <4> QED  BY <1>4, <1>9, <2>1, <2>2, <3>1, <4>1
    <3>2. CASE i # wr - 1
      BY <1>4, <1>9, <2>1, <2>2, <3>2
    <3> QED  BY <3>1, <3>2
  <2>4. r[u[i]].prev \in 0..(cap - 1) /\ (i # wr + 1 => r[u[i]].prev = u[i - 1])
    <3>1. CASE i = wr
      <4>1. u[wr - 1] = wr - 1
        <5>1. wr - 1 = 0 \/ wr - 1 \in 1..wr
          BY <1>5
        <5> QED  BY <1>4, <5>1
      <4> QED  BY <1>5, <1>9, <2>1, <2>2, <3>1, <4>1
    <3>2. CASE i # wr
      BY <1>4, <1>9, <2>1, <2>2, <3>2
    <3> QED  BY <3>1, <3>2
  <2> QED  BY <1>4, <1>9, <2>1, <2>3, <2>4
<1>13. ASSUME NEW y \in 1..(cap - 1), \A i \in 1..n : u[i] # y
       PROVE  r[y].prev = FREE_PREV
  <2>1. u[wr] = wr /\ y \in 0..(cap - 1)
    BY <1>4, <1>5
  <2>2. y # wr
    BY <1>5, <1>13, <2>1
  <2> QED  BY <1>4, <1>9, <1>13, <2>1, <2>2
<1>14. Gathering(l, w, wr, r, g.nd, u)
  BY <1>4, <1>10, <1>11, <1>12, <1>13 DEF Gathering
<1> QED  BY <1>14 DEF r

(* The rounds of the loop, one after the other.                            *)
LEMMA GatheredIs ==
    ASSUME NEW l, l.n_nodes \in Nat
    PROVE  /\ Gathered(l)[0] = [nodes |-> l.nodes, nd |-> l.head]
           /\ \A k \in 1..l.n_nodes : Gathered(l)[k] = Gather(Gathered(l)[k - 1], k)
<1> DEFINE first == [nodes |-> l.nodes, nd |-> l.head]
           Upto(g, n) == g[0] = first /\ \A k \in 1..n : g[k] = Gather(g[k - 1], k)
           T == {n \in Nat : \E g : Upto(g, n)}
           Eq(h) == h = [k \in 0..l.n_nodes |-> IF k = 0 THEN first ELSE Gather(h[k - 1], k)]
<1> HIDE DEF first
<1>1. 0 \in T
  <2>1. Upto([k \in {0} |-> first], 0)  OBVIOUS
  <2> HIDE DEF Upto
  <2> QED  BY <2>1
<1>2. ASSUME NEW n \in Nat, n \in T
      PROVE  n + 1 \in T
  <2>1. PICK g : Upto(g, n)
    BY <1>2
  <2> DEFINE h == [k \in 0..(n + 1) |-> IF k <= n THEN g[k] ELSE Gather(g[n], n + 1)]
  <2>2. /\ h[0] = g[0] /\ h[n] = g[n] /\ h[n + 1] = Gather(g[n], n + 1)
        /\ \A k \in 1..n : h[k] = g[k] /\ h[k - 1] = g[k - 1]
    OBVIOUS
  <2> HIDE DEF h
  <2>3. ASSUME NEW k \in 1..(n + 1)
        PROVE  h[k] = Gather(h[k - 1], k)
    <3>1. CASE k \in 1..n
      BY <2>1, <2>2, <3>1
    <3>2. CASE k = n + 1
      <4>1. k - 1 = n  BY <3>2
      <4> QED  BY <2>2, <3>2, <4>1
    <3> QED  BY <3>1, <3>2
  <2>4. Upto(h, n + 1)
    BY <2>1, <2>2, <2>3
  <2> HIDE DEF Upto
  <2> QED  BY <2>4
<1>3. l.n_nodes \in T
  <2> HIDE DEF T
  <2> QED  BY <1>1, <1>2, Induction
<1>4. PICK g : Upto(g, l.n_nodes)
  BY <1>3
<1> DEFINE f == [k \in 0..l.n_nodes |-> g[k]]
<1>5. Eq(f)
  <2>1. \A k \in 0..l.n_nodes : f[k] = g[k]
    OBVIOUS
  <2>2. ASSUME NEW k \in 0..l.n_nodes
        PROVE  f[k] = IF k = 0 THEN first ELSE Gather(f[k - 1], k)
    <3>1. CASE k = 0
      BY <1>4, <2>1, <3>1
    <3>2. CASE k # 0
      <4>1. k \in 1..l.n_nodes /\ k - 1 \in 0..l.n_nodes
        BY <3>2
      <4> QED  BY <1>4, <2>1, <3>2, <4>1
    <3> QED  BY <3>1, <3>2
  <2>3. f = [k \in 0..l.n_nodes |-> f[k]]
    OBVIOUS
  <2> HIDE DEF f
  <2> QED  BY <2>2, <2>3
<1> HIDE DEF f
<1>6. Gathered(l) = CHOOSE h : Eq(h)
  BY DEF Gathered, first
<1>7. Eq(Gathered(l))
  <2> HIDE DEF Eq
  <2> QED  BY <1>5, <1>6
<1> DEFINE h == Gathered(l)
<1>8. \A k \in 0..l.n_nodes : h[k] = IF k = 0 THEN first ELSE Gather(h[k - 1], k)
  <2>1. Eq(h)  BY <1>7
  <2> HIDE DEF h
  <2> QED  BY <2>1
<1> HIDE DEF h
<1>9. h[0] = first /\ \A k \in 1..l.n_nodes : h[k] = Gather(h[k - 1], k)
  <2>1. 0 \in 0..l.n_nodes /\ \A k \in 1..l.n_nodes : k \in 0..l.n_nodes /\ k # 0
    OBVIOUS
  <2> QED  BY <1>8, <2>1
<1> QED  BY <1>9 DEF h, first

(* Before the loop no node is in place, and every link is right.           *)
LEMMA GatheringStarts ==
    ASSUME NEW l, NEW w, NEW c, Represents(l, w, c)
    PROVE  Gathering(l, w, 0, l.nodes, l.head, w)
<1> DEFINE n == l.n_nodes
           cap == l.capacity
<1>1. /\ cap \in Nat /\ n \in Nat
      /\ w[0] = 0 /\ w[n + 1] = 0 /\ l.head = w[1]
      /\ \A i \in 1..n : /\ w[i] \in 1..(cap - 1)
                         /\ l.nodes[w[i]].prev = w[i - 1] /\ l.nodes[w[i]].next = w[i + 1]
      /\ \A i \in 1..n : \A k \in 0..(n + 1) : w[i] = w[k] => i = k
      /\ \A i \in 0..(n + 1) : w[i] \in 0..(cap - 1)
  BY OrderFacts
<1>2. l.nodes \in NodesType(cap)
  BY DEF Represents, IsList, NodesType, CellType
<1>3. \A i \in 1..n : i \in 0..(n + 1) /\ i - 1 \in 0..(n + 1)
  BY <1>1
<1>4. ASSUME NEW y \in 1..(cap - 1), \A i \in 1..n : w[i] # y
      PROVE  l.nodes[y].prev = FREE_PREV
  <2>1. PICK i \in 1..Spare(l) : c[i] = y
    BY <1>4 DEF Represents, Covered
  <2> QED  BY <2>1, ChainFacts
<1> QED  BY <1>1, <1>2, <1>3, <1>4 DEF Gathering

(* After it the i-th node is in cell i.                                    *)
LEMMA GatheringEnds ==
    ASSUME NEW l, NEW w, NEW c, Represents(l, w, c)
    PROVE  LET s == Gathered(l)[l.n_nodes]
           IN  /\ s.nodes \in NodesType(l.capacity)
               /\ \A i \in 1..l.n_nodes :
                     /\ s.nodes[i].prev = i - 1
                     /\ s.nodes[i].next = IF i = l.n_nodes THEN 0 ELSE i + 1
                     /\ s.nodes[i].data = l.nodes[w[i]].data
               /\ \A y \in (l.n_nodes + 1)..(l.capacity - 1) : s.nodes[y].prev = FREE_PREV
<1> DEFINE n == l.n_nodes
           cap == l.capacity
           G == Gathered(l)
           T == {k \in Nat : k <= n => \E u : Gathering(l, w, k, G[k].nodes, G[k].nd, u)}
<1>1. cap \in Nat /\ n \in Nat /\ Spare(l) \in Nat /\ cap = n + Spare(l) + 1
  BY OrderFacts
<1>2. G[0] = [nodes |-> l.nodes, nd |-> l.head] /\ \A k \in 1..n : G[k] = Gather(G[k - 1], k)
  BY <1>1, GatheredIs
<1> HIDE DEF G
<1>3. 0 \in T
  <2>1. G[0].nodes = l.nodes /\ G[0].nd = l.head
    BY <1>2
  <2>2. Gathering(l, w, 0, G[0].nodes, G[0].nd, w)
    BY <2>1, GatheringStarts
  <2> QED  BY <2>2
<1>4. ASSUME NEW k \in Nat, k \in T
      PROVE  k + 1 \in T
  <2> SUFFICES ASSUME k + 1 <= n
               PROVE  \E u : Gathering(l, w, k + 1, G[k + 1].nodes, G[k + 1].nd, u)
    OBVIOUS
  <2>1. k <= n /\ k \in 0..(n - 1) /\ k + 1 \in 1..(cap - 1) /\ k + 1 \in 1..n /\ (k + 1) - 1 = k
    BY <1>1
  <2>2. PICK v : Gathering(l, w, k, G[k].nodes, G[k].nd, v)
    BY <1>4, <2>1
  <2>3. G[k + 1] = Gather(G[k], k + 1)
    BY <1>2, <2>1
  <2> DEFINE wr == k + 1
  <2>4. l.n_nodes \in Nat /\ l.capacity \in Nat /\ k \in 0..(l.n_nodes - 1) /\ wr = k + 1
        /\ wr \in 1..(l.capacity - 1)
    BY <1>1, <2>1
  <2> HIDE DEF wr
  <2>5. G[wr] = Gather(G[k], wr)
    BY <2>3, <2>4
  <2>6. \E u : Gathering(l, w, wr, G[wr].nodes, G[wr].nd, u)
    BY <2>2, <2>4, <2>5, GatherKeeps
  <2> QED  BY <2>6 DEF wr
<1>5. n \in T
  <2> HIDE DEF T
  <2> QED  BY <1>1, <1>3, <1>4, Induction
<1>6. PICK u : Gathering(l, w, n, G[n].nodes, G[n].nd, u)
  BY <1>1, <1>5
<1>7. /\ G[n].nodes \in NodesType(cap)
      /\ u[0] = 0 /\ u[n + 1] = 0
      /\ \A i \in 1..n : u[i] = i
      /\ \A i \in 1..n :
            /\ G[n].nodes[u[i]].next = u[i + 1]
            /\ G[n].nodes[u[i]].data = l.nodes[w[i]].data
            /\ i # n + 1 => G[n].nodes[u[i]].prev = u[i - 1]
      /\ \A y \in 1..(cap - 1) : (\A i \in 1..n : u[i] # y) => G[n].nodes[y].prev = FREE_PREV
  BY <1>6 DEF Gathering
<1>8. ASSUME NEW i \in 1..n
      PROVE  /\ G[n].nodes[i].prev = i - 1
             /\ G[n].nodes[i].next = IF i = n THEN 0 ELSE i + 1
             /\ G[n].nodes[i].data = l.nodes[w[i]].data
  <2>1. u[i - 1] = i - 1
    <3>1. i - 1 = 0 \/ i - 1 \in 1..n
      BY <1>1
    <3> QED  BY <1>7, <3>1
  <2>2. u[i + 1] = IF i = n THEN 0 ELSE i + 1
    <3>1. i = n \/ i + 1 \in 1..n
      BY <1>1
    <3> QED  BY <1>1, <1>7, <3>1
  <2>3. i # n + 1 /\ u[i] = i
    BY <1>1, <1>7
  <2> QED  BY <1>7, <2>1, <2>2, <2>3
<1>9. ASSUME NEW y \in (n + 1)..(cap - 1)
      PROVE  G[n].nodes[y].prev = FREE_PREV
  <2>1. y \in 1..(cap - 1) /\ \A i \in 1..n : i # y
    BY <1>1
  <2>2. \A i \in 1..n : u[i] # y
    BY <1>7, <2>1
  <2> QED  BY <1>7, <2>1, <2>2
<1> QED  BY <1>7, <1>8, <1>9 DEF G

(* The cells the list is left with: the null cell, the nodes, and the      *)
(* chain of the others.                                                    *)
Lined(nodes, n, cap) ==
    [i \in 0..(cap - 1) |->
        IF i = 0 THEN Nil
        ELSE IF i = cap - 1 THEN [nodes[i] EXCEPT !.next = 0]
        ELSE IF i >= n + 1 THEN [nodes[i] EXCEPT !.next = i + 1]
        ELSE nodes[i]]

AreLined(nodes, n, cap, r) ==
    /\ IsCells(r, cap) /\ r[0] = Cell(0, 0, FREE_DATA)
    /\ \A i \in 1..n : r[i] = nodes[i]
    /\ \A i \in (n + 1)..(cap - 1) :
          r[i] = Cell(IF i = cap - 1 THEN 0 ELSE i + 1, nodes[i].prev, nodes[i].data)

(* What that makes of each cell.                                           *)
LEMMA LinedCells ==
    ASSUME NEW n \in Nat, NEW cap \in Nat, n < cap - 1, NEW nodes \in NodesType(cap),
           NEW r, r = Lined(nodes, n, cap)
    PROVE  AreLined(nodes, n, cap, r)
<1>1. IsCells(nodes, cap)
  BY TypedCells
<1>2. /\ r = [i \in 0..(cap - 1) |-> r[i]] /\ r[0] = Nil
      /\ \A i \in 1..n : r[i] = nodes[i]
      /\ \A i \in (n + 1)..(cap - 1) :
            r[i] = IF i = cap - 1 THEN [nodes[i] EXCEPT !.next = 0] ELSE [nodes[i] EXCEPT !.next = i + 1]
  <2>1. /\ 0 \in 0..(cap - 1)
        /\ \A i \in 1..n : i \in 0..(cap - 1) /\ i # 0 /\ i # cap - 1 /\ ~(i >= n + 1)
        /\ \A i \in (n + 1)..(cap - 1) : i \in 0..(cap - 1) /\ i # 0 /\ i >= n + 1
    OBVIOUS
  <2>2. r = [i \in 0..(cap - 1) |-> r[i]]
    BY DEF Lined
  <2>3. \A i \in 0..(cap - 1) : r[i] = IF i = 0 THEN Nil
                                ELSE IF i = cap - 1 THEN [nodes[i] EXCEPT !.next = 0]
                                ELSE IF i >= n + 1 THEN [nodes[i] EXCEPT !.next = i + 1]
                                ELSE nodes[i]
    BY DEF Lined
  <2> QED  BY <2>1, <2>2, <2>3
<1>3. ASSUME NEW i \in (n + 1)..(cap - 1)
      PROVE  r[i] = Cell(IF i = cap - 1 THEN 0 ELSE i + 1, nodes[i].prev, nodes[i].data)
  <2>1. i \in 0..(cap - 1)
    OBVIOUS
  <2>2. nodes[i] = Cell(nodes[i].next, nodes[i].prev, nodes[i].data)
    BY <1>1, <2>1, CellAt
  <2>3. r[i] = IF i = cap - 1 THEN [nodes[i] EXCEPT !.next = 0] ELSE [nodes[i] EXCEPT !.next = i + 1]
    BY <1>2
  <2> QED  BY <2>2, <2>3 DEF Cell
<1>4. r[0] = Cell(0, 0, FREE_DATA)
  BY <1>2 DEF Nil
<1>5. ASSUME NEW i \in 0..(cap - 1)
      PROVE  r[i] = Cell(r[i].next, r[i].prev, r[i].data)
  <2>1. CASE i = 0
    BY <1>4, <2>1, CellOf
  <2>2. CASE i \in 1..n
    <3>1. r[i] = nodes[i]
      BY <1>2, <2>2
    <3>2. nodes[i] = Cell(nodes[i].next, nodes[i].prev, nodes[i].data)
      BY <1>1, CellAt
    <3> QED  BY <3>1, <3>2
  <2>3. CASE i \in (n + 1)..(cap - 1)
    <3> DEFINE a == IF i = cap - 1 THEN 0 ELSE i + 1
    <3>1. r[i] = Cell(a, nodes[i].prev, nodes[i].data)
      BY <1>3, <2>3
    <3> HIDE DEF a
    <3> QED  BY <3>1, CellOf
  <2> QED  BY <2>1, <2>2, <2>3
<1>6. IsCells(r, cap)
  BY <1>2, <1>5 DEF IsCells
<1> QED  BY <1>2, <1>3, <1>4, <1>6 DEF AreLined

(* The fields of the list make_linear_list returns.                        *)
LEMMA LinearFields ==
    ASSUME NEW l, IsHeader(l), l.linear = 0, NEW r, r = make_linear_list(l)
    PROVE  /\ IsHeader(r) /\ r.capacity = l.capacity /\ r.n_nodes = l.n_nodes /\ r.linear = 1
           /\ r.free = l.n_nodes + 1 /\ r.tail = l.n_nodes /\ r.head = 1
           /\ r.nodes = Lined(Gathered(l)[l.n_nodes].nodes, l.n_nodes, l.capacity)
<1> DEFINE N == Lined(Gathered(l)[l.n_nodes].nodes, l.n_nodes, l.capacity)
<1>1. r = [l EXCEPT !.free = l.n_nodes + 1, !.tail = l.n_nodes, !.head = 1, !.linear = 1,
                    !.nodes = N]
  BY DEF make_linear_list, Lined
<1> HIDE DEF N
<1>2. /\ IsHeader(r) /\ r.capacity = l.capacity /\ r.n_nodes = l.n_nodes /\ r.linear = 1
      /\ r.free = l.n_nodes + 1 /\ r.tail = l.n_nodes /\ r.head = 1 /\ r.nodes = N
  BY <1>1 DEF IsHeader
<1> QED  BY <1>2 DEF N

(* make_linear_list makes logical index = physical index, and keeps the    *)
(* items and their order.                                                  *)
LEMMA LinearRepresents ==
    ASSUME NEW l, NEW w, NEW c, Represents(l, w, c), l.linear = 0, Partial(l),
           NEW r, r = make_linear_list(l)
    PROVE  \E u, d : /\ Represents(r, u, d) /\ r.n_nodes = l.n_nodes /\ Straight(r, u)
                     /\ \A i \in 1..l.n_nodes : u[i] = i /\ r.nodes[u[i]].data = l.nodes[w[i]].data
<1> DEFINE n == l.n_nodes
           k == Spare(l)
           cap == l.capacity
           s == Gathered(l)[l.n_nodes].nodes
           u == [i \in 0..(n + 1) |-> IF i = n + 1 THEN 0 ELSE i]
           d == [i \in 1..(k + 1) |-> IF i = k + 1 THEN 0 ELSE n + i]
<1>1. cap \in Nat /\ n \in Nat /\ k \in Nat /\ cap = n + k + 1
  BY OrderFacts
<1>2. n > 0 /\ n < cap - 1
  BY DEF Partial
<1>3. /\ IsHeader(r) /\ r.capacity = cap /\ r.n_nodes = n /\ r.linear = 1
      /\ r.free = n + 1 /\ r.tail = n /\ r.head = 1 /\ r.nodes = Lined(s, n, cap)
  BY LinearFields DEF Represents
<1>4. /\ s \in NodesType(cap)
      /\ \A i \in 1..n :
            /\ s[i].prev = i - 1
            /\ s[i].next = IF i = n THEN 0 ELSE i + 1
            /\ s[i].data = l.nodes[w[i]].data
      /\ \A y \in (n + 1)..(cap - 1) : s[y].prev = FREE_PREV
  BY GatheringEnds
<1> HIDE DEF s
<1> DEFINE N == r.nodes
<1>5. /\ IsCells(N, cap) /\ N[0] = Cell(0, 0, FREE_DATA)
      /\ \A i \in 1..n : N[i] = s[i]
      /\ \A i \in (n + 1)..(cap - 1) :
            N[i] = Cell(IF i = cap - 1 THEN 0 ELSE i + 1, s[i].prev, s[i].data)
  <2>1. N = Lined(s, n, cap)
    BY <1>3
  <2> HIDE DEF N, n, cap
  <2>2. AreLined(s, n, cap, N)
    BY <1>1, <1>2, <1>4, <2>1, LinedCells
  <2> QED  BY <2>2 DEF AreLined
<1>6. N[0].next = 0 /\ N[0].prev = 0 /\ N[0].data = FREE_DATA
  BY <1>5, CellOf
<1>7. ASSUME NEW i \in (n + 1)..(cap - 1)
      PROVE  /\ N[i].next = IF i = cap - 1 THEN 0 ELSE i + 1
             /\ N[i].prev = FREE_PREV /\ N[i].data = s[i].data
  <2> DEFINE a == IF i = cap - 1 THEN 0 ELSE i + 1
  <2>1. N[i] = Cell(a, s[i].prev, s[i].data)
    BY <1>5
  <2> HIDE DEF a, N
  <2>2. N[i].next = a /\ N[i].prev = s[i].prev /\ N[i].data = s[i].data
    BY <2>1, CellOf
  <2> QED  BY <1>4, <2>2 DEF a
<1>8. k > 0 /\ Spare(r) = k /\ n + 1 \in 0..(cap - 1) /\ 1 \in 0..(cap - 1) /\ n \in 0..(cap - 1)
      /\ n \in 0..cap
  BY <1>1, <1>2, <1>3 DEF Spare
<1>9. N \in NodesType(cap)
  <2>1. \A y \in 0..(cap - 1) : /\ s[y].next \in 0..(cap - 1)
                                /\ s[y].prev \in FREE_PREV..(cap - 1)
                                /\ s[y].data \in Data \union {FREE_DATA}
    BY <1>4, TypedCells
  <2>2. ASSUME NEW y \in 0..(cap - 1)
        PROVE  /\ N[y].next \in 0..(cap - 1)
               /\ N[y].prev \in FREE_PREV..(cap - 1)
               /\ N[y].data \in Data \union {FREE_DATA}
    <3>1. CASE y = 0
      BY <1>1, <1>2, <1>6, <3>1 DEF FREE_PREV
    <3>2. CASE y \in 1..n
      BY <1>5, <2>1, <3>2
    <3>3. CASE y \in (n + 1)..(cap - 1)
      <4>1. (IF y = cap - 1 THEN 0 ELSE y + 1) \in 0..(cap - 1)
        BY <1>1
      <4>2. FREE_PREV \in FREE_PREV..(cap - 1)
        BY <1>1 DEF FREE_PREV
      <4> HIDE DEF N
      <4> QED  BY <1>7, <2>1, <3>3, <4>1, <4>2
    <3> QED  BY <1>1, <3>1, <3>2, <3>3
  <2> HIDE DEF N
  <2> QED  BY <1>5, <2>2, CellsTyped
<1>10. IsList(r)
  BY <1>1, <1>3, <1>8, <1>9 DEF IsList, NodesType, CellType
<1>11. u[0] = 0 /\ u[n + 1] = 0 /\ \A i \in 1..n : u[i] = i
  BY <1>1
<1>12. d[k + 1] = 0 /\ \A i \in 1..k : d[i] = n + i
  BY <1>1
<1> HIDE DEF u, d
<1>13. \A i \in 1..n : /\ u[i] \in 1..(cap - 1)
                       /\ N[u[i]].prev = u[i - 1] /\ N[u[i]].next = u[i + 1]
                       /\ N[u[i]].data \in Data
                       /\ N[u[i]].data = l.nodes[w[i]].data
  <2> SUFFICES ASSUME NEW i \in 1..n
               PROVE  /\ u[i] \in 1..(cap - 1)
                      /\ N[u[i]].prev = u[i - 1] /\ N[u[i]].next = u[i + 1]
                      /\ N[u[i]].data \in Data
                      /\ N[u[i]].data = l.nodes[w[i]].data
    OBVIOUS
  <2>1. N[i].prev = i - 1 /\ N[i].next = (IF i = n THEN 0 ELSE i + 1)
        /\ N[i].data = l.nodes[w[i]].data
    BY <1>4, <1>5
  <2>2. l.nodes[w[i]].data \in Data
    BY OrderFacts
  <2>3. u[i - 1] = i - 1
    <3>1. i - 1 = 0 \/ i - 1 \in 1..n
      BY <1>1
    <3> QED  BY <1>11, <3>1
  <2>4. u[i + 1] = IF i = n THEN 0 ELSE i + 1
    <3>1. i = n \/ i + 1 \in 1..n
      BY <1>1
    <3> QED  BY <1>1, <1>11, <3>1
  <2>5. u[i] = i /\ i \in 1..(cap - 1)
    BY <1>1, <1>11
  <2> HIDE DEF N
  <2> QED  BY <2>1, <2>2, <2>3, <2>4, <2>5
<1>14. InOrder(r, u)
  <2>1. r.head = u[1] /\ r.tail = u[n]
    BY <1>1, <1>2, <1>3, <1>11
  <2>2. \A i, j \in 1..n : u[i] = u[j] => i = j
    BY <1>11
  <2> QED  BY <1>3, <1>11, <1>13, <2>1, <2>2 DEF InOrder
<1>15. \A i \in 1..k : /\ d[i] \in 1..(cap - 1) /\ N[d[i]].prev = FREE_PREV
                       /\ N[d[i]].next = d[i + 1]
  <2> SUFFICES ASSUME NEW i \in 1..k
               PROVE  /\ d[i] \in 1..(cap - 1) /\ N[d[i]].prev = FREE_PREV
                      /\ N[d[i]].next = d[i + 1]
    OBVIOUS
  <2>1. d[i] = n + i /\ n + i \in (n + 1)..(cap - 1) /\ n + i \in 1..(cap - 1)
        /\ (n + i = cap - 1 <=> i = k)
    BY <1>1, <1>12
  <2>2. d[i + 1] = IF i = k THEN 0 ELSE (n + i) + 1
    <3>1. i = k \/ i + 1 \in 1..k
      BY <1>1
    <3> QED  BY <1>1, <1>12, <3>1
  <2> HIDE DEF N
  <2> QED  BY <1>7, <2>1, <2>2
<1>16. Chained(r, d)
  <2>1. r.free = d[1]
    <3>1. 1 \in 1..k
      BY <1>1, <1>8
    <3> QED  BY <1>3, <1>12, <3>1
  <2>2. \A i, j \in 1..k : d[i] = d[j] => i = j
    BY <1>1, <1>12
  <2> QED  BY <1>3, <1>8, <1>12, <1>15, <2>1, <2>2 DEF Chained
<1>17. Covered(r, u, d)
  <2> SUFFICES ASSUME NEW x \in 1..(cap - 1)
               PROVE  (\E i \in 1..n : u[i] = x) \/ (\E i \in 1..k : d[i] = x)
    BY <1>3, <1>8 DEF Covered
  <2>1. CASE x \in 1..n
    BY <1>11, <2>1
  <2>2. CASE x \notin 1..n
    <3>1. x - n \in 1..k /\ n + (x - n) = x
      BY <1>1, <2>2
    <3> QED  BY <1>12, <3>1
  <2> QED  BY <2>1, <2>2
<1>18. Represents(r, u, d)
  BY <1>1, <1>3, <1>6, <1>8, <1>10, <1>14, <1>16, <1>17 DEF Represents
<1>19. Straight(r, u)
  <2>1. \A i \in 1..n : u[i] = i
    BY <1>11
  <2>2. \A y \in (n + 1)..(cap - 2) : y \in (n + 1)..(cap - 1) /\ y # cap - 1
    BY <1>1
  <2>3. \A y \in (n + 1)..(cap - 2) : N[y].next = y + 1
    BY <1>7, <2>2
  <2> QED  BY <1>3, <2>1, <2>3 DEF Straight
<1> QED  BY <1>3, <1>11, <1>13, <1>18, <1>19

(* The steps of the specification.                                         *)

Held(l)    == \E w, c : Represents(l, w, c)
Ordered(l) == \E w, c : Represents(l, w, c) /\ Straight(l, w)

(* A list that is held is as verify_list wants it.                         *)
LEMMA HeldWell ==
    ASSUME NEW l, Held(l)
    PROVE  IsList(l) /\ IsWellFormed(l) /\ l.n_nodes \in Nat
BY RepresentsWell, OrderFacts DEF Held, Represents

(* construct_list makes an empty list.                                     *)
LEMMA ConstructRepresents ==
    ASSUME NEW cap \in Nat \ {0}
    PROVE  \E w, d : Represents(construct_list(cap), w, d) /\ construct_list(cap).n_nodes = 0
<1> DEFINE b == [nodes |-> [i \in {0} |-> Nil], capacity |-> 1, head |-> 0, tail |-> 0,
                 free |-> 0, n_nodes |-> 0, linear |-> 0]
           w == [i \in 0..1 |-> 0]
           c == [i \in 1..1 |-> 0]
<1>1. /\ b.capacity = 1 /\ b.head = 0 /\ b.tail = 0 /\ b.free = 0 /\ b.n_nodes = 0
      /\ b.linear = 0 /\ b.nodes = [i \in {0} |-> Nil] /\ b.nodes[0] = Nil /\ IsHeader(b)
  BY DEF IsHeader
<1>2. w[0] = 0 /\ w[1] = 0 /\ c[1] = 0
  OBVIOUS
<1>3. construct_list(cap) = realloc_list(b, cap + 1)
  BY DEF construct_list
<1> HIDE DEF b, w, c
<1>4. Spare(b) = 0 /\ b.nodes[0].prev = 0 /\ b.nodes[0].next = 0
  BY <1>1 DEF Spare, Nil, Cell
<1>5. IsList(b)
  <2>1. 0..(1 - 1) = {0} /\ 0 \in FREE_PREV..(1 - 1)
    BY DEF FREE_PREV
  <2>2. Nil \in [next : 0..(1 - 1), prev : FREE_PREV..(1 - 1), data : Data \union {FREE_DATA}]
    BY <2>1 DEF Nil, Cell
  <2>3. b.nodes \in [0..(1 - 1) -> [next : 0..(1 - 1), prev : FREE_PREV..(1 - 1),
                                    data : Data \union {FREE_DATA}]]
    BY <1>1, <2>1, <2>2
  <2> QED  BY <1>1, <2>3 DEF IsList
<1>6. InOrder(b, w)
  BY <1>1, <1>2 DEF InOrder
<1>7. Chained(b, c)
  BY <1>1, <1>2, <1>4 DEF Chained
<1>8. Covered(b, w, c)
  BY <1>1 DEF Covered
<1>9. Represents(b, w, c)
  BY <1>1, <1>4, <1>5, <1>6, <1>7, <1>8 DEF Represents
<1> DEFINE new == cap + 1
<1>10. new \in Nat /\ new > b.capacity
  BY <1>1
<1>11. construct_list(cap) = realloc_list(b, new)
  BY <1>3
<1> HIDE DEF new
<1>12. \E d : Represents(realloc_list(b, new), w, d) /\ realloc_list(b, new).n_nodes = b.n_nodes
  BY <1>1, <1>9, <1>10, GrowRepresents
<1> QED  BY <1>1, <1>11, <1>12

LEMMA ConstructLinear ==
    ASSUME NEW cap
    PROVE  construct_list(cap).linear = 0
BY DEF construct_list, realloc_list

(* The items of a list are those of its nodes in their order.              *)
LEMMA ContentsIs ==
    ASSUME NEW l, NEW w, NEW c, Represents(l, w, c)
    PROVE  /\ Contents(l) = [i \in 1..l.n_nodes |-> l.nodes[w[i]].data]
           /\ Contents(l) \in Seq(Data) /\ Len(Contents(l)) = l.n_nodes
           /\ l.n_nodes \in Nat
<1> DEFINE n == l.n_nodes
           s == [i \in 1..n |-> l.nodes[w[i]].data]
<1>1. n \in Nat /\ \A i \in 1..n : l.nodes[w[i]].data \in Data
  BY OrderFacts
<1>2. Walk(l) = [i \in 1..n |-> w[i]]
  BY <1>1, WalkIs DEF Represents
<1>3. Contents(l) = s
  <2>1. \A i \in 1..n : Walk(l)[i] = w[i]
    BY <1>2
  <2> QED  BY <2>1 DEF Contents
<1>4. s \in [1..n -> Data]
  BY <1>1
<1> HIDE DEF s
<1>5. s \in Seq(Data) /\ Len(s) = n
  BY <1>1, <1>4
<1> QED  BY <1>1, <1>3, <1>5 DEF s

(* A sequence with one item more at a place, and the others around it, is  *)
(* what InsertAt returns;                                                  *)
LEMMA InsertAtIs ==
    ASSUME NEW s \in Seq(Data), NEW g \in 0..Len(s), NEW x \in Data, NEW t \in Seq(Data),
           Len(t) = Len(s) + 1, t[g + 1] = x,
           \A i \in 1..g : t[i] = s[i],
           \A i \in (g + 1)..Len(s) : t[i + 1] = s[i]
    PROVE  t = InsertAt(s, g + 1, x)
<1> DEFINE n == Len(s)
           p == SubSeq(s, 1, g)
           q == SubSeq(s, g + 1, n)
<1>1. n \in Nat /\ \A i \in 1..n : s[i] \in Data
  BY ElementOfSeq
<1>2. p \in Seq(Data) /\ Len(p) = g /\ \A i \in 1..g : p[i] = s[i]
  <2>1. \A i \in 1..g : s[i] \in Data
    BY <1>1
  <2> QED  BY <1>1, <2>1, SubSeqProperties
<1>3. q \in Seq(Data) /\ Len(q) = n - g /\ \A i \in 1..(n - g) : q[i] = s[g + i]
  <2>1. \A i \in (g + 1)..n : s[i] \in Data
    BY <1>1
  <2>2. /\ q \in Seq(Data) /\ Len(q) = IF g + 1 <= n THEN n - (g + 1) + 1 ELSE 0
        /\ \A i \in 1..(n - (g + 1) + 1) : q[i] = s[(g + 1) + i - 1]
    BY <1>1, <2>1, SubSeqProperties
  <2>3. \A i \in 1..(n - g) : i \in 1..(n - (g + 1) + 1) /\ (g + 1) + i - 1 = g + i
    BY <1>1
  <2> QED  BY <1>1, <2>2, <2>3
<1>4. InsertAt(s, g + 1, x) = (p \o <<x>>) \o q
  <2>1. (g + 1) - 1 = g
    OBVIOUS
  <2> QED  BY <2>1 DEF InsertAt
<1> HIDE DEF p, q
<1> DEFINE o == p \o <<x>>
<1>5. <<x>> \in Seq(Data) /\ Len(<<x>>) = 1 /\ <<x>>[1] = x
  OBVIOUS
<1>6. o \in Seq(Data) /\ Len(o) = g + 1 /\ o[g + 1] = x /\ \A i \in 1..g : o[i] = s[i]
  <2>1. /\ o \in Seq(Data) /\ Len(o) = g + 1
        /\ \A i \in 1..(g + 1) : o[i] = IF i <= g THEN p[i] ELSE <<x>>[i - g]
    BY <1>2, <1>5, ConcatProperties
  <2>2. g + 1 \in 1..(g + 1) /\ (g + 1) - g = 1 /\ ~(g + 1 <= g)
        /\ \A i \in 1..g : i \in 1..(g + 1) /\ i <= g
    OBVIOUS
  <2> HIDE DEF o
  <2> QED  BY <1>2, <1>5, <2>1, <2>2
<1> HIDE DEF o
<1> DEFINE r == o \o q
<1>7. /\ r \in Seq(Data) /\ Len(r) = n + 1
      /\ \A i \in 1..(n + 1) : r[i] = IF i <= g + 1 THEN o[i] ELSE q[i - (g + 1)]
  <2>1. Len(o) + Len(q) = n + 1
    BY <1>1, <1>3, <1>6
  <2>2. /\ r \in Seq(Data) /\ Len(r) = Len(o) + Len(q)
        /\ \A i \in 1..(Len(o) + Len(q)) : r[i] = IF i <= Len(o) THEN o[i] ELSE q[i - Len(o)]
    BY <1>3, <1>6, ConcatProperties
  <2> HIDE DEF r
  <2> QED  BY <1>3, <1>6, <2>1, <2>2
<1> HIDE DEF r
<1>8. ASSUME NEW i \in 1..(n + 1)
      PROVE  t[i] = r[i]
  <2>1. CASE i \in 1..g
    BY <1>6, <1>7, <2>1
  <2>2. CASE i = g + 1
    BY <1>6, <1>7, <2>2
  <2>3. CASE i \in (g + 2)..(n + 1)
    <3>1. /\ i - 1 \in (g + 1)..n /\ (i - 1) + 1 = i /\ ~(i <= g + 1)
          /\ i - (g + 1) \in 1..(n - g) /\ g + (i - (g + 1)) = i - 1
      BY <1>1, <2>3
    <3>2. q[i - (g + 1)] = s[i - 1] /\ t[(i - 1) + 1] = s[i - 1]
      BY <1>3, <3>1
    <3> QED  BY <1>7, <3>1, <3>2
  <2> QED  BY <1>1, <2>1, <2>2, <2>3
<1>9. t = r
  BY <1>1, <1>7, <1>8, SeqEqual
<1> QED  BY <1>4, <1>9 DEF r, o

(* and one without the item at a place is what RemoveAt returns.           *)
LEMMA RemoveAtIs ==
    ASSUME NEW s \in Seq(Data), NEW g \in 1..Len(s), NEW t \in Seq(Data),
           Len(t) = Len(s) - 1,
           \A i \in 1..(g - 1) : t[i] = s[i],
           \A i \in g..(Len(s) - 1) : t[i] = s[i + 1]
    PROVE  t = RemoveAt(s, g)
<1> DEFINE n == Len(s)
           p == SubSeq(s, 1, g - 1)
           q == SubSeq(s, g + 1, n)
<1>1. n \in Nat /\ \A i \in 1..n : s[i] \in Data
  BY ElementOfSeq
<1>2. p \in Seq(Data) /\ Len(p) = g - 1 /\ \A i \in 1..(g - 1) : p[i] = s[i]
  <2>1. \A i \in 1..(g - 1) : s[i] \in Data
    BY <1>1
  <2>2. /\ p \in Seq(Data) /\ Len(p) = IF 1 <= g - 1 THEN (g - 1) - 1 + 1 ELSE 0
        /\ \A i \in 1..((g - 1) - 1 + 1) : p[i] = s[1 + i - 1]
    BY <1>1, <2>1, SubSeqProperties
  <2>3. \A i \in 1..(g - 1) : i \in 1..((g - 1) - 1 + 1) /\ 1 + i - 1 = i
    BY <1>1
  <2> QED  BY <1>1, <2>2, <2>3
<1>3. q \in Seq(Data) /\ Len(q) = n - g /\ \A i \in 1..(n - g) : q[i] = s[g + i]
  <2>1. \A i \in (g + 1)..n : s[i] \in Data
    BY <1>1
  <2>2. /\ q \in Seq(Data) /\ Len(q) = IF g + 1 <= n THEN n - (g + 1) + 1 ELSE 0
        /\ \A i \in 1..(n - (g + 1) + 1) : q[i] = s[(g + 1) + i - 1]
    BY <1>1, <2>1, SubSeqProperties
  <2>3. \A i \in 1..(n - g) : i \in 1..(n - (g + 1) + 1) /\ (g + 1) + i - 1 = g + i
    BY <1>1
  <2> QED  BY <1>1, <2>2, <2>3
<1>4. RemoveAt(s, g) = p \o q
  BY DEF RemoveAt
<1> HIDE DEF p, q
<1> DEFINE r == p \o q
<1>5. /\ r \in Seq(Data) /\ Len(r) = n - 1
      /\ \A i \in 1..(n - 1) : r[i] = IF i <= g - 1 THEN p[i] ELSE q[i - (g - 1)]
  <2>1. Len(p) + Len(q) = n - 1
    BY <1>1, <1>2, <1>3
  <2>2. /\ r \in Seq(Data) /\ Len(r) = Len(p) + Len(q)
        /\ \A i \in 1..(Len(p) + Len(q)) : r[i] = IF i <= Len(p) THEN p[i] ELSE q[i - Len(p)]
    BY <1>2, <1>3, ConcatProperties
  <2> HIDE DEF r
  <2> QED  BY <1>2, <1>3, <2>1, <2>2
<1> HIDE DEF r
<1>6. ASSUME NEW i \in 1..(n - 1)
      PROVE  t[i] = r[i]
  <2>1. CASE i \in 1..(g - 1)
    <3>1. i <= g - 1 /\ p[i] = s[i] /\ t[i] = s[i]
      BY <1>2, <2>1
    <3> QED  BY <1>5, <3>1
  <2>2. CASE i \in g..(n - 1)
    <3>1. ~(i <= g - 1) /\ i - (g - 1) \in 1..(n - g) /\ g + (i - (g - 1)) = i + 1
      BY <1>1, <2>2
    <3>2. q[i - (g - 1)] = s[i + 1] /\ t[i] = s[i + 1]
      BY <1>3, <2>2, <3>1
    <3> QED  BY <1>5, <3>1, <3>2
  <2> QED  BY <1>1, <2>1, <2>2
<1>7. t = r
  BY <1>1, <1>5, <1>6, SeqEqual
<1> QED  BY <1>4, <1>7 DEF r

(* An insertion inserts into the sequence of items.                        *)
LEMMA InsertStep ==
    ASSUME NEW l, NEW w, NEW c, Represents(l, w, c), NEW g \in 0..l.n_nodes, NEW x \in Data,
           NEW r, Puts(l, w, g, x, r)
    PROVE  Held(r) /\ Contents(r) = InsertAt(Contents(l), g + 1, x)
<1> DEFINE n == l.n_nodes
           s == Contents(l)
           t == Contents(r)
<1>1. PICK v, d : /\ Represents(r, v, d) /\ r.n_nodes = n + 1
                  /\ \A i \in 1..g : r.nodes[v[i]].data = l.nodes[w[i]].data
                  /\ r.nodes[v[g + 1]].data = x
                  /\ \A i \in (g + 1)..n : r.nodes[v[i + 1]].data = l.nodes[w[i]].data
  BY InsertRepresents
<1>2. /\ s = [i \in 1..n |-> l.nodes[w[i]].data] /\ s \in Seq(Data) /\ Len(s) = n /\ n \in Nat
  BY ContentsIs
<1>3. /\ t = [i \in 1..r.n_nodes |-> r.nodes[v[i]].data] /\ t \in Seq(Data) /\ Len(t) = r.n_nodes
  <2>1. Represents(r, v, d)
    BY <1>1
  <2> QED  BY ONLY <2>1, ContentsIs
<1>4. /\ \A i \in 1..n : s[i] = l.nodes[w[i]].data
      /\ \A i \in 1..(n + 1) : t[i] = r.nodes[v[i]].data
  BY <1>1, <1>2, <1>3
<1>5. /\ g \in 0..n /\ g + 1 \in 1..(n + 1)
      /\ \A i \in 1..g : i \in 1..n /\ i \in 1..(n + 1)
      /\ \A i \in (g + 1)..n : i \in 1..n /\ i + 1 \in 1..(n + 1)
  BY <1>2
<1> HIDE DEF s, t
<1>6. t[g + 1] = x
  BY <1>1, <1>4, <1>5
<1>7. \A i \in 1..g : t[i] = s[i]
  BY <1>1, <1>4, <1>5
<1>8. \A i \in (g + 1)..n : t[i + 1] = s[i]
  BY <1>1, <1>4, <1>5
<1>9. t = InsertAt(s, g + 1, x)
  <2>1. /\ s \in Seq(Data) /\ t \in Seq(Data) /\ g \in 0..Len(s) /\ Len(t) = Len(s) + 1
        /\ \A i \in (g + 1)..Len(s) : t[i + 1] = s[i]
    BY <1>1, <1>2, <1>3, <1>5, <1>8
  <2> QED  BY <1>6, <1>7, <2>1, InsertAtIs
<1> QED  BY <1>1, <1>9 DEF Held, s, t

(* list_delete removes from it.                                            *)
LEMMA DeleteStep ==
    ASSUME NEW l, NEW w, NEW c, Represents(l, w, c), NEW g \in 1..l.n_nodes,
           NEW r, r = list_delete(l, w[g])
    PROVE  Held(r) /\ Contents(r) = RemoveAt(Contents(l), g)
<1> DEFINE n == l.n_nodes
           s == Contents(l)
           t == Contents(r)
<1>1. PICK v, d : /\ Represents(r, v, d) /\ r.n_nodes = n - 1
                  /\ \A i \in 1..(g - 1) : r.nodes[v[i]].data = l.nodes[w[i]].data
                  /\ \A i \in g..(n - 1) : r.nodes[v[i]].data = l.nodes[w[i + 1]].data
  BY DeleteRepresents
<1>2. /\ s = [i \in 1..n |-> l.nodes[w[i]].data] /\ s \in Seq(Data) /\ Len(s) = n /\ n \in Nat
  BY ContentsIs
<1>3. /\ t = [i \in 1..r.n_nodes |-> r.nodes[v[i]].data] /\ t \in Seq(Data) /\ Len(t) = r.n_nodes
  <2>1. Represents(r, v, d)
    BY <1>1
  <2> QED  BY ONLY <2>1, ContentsIs
<1>4. /\ \A i \in 1..n : s[i] = l.nodes[w[i]].data
      /\ \A i \in 1..(n - 1) : t[i] = r.nodes[v[i]].data
  BY <1>1, <1>2, <1>3
<1>5. /\ g \in 1..n
      /\ \A i \in 1..(g - 1) : i \in 1..n /\ i \in 1..(n - 1)
      /\ \A i \in g..(n - 1) : i \in 1..(n - 1) /\ i + 1 \in 1..n
  BY <1>2
<1> HIDE DEF s, t
<1>6. \A i \in 1..(g - 1) : t[i] = s[i]
  BY <1>1, <1>4, <1>5
<1>7. \A i \in g..(n - 1) : t[i] = s[i + 1]
  BY <1>1, <1>4, <1>5
<1>8. t = RemoveAt(s, g)
  <2>1. /\ s \in Seq(Data) /\ t \in Seq(Data) /\ g \in 1..Len(s) /\ Len(t) = Len(s) - 1
        /\ \A i \in g..(Len(s) - 1) : t[i] = s[i + 1]
    BY <1>1, <1>2, <1>3, <1>5, <1>7
  <2> QED  BY <1>6, <2>1, RemoveAtIs
<1> QED  BY <1>1, <1>8 DEF Held, s, t

(* make_linear_list leaves it as it is, and puts the i-th node in cell i.  *)
LEMMA LinearStep ==
    ASSUME NEW l, NEW w, NEW c, Represents(l, w, c), l.linear = 0, Partial(l),
           NEW r, r = make_linear_list(l)
    PROVE  Held(r) /\ Contents(r) = Contents(l) /\ Ordered(r)
<1> DEFINE n == l.n_nodes
<1>1. PICK u, d : /\ Represents(r, u, d) /\ r.n_nodes = n /\ Straight(r, u)
                  /\ \A i \in 1..n : u[i] = i /\ r.nodes[u[i]].data = l.nodes[w[i]].data
  BY LinearRepresents
<1>2. Contents(l) = [i \in 1..n |-> l.nodes[w[i]].data] /\ n \in Nat
  BY ContentsIs
<1>3. Contents(r) = [i \in 1..n |-> r.nodes[u[i]].data]
  BY <1>1, ContentsIs
<1> QED  BY <1>1, <1>2, <1>3 DEF Held, Ordered

(* A node put at the end of a list in order goes to the next cell, and the *)
(* list stays in order; neither this nor any other insertion looks at      *)
(* `linear'.                                                               *)
LEMMA InsertOrdered ==
    ASSUME NEW l, NEW w, NEW c, Represents(l, w, c), NEW g \in 0..l.n_nodes, NEW x \in Data,
           NEW r, Puts(l, w, g, x, r)
    PROVE  /\ r.linear = l.linear
           /\ Straight(l, w) /\ g = l.n_nodes => Ordered(r)
<1> DEFINE m == Room(l)
           n == l.n_nodes
           at == m.free
           v == Widened(w, n, g, at)
<1>1. PICK b : /\ Represents(m, w, b) /\ m.free # 0 /\ m.free = Inserted(l) /\ m.n_nodes = n
               /\ m.linear = l.linear
  BY RoomRepresents
<1>2. Spliced(m, r, w[g], w[g + 1], x)
  BY <1>1, PutsSplices
<1>3. /\ r.capacity = m.capacity /\ r.linear = m.linear /\ r.n_nodes = n + 1
      /\ r.free = m.nodes[at].next
  BY <1>1, <1>2 DEF Spliced
<1>4. SUFFICES ASSUME Straight(l, w), g = n
               PROVE  Ordered(r)
  BY <1>1, <1>3
<1>5. PICK d : Represents(r, v, d)
  <2> HIDE DEF m, n
  <2>1. g \in 0..m.n_nodes
    BY <1>1 DEF n
  <2>2. \E d : Represents(r, Widened(w, m.n_nodes, g, m.free), d)
    BY <1>1, <1>2, <2>1, SpliceRepresents
  <2> QED  BY <1>1, <2>2
<1>6. /\ m.capacity \in Nat /\ n \in Nat /\ Spare(m) \in Nat /\ m.capacity = n + Spare(m) + 1
      /\ w[n] \in 0..(m.capacity - 1) /\ w[0] = 0
  <2>1. /\ m.capacity \in Nat /\ m.n_nodes \in Nat /\ Spare(m) \in Nat
        /\ m.capacity = m.n_nodes + Spare(m) + 1 /\ w[0] = 0
        /\ \A i \in 0..(m.n_nodes + 1) : w[i] \in 0..(m.capacity - 1)
    BY <1>1, OrderFacts
  <2> QED  BY <1>1, <2>1
<1>7. Straight(m, w)
  <2>1. CASE l.free # 0
    BY <1>4, <2>1 DEF Room
  <2>2. CASE l.free = 0
    <3>1. m = realloc_list(l, l.capacity * 2) /\ IsHeader(l) /\ at = l.capacity
      BY <1>1, <2>2 DEF Room, Represents, Inserted
    <3>2. l.capacity \in Nat /\ l.capacity = n + 1
      <4>1. l.capacity \in Nat /\ Spare(l) = 0 /\ l.capacity = n + Spare(l) + 1
        BY <2>2, OrderFacts, ChainFacts
      <4> QED  BY <1>6, <4>1
    <3>3. /\ m.capacity = l.capacity * 2
          /\ m.nodes = [i \in 0..(l.capacity * 2 - 1) |->
                 IF i < l.capacity THEN l.nodes[i]
                 ELSE Cell(IF i = l.capacity * 2 - 1 THEN l.free ELSE i + 1, FREE_PREV, FREE_DATA)]
      BY <3>1, ReallocFields
    <3>4. ASSUME NEW y \in (n + 1)..(m.capacity - 2)
          PROVE  m.nodes[y].next = y + 1
      <4>1. /\ y \in 0..(l.capacity * 2 - 1) /\ ~(y < l.capacity) /\ y # l.capacity * 2 - 1
        BY <3>2, <3>3
      <4>2. m.nodes[y] = Cell(y + 1, FREE_PREV, FREE_DATA)
        BY <3>3, <4>1
      <4> QED  BY <4>2, CellOf
    <3> HIDE DEF m
    <3> QED  BY <1>1, <1>4, <3>1, <3>2, <3>4 DEF Straight
  <2> QED  BY <2>1, <2>2
<1>8. at = n + 1 /\ at \in 1..(m.capacity - 1)
  <2>1. at = n + 1
    BY <1>1, <1>7 DEF Straight
  <2>2. Spare(m) # 0
    BY <1>1, ChainFacts
  <2> QED  BY <1>6, <2>1, <2>2
<1>9. m.nodes[at].next = IF at = m.capacity - 1 THEN 0 ELSE at + 1
  <2>1. CASE at = m.capacity - 1
    <3>1. b[1] = at /\ b[Spare(m) + 1] = 0 /\ \A i \in 1..Spare(m) : m.nodes[b[i]].next = b[i + 1]
      BY <1>1, ChainFacts
    <3>2. Spare(m) = 1
      BY <1>6, <1>8, <2>1
    <3> QED  BY <2>1, <3>1, <3>2
  <2>2. CASE at # m.capacity - 1
    <3>1. at \in (n + 1)..(m.capacity - 2)
      BY <1>6, <1>8, <2>2
    <3> QED  BY <1>1, <1>7, <2>2, <3>1 DEF Straight
  <2> QED  BY <2>1, <2>2
<1>10. r.free # 0 => r.free = r.n_nodes + 1
  BY <1>3, <1>6, <1>8, <1>9
<1>11. \A i \in 1..r.n_nodes : v[i] = i
  <2>1. \A i \in 1..(n + 1) : i \in 0..(n + 2) /\ (i <= g => i \in 1..n) /\ (~(i <= g) => i = g + 1)
    BY <1>4, <1>6
  <2>2. \A i \in 1..n : w[i] = i
    BY <1>4 DEF Straight
  <2> QED  BY <1>3, <1>4, <1>8, <2>1, <2>2 DEF Widened
<1>12. ASSUME NEW y \in (r.n_nodes + 1)..(r.capacity - 2)
       PROVE  r.nodes[y].next = y + 1
  <2>1. y \in 0..(m.capacity - 1) /\ y # at /\ y # n /\ y # 0 /\ y \in (n + 1)..(m.capacity - 2)
    BY <1>3, <1>6, <1>8
  <2>2. y # w[g]
    <3>1. n # 0 => w[n] = n
      BY <1>4, <1>6 DEF Straight
    <3> QED  BY <1>4, <1>6, <2>1, <3>1
  <2>3. r.nodes[y] = Cell(m.nodes[y].next, IF y # 0 /\ y = w[g + 1] THEN at ELSE m.nodes[y].prev,
                          m.nodes[y].data)
    BY <1>2, <2>1, <2>2 DEF Spliced
  <2>4. r.nodes[y].next = m.nodes[y].next
    BY <2>3, CellOf
  <2> QED  BY <1>1, <1>7, <2>1, <2>4 DEF Straight
<1> HIDE DEF v
<1>13. Straight(r, v)
  BY <1>10, <1>11, <1>12 DEF Straight
<1> QED  BY <1>5, <1>13 DEF Ordered

(* Taking the last node away leaves it in order as well.                   *)
LEMMA DeleteOrdered ==
    ASSUME NEW l, NEW w, NEW c, Represents(l, w, c), NEW g \in 1..l.n_nodes,
           NEW r, r = list_delete(l, w[g])
    PROVE  /\ r.linear = l.linear
           /\ Straight(l, w) /\ g = l.n_nodes => Ordered(r)
<1> DEFINE n == l.n_nodes
           v == Narrowed(w, n, g)
<1>1. Unlinked(l, r, w[g], w[g - 1], w[g + 1])
  BY DeleteUnlinks
<1>2. /\ r.linear = l.linear /\ r.capacity = l.capacity /\ r.n_nodes = n - 1 /\ r.free = w[g]
      /\ r.nodes[w[g]] = Cell(l.free, FREE_PREV, FREE_DATA)
      /\ \A y \in 0..(l.capacity - 1) :
            y # w[g] => r.nodes[y] = Cell(IF y # 0 /\ y = w[g - 1] THEN w[g + 1] ELSE l.nodes[y].next,
                                          IF y # 0 /\ y = w[g + 1] THEN w[g - 1] ELSE l.nodes[y].prev,
                                          l.nodes[y].data)
  BY <1>1 DEF Unlinked
<1>3. SUFFICES ASSUME Straight(l, w), g = n
               PROVE  Ordered(r)
  BY <1>2
<1>4. PICK d : Represents(r, v, d)
  BY <1>1, UnlinkRepresents
<1>5. /\ l.capacity \in Nat /\ n \in Nat /\ Spare(l) \in Nat /\ l.capacity = n + Spare(l) + 1
      /\ w[0] = 0 /\ n >= 1 /\ (l.free = 0 <=> Spare(l) = 0)
  BY OrderFacts, ChainFacts
<1>6. w[g] = n /\ (n = 1 \/ w[g - 1] = n - 1) /\ (n = 1 => w[g - 1] = 0)
  BY <1>3, <1>5 DEF Straight
<1>7. r.free = r.n_nodes + 1
  BY <1>2, <1>5, <1>6
<1>8. \A i \in 1..r.n_nodes : v[i] = i
  <2>1. \A i \in 1..(n - 1) : i \in 0..n /\ i < g /\ i \in 1..n
    BY <1>3, <1>5
  <2> QED  BY <1>2, <1>3, <2>1 DEF Narrowed, Straight
<1>9. ASSUME NEW y \in (r.n_nodes + 1)..(r.capacity - 2)
      PROVE  r.nodes[y].next = y + 1
  <2>1. y \in n..(l.capacity - 2) /\ y \in 0..(l.capacity - 1)
    BY <1>2, <1>5
  <2>2. CASE y = n
    <3>1. l.free = n + 1
      BY <1>3, <1>5, <2>1, <2>2 DEF Straight
    <3>2. r.nodes[y].next = l.free
      BY <1>2, <1>6, <2>2, CellOf
    <3> QED  BY <2>2, <3>1, <3>2
  <2>3. CASE y # n
    <3>1. y \in (n + 1)..(l.capacity - 2) /\ y # w[g] /\ y # w[g - 1]
      BY <1>5, <1>6, <2>1, <2>3
    <3>2. r.nodes[y] = Cell(l.nodes[y].next, IF y # 0 /\ y = w[g + 1] THEN w[g - 1] ELSE l.nodes[y].prev,
                            l.nodes[y].data)
      BY <1>2, <2>1, <3>1
    <3>3. r.nodes[y].next = l.nodes[y].next
      BY <3>2, CellOf
    <3> QED  BY <1>3, <3>1, <3>3 DEF Straight
  <2> QED  BY <2>2, <2>3
<1> HIDE DEF v
<1>10. Straight(r, v)
  BY <1>7, <1>8, <1>9 DEF Straight
<1> QED  BY <1>4, <1>10 DEF Ordered

(* Each way to insert is an insertion at a place among the nodes.          *)
InsertsAt(w, g, x) ==
    /\ Live /\ g \in 0..lst.n_nodes /\ x \in Data
    /\ Puts(lst, w, g, x, lst') /\ Called("insert", g + 1, x)

(* The position a caller passes is the cell of the node it means, or 0 in  *)
(* an empty list.                                                          *)
LEMMA PlaceOf ==
    ASSUME NEW w, NEW c, Represents(lst, w, c), NEW i \in Indices(lst)
    PROVE  /\ lst.n_nodes = 0 => Position(lst, i) = 0 /\ i = 1
           /\ lst.n_nodes # 0 => Position(lst, i) = w[i] /\ i \in 1..lst.n_nodes
<1>1. lst.n_nodes \in Nat
  BY OrderFacts
<1>2. Walk(lst) = [j \in 1..lst.n_nodes |-> w[j]]
  BY <1>1, WalkIs DEF Represents
<1> QED  BY <1>2 DEF Position, Indices

(* Wherever a caller asks for it, a node is put between two neighbours.    *)
LEMMA EachInserts ==
    ASSUME NEW w, NEW c, Represents(lst, w, c), NEW x \in Data,
           \/ list_insert_front(x) \/ list_insert_back(x)
           \/ \E i \in 1..MaxNodes : InsertAfter(i, x) \/ InsertBefore(i, x)
    PROVE  \E g : InsertsAt(w, g, x)
<1> DEFINE n == lst.n_nodes
<1>1. n \in Nat /\ w[0] = 0 /\ w[n + 1] = 0 /\ lst.head = w[1] /\ lst.tail = w[n]
  BY OrderFacts
<1>2. CASE list_insert_front(x)
  <2>1. lst' = list_insert_before(lst, w[0 + 1], x) /\ Called("insert", 0 + 1, x) /\ Live
    BY <1>1, <1>2 DEF list_insert_front
  <2>2. 0 \in 0..n /\ (0 # n \/ n = 0)
    BY <1>1
  <2> QED  BY <2>1, <2>2 DEF InsertsAt, Puts
<1>3. CASE list_insert_back(x)
  <2>1. lst' = list_insert_after(lst, w[n], x) /\ Called("insert", n + 1, x) /\ Live
    BY <1>1, <1>3 DEF list_insert_back
  <2>2. n \in 0..n /\ (n # 0 \/ n = 0)
    BY <1>1
  <2> QED  BY <2>1, <2>2 DEF InsertsAt, Puts
<1>4. ASSUME NEW i \in 1..MaxNodes, InsertAfter(i, x)
      PROVE  \E g : InsertsAt(w, g, x)
  <2>1. /\ Live /\ i \in Indices(lst) /\ lst' = list_insert_after(lst, Position(lst, i), x)
        /\ Called("insert", IF n = 0 THEN 1 ELSE i + 1, x)
    BY <1>4 DEF InsertAfter
  <2>2. /\ n = 0 => Position(lst, i) = 0 /\ i = 1
        /\ n # 0 => Position(lst, i) = w[i] /\ i \in 1..n
    BY <2>1, PlaceOf
  <2>3. CASE n = 0
    <3>1. /\ lst' = list_insert_after(lst, w[0], x) /\ Called("insert", 0 + 1, x)
          /\ 0 \in 0..n
      BY <1>1, <2>1, <2>2, <2>3
    <3> QED  BY <2>1, <2>3, <3>1 DEF InsertsAt, Puts
  <2>4. CASE n # 0
    <3>1. /\ lst' = list_insert_after(lst, w[i], x) /\ Called("insert", i + 1, x)
          /\ i \in 0..n /\ i # 0
      BY <1>1, <2>1, <2>2, <2>4
    <3> QED  BY <2>1, <3>1 DEF InsertsAt, Puts
  <2> QED  BY <2>3, <2>4
<1>5. ASSUME NEW i \in 1..MaxNodes, InsertBefore(i, x)
      PROVE  \E g : InsertsAt(w, g, x)
  <2>1. /\ Live /\ i \in Indices(lst) /\ lst' = list_insert_before(lst, Position(lst, i), x)
        /\ Called("insert", i, x)
    BY <1>5 DEF InsertBefore
  <2>2. /\ n = 0 => Position(lst, i) = 0 /\ i = 1
        /\ n # 0 => Position(lst, i) = w[i] /\ i \in 1..n
    BY <2>1, PlaceOf
  <2> DEFINE g == i - 1
  <2>3. g \in 0..n /\ g + 1 = i /\ (g # n \/ n = 0) /\ Position(lst, i) = w[g + 1]
    BY <1>1, <2>2
  <2>4. lst' = list_insert_before(lst, w[g + 1], x) /\ Called("insert", g + 1, x)
    BY <2>1, <2>3
  <2> HIDE DEF g
  <2> QED  BY <2>1, <2>3, <2>4 DEF InsertsAt, Puts
<1> QED  BY <1>2, <1>3, <1>4, <1>5

(* The inductive invariant: a live list is its nodes in an order, and a    *)
(* chain of all its other cells; one that `linear' is said of is in order, *)
(* until a node comes or goes elsewhere than at its end.                   *)
ListInv ==
    /\ IsList(other)
    /\ state = "live" => /\ Held(lst)
                         /\ lst.linear = 1 /\ ~stale => Ordered(lst)

(* The second list, made with one item, is a list.                         *)
LEMMA Starts ==
    ASSUME Init
    PROVE  ListInv
<1>1. PICK x \in Data : other = list_insert_after(construct_list(INITIAL_CAP), 0, x)
  BY DEF Init
<1> DEFINE l == construct_list(INITIAL_CAP)
<1>2. PICK w, d : Represents(l, w, d) /\ l.n_nodes = 0
  BY ListAssumption, ConstructRepresents
<1> HIDE DEF l
<1>3. w[0] = 0 /\ 0 \in 0..l.n_nodes
  BY <1>2, OrderFacts
<1>4. Puts(l, w, 0, x, other)
  BY <1>1, <1>2, <1>3 DEF Puts, l
<1>5. Held(other)
  BY <1>2, <1>3, <1>4, InsertStep
<1> QED  BY <1>5, HeldWell DEF ListInv, Init

Inserting == \E x \in Data : \/ list_insert_front(x) \/ list_insert_back(x)
                             \/ \E i \in 1..MaxNodes : InsertAfter(i, x) \/ InsertBefore(i, x)
Ending == MakeLinearAtEdge \/ swap_list \/ destruct_list

(* The kinds of steps.                                                     *)
LEMMA NextIs ==
    ASSUME Next
    PROVE  \/ Inserting \/ (\E i \in 1..MaxNodes : Delete(i)) \/ MakeLinear \/ Ending
           \/ (\E i \in 1..MaxNodes : Lookup(i))
           \/ Construct \/ ConstructFails \/ InsertFails \/ Stopped
BY DEF Next, Inserting, Ending

(* What each kind of step does to a list that is held.                     *)
LEMMA InsertingDoes ==
    ASSUME ListInv, Inserting
    PROVE  /\ state = "live" /\ UNCHANGED <<other, state>> /\ Held(lst')
           /\ lst'.linear = 1 /\ ~stale' => Ordered(lst')
           /\ call'.op = "insert" /\ call'.at \in 1..(Len(Contents(lst)) + 1)
           /\ Contents(lst') = InsertAt(Contents(lst), call'.at, call'.x)
<1>1. PICK x \in Data : \/ list_insert_front(x) \/ list_insert_back(x)
                        \/ \E i \in 1..MaxNodes : InsertAfter(i, x) \/ InsertBefore(i, x)
  BY DEF Inserting
<1>2. state = "live"
  BY <1>1 DEF list_insert_front, list_insert_back, InsertAfter, InsertBefore, Live
<1>3. PICK w, c : Represents(lst, w, c)
  BY <1>2 DEF ListInv, Held
<1>4. PICK g : InsertsAt(w, g, x)
  BY <1>1, <1>3, EachInserts
<1>5. /\ g \in 0..lst.n_nodes /\ Puts(lst, w, g, x, lst') /\ UNCHANGED <<other, state>>
      /\ call' = [op |-> "insert", at |-> g + 1, x |-> x, cell |-> 0]
      /\ stale' = (stale \/ g + 1 # lst.n_nodes + 1)
  BY <1>4 DEF InsertsAt, Live, Called
<1>6. Held(lst') /\ Contents(lst') = InsertAt(Contents(lst), g + 1, x)
  BY <1>3, <1>5, InsertStep
<1>7. Len(Contents(lst)) = lst.n_nodes /\ lst.n_nodes \in Nat
  BY <1>3, ContentsIs
<1>8. call'.op = "insert" /\ call'.at = g + 1 /\ call'.x = x
  BY <1>5
<1>9. g + 1 \in 1..(lst.n_nodes + 1)
  BY <1>5, <1>7
<1>10. ASSUME lst'.linear = 1, ~stale'
       PROVE  Ordered(lst')
  <2>1. lst.linear = 1
    BY <1>3, <1>5, <1>10, InsertOrdered
  <2>2. ~stale /\ g = lst.n_nodes
    <3>1. ~stale /\ g + 1 = lst.n_nodes + 1
      BY <1>5, <1>10, Zenon
    <3> QED  BY <1>5, <1>7, <3>1
  <2>3. PICK u, b : Represents(lst, u, b) /\ Straight(lst, u)
    BY <1>2, <2>1, <2>2 DEF ListInv, Ordered
  <2>4. PICK h : InsertsAt(u, h, x)
    BY <1>1, <2>3, EachInserts
  <2>5. h \in 0..lst.n_nodes /\ Puts(lst, u, h, x, lst') /\ call'.at = h + 1
    BY <2>4 DEF InsertsAt, Called
  <2>6. h = lst.n_nodes
    BY <1>7, <1>8, <2>2, <2>5
  <2> QED  BY <2>3, <2>5, <2>6, InsertOrdered
<1> QED  BY <1>2, <1>5, <1>6, <1>7, <1>8, <1>9, <1>10

(* A deletion.                                                             *)
LEMMA DeletingDoes ==
    ASSUME ListInv, NEW i \in 1..MaxNodes, Delete(i)
    PROVE  /\ state = "live" /\ UNCHANGED <<other, state>> /\ Held(lst')
           /\ lst'.linear = 1 /\ ~stale' => Ordered(lst')
           /\ call'.op = "delete" /\ call'.at \in 1..Len(Contents(lst))
           /\ Contents(lst') = RemoveAt(Contents(lst), call'.at)
<1>1. /\ state = "live" /\ UNCHANGED <<other, state>> /\ i \in 1..lst.n_nodes
      /\ lst' = list_delete(lst, Walk(lst)[i])
      /\ call' = [op |-> "delete", at |-> i, x |-> FREE_DATA, cell |-> 0]
      /\ stale' = (stale \/ i # lst.n_nodes)
  BY DEF Delete, Live, Called
<1>2. PICK w, c : Represents(lst, w, c)
  BY <1>1 DEF ListInv, Held
<1>3. Len(Contents(lst)) = lst.n_nodes /\ lst.n_nodes \in Nat
  BY <1>2, ContentsIs
<1>4. Walk(lst) = [j \in 1..lst.n_nodes |-> w[j]]
  BY <1>2, <1>3, WalkIs DEF Represents
<1>5. lst' = list_delete(lst, w[i])
  BY <1>1, <1>4
<1>6. Held(lst') /\ Contents(lst') = RemoveAt(Contents(lst), i)
  BY <1>1, <1>2, <1>5, DeleteStep
<1>7. call'.op = "delete" /\ call'.at = i
  BY <1>1
<1>8. ASSUME lst'.linear = 1, ~stale'
      PROVE  Ordered(lst')
  <2>1. lst.linear = 1 /\ ~stale /\ i = lst.n_nodes
    <3>1. ~stale /\ i = lst.n_nodes
      BY <1>1, <1>8, Zenon
    <3>2. lst'.linear = lst.linear
      BY <1>1, <1>2, <1>5, DeleteOrdered
    <3> QED  BY <1>8, <3>1, <3>2
  <2>2. PICK u, b : Represents(lst, u, b) /\ Straight(lst, u)
    BY <1>1, <2>1 DEF ListInv, Ordered
  <2>3. Walk(lst) = [j \in 1..lst.n_nodes |-> u[j]]
    BY <1>3, <2>2, WalkIs DEF Represents
  <2>4. lst' = list_delete(lst, u[i])
    BY <1>1, <2>3
  <2> QED  BY <1>1, <2>1, <2>2, <2>4, DeleteOrdered
<1> QED  BY <1>1, <1>3, <1>6, <1>7, <1>8

(* make_linear_list where verify_list accepts what it leaves.              *)
LEMMA LiningDoes ==
    ASSUME ListInv, MakeLinear
    PROVE  /\ state = "live" /\ UNCHANGED <<other, state>> /\ Held(lst')
           /\ lst'.linear = 1 /\ ~stale' => Ordered(lst')
           /\ call'.op \in {"linear", "arrange"} /\ Contents(lst') = Contents(lst)
<1>1. /\ state = "live" /\ UNCHANGED <<other, state>> /\ (lst.linear = 1 \/ Partial(lst))
      /\ lst' = make_linear_list(lst)
      /\ call' = [op |-> IF lst.linear = 1 THEN "linear" ELSE "arrange", at |-> 0, x |-> FREE_DATA,
                  cell |-> 0]
      /\ lst.linear = 1 => stale' = stale
  BY DEF MakeLinear, Live, Called
<1>2. PICK w, c : Represents(lst, w, c)
  BY <1>1 DEF ListInv, Held
<1>3. lst.linear \in {0, 1}
  BY <1>2 DEF Represents, IsList
<1>4. CASE lst.linear = 1
  <2>1. lst' = lst /\ call'.op = "linear"
    BY <1>1, <1>4 DEF make_linear_list
  <2> QED  BY <1>1, <1>2, <1>4, <2>1 DEF Held, ListInv
<1>5. CASE lst.linear = 0
  <2>1. Partial(lst) /\ call'.op = "arrange"
    BY <1>1, <1>5
  <2>2. Held(lst') /\ Contents(lst') = Contents(lst) /\ Ordered(lst')
    BY <1>1, <1>2, <1>5, <2>1, LinearStep
  <2> QED  BY <1>1, <2>1, <2>2
<1> QED  BY <1>3, <1>4, <1>5

(* The steps after which the list is not followed any more.                *)
LEMMA EndingDoes ==
    ASSUME Ending
    PROVE  state = "live" /\ state' # "live" /\ other' = other /\ call'.op = "end"
BY DEF Ending, MakeLinearAtEdge, swap_list, destruct_list, Called

(* A lookup finds the cell of the node, if the list is in order when it is *)
(* said to be.                                                             *)
LEMMA LookingDoes ==
    ASSUME ListInv, NEW i \in 1..MaxNodes, Lookup(i)
    PROVE  /\ state = "live" /\ UNCHANGED <<lst, other, state, stale>> /\ call'.op = "lookup"
           /\ ~stale => call'.cell = Walk(lst)[call'.at]
<1>1. /\ state = "live" /\ UNCHANGED <<lst, other, state, stale>> /\ i \in 1..lst.n_nodes
      /\ call' = [op |-> "lookup", at |-> i, x |-> FREE_DATA, cell |-> get_real_pos(lst, i)]
  BY DEF Lookup, Live
<1>2. ASSUME ~stale, lst.linear = 1
      PROVE  Walk(lst)[i] = i
  <2>1. PICK w, c : Represents(lst, w, c) /\ Straight(lst, w)
    BY <1>1, <1>2 DEF ListInv, Ordered
  <2>2. lst.n_nodes \in Nat
    BY <2>1, OrderFacts
  <2>3. Walk(lst) = [j \in 1..lst.n_nodes |-> w[j]]
    BY <2>1, <2>2, WalkIs DEF Represents
  <2> QED  BY <1>1, <2>1, <2>3 DEF Straight
<1>3. /\ call'.op = "lookup" /\ call'.at = i
      /\ call'.cell = IF lst.linear = 1 THEN i ELSE Walk(lst)[i]
  BY <1>1 DEF get_real_pos
<1> QED  BY <1>1, <1>2, <1>3

(* construct_list.                                                         *)
LEMMA ConstructDoes ==
    ASSUME Construct
    PROVE  /\ lst'.linear = 0
           /\ state = "none" /\ state' = "live" /\ other' = other /\ call'.op = "none"
           /\ Held(lst') /\ Contents(lst') = <<>>
<1>1. /\ state = "none" /\ state' = "live" /\ other' = other /\ call'.op = "none"
      /\ lst' = construct_list(INITIAL_CAP)
  BY DEF Construct, Called
<1>2. PICK w, d : Represents(lst', w, d) /\ lst'.n_nodes = 0
  BY <1>1, ListAssumption, ConstructRepresents
<1>3. Contents(lst') = [i \in 1..0 |-> lst'.nodes[w[i]].data]
  BY <1>2, ContentsIs
<1>4. lst'.linear = 0
  BY <1>1, ConstructLinear
<1> QED  BY <1>1, <1>2, <1>3, <1>4 DEF Held

(* The steps that run out of memory.                                       *)
LEMMA OtherStepsDo ==
    ASSUME ConstructFails \/ InsertFails
    PROVE  /\ UNCHANGED <<other, state, stale>> /\ call'.op = "none"
           /\ state = "live" => UNCHANGED lst
BY DEF ConstructFails, InsertFails, Live, Called

(* Every step keeps the invariant.                                         *)
LEMMA ListInvKept ==
    ASSUME ListInv, [Next]_vars
    PROVE  ListInv'
<1>1. CASE UNCHANGED vars
  <2>1. lst' = lst /\ other' = other /\ state' = state /\ stale' = stale
    BY <1>1 DEF vars
  <2> QED  BY <2>1 DEF ListInv
<1>2. CASE Inserting
  BY <1>2, InsertingDoes DEF ListInv
<1>3. CASE \E i \in 1..MaxNodes : Delete(i)
  BY <1>3, DeletingDoes DEF ListInv
<1>4. CASE MakeLinear
  BY <1>4, LiningDoes DEF ListInv
<1>5. CASE Ending
  BY <1>5, EndingDoes DEF ListInv
<1>6. CASE Construct
  BY <1>6, ConstructDoes DEF ListInv
<1>7. CASE ConstructFails \/ InsertFails
  BY <1>7, OtherStepsDo DEF ListInv
<1>8. CASE Stopped
  BY <1>1, <1>8 DEF Stopped
<1>9. CASE \E i \in 1..MaxNodes : Lookup(i)
  BY <1>9, LookingDoes DEF ListInv
<1> QED  BY <1>1, <1>2, <1>3, <1>4, <1>5, <1>6, <1>7, <1>8, <1>9, NextIs

(* Whatever the calls, at whatever places and however long the list grows, *)
(* every list is as verify_list wants it: each link is a cell of the       *)
(* array, the links in the two directions agree, and every cell is a node  *)
(* or in the free chain, once.                                             *)
THEOREM Safety == Spec => []WellFormed
<1>1. ListInv => WellFormed
  BY HeldWell DEF ListInv, WellFormed
<1> QED  BY <1>1, Starts, ListInvKept, PTL DEF Spec

(* Whatever the calls before, a lookup finds the cell of the node asked    *)
(* for, if nodes only came and went at the end since the list was last     *)
(* rearranged.                                                             *)
THEOREM LookupsAreRight == Spec => LookupsRight
<1>1. ASSUME ListInv, [Next]_vars
      PROVE  [call'.op = "lookup" /\ ~stale => call'.cell = Walk(lst)[call'.at]]_vars
  <2>1. CASE UNCHANGED vars
    BY <2>1
  <2>2. CASE Inserting
    BY <1>1, <2>2, InsertingDoes
  <2>3. CASE \E i \in 1..MaxNodes : Delete(i)
    BY <1>1, <2>3, DeletingDoes
  <2>4. CASE MakeLinear
    BY <1>1, <2>4, LiningDoes
  <2>5. CASE Ending
    BY <2>5, EndingDoes
  <2>6. CASE Construct
    BY <2>6, ConstructDoes
  <2>7. CASE ConstructFails \/ InsertFails
    BY <2>7, OtherStepsDo
  <2>8. CASE Stopped
    BY <2>8 DEF Stopped
  <2>9. CASE \E i \in 1..MaxNodes : Lookup(i)
    BY <1>1, <2>9, LookingDoes
  <2> QED  BY <1>1, <2>1, <2>2, <2>3, <2>4, <2>5, <2>6, <2>7, <2>8, <2>9, NextIs
<1> QED  BY <1>1, Starts, ListInvKept, PTL DEF Spec, LookupsRight

(* Every step is a step of the sequence, or leaves it as it is.            *)
THEOREM Refines == Spec => ImplementsSequence
<1> DEFINE seq == IF state = "live" THEN Contents(lst) ELSE <<>>
<1>1. ASSUME Init
      PROVE  Sequence!AInit
  BY <1>1 DEF Init, Sequence!AInit
<1>2. ASSUME ListInv, [Next]_vars
      PROVE  [Sequence!ANext]_<<seq, call>>
  <2>1. CASE UNCHANGED vars
    <3>1. lst' = lst /\ state' = state /\ call' = call
      BY <2>1 DEF vars
    <3> QED  BY <3>1
  <2>2. CASE Inserting
    <3>1. /\ seq = Contents(lst) /\ seq' = Contents(lst')
          /\ call'.op = "insert" /\ call'.at \in 1..(Len(Contents(lst)) + 1)
          /\ Contents(lst') = InsertAt(Contents(lst), call'.at, call'.x)
      BY <1>2, <2>2, InsertingDoes
    <3> QED  BY <3>1 DEF Sequence!ANext, Sequence!Insert, InsertAt, Sequence!InsertAt
  <2>3. CASE \E i \in 1..MaxNodes : Delete(i)
    <3>1. /\ seq = Contents(lst) /\ seq' = Contents(lst')
          /\ call'.op = "delete" /\ call'.at \in 1..Len(Contents(lst))
          /\ Contents(lst') = RemoveAt(Contents(lst), call'.at)
      BY <1>2, <2>3, DeletingDoes
    <3> QED  BY <3>1 DEF Sequence!ANext, Sequence!Delete, RemoveAt, Sequence!RemoveAt
  <2>4. CASE MakeLinear
    <3>1. seq' = seq /\ call'.op \in {"linear", "arrange"}
      BY <1>2, <2>4, LiningDoes
    <3> QED  BY <3>1 DEF Sequence!ANext, Sequence!Keep
  <2>5. CASE Ending
    <3>1. seq' = <<>> /\ call'.op = "end"
      BY <2>5, EndingDoes
    <3> QED  BY <3>1 DEF Sequence!ANext, Sequence!End
  <2>6. CASE Construct
    <3>1. seq' = seq /\ call'.op = "none"
      BY <2>6, ConstructDoes
    <3> QED  BY <3>1 DEF Sequence!ANext, Sequence!Keep
  <2>7. CASE ConstructFails \/ InsertFails
    <3>1. seq' = seq /\ call'.op = "none"
      BY <2>7, OtherStepsDo
    <3> QED  BY <3>1 DEF Sequence!ANext, Sequence!Keep
  <2>8. CASE Stopped
    BY <2>1, <2>8 DEF Stopped
  <2>9. CASE \E i \in 1..MaxNodes : Lookup(i)
    <3>1. seq' = seq /\ call'.op = "lookup"
      BY <1>2, <2>9, LookingDoes
    <3> QED  BY <3>1 DEF Sequence!ANext, Sequence!Keep
  <2> QED  BY <2>9, <1>2, <2>1, <2>2, <2>3, <2>4, <2>5, <2>6, <2>7, <2>8, NextIs
<1> QED  BY <1>1, <1>2, Starts, ListInvKept, PTL DEF Spec, ImplementsSequence, Sequence!ASpec
====
