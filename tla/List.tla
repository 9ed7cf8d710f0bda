---- MODULE List ----
(***************************************************************************)
(* lib/list.cpp: a doubly linked list kept in one array.  Cell 0 is the    *)
(* null position; free cells are chained through next from `free' and      *)
(* marked by prev = FREE_PREV.  A call returns the list as it leaves it.   *)
(* verify_list, which the DEBUG build runs at the start and end of every   *)
(* operation, is the invariant WellFormed below and not an operation.      *)
(***************************************************************************)
EXTENDS Integers, Sequences, FiniteSets, SequencesExt

CONSTANTS
    Data,           (* the pointers callers keep in a list                  *)
    INITIAL_CAP,    (* 4 in list.h                                          *)
    MaxNodes        (* bound on the nodes of a list                         *)

FREE_DATA == "free"
FREE_PREV == -1

ASSUME DataAssumption  == FREE_DATA \notin Data /\ Data # {}
ASSUME ListAssumption  == INITIAL_CAP \in Nat \ {0} /\ MaxNodes \in Nat

VARIABLES
    lst,     (* the list                                                    *)
    other,   (* a second list, for swap_list                                *)
    state,   (* "none", "live", "shared" (after swap_list), "rejected" (by  *)
             (* the verify_list at the end of make_linear_list), "freed"    *)
    (* auxiliary *)
    call,    (* the last call, at a logical position, and the cell it found *)
    stale    (* a node came or went elsewhere than at the end of the list   *)
             (* since it was last rearranged                                *)

vars == <<lst, other, state, call, stale>>

Cell(next, prev, data) == [next |-> next, prev |-> prev, data |-> data]
Nil == Cell(0, 0, FREE_DATA)

(* Definitions whose name ends in _bug are mutants: the definition after   *)
(* them with a plausible slip.  The specification does not use them.       *)

(* The cells from the old capacity on are chained before the free ones.    *)
realloc_list(l, cap) ==
    [l EXCEPT !.capacity = cap, !.free = l.capacity,
              !.nodes = [i \in 0..(cap - 1) |->
                  IF i < l.capacity THEN l.nodes[i]
                  ELSE Cell(IF i = cap - 1 THEN l.free ELSE i + 1, FREE_PREV, FREE_DATA)]]

construct_list(cap) ==
    realloc_list([nodes |-> [i \in {0} |-> Nil], capacity |-> 1, head |-> 0, tail |-> 0,
                  free |-> 0, n_nodes |-> 0, linear |-> 0], cap + 1)

(* A node between prev and next, in the first free cell.                   *)
list_insert(l, x, next, prev) ==
    LET m  == IF l.free = 0 THEN realloc_list(l, l.capacity * 2) ELSE l
        at == m.free
    IN  [m EXCEPT !.free = m.nodes[at].next, !.nodes[at] = Cell(next, prev, x),
                  !.head = IF prev = 0 THEN at ELSE @,
                  !.tail = IF next = 0 THEN at ELSE @,
                  !.n_nodes = @ + 1]

(* Where list_insert puts it, which the callers return.                    *)
Inserted(l) == IF l.free = 0 THEN l.capacity ELSE l.free

(* Cell pos and its old neighbour are made to point at the new cell.       *)
list_insert_after_bug(l, pos, x) ==
    LET m == list_insert(l, x, l.nodes[pos].next, pos)
    IN  IF pos = 0 THEN m ELSE [m EXCEPT !.nodes[pos].next = Inserted(l)]
list_insert_after(l, pos, x) ==
    LET next == l.nodes[pos].next
        m    == list_insert(l, x, next, pos)
        n    == IF next = 0 THEN m ELSE [m EXCEPT !.nodes[next].prev = Inserted(l)]
    IN  IF pos = 0 THEN m ELSE [n EXCEPT !.nodes[pos].next = Inserted(l)]

list_insert_before(l, pos, x) ==
    LET prev == l.nodes[pos].prev
        m    == list_insert(l, x, pos, prev)
        n    == IF prev = 0 THEN m ELSE [m EXCEPT !.nodes[prev].next = Inserted(l)]
    IN  IF pos = 0 THEN m ELSE [n EXCEPT !.nodes[pos].prev = Inserted(l)]

list_delete_bug(l, pos) ==
    LET c == l.nodes[pos]
        u == IF l.head = pos THEN [l EXCEPT !.head = c.next]
                             ELSE [l EXCEPT !.nodes[c.prev].next = c.next]
        v == IF l.tail = pos THEN u
                             ELSE [u EXCEPT !.nodes[c.next].prev = c.prev]
    IN  [v EXCEPT !.nodes[pos] = Cell(l.free, FREE_PREV, FREE_DATA),
                  !.free = pos, !.n_nodes = @ - 1]
list_delete(l, pos) ==
    LET c == l.nodes[pos]
        u == IF l.head = pos THEN [l EXCEPT !.head = c.next]
                             ELSE [l EXCEPT !.nodes[c.prev].next = c.next]
        v == IF l.tail = pos THEN [u EXCEPT !.tail = c.prev]
                             ELSE [u EXCEPT !.nodes[c.next].prev = c.prev]
    IN  [v EXCEPT !.nodes[pos] = Cell(l.free, FREE_PREV, FREE_DATA),
                  !.free = pos, !.n_nodes = @ - 1]

(* make_linear_list moves the node nd, the next in order, to cell wr,      *)
(* after telling the neighbours of the node in wr where that one goes.     *)
Move_bug(nodes, wr, nd) == [nodes EXCEPT ![wr] = nodes[nd], ![nd] = nodes[wr]]
Move(nodes, wr, nd) ==
    LET c == nodes[wr]
        t == IF c.prev = FREE_PREV THEN nodes
             ELSE LET u == [nodes EXCEPT ![c.prev].next = nd]
                  IN  [u EXCEPT ![u[wr].next].prev = nd]
    IN  IF wr = nd THEN nodes ELSE [t EXCEPT ![wr] = t[nd], ![nd] = t[wr]]

Gather(s, wr) ==
    LET m == [Move(s.nodes, wr, s.nd) EXCEPT ![wr].prev = wr - 1]
        n == [m EXCEPT ![wr - 1].next = wr]
    IN  [nodes |-> n, nd |-> n[wr].next]

(* The nodes and nd after each round of its loop.                          *)
Gathered(l) ==
    LET s[wr \in 0..l.n_nodes] == IF wr = 0 THEN [nodes |-> l.nodes, nd |-> l.head]
                                  ELSE Gather(s[wr - 1], wr)
    IN  s

make_linear_list(l) ==
    IF l.linear = 1 THEN l
    ELSE LET s    == Gathered(l)[l.n_nodes]
             free == l.n_nodes + 1
         IN  [l EXCEPT !.free = free, !.tail = l.n_nodes, !.head = 1, !.linear = 1,
                 !.nodes = [i \in 0..(l.capacity - 1) |->
                     IF i = 0 THEN Nil
                     ELSE IF i = l.capacity - 1 THEN [s.nodes[i] EXCEPT !.next = 0]
                     ELSE IF i >= free THEN [s.nodes[i] EXCEPT !.next = i + 1]
                     ELSE s.nodes[i]]]

(* The first n cells of the chain of links from a cell.                    *)
Follow(nodes, first, n) ==
    LET to[i \in 1..n] == IF i = 1 THEN first ELSE nodes[to[i - 1]].next
    IN  to

(* The cell of the i-th node, by the links.                                *)
Walk(l) == Follow(l.nodes, l.head, l.n_nodes)

(* get_real_pos trusts `linear', which nothing clears, before it walks.    *)
get_real_pos(l, i) == IF l.linear = 1 THEN i ELSE Walk(l)[i]

Called(op, at, x) ==
    /\ call' = [op |-> op, at |-> at, x |-> x, cell |-> 0]
    /\ stale' = CASE op = "arrange" -> FALSE
                  [] op = "insert"  -> stale \/ at # lst.n_nodes + 1
                  [] op = "delete"  -> stale \/ at # lst.n_nodes
                  [] OTHER          -> stale

(* The positions a caller can hold: the nodes'; 0 in an empty list.        *)
Position(l, i) == IF l.n_nodes = 0 THEN 0 ELSE Walk(l)[i]
Indices(l)     == IF l.n_nodes = 0 THEN {1} ELSE 1..l.n_nodes

Unmade == [nodes |-> <<>>, capacity |-> 0, head |-> 0, tail |-> 0, free |-> 0,
           n_nodes |-> 0, linear |-> 0]

Init ==
    /\ lst = Unmade /\ state = "none"
    /\ \E x \in Data : other = list_insert_after(construct_list(INITIAL_CAP), 0, x)
    /\ call = [op |-> "none", at |-> 0, x |-> FREE_DATA, cell |-> 0] /\ stale = FALSE

(* construct_list when there is no memory: the capacity is left at 1.      *)
ConstructFails ==
    /\ state = "none"
    /\ lst' = [Unmade EXCEPT !.capacity = 1]
    /\ Called("none", 0, FREE_DATA) /\ UNCHANGED <<other, state>>

Construct ==
    /\ state = "none"
    /\ lst' = construct_list(INITIAL_CAP) /\ state' = "live"
    /\ Called("none", 0, FREE_DATA) /\ UNCHANGED other

Live == state = "live" /\ UNCHANGED <<other, state>>

InsertAfter(i, x) ==
    /\ Live /\ lst.n_nodes < MaxNodes /\ i \in Indices(lst)
    /\ lst' = list_insert_after(lst, Position(lst, i), x)
    /\ Called("insert", IF lst.n_nodes = 0 THEN 1 ELSE i + 1, x)

InsertBefore(i, x) ==
    /\ Live /\ lst.n_nodes < MaxNodes /\ i \in Indices(lst)
    /\ lst' = list_insert_before(lst, Position(lst, i), x)
    /\ Called("insert", i, x)

list_insert_front(x) ==
    /\ Live /\ lst.n_nodes < MaxNodes
    /\ lst' = list_insert_before(lst, lst.head, x)
    /\ Called("insert", 1, x)

list_insert_back(x) ==
    /\ Live /\ lst.n_nodes < MaxNodes
    /\ lst' = list_insert_after(lst, lst.tail, x)
    /\ Called("insert", lst.n_nodes + 1, x)

(* Any insertion that has to grow the list, when there is no memory.       *)
InsertFails ==
    /\ Live /\ lst.free = 0
    /\ UNCHANGED lst /\ Called("none", 0, FREE_DATA)

Delete(i) ==
    /\ Live /\ i \in 1..lst.n_nodes
    /\ lst' = list_delete(lst, Walk(lst)[i])
    /\ Called("delete", i, FREE_DATA)

Partial(l) == l.n_nodes > 0 /\ l.n_nodes < l.capacity - 1

(* A caller asks for the cell of one of the nodes.                         *)
Lookup(i) ==
    /\ Live /\ i \in 1..lst.n_nodes
    /\ call' = [op |-> "lookup", at |-> i, x |-> FREE_DATA, cell |-> get_real_pos(lst, i)]
    /\ UNCHANGED <<lst, stale>>

MakeLinear ==
    /\ Live /\ (lst.linear = 1 \/ Partial(lst))
    /\ lst' = make_linear_list(lst)
    /\ Called(IF lst.linear = 1 THEN "linear" ELSE "arrange", 0, FREE_DATA)

(* An empty list is left with head = 1, which is free, and a full one with *)
(* free = capacity, which is no cell: verify_list rejects both, and the    *)
(* model follows them no further.                                          *)
MakeLinearAtEdge ==
    /\ state = "live" /\ lst.linear = 0 /\ ~Partial(lst)
    /\ lst' = make_linear_list(lst)
    /\ state' = "rejected" /\ Called("end", 0, FREE_DATA) /\ UNCHANGED other

(* The two headers end up the same and share the cells of the second list; *)
(* the model follows them no further.                                      *)
swap_list ==
    /\ state = "live"
    /\ lst' = other /\ other' = other
    /\ state' = "shared" /\ Called("end", 0, FREE_DATA)

destruct_list ==
    /\ state = "live"
    /\ lst' = [lst EXCEPT !.capacity = 0, !.nodes = <<>>]
    /\ state' = "freed" /\ Called("end", 0, FREE_DATA) /\ UNCHANGED other

Stopped == state \in {"shared", "rejected", "freed"} /\ UNCHANGED vars

Next ==
    \/ Construct \/ ConstructFails \/ InsertFails
    \/ \E x \in Data : list_insert_front(x) \/ list_insert_back(x)
    \/ \E i \in 1..MaxNodes, x \in Data : InsertAfter(i, x) \/ InsertBefore(i, x)
    \/ \E i \in 1..MaxNodes : Delete(i) \/ Lookup(i)
    \/ MakeLinear \/ MakeLinearAtEdge \/ swap_list \/ destruct_list \/ Stopped

Spec == Init /\ [][Next]_vars

IsList(l) ==
    /\ l.capacity \in Nat /\ l.n_nodes \in 0..l.capacity /\ l.linear \in {0, 1}
    /\ l.nodes \in [0..(l.capacity - 1) -> [next : 0..(l.capacity - 1),
                                            prev : FREE_PREV..(l.capacity - 1),
                                            data : Data \union {FREE_DATA}]]
    /\ {l.head, l.tail, l.free} \subseteq 0..(l.capacity - 1)

Free(l) == {i \in 1..(l.capacity - 1) : l.nodes[i].prev = FREE_PREV}
Chain(l) == Follow(l.nodes, l.free, l.capacity - l.n_nodes)

(* What verify_list checks, and what it means to check: every link is a    *)
(* cell of the array, the links from head and back from tail visit each    *)
(* node once, in opposite orders, and the chain from `free' visits each    *)
(* free cell once and ends.                                                *)
IsWellFormed(l) ==
    /\ l.nodes[0].prev = 0 /\ l.nodes[0].next = 0
    /\ l.nodes[l.head].prev = 0 /\ l.nodes[l.tail].next = 0
    /\ \A i \in (1..(l.capacity - 1)) \ Free(l) :
          /\ i = l.head \/ l.nodes[l.nodes[i].prev].next = i
          /\ i = l.tail \/ l.nodes[l.nodes[i].next].prev = i
    /\ {Walk(l)[i] : i \in 1..l.n_nodes} = (1..(l.capacity - 1)) \ Free(l)
    /\ l.n_nodes > 0 => Walk(l)[l.n_nodes] = l.tail
    /\ l.n_nodes + Cardinality(Free(l)) = l.capacity - 1
    /\ {Chain(l)[i] : i \in DOMAIN Chain(l)} = Free(l) \union {0}
WellFormed == IsList(other) /\ (state = "live" => IsList(lst) /\ IsWellFormed(lst))

Contents(l) == [i \in 1..l.n_nodes |-> l.nodes[Walk(l)[i]].data]

(* The cell get_real_pos finds is that of the node asked for, as long as   *)
(* since make_linear_list last rearranged the list nodes came and went at  *)
(* its end only: the list is then in order still, and so are the free      *)
(* cells that the next nodes go to.  ("Makes logical index = physical      *)
(* index", list.cpp l. 62, is not true of any other list that was made     *)
(* linear once: `linear' stays, and make_linear_list returns at l. 71.)    *)
LookupsRight ==
    [][call'.op = "lookup" /\ ~stale => call'.cell = Walk(lst)[call'.at]]_vars

(* Every call does to the sequence of items what its name says, at the     *)
(* place it was given, and make_linear_list does nothing to it.            *)
Sequence == INSTANCE ListSpec WITH
                seq <- IF state = "live" THEN Contents(lst) ELSE <<>>
ImplementsSequence == Sequence!ASpec

====
