---- MODULE Stack ----
(***************************************************************************)
(* lib/stack.cpp: a growing and shrinking array of pointers, as it is      *)
(* built (UNPROTECT defined: no canaries, no hash, no verification).  It   *)
(* holds the symbol tables of the legacy backend and the arena of tree     *)
(* nodes (ast/tree.cpp).  realloc may fail at any call.                    *)
(***************************************************************************)
EXTENDS Integers, Sequences

CONSTANTS
    Items,      (* the pointers callers push                            *)
    POISON,     (* FILL_BYTE in every byte: the value of an unused cell *)
    INIT_CAP,   (* 8 in the code                                        *)
    MaxSize     (* bound on the items pushed                            *)

CAP_FACTOR == 2

ASSUME ItemsAssumption    == POISON \notin Items
ASSUME CapacityAssumption == INIT_CAP \in Nat \ {0, 1} /\ MaxSize \in Nat

VARIABLES items, capacity, size, result

vars == <<items, capacity, size, result>>

Return(item, err) == result' = [item |-> item, err |-> err]
Refused(err)      == Return(POISON, err) /\ UNCHANGED <<items, capacity, size>>

Init ==
    /\ items = <<>> /\ capacity = 0 /\ size = 0
    /\ result = [item |-> POISON, err |-> "none"]

(* The cells up to size are kept, the others filled.                       *)
realloc_stack(cap) == [i \in 1..cap |-> IF i <= size THEN items[i] ELSE POISON]

Constructed == capacity # 0

construct_stack ==
    /\ ~Constructed
    /\ items' = realloc_stack(INIT_CAP)
    /\ capacity' = INIT_CAP /\ size' = 0
    /\ Return(POISON, "none")

construct_stack_fails == ~Constructed /\ Refused("alloc")

(* Definitions whose name ends in _bug are mutants: the definition after   *)
(* them with a plausible slip.  The specification does not use them.       *)
expandable_bug == capacity < size
expandable == capacity = size
shrinkable_bug == capacity \div CAP_FACTOR + 1 >= size /\ capacity > INIT_CAP
shrinkable == capacity \div (CAP_FACTOR * CAP_FACTOR) + 1 >= size /\ capacity > INIT_CAP

push_stack(x) ==
    /\ Constructed /\ size < MaxSize
    /\ capacity' = IF expandable THEN CAP_FACTOR * capacity ELSE capacity
    /\ items' = [realloc_stack(capacity') EXCEPT ![size + 1] = x]
    /\ size' = size + 1
    /\ Return(POISON, "none")

push_stack_fails == Constructed /\ expandable /\ Refused("alloc")

(* What a read of cell i finds; past the end of the array, no item.        *)
Cell(array, i) == IF i \in DOMAIN array THEN array[i] ELSE POISON

(* The array is shrunk before the item is taken from it.                   *)
PopFrom(array) == Return(Cell(array, size), "none") /\ size' = size - 1

pop_stack_bug ==
    /\ Constructed /\ size # 0
    /\ capacity' = IF shrinkable THEN capacity \div CAP_FACTOR ELSE capacity
    /\ items' = realloc_stack(capacity')
    /\ PopFrom(items')
pop_stack ==
    /\ Constructed /\ size # 0
    /\ capacity' = IF shrinkable THEN capacity \div CAP_FACTOR ELSE capacity
    /\ items' = [realloc_stack(capacity') EXCEPT ![size] = POISON]
    /\ PopFrom(realloc_stack(capacity'))
pop_stack_fails == Constructed /\ size # 0 /\ shrinkable /\ Refused("alloc")

(* pop_stack, top_stack, bottom_stack, check_stack and find_stack of an    *)
(* empty stack.                                                            *)
empty_stack == Constructed /\ size = 0 /\ Refused("empty")

Look(i) == Return(items[i], "none") /\ UNCHANGED <<items, capacity, size>>

top_stack    == Constructed /\ size # 0 /\ Look(size)     (* and check_stack *)
bottom_stack == Constructed /\ size # 0 /\ Look(1)

(* The topmost cell that holds x, or null.                                 *)
find_stack(x) ==
    /\ Constructed /\ size # 0
    /\ LET hits == {i \in 1..size : items[i] = x} IN
       IF hits = {} THEN Refused("none")
       ELSE \E i \in hits : (\A j \in hits : j <= i) /\ Look(i)

destruct_stack ==
    /\ items' = <<>> /\ capacity' = 0 /\ size' = 0
    /\ UNCHANGED result

Next ==
    \/ construct_stack \/ construct_stack_fails
    \/ \E x \in Items : push_stack(x) \/ find_stack(x)
    \/ push_stack_fails \/ pop_stack \/ pop_stack_fails \/ empty_stack
    \/ top_stack \/ bottom_stack \/ destruct_stack

Spec == Init /\ [][Next]_vars

(* The types, and size never past the allocated cells.                     *)
TypeOK ==
    /\ capacity \in Nat /\ size \in 0..capacity
    /\ items \in [1..capacity -> Items \union {POISON}]
    /\ result \in [item : Items \union {POISON}, err : {"none", "alloc", "empty"}]

(* The cells below size hold what callers pushed and the cells above it    *)
(* hold POISON: no shrink cuts an item off, no pop leaves one behind.      *)
OnlyItemsBelow == \A i \in 1..capacity : items[i] = POISON <=> i > size

(* A call that changes the capacity leaves the array neither full nor      *)
(* shrinkable, so the next push or pop does not resize it back.            *)
NoThrashing ==
    [][capacity' # capacity /\ capacity' # 0 /\ capacity # 0
         => ~expandable' /\ ~shrinkable']_vars

(* What stack.h promises of the operations, and no more: the cells below   *)
(* size are the sequence of items, and a call that reports an error leaves *)
(* it as it was ("In case of an error, nothing happens to the stk").       *)
Lifo == INSTANCE LifoStack WITH
            made     <- Constructed,
            contents <- SubSeq(items, 1, size)
ImplementsLifo == Lifo!ASpec
====
