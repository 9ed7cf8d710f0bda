---- MODULE LifoStack ----
(***************************************************************************)
(* What include/stack.h promises: a last-in first-out sequence of items    *)
(* whose operations may be refused, and then change nothing.               *)
(***************************************************************************)
EXTENDS Integers, Sequences

CONSTANTS
    Items,      (* what callers push *)
    POISON      (* what an operation with no item to return returns *)

VARIABLES
    made,       (* constructed and not destructed *)
    contents,   (* the items, oldest first        *)
    result      (* what the last call returned    *)

avars == <<made, contents, result>>

Outcome(item, err) == [item |-> item, err |-> err]

AInit == made = FALSE /\ contents = <<>> /\ result = Outcome(POISON, "none")

AConstruct == ~made /\ made' = TRUE /\ contents' = <<>> /\ result' = Outcome(POISON, "none")

APush(x) ==
    /\ made
    /\ contents' = Append(contents, x)
    /\ result' = Outcome(POISON, "none")
    /\ UNCHANGED made

APop ==
    /\ made /\ contents # <<>>
    /\ contents' = SubSeq(contents, 1, Len(contents) - 1)
    /\ result' = Outcome(contents[Len(contents)], "none")
    /\ UNCHANGED made

(* top_stack, check_stack, bottom_stack and find_stack look at an item.    *)
ALook ==
    /\ made /\ contents # <<>>
    /\ \E i \in 1..Len(contents) : result' = Outcome(contents[i], "none")
    /\ UNCHANGED <<made, contents>>

ANotFound ==
    /\ made /\ contents # <<>>
    /\ result' = Outcome(POISON, "none")
    /\ UNCHANGED <<made, contents>>

(* STK_EMPTY_POP: only of an empty stack.                                  *)
ARefuseEmpty ==
    /\ made /\ contents = <<>>
    /\ result' = Outcome(POISON, "empty")
    /\ UNCHANGED <<made, contents>>

(* STK_BAD_ALLOC: memory ran out.                                          *)
ARefuseAlloc ==
    /\ result' = Outcome(POISON, "alloc")
    /\ UNCHANGED <<made, contents>>

ADestruct == made' = FALSE /\ contents' = <<>> /\ UNCHANGED result

ANext ==
    \/ AConstruct \/ \E x \in Items : APush(x)
    \/ APop \/ ALook \/ ANotFound \/ ARefuseEmpty \/ ARefuseAlloc \/ ADestruct

ASpec == AInit /\ [][ANext]_avars
====
