---- MODULE Array ----
(* lib/array.cpp: a buffer that grows. An array is what it holds and how     *)
(* many items its buffer has room for (`size` is the length of `data`).      *)
(* Operations that allocate have two results, so they are sets of results.   *)
(* `item_size` is left out: every array of the program is used with items of *)
(* one type, for which validate_size always accepts.                         *)
EXTENDS Integers, Sequences

INIT_CAPACITY == 2

EmptyArray == [capacity |-> 0, data |-> << >>]

(* No array: a pointer that is null because there was no memory. *)
Null == [capacity |-> -1, data |-> << >>]

realloc_array(arr, capacity) ==
    {[arr EXCEPT !.capacity = IF capacity = 0 THEN INIT_CAPACITY ELSE capacity],
     Null}

(* What an array is after room was made for an item, if there was none. *)
Room(arr) ==
    IF Len(arr.data) >= arr.capacity
    THEN realloc_array(arr, arr.capacity * 2) ELSE {arr}

(* array_create with the value its caller stores in the item, array_push     *)
(* with the item. Null: the array is as it was.                              *)
array_create(arr, item) ==
    {IF room = Null THEN Null ELSE [room EXCEPT !.data = Append(@, item)] :
        room \in Room(arr)}
array_push(arr, item) == array_create(arr, item)

(* The buffer, cut to the items it holds. *)
array_extract(arr) ==
    realloc_array(IF arr.capacity = 0
                  THEN [arr EXCEPT !.capacity = INIT_CAPACITY] ELSE arr,
                  Len(arr.data))
====
