---- MODULE Stack_proofs ----
(***************************************************************************)
(* What Stack guarantees for every set of items, every initial capacity    *)
(* of two or more and every sequence of calls and allocation failures.     *)
(***************************************************************************)
EXTENDS Stack, SequenceTheorems, TLAPS

(* A shrink keeps every cell in use: the new capacity is at least size.    *)
LEMMA ShrinkKeepsItems ==
    ASSUME NEW c \in Nat, NEW s \in Nat, s <= c,
           c \div (CAP_FACTOR * CAP_FACTOR) + 1 >= s, c > INIT_CAP
    PROVE  /\ c \div CAP_FACTOR \in Nat
           /\ s <= c \div CAP_FACTOR
  BY CapacityAssumption DEF CAP_FACTOR

Inv == TypeOK /\ OnlyItemsBelow

(* The capacity a pop leaves.                                              *)
LEMMA PopCapacity ==
    ASSUME TypeOK, pop_stack
    PROVE  /\ capacity' \in Nat /\ size <= capacity'
           /\ size \in Nat \ {0} /\ size' \in Nat /\ size' = size - 1
  <1>1. size \in Nat \ {0} /\ capacity \in Nat /\ size <= capacity
    BY DEF TypeOK, pop_stack
  <1>2. CASE shrinkable
    BY <1>1, <1>2, ShrinkKeepsItems DEF pop_stack, PopFrom, shrinkable
  <1>3. CASE ~shrinkable
    BY <1>1, <1>3 DEF pop_stack, PopFrom
  <1> QED BY <1>2, <1>3

(* The call replaced the cells by cells that satisfy the invariant.        *)
LEMMA CellsInv ==
    ASSUME NEW c \in Nat, NEW n \in 0..c, NEW x \in Items \union {POISON},
           NEW array,
           capacity' = c, size' = n,
           array = [i \in 1..c |-> IF i <= n THEN array[i] ELSE POISON],
           \A i \in 1..n : array[i] \in Items,
           items' = array,
           result' = [item |-> x, err |-> "none"]
    PROVE  Inv'
  <1>1. TypeOK'
    BY DEF TypeOK
  <1>2. OnlyItemsBelow'
    BY ItemsAssumption DEF OnlyItemsBelow
  <1> QED BY <1>1, <1>2 DEF Inv

(* One step preserves the invariant.                                       *)
LEMMA StepInv ==
    ASSUME Inv, [Next]_vars
    PROVE  Inv'
  <1>t. /\ capacity \in Nat /\ size \in 0..capacity
        /\ \A i \in 1..size : items[i] \in Items
        /\ result.item \in Items \union {POISON}
    BY ItemsAssumption DEF Inv, TypeOK, OnlyItemsBelow
  <1>r. ASSUME NEW err \in {"alloc", "empty", "none"}, Refused(err)
        PROVE  Inv'
    BY <1>r DEF Refused, Return, Inv, TypeOK, OnlyItemsBelow
  <1>l. ASSUME NEW i \in 1..size, Look(i)
        PROVE  Inv'
    BY <1>l, <1>t DEF Look, Return, Inv, TypeOK, OnlyItemsBelow
  <1>1. CASE construct_stack
    <2>1. size = 0
      BY <1>1, <1>t DEF construct_stack, Constructed
    <2>2. items' = [i \in 1..INIT_CAP |-> POISON]
      BY <1>1, <2>1 DEF construct_stack, realloc_stack
    <2> QED BY <1>1, <2>2, CapacityAssumption, ItemsAssumption
            DEF construct_stack, Return, Inv, TypeOK, OnlyItemsBelow
  <1>2. CASE construct_stack_fails
    BY <1>2, <1>r DEF construct_stack_fails
  <1>3. ASSUME NEW x \in Items, push_stack(x)
        PROVE  Inv'
    <2>1. capacity' \in Nat /\ size' \in 0..capacity' /\ size' = size + 1
      BY <1>3, <1>t DEF push_stack, expandable, Constructed, CAP_FACTOR
    <2> DEFINE array == [i \in 1..capacity' |-> IF i <= size THEN items[i] ELSE
                             IF i = size + 1 THEN x ELSE POISON]
    <2>2. items' = array
      <3>1. items' = [realloc_stack(capacity') EXCEPT ![size + 1] = x]
        BY <1>3 DEF push_stack
      <3>2. size + 1 \in 1..capacity'
        BY <1>t, <2>1
      <3>3. realloc_stack(capacity') = [i \in 1..capacity' |-> IF i <= size THEN items[i] ELSE POISON]
        BY DEF realloc_stack
      <3>4. [realloc_stack(capacity') EXCEPT ![size + 1] = x] = array
        BY <1>t, <2>1, <3>2, <3>3
      <3> QED BY <3>1, <3>4
    <2>3. array = [i \in 1..capacity' |-> IF i <= size' THEN array[i] ELSE POISON]
      BY <1>t, <2>1
    <2>4. \A i \in 1..size' : array[i] \in Items
      BY <1>t, <2>1
    <2>5. result' = [item |-> POISON, err |-> "none"]
      BY <1>3 DEF push_stack, Return
    <2> HIDE DEF array
    <2> QED BY <2>1, <2>2, <2>3, <2>4, <2>5, CellsInv
  <1>4. ASSUME NEW x \in Items, find_stack(x)
        PROVE  Inv'
    BY <1>4, <1>r, <1>l DEF find_stack
  <1>5. CASE push_stack_fails
    BY <1>5, <1>r DEF push_stack_fails
  <1>6. CASE pop_stack
    <2>1. /\ capacity' \in Nat /\ size <= capacity'
          /\ size \in Nat \ {0} /\ size' \in 0..capacity' /\ size' = size - 1
      BY <1>6, PopCapacity DEF Inv
    <2> DEFINE array == [i \in 1..capacity' |-> IF i < size THEN items[i] ELSE POISON]
    <2>2. items' = array
      <3>1. items' = [realloc_stack(capacity') EXCEPT ![size] = POISON]
        BY <1>6 DEF pop_stack
      <3>2. size \in 1..capacity' /\ \A i \in 1..capacity' : i <= size <=> i < size \/ i = size
        BY <2>1
      <3>3. realloc_stack(capacity') = [i \in 1..capacity' |-> IF i <= size THEN items[i] ELSE POISON]
        BY DEF realloc_stack
      <3>4. [realloc_stack(capacity') EXCEPT ![size] = POISON] = array
        BY <2>1, <3>2, <3>3
      <3> QED BY <3>1, <3>4
    <2>3. array = [i \in 1..capacity' |-> IF i <= size' THEN array[i] ELSE POISON]
      BY <2>1
    <2>4. \A i \in 1..size' : array[i] \in Items
      BY <1>t, <2>1
    <2>5. result' = [item |-> items[size], err |-> "none"]
      BY <1>6, <2>1 DEF pop_stack, PopFrom, Cell, realloc_stack, Return
    <2>6. items[size] \in Items
      BY <1>t, <2>1
    <2> HIDE DEF array
    <2> QED BY <2>1, <2>2, <2>3, <2>4, <2>5, <2>6, CellsInv
  <1>7. CASE pop_stack_fails
    BY <1>7, <1>r DEF pop_stack_fails
  <1>8. CASE empty_stack
    BY <1>8, <1>r DEF empty_stack
  <1>9. CASE top_stack
    BY <1>9, <1>l, <1>t DEF top_stack
  <1>10. CASE bottom_stack
    BY <1>10, <1>l, <1>t DEF bottom_stack
  <1>11. CASE destruct_stack
    BY <1>11 DEF destruct_stack, Inv, TypeOK, OnlyItemsBelow
  <1>12. CASE UNCHANGED vars
    BY <1>12 DEF vars, Inv, TypeOK, OnlyItemsBelow
  <1> QED
    BY <1>1, <1>2, <1>3, <1>4, <1>5, <1>6, <1>7, <1>8, <1>9, <1>10, <1>11, <1>12 DEF Next

(* Before construct_stack.                                                 *)
LEMMA InitInv == Init => Inv
  BY ItemsAssumption, CapacityAssumption DEF Init, Inv, TypeOK, OnlyItemsBelow

(* The stack never holds more than it has allocated (stack.cpp l. 470,     *)
(* verify_stack, which the build leaves out).                              *)
THEOREM TypeCorrect == Spec => []TypeOK
  <1>1. Inv => TypeOK BY DEF Inv
  <1> QED BY <1>1, InitInv, StepInv, PTL DEF Spec

(* Cells in use hold items and unused cells hold POISON.                   *)
THEOREM CellsCorrect == Spec => []OnlyItemsBelow
  <1>1. Inv => OnlyItemsBelow BY DEF Inv
  <1> QED BY <1>1, InitInv, StepInv, PTL DEF Spec

(* The cells below size, as the sequence the promise is about.             *)
Contents == SubSeq(items, 1, size)

LEMMA ContentsAre ==
    ASSUME NEW f, NEW n \in Nat, \A i \in 1..n : f[i] \in Items
    PROVE  /\ SubSeq(f, 1, n) \in Seq(Items)
           /\ Len(SubSeq(f, 1, n)) = n
           /\ \A i \in 1..n : SubSeq(f, 1, n)[i] = f[i]
  BY SubSeqProperties

(* Two arrays with the same first n cells hold the same n items.           *)
LEMMA SameContents ==
    ASSUME NEW f, NEW g, NEW n \in Nat, \A i \in 1..n : f[i] \in Items /\ g[i] = f[i]
    PROVE  SubSeq(g, 1, n) = SubSeq(f, 1, n)
  <1>1. \A i \in 1..n : f[i] \in Items /\ g[i] \in Items
    OBVIOUS
  <1> DEFINE s == SubSeq(f, 1, n)
             t == SubSeq(g, 1, n)
  <1>2. s \in Seq(Items) /\ Len(s) = n /\ \A i \in 1..n : s[i] = f[i]
    BY <1>1, ContentsAre
  <1>3. t \in Seq(Items) /\ Len(t) = n /\ \A i \in 1..n : t[i] = g[i]
    BY <1>1, ContentsAre
  <1> HIDE DEF s, t
  <1>4. s = t
    BY <1>2, <1>3, SeqEqual
  <1> QED BY <1>4 DEF s, t

(* A push that grows the array or not appends to the contents.             *)
LEMMA PushAppends ==
    ASSUME Inv, NEW x \in Items, push_stack(x)
    PROVE  Contents' = Append(Contents, x)
  <1>1. /\ size \in Nat /\ capacity \in Nat /\ size <= capacity
        /\ \A i \in 1..size : items[i] \in Items
    BY ItemsAssumption DEF Inv, TypeOK, OnlyItemsBelow
  <1>2. /\ size' = size + 1 /\ capacity' \in Nat /\ size + 1 <= capacity'
        /\ items' = [realloc_stack(capacity') EXCEPT ![size + 1] = x]
    BY <1>1 DEF push_stack, expandable, Constructed, CAP_FACTOR
  <1>3. /\ \A i \in 1..size : items'[i] = items[i]
        /\ items'[size + 1] = x
    BY <1>1, <1>2 DEF realloc_stack
  <1> DEFINE s == Contents
             t == Contents'
  <1>4. s \in Seq(Items) /\ Len(s) = size /\ \A i \in 1..size : s[i] = items[i]
    BY <1>1, ContentsAre DEF Contents
  <1>5. \A i \in 1..size' : items'[i] \in Items
    BY <1>1, <1>2, <1>3
  <1>6. t \in Seq(Items) /\ Len(t) = size' /\ \A i \in 1..size' : t[i] = items'[i]
    BY <1>1, <1>2, <1>5, ContentsAre DEF Contents
  <1> HIDE DEF s, t
  <1>7. /\ Append(s, x) \in Seq(Items) /\ Len(Append(s, x)) = size + 1
        /\ \A i \in 1..size : Append(s, x)[i] = s[i]
        /\ Append(s, x)[size + 1] = x
    BY <1>1, <1>4
  <1>8. \A i \in 1..size + 1 : t[i] = Append(s, x)[i]
    BY <1>1, <1>2, <1>3, <1>4, <1>6, <1>7
  <1>9. t = Append(s, x)
    BY <1>2, <1>6, <1>7, <1>8, SeqEqual
  <1> QED BY <1>9 DEF s, t

(* A pop that shrinks the array or not returns the last of the contents    *)
(* and leaves the others.                                                  *)
LEMMA PopTakesLast ==
    ASSUME Inv, pop_stack
    PROVE  /\ Contents # <<>> /\ Contents' = SubSeq(Contents, 1, Len(Contents) - 1)
           /\ result' = [item |-> Contents[Len(Contents)], err |-> "none"]
  <1>1. /\ size \in Nat \ {0} /\ capacity' \in Nat /\ size <= capacity' /\ size' = size - 1
        /\ \A i \in 1..size : items[i] \in Items
    BY PopCapacity, ItemsAssumption DEF Inv, TypeOK, OnlyItemsBelow
  <1>2. \A i \in 1..size - 1 : items'[i] = items[i]
    <2>1. items' = [realloc_stack(capacity') EXCEPT ![size] = POISON]
      BY DEF pop_stack
    <2> QED BY <1>1, <2>1 DEF realloc_stack
  <1>3. result' = [item |-> items[size], err |-> "none"]
    BY <1>1 DEF pop_stack, PopFrom, Cell, realloc_stack, Return
  <1> DEFINE s == Contents
  <1>4. s \in Seq(Items) /\ Len(s) = size /\ \A i \in 1..size : s[i] = items[i]
    BY <1>1, ContentsAre DEF Contents
  <1>5. Contents' = SubSeq(items, 1, size - 1)
    BY <1>1, <1>2, SameContents DEF Contents
  <1> HIDE DEF s
  <1>6. SubSeq(items, 1, size - 1) = SubSeq(s, 1, size - 1)
    BY <1>1, <1>4, SameContents
  <1>7. s # <<>> /\ s[Len(s)] = items[size]
    BY <1>1, <1>4
  <1> QED BY <1>3, <1>4, <1>5, <1>6, <1>7 DEF s

(* A call that looks at a cell or refuses leaves the contents alone.       *)
LEMMA LooksOnly ==
    ASSUME Inv, Constructed, NEW i \in 1..size, Look(i)
    PROVE  Lifo!ALook
  <1>1. size \in Nat /\ \A j \in 1..size : items[j] \in Items
    BY ItemsAssumption DEF Inv, TypeOK, OnlyItemsBelow
  <1>2. Contents \in Seq(Items) /\ Len(Contents) = size /\ Contents[i] = items[i]
    BY <1>1, ContentsAre DEF Contents
  <1>3. Contents' = Contents /\ Constructed' = Constructed
    BY DEF Look, Contents, Constructed
  <1>4. result' = [item |-> Contents[i], err |-> "none"]
    BY <1>2 DEF Look, Return
  <1>5. Contents # <<>>
    BY <1>2
  <1> QED BY <1>2, <1>3, <1>4, <1>5 DEF Lifo!ALook, Lifo!Outcome, Contents

(* A step of the stack is a step of the promise.                           *)
LEMMA StepImplements ==
    ASSUME Inv, [Next]_vars
    PROVE  [Lifo!ANext]_(Lifo!avars)
  <1> USE DEF Lifo!ANext
  <1>s. size \in Nat /\ \A i \in 1..size : items[i] \in Items
    BY ItemsAssumption DEF Inv, TypeOK, OnlyItemsBelow
  <1>c. Contents \in Seq(Items) /\ Len(Contents) = size
    BY <1>s, ContentsAre DEF Contents
  <1>e. size = 0 <=> Contents = <<>>
    BY <1>s, <1>c
  <1>r. ASSUME NEW err, Refused(err)
        PROVE  /\ Contents' = Contents /\ Constructed' = Constructed
               /\ result' = [item |-> POISON, err |-> err]
    BY <1>r DEF Refused, Return, Contents, Constructed
  <1>a. ASSUME Refused("alloc") PROVE Lifo!ARefuseAlloc
    BY <1>a, <1>r DEF Lifo!ARefuseAlloc, Lifo!Outcome, Contents
  <1>1. CASE construct_stack
    <2>1. Contents' = <<>>
      BY <1>1, SubSeqEmpty DEF construct_stack, Contents
    <2>2. Constructed' /\ result' = [item |-> POISON, err |-> "none"]
      BY <1>1, CapacityAssumption DEF construct_stack, Return, Constructed
    <2>3. Lifo!AConstruct
      BY <1>1, <2>1, <2>2 DEF construct_stack, Lifo!AConstruct, Lifo!Outcome, Contents
    <2> QED BY <2>3
  <1>2. CASE construct_stack_fails \/ push_stack_fails \/ pop_stack_fails
    BY <1>2, <1>a DEF construct_stack_fails, push_stack_fails, pop_stack_fails
  <1>3. ASSUME NEW x \in Items, push_stack(x)
        PROVE  Lifo!APush(x)
    <2>1. Contents' = Append(Contents, x)
      BY <1>3, PushAppends
    <2>2. Constructed /\ Constructed' /\ result' = [item |-> POISON, err |-> "none"]
      BY <1>3, <1>s DEF push_stack, Return, Constructed, Inv, TypeOK, CAP_FACTOR
    <2> QED BY <2>1, <2>2 DEF Lifo!APush, Lifo!Outcome, Contents
  <1>4. ASSUME NEW x \in Items, find_stack(x)
        PROVE  Lifo!ALook \/ Lifo!ANotFound
    <2>1. CASE \E i \in 1..size : Look(i)
      BY <1>4, <2>1, LooksOnly DEF find_stack
    <2>2. CASE Refused("none")
      BY <1>4, <2>2, <1>r, <1>e DEF find_stack, Lifo!ANotFound, Lifo!Outcome, Contents
    <2> QED BY <1>4, <2>1, <2>2 DEF find_stack
  <1>5. CASE pop_stack
    <2>1. /\ Contents # <<>> /\ Contents' = SubSeq(Contents, 1, Len(Contents) - 1)
          /\ result' = [item |-> Contents[Len(Contents)], err |-> "none"]
      BY <1>5, PopTakesLast
    <2>2. Constructed /\ Constructed'
      <3>1. capacity' \in Nat /\ size \in Nat \ {0} /\ size <= capacity'
        BY <1>5, PopCapacity DEF Inv
      <3> QED BY <1>5, <3>1 DEF pop_stack, Constructed
    <2>3. Lifo!APop
      BY <2>1, <2>2 DEF Lifo!APop, Lifo!Outcome, Contents
    <2> QED BY <2>3
  <1>6. CASE empty_stack
    <2>1. Lifo!ARefuseEmpty
      BY <1>6, <1>r, <1>e DEF empty_stack, Lifo!ARefuseEmpty, Lifo!Outcome, Contents
    <2> QED BY <2>1
  <1>7. CASE top_stack \/ bottom_stack
    BY <1>7, <1>s, LooksOnly DEF top_stack, bottom_stack
  <1>8. CASE destruct_stack
    <2>1. Contents' = <<>> /\ ~Constructed' /\ result' = result
      BY <1>8, SubSeqEmpty DEF destruct_stack, Contents, Constructed
    <2>2. Lifo!ADestruct
      BY <2>1 DEF Lifo!ADestruct, Contents
    <2> QED BY <2>2
  <1>9. CASE UNCHANGED vars
    BY <1>9 DEF vars, Lifo!avars, Constructed
  <1> QED
    BY <1>1, <1>2, <1>3, <1>4, <1>5, <1>6, <1>7, <1>8, <1>9 DEF Next

LEMMA InitImplements == Init => Lifo!AInit
  <1> SUFFICES ASSUME Init PROVE Lifo!AInit
    OBVIOUS
  <1>1. SubSeq(items, 1, size) = <<>>
    BY SubSeqEmpty DEF Init
  <1> QED BY <1>1 DEF Init, Lifo!AInit, Lifo!Outcome, Constructed

(* The stack, with the array it grows, shrinks and may fail to get, keeps  *)
(* the promise of stack.h: last in, first out, and a call that reports an  *)
(* error has changed nothing.                                              *)
THEOREM Implements == Spec => ImplementsLifo
  <1>1. Spec => []Inv
    BY InitInv, StepInv, PTL DEF Spec
  <1> QED BY <1>1, InitImplements, StepImplements, PTL DEF Spec, ImplementsLifo, Lifo!ASpec

(* An array that was grown is kept more than a quarter full: what a resize *)
(* leaves depends on it, and on there being room for more than one item.   *)
Filled ==
    /\ capacity > INIT_CAP => size >= capacity \div (CAP_FACTOR * CAP_FACTOR) + 1
    /\ capacity # 1
Tidy == Inv /\ Filled

LEMMA PopFills ==
    ASSUME INIT_CAP > 4, Tidy, pop_stack
    PROVE  /\ Filled'
           /\ capacity' # capacity => ~expandable' /\ ~shrinkable'
  <1>1. size \in Nat \ {0} /\ capacity \in Nat /\ size <= capacity /\ size' = size - 1
    BY PopCapacity DEF Tidy, Inv, TypeOK
  <1>2. CASE shrinkable
    <2>1. capacity' = capacity \div 2 /\ capacity > INIT_CAP /\ size = capacity \div 4 + 1
      BY <1>1, <1>2, CapacityAssumption DEF pop_stack, shrinkable, Tidy, Filled, CAP_FACTOR
    <2> QED BY <1>1, <2>1, CapacityAssumption DEF Filled, expandable, shrinkable, CAP_FACTOR
  <1>3. CASE ~shrinkable
    <2>1. capacity' = capacity
      BY <1>3 DEF pop_stack
    <2> QED BY <1>1, <1>3, <2>1, CapacityAssumption DEF Tidy, Filled, shrinkable, CAP_FACTOR
  <1> QED BY <1>2, <1>3

LEMMA PushFills ==
    ASSUME INIT_CAP > 4, Tidy, NEW x \in Items, push_stack(x)
    PROVE  /\ Filled'
           /\ capacity' # capacity => ~expandable' /\ ~shrinkable'
  <1>1. /\ size \in Nat /\ capacity \in Nat \ {0} /\ size <= capacity /\ size' = size + 1
        /\ capacity' = IF capacity = size THEN 2 * capacity ELSE capacity
    BY DEF push_stack, Tidy, Inv, TypeOK, Constructed, expandable, CAP_FACTOR
  <1>2. CASE capacity = size
    BY <1>1, <1>2, CapacityAssumption DEF Tidy, Filled, expandable, shrinkable, CAP_FACTOR
  <1>3. CASE capacity # size
    BY <1>1, <1>3, CapacityAssumption DEF Tidy, Filled, CAP_FACTOR
  <1> QED BY <1>2, <1>3

LEMMA TidyStep ==
    ASSUME INIT_CAP > 4, Tidy, [Next]_vars
    PROVE  Tidy' /\ (capacity' # capacity /\ capacity' # 0 /\ capacity # 0
                        => ~expandable' /\ ~shrinkable')
  <1>1. Inv'
    BY StepInv DEF Tidy
  <1>2. CASE capacity' = capacity /\ size' = size
    BY <1>1, <1>2 DEF Tidy, Filled
  <1>3. CASE construct_stack \/ destruct_stack
    BY <1>1, <1>3, CapacityAssumption DEF construct_stack, destruct_stack, Constructed, Tidy, Filled
  <1>4. CASE pop_stack
    BY <1>1, <1>4, PopFills DEF Tidy
  <1>5. ASSUME NEW x \in Items, push_stack(x) PROVE Filled' /\ (capacity' # capacity => ~expandable' /\ ~shrinkable')
    BY <1>5, PushFills
  <1>6. CASE \E x \in Items : push_stack(x)
    BY <1>1, <1>5, <1>6 DEF Tidy
  <1>7. CASE \/ construct_stack_fails \/ push_stack_fails \/ pop_stack_fails \/ empty_stack
             \/ top_stack \/ bottom_stack \/ UNCHANGED vars \/ \E x \in Items : find_stack(x)
    BY <1>2, <1>7 DEF construct_stack_fails, push_stack_fails, pop_stack_fails, empty_stack,
                      top_stack, bottom_stack, find_stack, vars, Refused, Look
  <1> QED BY <1>3, <1>4, <1>6, <1>7 DEF Next

(* With an initial capacity of more than four (it is 8), a resize leaves   *)
(* the array such that neither a push nor a pop resizes it at once.        *)
THEOREM NeverThrashes ==
    ASSUME INIT_CAP > 4
    PROVE  Spec => NoThrashing
  <1>1. Init => Tidy
    BY InitInv, CapacityAssumption DEF Tidy, Filled, Init
  <1>2. Tidy /\ [Next]_vars => Tidy'
    BY TidyStep
  <1>3. Tidy /\ [Next]_vars => [capacity' # capacity /\ capacity' # 0 /\ capacity # 0
                                  => ~expandable' /\ ~shrinkable']_vars
    BY TidyStep
  <1> QED BY <1>1, <1>2, <1>3, PTL DEF Spec, NoThrashing
====
