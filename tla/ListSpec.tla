---- MODULE ListSpec ----
(* What list.h offers: a sequence of items.  `call' is the call made last. *)
EXTENDS Integers, Sequences, SequencesExt

VARIABLES seq, call

AInit == seq = <<>> /\ call.op = "none"

Insert ==
    /\ call'.op = "insert" /\ call'.at \in 1..(Len(seq) + 1)
    /\ seq' = InsertAt(seq, call'.at, call'.x)
Delete ==
    /\ call'.op = "delete" /\ call'.at \in 1..Len(seq)
    /\ seq' = RemoveAt(seq, call'.at)
Keep == call'.op \in {"none", "linear", "arrange", "lookup"} /\ seq' = seq
End  == call'.op = "end" /\ seq' = <<>>

ANext == Insert \/ Delete \/ Keep \/ End
ASpec == AInit /\ [][ANext]_<<seq, call>>
====
