---- MODULE IRGenProperties ----
(* What must hold of the IR.                                               *)
EXTENDS IRGen

Made      == DOMAIN blocks
CodeOf(b) == blocks[b].code
Ended(b)  == CodeOf(b) # <<>> /\ IsInstTerminator(Last(CodeOf(b)))

(* No instruction follows a terminator in its block, though the rest of a  *)
(* list of statements follows a return in the source and branches are      *)
(* closed by whoever opened them; and when the module is printed the only  *)
(* blocks that are not terminated are those a function's body falls out    *)
(* of without a return.                                                    *)
BlocksClosed ==
    /\ \A b \in Made : \A i \in 1..Len(CodeOf(b)) - 1 : ~IsInstTerminator(CodeOf(b)[i])
    /\ outcome = "printed" => {b \in Made : ~Ended(b)} = falls

(* Every instruction is in a block of the function it was compiled for,    *)
(* the initialisers in __ass_globals_init though they may stand between    *)
(* functions, and no jump leaves its function.                             *)
InstructionsAtHome ==
    \A b \in Made : \A i \in DOMAIN CodeOf(b) :
        /\ CodeOf(b)[i].src = blocks[b].fn
        /\ \A c \in CodeOf(b)[i].to : c \in Made /\ blocks[c].fn = blocks[b].fn

(* The blocks that are reached from `from' without passing `but'.          *)
Jumps(b) == UNION {CodeOf(b)[i].to : i \in DOMAIN CodeOf(b)}
Onward(seen, but) == seen \union ((UNION {Jumps(b) : b \in seen}) \ {but})
Reached(from, but) ==
    LET after[n \in 0..Len(blocks)] == IF n = 0 THEN {from} \ {but} ELSE Onward(after[n - 1], but)
    IN  after[Len(blocks)]
Entry(f) == CHOOSE b \in Made : blocks[b].fn = f /\ \A c \in Made : blocks[c].fn = f => b <= c
Dominates(a, b) == a = b \/ b \notin Reached(Entry(blocks[b].fn), a)

(* A variable of a function is read and written in that function only, and *)
(* only where its alloca has been executed: unless it was declared in the  *)
(* body of a loop, which opens no table.                                   *)
InLoop(b) == \E l \in loops : blocks[l].fn = blocks[b].fn /\ Dominates(l, b)
VariablesAllocated ==
    outcome = "printed" =>
        \A b \in Made : \A i \in DOMAIN CodeOf(b) :
            LET var == CodeOf(b)[i].var IN
            var.block # 0 =>
                /\ blocks[var.block].fn = blocks[b].fn
                /\ CodeOf(var.block)[var.at].op = "alloca"
                /\ var.block = b => var.at <= i
                /\ InLoop(var.block) \/ Dominates(var.block, b)

(* "Make function arguments mutable": the variable of a parameter holds    *)
(* the argument of that parameter.                                         *)
ParametersMutable ==
    \A t \in 1..top-1 : owner = tree[t].id =>
        \A i \in DOMAIN tree[t].params : scopes[2][tree[t].params[i]].arg = i

====
