---- MODULE TreeFile ----
(***************************************************************************)
(* The file the programs hand the tree over in: save_ast_tree of           *)
(* ast/tree.cpp writes it and read_ast_tree of ast/parse.cpp reads it.     *)
(*                                                                         *)
(* A file is a sequence of lexemes: the brackets, and the data of a node.  *)
(* It may be cut anywhere, also within a lexeme.                           *)
(***************************************************************************)
EXTENDS Integers, Sequences, TLC

CONSTANTS
    PRECISION,  (* numbers up to 2^PRECISION pass through a double (53)      *)
    WIDTH       (* bits of num_t (64)                                        *)

ASSUME TreeFileAssumption ==
    PRECISION \in Nat \ {0} /\ WIDTH \in Nat /\ PRECISION < WIDTH

Lexeme(k) == [k |-> k, id |-> "", n |-> 0]
Open      == Lexeme("(")
Close     == Lexeme(")")
End       == Lexeme("end of file")
Broken    == Lexeme("broken")  (* what strtod, the quote and AST all reject *)
Data(node) == [k |-> node.k, id |-> node.id, n |-> node.n]

(* A node is [k, id, n, l, r]; a child is a sequence of no node or one.    *)
RECURSIVE Save(_)
save_ast_tree(node) ==
    << Open >> \o (IF node.l = <<>> THEN <<>> ELSE Save(node.l[1]))
        \o << Data(node) >>
        \o (IF node.r = <<>> THEN <<>> ELSE Save(node.r[1])) \o << Close >>
Save(node) == save_ast_tree(node)

(* What is left of a lexeme that is cut: a shorter number, or a keyword    *)
(* that is the start of another one.  A name loses its closing quote.      *)
Shortened(lexeme) ==
    CASE lexeme.k = "number" -> {[lexeme EXCEPT !.n = lexeme.n \div 10]} \ {[lexeme EXCEPT !.n = 0]}
      [] lexeme.k = "<="     -> {Lexeme("<")}
      [] lexeme.k = ">="     -> {Lexeme(">")}
      [] lexeme.k = "=="     -> {Lexeme("=")}
      [] lexeme.k = "!="     -> {Lexeme("!")}
      [] OTHER               -> {}

Cuts(file) ==
    UNION {LET kept == SubSeq(file, 1, i - 1)
           IN  {kept} \union {Append(kept, part) : part \in Shortened(file[i]) \union {Broken}}
           : i \in 1..Len(file)}

(* Numbers are read by strtod, to the nearest double and of two as near to *)
(* the even one, and cast to num_t, which holds less than 2^(WIDTH - 1).   *)
RECURSIVE Spacing(_, _)
Spacing_bug(n, unit) == 2
Spacing(n, unit) == IF n < unit * 2^PRECISION THEN unit ELSE Spacing(n, 2 * unit)

Rounded(n) ==
    LET unit  == Spacing(n, 1)
        below == n \div unit
        rest  == 2 * (n % unit)
        up    == rest > unit \/ (rest = unit /\ below % 2 = 1)
    IN  unit * (IF up THEN below + 1 ELSE below)

strtod(n) == IF Rounded(n) >= 2^(WIDTH - 1) THEN -(2^(WIDTH - 1)) ELSE Rounded(n)

read_data(lexeme) ==
    IF lexeme.k = "number" THEN [lexeme EXCEPT !.n = strtod(lexeme.n)] ELSE lexeme

(* Reading a node: the tree, if there is one, and where to go on.  What    *)
(* stands for the closing bracket is not looked at, nor whether the file   *)
(* goes on there.                                                          *)
cur(file, i)  == IF i <= Len(file) THEN file[i] ELSE End
Refused      == [ok |-> FALSE, tree |-> <<>>, next |-> 0]
Absent(i)    == [ok |-> TRUE, tree |-> <<>>, next |-> i]

Joined_bug(data, left, right) == read_data(data) @@ [l |-> right, r |-> left]
Joined(data, left, right) == read_data(data) @@ [l |-> left, r |-> right]

RECURSIVE read_ast_node(_, _)
child(file, i) == IF cur(file, i) = Open THEN read_ast_node(file, i) ELSE Absent(i)
read_ast_node(file, i) ==
    LET left  == child(file, i + 1)
        data  == cur(file, left.next)
        right == child(file, left.next + 1)
    IN  IF ~left.ok \/ data \in {Open, Close, End, Broken} \/ ~right.ok
        THEN Refused
        ELSE [ok   |-> TRUE,
              tree |-> << Joined(data, left.tree, right.tree) >>,
              next |-> right.next + 1]

(* mmap_in rejects an empty file, read_ast_tree what follows the tree.     *)
read_ast_tree(file) ==
    LET read == IF cur(file, 1) = Open THEN read_ast_node(file, 1) ELSE Refused
    IN  IF read.ok /\ read.next > Len(file) THEN read.tree ELSE <<>>

====
