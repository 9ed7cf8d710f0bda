---- MODULE MCFrontend ----
(* Small sources for FrontendProperties.                                   *)
EXTENDS FrontendProperties

Words(words)  == {KW(w) : w \in words}
Initialiser   == << KW("assert"), KW("("), ID("x"), KW("=") >>
Body          == << KW("dump"), ID("x"), KW("("), KW(")") >>

(* One operator of each level.                                             *)
Operations == [start |-> Initialiser, max |-> 9,
               tokens |-> Words({"-", "*", "^", "<=", "&&"}) \union {ID("x")}]
Unaries    == [start |-> Initialiser, max |-> 7,
               tokens |-> Words({"!", "+", "-", "(", ")"}) \union {NUM(31)}]
Brackets   == [start |-> Initialiser, max |-> 10,
               tokens |-> Words({"+", "*", "(", ")"}) \union {NUM(11)}]
Accesses   == [start |-> <<>>, max |-> 10,
               tokens |-> Words({"assert", "(", ")", ";", "=", ",", "[", "]", "inv", "in"}) \union {ID("x")}]
Functions  == [start |-> <<>>, max |-> 11,
               tokens |-> Words({"dump", "(", ")", ";", "{", "}", ",", "return"}) \union {ID("x")}]
Branches   == [start |-> Body, max |-> 16,
               tokens |-> Words({"(", ")", ";", "{", "}", "return", "if", "else"}) \union {NUM(3)}]
Statements == [start |-> <<>>, max |-> 11,
               tokens |-> Words({"dump", "assert", "(", ")", ";", "=", "{", "}", "return", "out", "while"})
                          \union {ID("x")}]
MCVocabularies ==
    [operations |-> Operations, unaries |-> Unaries, brackets |-> Brackets, accesses |-> Accesses,
     functions |-> Functions, branches |-> Branches, statements |-> Statements]
====
