---- MODULE Lexer ----
(* frontend/lexer.cpp: a source text becomes an array of tokens and a table  *)
(* of names. The text is a string; a blank stands for every isspace.         *)
EXTENDS Array, FiniteSets

CONSTANT
    \* The texts to read.
    Texts

ASSUME TextsAssumption == Texts \subseteq STRING

VARIABLES
    text,       \* the text
    str, start, \* the next character, the start of the word it may be in
    comment,    \* inside a comment
    tokens,     \* the array of tokens, each with the characters it stands for
    idents,     \* the table of names
    outcome,    \* what tokenize returned: none yet, tokens, null, undefined
    short       \* auxiliary: an allocation has failed

vars == <<text, str, start, comment, tokens, idents, outcome, short>>

(* Words that may be part of a name, and those that may not, in the order    *)
(* they are compared in.                                                     *)
Linkable == {"else", "if", "while", "return", "inv", "dump", "assert", "in", "out"}

\* Slip: the shorter operators are compared first.
Unlinkable_bug ==
    <<"null", "$", "...", "!", "=", ">", "<", "==", "<=", ">=", "!=", "&&", "||",
      "+", "-", "/", "*", "^", "{", "}", "[", "]", ";", ",", "(", ")">>

Unlinkable ==
    <<"null", "$", "...", "==", "<=", ">=", "!=", "!", "=", ">", "<", "&&", "||",
      "+", "-", "/", "*", "^", "{", "}", "[", "]", ";", ",", "(", ")">>

Letters(from, to) == SubSeq(text, from, to)
At(p) == Letters(p, p)
Digits == {"0", "1", "2", "3", "4", "5", "6", "7", "8", "9"}

(* strncmp: the word is at p; the text may end before it would. *)
Spells(word, p) ==
    /\ p + Len(word) - 1 <= Len(text)
    /\ Letters(p, p + Len(word) - 1) = word

(* The keyword the chain of comparisons finds at p. *)
Symbols(p) == {i \in DOMAIN Unlinkable : Spells(Unlinkable[i], p)}
Symbol(p) == Unlinkable[CHOOSE i \in Symbols(p) : \A j \in Symbols(p) : i <= j]

Token(type, from, to) == [type |-> type, from |-> from, to |-> to]

(* The three results of a step: tokens, names, and whether memory was short. *)
(* create_token writes to the new token without looking whether it is null,  *)
(* which the step shows as the tokens Null.                                  *)
Result(toks, ids, out) == [tokens |-> toks, idents |-> ids, short |-> out]

create_token(r, token) ==
    {Result(toks, r.idents, r.short \/ toks = Null) :
        toks \in array_create(r.tokens, token)}

(* A new name is copied and kept in the table. Without memory for the copy   *)
(* there is no token; without memory for the table the copy is used all the  *)
(* same.                                                                     *)
create_ident(r, from, to) ==
    LET name == Letters(from, to)
        token == Token("ident", from, to)
        known == \E i \in DOMAIN r.idents.data : r.idents.data[i] = name
        kept == {IF ids = Null THEN Result(r.tokens, r.idents, TRUE)
                 ELSE Result(r.tokens, ids, r.short) :
                    ids \in array_push(r.idents, name)}
    IN IF known THEN create_token(r, token)
       ELSE UNION {create_token(k, token) : k \in kept}
            \union {Result(r.tokens, r.idents, TRUE)}

(* A word that is not a linkable keyword is a name; tokenize ignores what    *)
(* read_keyword returns. No word: nothing is read.                           *)
read_keyword(r, from, to) ==
    IF to < from THEN {r}
    ELSE IF Letters(from, to) \in Linkable
         THEN create_token(r, Token("keyword", from, to))
         ELSE create_ident(r, from, to)

(* A keyword that ends the word before it. *)
WordAndSymbol(r, from, p) ==
    UNION {IF s.tokens = Null THEN {s}
           ELSE create_token(s, Token("keyword", p, p + Len(Symbol(p)) - 1)) :
              s \in read_keyword(r, from, p - 1)}

Init ==
    /\ text \in Texts /\ str = 1 /\ start = 1 /\ comment = FALSE
    /\ tokens = EmptyArray /\ idents = EmptyArray
    /\ outcome = "none" /\ short = FALSE

Now == Result(tokens, idents, short)

(* The results of a step become the state. *)
Take(results) ==
    \E r \in results :
        /\ tokens' = r.tokens /\ idents' = r.idents /\ short' = r.short
        /\ outcome' = IF r.tokens = Null THEN "undefined" ELSE outcome

Reading == outcome = "none" /\ str <= Len(text)

(* '#' opens a comment and closes it; the one that closes it is an ordinary  *)
(* character, and the word goes on from where it started.                    *)
Inside == (At(str) = "#") # comment

SkipComment ==
    /\ Reading /\ Inside
    /\ comment' = TRUE /\ str' = str + 1
    /\ UNCHANGED <<text, start, tokens, idents, outcome, short>>

ReadSpace ==
    /\ Reading /\ ~Inside /\ At(str) = " "
    /\ Take(read_keyword(Now, start, str - 1))
    /\ str' = str + 1 /\ start' = str' /\ comment' = FALSE
    /\ UNCHANGED text

\* Slip: the start of the word is not moved.
AfterSymbol_bug(p) == start
(* Where the next word starts after a keyword. *)
AfterSymbol(p) == p + Len(Symbol(p))

ReadSymbol ==
    /\ Reading /\ ~Inside /\ At(str) # " " /\ Symbols(str) # {}
    /\ Take(WordAndSymbol(Now, start, str))
    /\ str' = str + Len(Symbol(str)) /\ start' = AfterSymbol(str)
    /\ comment' = FALSE /\ UNCHANGED text

(* A digit is a number only where a word may start; sscanf takes the digits  *)
(* that follow.                                                              *)
Number == ~Inside /\ Symbols(str) = {} /\ At(str) \in Digits /\ start = str

create_number ==
    /\ Reading /\ Number
    /\ \E to \in str .. Len(text) :
        /\ \A p \in str .. to : At(p) \in Digits
        /\ to < Len(text) => At(to + 1) \notin Digits
        /\ Take(create_token(Now, Token("number", str, to)))
        /\ str' = to + 1 /\ start' = to + 1
    /\ comment' = FALSE /\ UNCHANGED text

ReadLetter ==
    /\ Reading /\ ~Inside /\ At(str) # " " /\ Symbols(str) = {} /\ ~Number
    /\ str' = str + 1 /\ comment' = FALSE
    /\ UNCHANGED <<text, start, tokens, idents, outcome, short>>

(* The end of the text: a KW_STOP, whatever word or comment is open, and the *)
(* tokens without the array.                                                 *)
Finish ==
    /\ outcome = "none" /\ str > Len(text)
    /\ \E r \in create_token(Now, Token("stop", str, str - 1)) :
       \E e \in (IF r.tokens = Null THEN {Null} ELSE array_extract(r.tokens)) :
            /\ tokens' = IF e = Null THEN r.tokens ELSE e
            /\ short' = (r.short \/ e = Null)
            /\ outcome' = CASE r.tokens = Null -> "undefined"
                            [] r.tokens # Null /\ e = Null -> "null"
                            [] OTHER -> "tokens"
    /\ UNCHANGED <<text, str, start, comment, idents>>

Terminating == outcome # "none" /\ UNCHANGED vars

tokenize ==
    \/ SkipComment \/ ReadSpace \/ ReadSymbol \/ create_number \/ ReadLetter
    \/ Finish
Next == tokenize \/ Terminating
Spec == Init /\ [][Next]_vars

Done == outcome = "tokens" /\ ~short
Read(p) == \E i \in DOMAIN tokens.data : p \in tokens.data[i].from .. tokens.data[i].to

(* Inside a comment, its opening '#' included. *)
Commented(p) == Cardinality({q \in 1 .. p : At(q) = "#"}) % 2 = 1
Blank(p) == At(p) = " " /\ ~Commented(p)
Separates(p) == ~Commented(p) /\ (At(p) = " " \/ Symbols(p) # {})

(* When memory lasts, every character of the text is in exactly one token, in *)
(* the order of the text, except blanks and a last word that no blank and no *)
(* keyword ends. About tokenize's two pointers, which five branches move.    *)
EveryCharacterRead ==
    Done =>
    LET t == tokens.data IN
    /\ \A i \in 1 .. Len(t) - 1 : t[i].to < t[i + 1].from
    /\ \A p \in 1 .. Len(text) :
        Read(p) \/ Blank(p) \/ \A q \in p .. Len(text) : ~Separates(q)
    /\ \A p \in 1 .. Len(text) : Blank(p) => ~Read(p)

(* Every token is what its characters say: a keyword is the longest of the   *)
(* table at its place, and a word of its own if it could be part of a name;  *)
(* a name holds no keyword that ends words and is none that is a word; a     *)
(* number ends where the digits do. Every name is in the table once. About   *)
(* the order of the table in KEYWORDS and the two places that look at it.    *)
WordsTold ==
    Done =>
    /\ \A i \in DOMAIN tokens.data :
        LET t == tokens.data[i]
            word == IF t.type = "stop" THEN "" ELSE Letters(t.from, t.to)
            ends == t.to = Len(text) \/ Separates(t.to + 1)
        IN CASE t.type = "keyword" ->
                    \/ word \in Linkable /\ ends
                    \/ /\ \E j \in DOMAIN Unlinkable : Unlinkable[j] = word
                       /\ \A j \in DOMAIN Unlinkable :
                            Spells(Unlinkable[j], t.from) => Len(Unlinkable[j]) <= Len(word)
             [] t.type = "ident" ->
                    /\ word \notin Linkable /\ At(t.from) \notin Digits /\ ends
                    /\ \A p \in t.from .. t.to : ~Separates(p)
                    /\ \E j \in DOMAIN idents.data : idents.data[j] = word
             [] t.type = "number" ->
                    /\ \A p \in t.from .. t.to : At(p) \in Digits
                    /\ t.to = Len(text) \/ At(t.to + 1) \notin Digits
             [] OTHER -> i = Len(tokens.data)
    /\ \A j, k \in DOMAIN idents.data : idents.data[j] = idents.data[k] => j = k
====
