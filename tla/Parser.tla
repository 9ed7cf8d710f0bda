---- MODULE Parser ----
(***************************************************************************)
(* The recursive descent of frontend/recursive_descent.cpp: grammar_rule   *)
(* and a function per rule of the grammar.                                 *)
(*                                                                         *)
(* As in LegacyCompiler the recursion is a machine: `todo' holds what the  *)
(* rules still have to do, next first, and `vals' the nodes they hold in   *)
(* their local variables.  The source is not an input: a token is chosen   *)
(* when a rule first looks at it, so a behaviour is one source, and those  *)
(* that fail are cut where they fail.                                      *)
(***************************************************************************)
EXTENDS Integers, Sequences, SequencesExt

CONSTANTS
    Vocabularies   (* by name, the tokens a source starts with, those it is  *)
                   (* made of, and how many there are before only tokens     *)
                   (* that finish are chosen                                 *)

(* A token: keyword(text), ident(name), number(value).                     *)
Token == [t : {"keyword", "ident", "number"}, v : STRING, n : Int]
KW(s)  == [t |-> "keyword", v |-> s,  n |-> 0]
ID(s)  == [t |-> "ident",   v |-> s,  n |-> 0]
NUM(n) == [t |-> "number",  v |-> "", n |-> n]
STOP   == KW("$")

ASSUME VocabulariesAssumption ==
    \A name \in DOMAIN Vocabularies :
        LET vocab == Vocabularies[name]
        IN  vocab.start \in Seq(Token) /\ vocab.tokens \subseteq Token /\ vocab.max \in Nat

(* A node of the tree.  A child, and a pointer to a node in general, is a  *)
(* sequence of no node (null) or one.                                      *)
Node(k, left, right) == [k |-> k, id |-> "", n |-> 0, l |-> left, r |-> right]
Ident(s)  == [k |-> "ident",  id |-> s,  n |-> 0, l |-> <<>>, r |-> <<>>]
Number(n) == [k |-> "number", id |-> "", n |-> n, l |-> <<>>, r |-> <<>>]
null == <<>>

VARIABLES
    vocabulary, (* the name of that of this source                           *)
    toks, pos,  (* the tokens looked at, and where *toks points               *)
    todo,       (* the control stack of the recursion                         *)
    vals,       (* the nodes the active rules hold, last is newest            *)
    result,     (* "none", or what grammar_rule returned                      *)
    short,      (* create_ast_number has failed in exponent_rule (auxiliary)  *)
    past        (* next() was read past the last token (auxiliary)            *)

parser == <<vocabulary, toks, pos, todo, vals, result, short, past>>

(* Control.                                                                *)

(* h: how many nodes are held when the item is popped (auxiliary).         *)
It(k, h)         == [k |-> k, h |-> h]
Require(s, h)    == [k |-> "require", h |-> h, s |-> s]
More(l, h)       == [k |-> "more", h |-> h, l |-> l]
Binary(op, h)    == [k |-> "binary", h |-> h, op |-> op]
Target(const, h) == [k |-> "target", h |-> h, const |-> const]

held     == Len(vals)
Running  == result = "none" /\ todo # <<>>
At(k)    == Running /\ Head(todo).k = k
Do(rest) == todo' = rest \o Tail(todo)

Fetched  == pos <= Len(toks)
current  == toks[pos]
Sees(s)  == Fetched /\ current = KW(s)
SeesAny(set) == Fetched /\ current.t = "keyword" /\ current.v \in set
SeesIdent    == Fetched /\ current.t = "ident"
Next_is(s)   == pos < Len(toks) /\ toks[pos + 1] = KW(s)
move     == pos' = pos + 1
stay     == pos' = pos

Same == UNCHANGED <<vocabulary, toks, result, short, past>>
Push(node)    == vals' = Append(vals, node)
Top           == vals[Len(vals)]
Under         == vals[Len(vals) - 1]
Replace(n, v) == vals' = Append(SubSeq(vals, 1, Len(vals) - n), v)

(* Every rule hands an error on to its caller: syntax_error and core_error *)
(* return null, and so does grammar_rule in the end.                       *)
Fail(why) ==
    /\ result' = why /\ todo' = <<>> /\ vals' = <<>> /\ toks' = <<>> /\ pos' = 1
    /\ UNCHANGED <<vocabulary, short>>
Reject == Fail("syntax") /\ UNCHANGED past

(* The tokens an item looks at before it does anything: the one at the     *)
(* cursor, and the one after it to tell a call or an element from a name.  *)
Building == {"binary", "list", "constant", "index", "argument", "parameter", "negate", "not",
             "assign end", "define end", "if end", "ifelse end", "while end", "return end",
             "out end", "wrap", "null"}
Ahead(it) ==
    CASE it.k \in Building -> 0
      [] it.k = "target"   -> 2
      [] it.k \in {"statement", "simple", "exponent"} -> IF SeesIdent THEN 2 ELSE 1
      [] OTHER             -> 1
Missing == Len(toks) - pos + 1 < Ahead(Head(todo))

(* Tokens that finish what is open: a number, a return, or what the first  *)
(* item that insists on a token insists on.                                *)
Optional == Building \union {"more", "else"}
tokens == Vocabularies[vocabulary].tokens
Chosen(types) ==
    IF \E t \in tokens : t.t \in types THEN {t \in tokens : t.t \in types} ELSE {STOP}
Finishing ==
    LET insists == {i \in 1..Len(todo) : todo[i].k \notin Optional /\ (i > 1 \/ ~Fetched)}
        it      == todo[CHOOSE i \in insists : \A j \in insists : i <= j]
    IN  IF Fetched /\ Head(todo).k # "exponent" THEN {KW("=")}
        ELSE CASE it.k = "require"    -> {KW(it.s)}
               [] it.k = "exponent"   -> Chosen({"ident", "number"})
               [] it.k \in {"statement", "block", "simple"} -> {KW("return")}
               [] it.k = "block more" -> {KW("}")}
               [] it.k \in {"arguments", "more arguments", "parameters", "more parameters"}
                                      -> {KW(")")}
               [] it.k \in {"define", "target", "assign", "next parameter", "array", "call"}
                                      -> Chosen({"ident"})
               [] OTHER               -> {STOP}

Ended == toks # <<>> /\ toks[Len(toks)] = STOP

(* The next token of the source; a source ends with one STOP.              *)
NextToken ==
    /\ Running /\ Missing /\ ~Ended
    /\ \E t \in IF Len(toks) < Vocabularies[vocabulary].max THEN tokens ELSE Finishing :
          toks' = Append(toks, t)
    /\ UNCHANGED <<vocabulary, pos, todo, vals, result, short, past>>

(* The rules below act when the tokens they look at are there.             *)
Ready(k) == At(k) /\ (Missing => Ended)

(* grammar_rule, define_rule, assign_rule                                  *)

grammar_rule ==
    /\ Ready("grammar")
    /\ \/ /\ Sees("dump")
          /\ Do(<< It("define", held), It("list", held + 1), It("grammar", held) >>)
          /\ move /\ Same /\ UNCHANGED vals
       \/ /\ Sees("assert")
          /\ Do(<< Require("(", held), It("assign", held), Require(")", held + 1),
                   Require(";", held + 1), It("list", held + 1), It("grammar", held) >>)
          /\ move /\ Same /\ UNCHANGED vals
       \/ /\ SeesAny({"$"})
          /\ result' = IF Top = null THEN "empty" ELSE "tree"
          /\ Do(<<>>) /\ stay /\ UNCHANGED <<vocabulary, toks, vals, short, past>>
       \/ ~SeesAny({"dump", "assert", "$"}) /\ Reject

(* stmt->left = root; root = stmt                                          *)
list ==
    /\ At("list")
    /\ Replace(2, << Node("statement", Under, Top) >>)
    /\ Do(<<>>) /\ stay /\ Same

require ==
    /\ Ready("require")
    /\ IF Sees(Head(todo).s)
       THEN Do(<<>>) /\ move /\ Same /\ UNCHANGED vals
       ELSE Reject

Func(name) == Node("function", << Ident(name) >>, null)
define_rule ==
    /\ Ready("define")
    /\ IF SeesIdent
       THEN /\ Push(<< Func(current.v) >>)
            /\ Do(<< Require("(", held + 1), It("parameters", held + 1), Require(")", held + 1),
                     It("block", held + 1), It("define end", held + 2) >>)
            /\ move /\ Same
       ELSE Reject

(* The chain of parameters, the last one first.                            *)
Param(left, node) == Node("parameter", left, node)
AddParameter ==
    LET func == Top[1]
    IN  Replace(1, << [func EXCEPT !.r = << Param(@, << Ident(current.v) >>) >>] >>)

parameters ==
    /\ Ready("parameters")
    /\ IF SeesIdent THEN /\ AddParameter /\ move
                         /\ Do(<< It("more parameters", held) >>)
                    ELSE UNCHANGED vals /\ stay /\ Do(<<>>)
    /\ Same

MoreParameters ==
    /\ Ready("more parameters")
    /\ IF Sees(",") THEN move /\ Do(<< It("next parameter", held) >>)
                    ELSE stay /\ Do(<<>>)
    /\ Same /\ UNCHANGED vals

NextParameter ==
    /\ Ready("next parameter")
    /\ IF SeesIdent THEN /\ AddParameter /\ move /\ Same
                         /\ Do(<< It("more parameters", held) >>)
                    ELSE Reject

DefineEnd ==
    /\ At("define end")
    /\ Replace(2, << Node("define", Under, Top) >>)
    /\ Do(<<>>) /\ stay /\ Same

assign_rule ==
    /\ Ready("assign")
    /\ IF Sees("inv") THEN move /\ Do(<< Target(TRUE, held) >>)
                      ELSE stay /\ Do(<< Target(FALSE, held) >>)
    /\ Same /\ UNCHANGED vals

(* keyword(next(toks)) is read also when the token at the cursor is the    *)
(* last one; whatever it is then, array_rule and ident_rule reject STOP.   *)
AssignTarget ==
    /\ Ready("target")
    /\ LET const == Head(todo).const
           rest  == << Require("=", held + 1), It("expression", held + 1),
                       It("assign end", held + 2) >>
           named == IF const THEN << It("constant", held + 1) >> \o rest ELSE rest
       IN  IF Missing
           THEN Fail("syntax") /\ past' = TRUE
           ELSE /\ Do(<< It(IF Next_is("[") THEN "array" ELSE "ident", held) >> \o named)
                /\ stay /\ Same /\ UNCHANGED vals

Constant ==
    /\ At("constant")
    /\ Replace(1, << [Top[1] EXCEPT !.l = << Node("const", null, null) >>] >>)
    /\ Do(<<>>) /\ stay /\ Same

AssignEnd ==
    /\ At("assign end")
    /\ Replace(2, << Node("=", Under, Top) >>)
    /\ Do(<<>>) /\ stay /\ Same

ident_rule ==
    /\ Ready("ident")
    /\ IF SeesIdent THEN Push(<< Ident(current.v) >>) /\ Do(<<>>) /\ move /\ Same
                    ELSE Reject

array_rule ==
    /\ Ready("array")
    /\ IF SeesIdent
       THEN /\ Push(<< Ident(current.v) >>)
            /\ Do(<< Require("[", held + 1), It("expression", held + 1),
                     Require("]", held + 2), It("index", held + 2) >>)
            /\ move /\ Same
       ELSE Reject

Index ==
    /\ At("index")
    /\ Replace(2, << [Under[1] EXCEPT !.r = Top] >>)
    /\ Do(<<>>) /\ stay /\ Same

(* block_rule, statement_rule, if_rule, while_rule                         *)

(* The branch of block_rule for a statement that is itself a list (and the *)
(* free in it) is never taken: statement_rule returns no AST_STMT.         *)
block_rule ==
    /\ Ready("block")
    /\ Push(null)
    /\ IF Sees("{")
       THEN move /\ Do(<< It("statement", held + 1), It("list", held + 2),
                          It("block more", held + 1) >>)
       ELSE stay /\ Do(<< It("statement", held + 1), It("list", held + 2) >>)
    /\ Same

BlockMore ==
    /\ Ready("block more")
    /\ IF Sees("}")
       THEN move /\ Do(<<>>)
       ELSE stay /\ Do(<< It("statement", held), It("list", held + 1), It("block more", held) >>)
    /\ Same /\ UNCHANGED vals

Condition(rest) ==
    << Require("(", held), It("expression", held), Require(")", held + 1) >> \o rest

statement_rule ==
    /\ Ready("statement")
    /\ LET taken == SeesAny({"if", "while", "return", "assert"}) IN
       /\ IF taken THEN move ELSE stay
       /\ Do(CASE Sees("if") ->
                     Condition(<< It("block", held + 1), It("else", held + 2) >>)
               [] Sees("while") ->
                     Condition(<< It("block", held + 1), It("while end", held + 2) >>)
               [] Sees("return") ->
                     << It("expression", held), It("return end", held + 1), Require(";", held + 1) >>
               [] Sees("assert") ->
                     << Require("(", held), It("simple", held), Require(")", held + 1),
                        Require(";", held + 1) >>
               [] OTHER ->
                     << It("simple", held), Require(";", held + 1), It("wrap", held + 1) >>)
    /\ Same /\ UNCHANGED vals

SimpleStatement ==
    /\ Ready("simple")
    /\ IF SeesAny({"return", "out"}) THEN move ELSE stay
    /\ Do(CASE Sees("return") -> << It("expression", held), It("return end", held + 1) >>
            [] Sees("out")    -> Condition(<< It("out end", held + 1) >>)
            [] SeesIdent /\ Next_is("(") -> << It("call", held) >>
            [] OTHER          -> << It("assign", held) >>)
    /\ Same /\ UNCHANGED vals

(* A statement without assert( ) around it becomes the body of while (0).  *)
Wrap_bug ==
    /\ At("wrap")
    /\ Replace(1, << Node("while", << Number(0) >>, Top) >>)
    /\ Do(<<>>) /\ stay /\ Same
Wrap ==
    /\ At("wrap")
    /\ Replace(1, << Node("while", << Number(0) >>, << Node("statement", null, Top) >>) >>)
    /\ Do(<<>>) /\ stay /\ Same

Else ==
    /\ Ready("else")
    /\ IF Sees("else")
       THEN move /\ Do(<< It("block", held), It("ifelse end", held + 1) >>)
       ELSE stay /\ Do(<< It("if end", held) >>)
    /\ Same /\ UNCHANGED vals

StatementEnd ==
    /\ \/ /\ At("if end")
          /\ Replace(2, << Node("if", Under, << Node("decision", Top, null) >>) >>)
       \/ /\ At("ifelse end")
          /\ Replace(3, << Node("if", vals[Len(vals) - 2], << Node("decision", Under, Top) >>) >>)
       \/ At("while end")  /\ Replace(2, << Node("while", Under, Top) >>)
       \/ At("return end") /\ Replace(1, << Node("return", null, Top) >>)
       \/ At("out end")    /\ Replace(1, << Node("print", null, Top) >>)
    /\ Do(<<>>) /\ stay /\ Same

(* expression_rule and the rules below it.  Each level is an operand of    *)
(* the next level and then, as long as (or if) an operator of its own      *)
(* follows, the operator and another operand.                              *)

Operators_bug == << {"||", "&&"}, {"<", ">", "==", "!=", "<=", ">="}, {"*", "/"}, {"+", "-"}, {"^"} >>
Operators == << {"||", "&&"}, {"<", ">", "==", "!=", "<=", ">="}, {"+", "-"}, {"*", "/"}, {"^"} >>
Levels    == Len(Operators)
Repeats   == {1, 3, 4}

(* From level l down to an exponent, then back up.                         *)
Operand(l, h) ==
    << It("exponent", h) >> \o [i \in 1..(Levels - l + 1) |-> More(Levels + 1 - i, h + 1)]

expression_rule ==
    /\ At("expression")
    /\ Do(Operand(1, held))
    /\ stay /\ Same /\ UNCHANGED vals

MoreOperands ==
    /\ Ready("more")
    /\ LET l == Head(todo).l IN
       IF SeesAny(Operators[l])
       THEN /\ move
            /\ Do(Operand(l + 1, held) \o << Binary(current.v, held + 1) >>
                  \o IF l \in Repeats THEN << More(l, held) >> ELSE <<>>)
       ELSE stay /\ Do(<<>>)
    /\ Same /\ UNCHANGED vals

BinaryNode ==
    /\ At("binary")
    /\ Replace(2, << Node(Head(todo).op, Under, Top) >>)
    /\ Do(<<>>) /\ stay /\ Same

UnaryPlus_bug == Do(<< It("exponent", held) >>) /\ stay
UnaryPlus == Do(<< It("exponent", held) >>) /\ move

exponent_rule ==
    /\ Ready("exponent")
    /\ \/ /\ SeesIdent
          /\ Do(<< It(CASE Next_is("(") -> "call" [] Next_is("[") -> "array" [] OTHER -> "ident", held) >>)
          /\ stay /\ Same /\ UNCHANGED vals
       \/ /\ Fetched /\ current.t = "number"
          /\ Push(<< Number(current.n) >>)
          /\ Do(<<>>) /\ move /\ Same
       \/ /\ Sees("(")
          /\ Do(<< It("expression", held), Require(")", held + 1) >>)
          /\ move /\ Same /\ UNCHANGED vals
       \/ /\ Sees("!")
          /\ Do(<< It("exponent", held), It("not", held + 1) >>)
          /\ move /\ Same /\ UNCHANGED vals
       \/ /\ Sees("+")
          /\ UnaryPlus /\ Same /\ UNCHANGED vals
       \/ /\ Sees("-")
          /\ Push(<< Number(0) >>)
          /\ Do(<< It("exponent", held + 1), It("negate", held + 2) >>)
          /\ move /\ Same
       \/ /\ Sees("in")
          /\ Push(<< Node("scan", null, null) >>)
          /\ Do(<< Require("(", held + 1), Require(")", held + 1) >>)
          /\ move /\ Same
       \/ ~SeesIdent /\ current.t # "number" /\ ~SeesAny({"(", "!", "+", "-", "in"}) /\ Reject

Unary ==
    /\ \/ At("not")    /\ Replace(1, << Node("!", null, Top) >>)
       \/ At("negate") /\ Replace(2, << Node("-", Under, Top) >>)
    /\ Do(<<>>) /\ stay /\ Same

function_rule ==
    /\ Ready("call")
    /\ Push(<< Node("call", << Ident(current.v) >>, null) >>)
    /\ Do(<< Require("(", held + 1), It("arguments", held + 1) >>)
    /\ move /\ Same

NextArgument == << It("expression", held), It("argument", held + 1), It("more arguments", held) >>

arguments ==
    /\ Ready("arguments")
    /\ IF Sees(")") THEN move /\ Do(<<>>) ELSE stay /\ Do(NextArgument)
    /\ Same /\ UNCHANGED vals

Argument ==
    /\ At("argument")
    /\ Replace(2, << [Under[1] EXCEPT !.r = << Param(@, Top) >>] >>)
    /\ Do(<<>>) /\ stay /\ Same

MoreArguments ==
    /\ Ready("more arguments")
    /\ \/ Sees(",") /\ move /\ Do(NextArgument) /\ Same /\ UNCHANGED vals
       \/ Sees(")") /\ move /\ Do(<<>>) /\ Same /\ UNCHANGED vals
       \/ ~SeesAny({",", ")"}) /\ Reject

(* Memory.                                                                 *)

(* The rules that create a node and look at whether there is one.  Those   *)
(* of "list" and "binary" are created before the operand is parsed; what   *)
(* is parsed in vain meanwhile cannot be seen.                             *)
Creating == {"grammar", "define", "parameters", "next parameter", "assign", "ident", "array",
             "constant", "block", "statement", "simple", "wrap", "call", "argument", "exponent"}
OutOfMemory ==
    /\ Running /\ (Missing => Ended)
    /\ \/ Head(todo).k \in Creating
       \/ At("more") /\ SeesAny(Operators[Head(todo).l]) /\ Head(todo).l \in {4, 5}
    /\ Fail("core") /\ UNCHANGED past

(* if_rule, statement_rule and the loops of expression_rule and            *)
(* boolean_rule test another node than the one they have just created.     *)
NullDereference ==
    /\ Running /\ (Missing => Ended)
    /\ \/ At("wrap")
       \/ At("statement") /\ Sees("if")
       \/ At("more") /\ SeesAny(Operators[Head(todo).l]) /\ Head(todo).l \in {1, 3}
    /\ Fail("crash") /\ UNCHANGED past

(* The zero of a negation is not looked at at all: the node stays without  *)
(* a left operand.                                                         *)
ShortNegation ==
    /\ At("negate")
    /\ Replace(2, << Node("-", null, Top) >>)
    /\ Do(<<>>) /\ stay /\ short' = TRUE
    /\ UNCHANGED <<vocabulary, toks, result, past>>

ParserInit ==
    /\ vocabulary \in DOMAIN Vocabularies
    /\ toks = Vocabularies[vocabulary].start /\ pos = 1
    /\ todo = << It("grammar", 1) >> /\ vals = << null >>
    /\ result = "none" /\ short = FALSE /\ past = FALSE

(* grammar_rule over a source that is already there.                       *)
Restart(source) ==
    /\ toks' = source /\ pos' = 1
    /\ todo' = << It("grammar", 1) >> /\ vals' = << null >>
    /\ result' = "none" /\ short' = FALSE /\ past' = FALSE
    /\ UNCHANGED vocabulary

Declaration == grammar_rule \/ list \/ require \/ define_rule \/ parameters \/ MoreParameters
               \/ NextParameter \/ DefineEnd
Assignment  == assign_rule \/ AssignTarget \/ Constant \/ AssignEnd \/ ident_rule \/ array_rule
               \/ Index
Statement   == block_rule \/ BlockMore \/ statement_rule \/ SimpleStatement \/ Wrap \/ Else
               \/ StatementEnd
Expression  == expression_rule \/ MoreOperands \/ BinaryNode \/ exponent_rule \/ Unary
               \/ function_rule \/ arguments \/ Argument \/ MoreArguments
Memory      == OutOfMemory \/ NullDereference \/ ShortNegation

Rule == NextToken \/ Declaration \/ Assignment \/ Statement \/ Expression

====
