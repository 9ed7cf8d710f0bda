---- MODULE Transpiler ----
(***************************************************************************)
(* trans/transpile.cpp: the tree is printed as a source again.  What is    *)
(* printed is a sequence of the tokens the lexer makes of it.  Each        *)
(* operator below stands for the function trans_<name>; where it meets an  *)
(* error, or an assert that fails, there is `Failed', and what follows it  *)
(* is not printed.                                                         *)
(***************************************************************************)
EXTENDS Integers, Sequences

LOCAL KW(s) == [t |-> "keyword", v |-> s,  n |-> 0]
LOCAL ID(s) == [t |-> "ident",   v |-> s,  n |-> 0]
Failed    == KW("failed")
Fails(text) == \E i \in DOMAIN text : text[i] = Failed

Is(child, keyword) == child # <<>> /\ child[1].k = keyword
kw(s) == << KW(s) >>

TransOperators == {"||", "+", "-", "*", "/", "^", "<", "!", "&&", ">", "==", "!=", ">=", "<="}

(* "%lg" prints a number that was passed as an integer: `how' it comes out *)
(* is the double that the floating point register holds, right or not.     *)
(* One without a fraction and an exponent is a number, after a minus sign  *)
(* when negative; nan and inf are names to the lexer; a fraction or an     *)
(* exponent is a word after a number, which no rule accepts.  A bound: all *)
(* the numbers of one text come out in the same way.                       *)
LOCAL NUM(n) == [t |-> "number", v |-> "", n |-> n]
Ways == {"right", "number", "-number", "name", "-name", "fraction"}
Numbers(n, how) ==
    CASE how = "right"    -> IF n < 0 THEN << KW("-"), NUM(-n) >> ELSE << NUM(n) >>
      [] how = "number"   -> << NUM(0) >>
      [] how = "-number"  -> << KW("-"), NUM(2) >>
      [] how = "name"     -> << ID("nan") >>
      [] how = "-name"    -> << KW("-"), ID("nan") >>
      [] how = "fraction" -> << NUM(0), ID(".5") >>

RECURSIVE trans_expr(_, _), trans_call_param(_, _), trans_stmt(_, _), trans_define_param(_)

variable(node, how) ==
    (IF node.l = <<>> THEN <<>> ELSE kw("inv")) \o << ID(node.id) >>
       \o IF node.r = <<>> THEN <<>> ELSE kw("[") \o trans_expr(node.r, how) \o kw("]")

call(node, how) ==
    << ID(node.l[1].id), KW("(") >>
      \o (IF node.r = <<>> THEN <<>> ELSE trans_call_param(node.r, how)) \o kw(")")

trans_call_param(param, how) ==
    LET before == IF param[1].l = <<>> THEN <<>> ELSE trans_call_param(param[1].l, how) \o kw(",")
    IN  before \o (IF param[1].r = <<>> THEN << Failed >> ELSE trans_expr(param[1].r, how))

TransBinary_bug(node, how) ==
    (IF node.l = <<>> THEN <<>> ELSE trans_expr(node.l, how)) \o kw(node.k)
        \o (IF node.r = <<>> THEN <<>> ELSE trans_expr(node.r, how))
TransBinary(node, how) ==
    kw("(") \o (IF node.l = <<>> THEN <<>> ELSE trans_expr(node.l, how)) \o kw(node.k)
        \o (IF node.r = <<>> THEN <<>> ELSE trans_expr(node.r, how)) \o kw(")")

trans_expr(expr, how) ==
    LET node == expr[1]
    IN  CASE node.k = "call"   -> call(node, how)
          [] node.k = "ident"  -> variable(node, how)
          [] node.k = "number" -> Numbers(node.n, how)
          [] node.k = "scan"   -> << KW("in"), KW("("), KW(")") >>
          [] node.k \in TransOperators -> TransBinary(node, how)
          [] OTHER             -> << Failed >>

(* A missing right-hand side is no error here: trans_assign returns null.  *)
assign(node, how) ==
    variable(node.l[1], how) \o kw("=")
      \o (IF node.r = <<>> THEN <<>> ELSE trans_expr(node.r, how))

Block(body, how) == kw("{") \o trans_stmt(body, how) \o kw("}")

if(node, how) ==
    LET decision == node.r[1]
    IN  IF node.r = <<>> THEN << KW("if"), KW("("), Failed >>
        ELSE << KW("if"), KW("(") >> \o trans_expr(node.l, how) \o kw(")")
               \o (IF Is(decision.l, "statement") THEN Block(decision.l, how) ELSE << Failed >>)
               \o (IF decision.r = <<>> THEN <<>> ELSE kw("else") \o Block(decision.r, how))

while(node, how) ==
    IF node.r = <<>> THEN << KW("while"), KW("("), Failed >>
    ELSE << KW("while"), KW("(") >> \o trans_expr(node.l, how) \o kw(")") \o Block(node.r, how)

return(node, how) ==
    kw("return") \o (IF node.r = <<>> THEN << Failed >> ELSE trans_expr(node.r, how)) \o kw(";")
out(node, how) ==
    << KW("out"), KW("(") >>
      \o (IF node.r = <<>> THEN << Failed >> ELSE trans_expr(node.r, how)) \o kw(")")

trans_define_param(param) ==
    LET before == IF param[1].l = <<>> THEN <<>> ELSE trans_define_param(param[1].l) \o kw(",")
    IN  before \o (IF Is(param[1].r, "ident") THEN << ID(param[1].r[1].id) >> ELSE << Failed >>)

define(node, how) ==
    LET func == node.l[1]
    IN  << KW("dump"), ID(func.l[1].id), KW("(") >>
          \o (IF func.r = <<>> THEN <<>> ELSE trans_define_param(func.r)) \o kw(")")
          \o (IF node.r = <<>> THEN << Failed >> ELSE Block(node.r, how))

Asserted(text) == << KW("assert"), KW("(") >> \o text \o << KW(")"), KW(";") >>

trans_stmt(stmt, how) ==
    LET before == IF Is(stmt[1].l, "statement") THEN trans_stmt(stmt[1].l, how) ELSE <<>>
        is(k)  == Is(stmt[1].r, k)
        node   == stmt[1].r[1]
    IN  before \o CASE is("define") -> define(node, how)
                    [] is("return") -> return(node, how)
                    [] is("while")  -> while(node, how)
                    [] is("if")     -> if(node, how)
                    [] is("=")      -> Asserted(assign(node, how))
                    [] is("call")   -> Asserted(call(node, how))
                    [] is("print")  -> Asserted(out(node, how))
                    [] OTHER        -> << KW("assert"), KW("("), Failed >>

====
