---- MODULE FrontendProperties ----
(* What a source, its tree and the tree file must have to do with one      *)
(* another.                                                                *)
EXTENDS Frontend

(* The operators that take two operands, those that bind least first.      *)
Precedence == << {"||", "&&"}, {"<", ">", "==", "!=", "<=", ">="}, {"+", "-"}, {"*", "/"}, {"^"} >>
Tightest   == Len(Precedence) + 1
Binaries   == UNION {Precedence[l] : l \in DOMAIN Precedence}
Leaf(c, kinds) == c # <<>> /\ c[1].k \in kinds /\ c[1].l = <<>> /\ c[1].r = <<>>

RECURSIVE IsExpr(_), IsArguments(_), IsParameters(_), IsBody(_, _)
IsExpr(c) ==
    /\ c # <<>>
    /\ LET node == c[1] IN
       \/ Leaf(c, {"number", "scan"})
       \/ node.k = "ident" /\ node.l = <<>> /\ (node.r = <<>> \/ IsExpr(node.r))
       \/ node.k = "call" /\ Leaf(node.l, {"ident"}) /\ IsArguments(node.r)
       \/ node.k = "!" /\ node.l = <<>> /\ IsExpr(node.r)
       \/ node.k \in Binaries /\ IsExpr(node.l) /\ IsExpr(node.r)
IsArguments(c) ==
    c = <<>> \/ (c[1].k = "parameter" /\ IsArguments(c[1].l) /\ IsExpr(c[1].r))
IsParameters(c) ==
    c = <<>> \/ (c[1].k = "parameter" /\ IsParameters(c[1].l) /\ Leaf(c[1].r, {"ident"}))
IsAssign(node) ==
    /\ node.k = "=" /\ IsExpr(node.r)
    /\ node.l # <<>> /\ node.l[1].k = "ident"
    /\ node.l[1].l = <<>> \/ Leaf(node.l[1].l, {"const"})
    /\ node.l[1].r = <<>> \/ IsExpr(node.l[1].r)
IsFunction(node) ==
    /\ node.k = "define" /\ node.l # <<>> /\ node.l[1].k = "function"
    /\ Leaf(node.l[1].l, {"ident"}) /\ IsParameters(node.l[1].r)
    /\ IsBody(node.r, "statement")
IsStatement(node) ==
    \/ IsAssign(node)
    \/ node.k = "call" /\ IsExpr(<<node>>)
    \/ node.k \in {"print", "return"} /\ node.l = <<>> /\ IsExpr(node.r)
    \/ node.k = "while" /\ IsExpr(node.l) /\ IsBody(node.r, "statement")
    \/ /\ node.k = "if" /\ IsExpr(node.l) /\ node.r # <<>> /\ node.r[1].k = "decision"
       /\ IsBody(node.r[1].l, "statement")
       /\ node.r[1].r = <<>> \/ IsBody(node.r[1].r, "statement")
IsBody(c, of) ==
    /\ c # <<>> /\ c[1].k = "statement" /\ c[1].r # <<>>
    /\ c[1].l = <<>> \/ IsBody(c[1].l, of)
    /\ IF of = "program" THEN IsAssign(c[1].r[1]) \/ IsFunction(c[1].r[1])
                         ELSE IsStatement(c[1].r[1])

(* A source that is accepted becomes a tree of the shape the backends and  *)
(* the transpiler take for granted when they look at a child: unless       *)
(* memory ran out in a negation.                                           *)
TreeShape == result = "tree" /\ ~short => IsBody(Top, "program")

(* The shortest source of a tree: with the brackets that the order of the  *)
(* operators asks for, and no others.                                      *)
kws(s) == << KW(s) >>
Bracketed(ts) == kws("(") \o ts \o kws(")")
Negation(node) == node.k = "-" /\ (node.l = <<>> \/ (Leaf(node.l, {"number"}) /\ node.l[1].n = 0))
Level(node) ==
    IF node.k \in Binaries /\ ~Negation(node)
    THEN CHOOSE l \in DOMAIN Precedence : node.k \in Precedence[l] ELSE Tightest

RECURSIVE Expr(_, _), Separated(_), Names(_), Stmts(_)
Expr(c, least) ==
    LET node == c[1]
        l    == Level(node)
        text == CASE node.k = "number" -> << NUM(node.n) >>
                  [] node.k = "ident"  -> << ID(node.id) >> \o
                        (IF node.r = <<>> THEN <<>> ELSE kws("[") \o Expr(node.r, 1) \o kws("]"))
                  [] node.k = "scan"   -> << KW("in"), KW("("), KW(")") >>
                  [] node.k = "call"   -> << ID(node.l[1].id) >> \o Bracketed(Separated(node.r))
                  [] node.k = "!"      -> kws("!") \o Expr(node.r, Tightest)
                  [] Negation(node)    -> kws("-") \o Expr(node.r, Tightest)
                  [] OTHER -> Expr(node.l, IF l \in {1, 3, 4} THEN l ELSE l + 1)
                                  \o kws(node.k) \o Expr(node.r, l + 1)
    IN  IF l < least THEN Bracketed(text) ELSE text
Separated(c) ==
    IF c = <<>> THEN <<>>
    ELSE (IF c[1].l = <<>> THEN <<>> ELSE Separated(c[1].l) \o kws(",")) \o Expr(c[1].r, 1)
Names(c) ==
    IF c = <<>> THEN <<>>
    ELSE (IF c[1].l = <<>> THEN <<>> ELSE Names(c[1].l) \o kws(",")) \o << ID(c[1].r[1].id) >>

(* A statement without brackets around it that an else would belong to.    *)
Single(c) == c[1].l = <<>>
Never(node) == node.k = "while" /\ Leaf(node.l, {"number"}) /\ node.l[1].n = 0
RECURSIVE TakesElse(_)
TakesElse(c) ==
    /\ Single(c)
    /\ LET node == c[1].r[1] IN
       \/ node.k = "while" /\ ~Never(node) /\ TakesElse(node.r)
       \/ node.k = "if" /\ (node.r[1].r = <<>> \/ TakesElse(node.r[1].r))
Block_(c, beforeElse) ==
    IF Single(c) /\ ~(beforeElse /\ TakesElse(c)) THEN Stmts(c) ELSE kws("{") \o Stmts(c) \o kws("}")

Bare(node) ==
    CASE node.k = "="     -> (IF node.l[1].l = <<>> THEN <<>> ELSE kws("inv"))
                               \o Expr(node.l, 1) \o kws("=") \o Expr(node.r, 1)
      [] node.k = "print" -> kws("out") \o Bracketed(Expr(node.r, 1))
      [] OTHER            -> Expr(<< node >>, 1)
Stmt(node) ==
    CASE Never(node)       -> Bare(node.r[1].r[1]) \o kws(";")
      [] node.k = "return" -> kws("return") \o Expr(node.r, 1) \o kws(";")
      [] node.k = "while"  -> kws("while") \o Bracketed(Expr(node.l, 1)) \o Block_(node.r, FALSE)
      [] node.k = "if"     ->
            LET decision == node.r[1] IN
            kws("if") \o Bracketed(Expr(node.l, 1)) \o Block_(decision.l, decision.r # <<>>)
              \o (IF decision.r = <<>> THEN <<>> ELSE kws("else") \o Block_(decision.r, FALSE))
      [] node.k = "define" ->
            << KW("dump"), ID(node.l[1].l[1].id) >> \o Bracketed(Names(node.l[1].r))
              \o Block_(node.r, FALSE)
      [] OTHER             -> kws("assert") \o Bracketed(Bare(node)) \o kws(";")
Stmts(c) == (IF c[1].l = <<>> THEN <<>> ELSE Stmts(c[1].l)) \o Stmt(c[1].r[1])

Redundant == {KW(s) : s \in {"(", ")", "{", "}", "assert", "+", "$"}}
Kept(ts)  == SelectSeq(ts, LAMBDA t : t \notin Redundant)

(* The tree is that of the source: written out again with no bracket to    *)
(* spare it has the same tokens in the same order, and a source that has   *)
(* no bracket to spare is got back as it was: so operators bind and        *)
(* associate as the rules of the grammar are layered, an else belongs to   *)
(* the last if, and no statement, argument or parameter changes its place. *)
SourceKept ==
    stage = "saved" =>
        LET text == Stmts(tree)
        IN  /\ Kept(text) = Kept(source)
            /\ Len(text) < Len(source)
            /\ Len(text) = Len(source) - 1 => Append(text, STOP) = source

RECURSIVE Skeleton(_), InOrder(_)
Skeleton(c) ==
    IF c = <<>> THEN <<>>
    ELSE << [c[1] EXCEPT !.n = 0, !.l = Skeleton(c[1].l), !.r = Skeleton(c[1].r)] >>
InOrder(c) ==
    IF c = <<>> THEN <<>> ELSE InOrder(c[1].l) \o << c[1].n >> \o InOrder(c[1].r)

Distance(a, b) == IF a < b THEN b - a ELSE a - b

(* A tree that was saved is read as it was.  Numbers beyond 2^PRECISION    *)
(* may move to another one as near as a double gets to them; one too large *)
(* for num_t after that becomes the least num_t.                           *)
FileKeepsTree ==
    stage \in {"read", "reparse", "done"} /\ tree # <<>> /\ ~cut =>
        /\ Skeleton(back) = Skeleton(tree)
        /\ LET was == InOrder(tree)
               is  == InOrder(back)
           IN  \A i \in DOMAIN was :
                 \/ is[i] = was[i]
                 \/ was[i] > 2^PRECISION /\ Distance(is[i], was[i]) * 2^PRECISION <= was[i]
                 \/ was[i] + was[i] \div 2^PRECISION >= 2^(WIDTH - 1) /\ is[i] = -(2^(WIDTH - 1))

(* A file that has lost its end is refused, or read as a tree that has     *)
(* lost what hangs to the right of its last node: everything to the left   *)
(* of a node is there when the node is.                                    *)
RECURSIVE LostRight(_, _)
LostRight(was, is) ==
    IF is.r = <<>> THEN Skeleton(is.l) = Skeleton(was.l)
    ELSE /\ is.k = was.k /\ is.id = was.id /\ was.r # <<>>
         /\ Skeleton(is.l) = Skeleton(was.l)
         /\ LostRight(was.r[1], is.r[1])
CutLosesRightEnd == cut /\ back # <<>> => LostRight(tree[1], back[1])

(* What became of a number: a number, a name (nan), or the negation of one. *)
Printed(c)  == Leaf(c, {"number", "ident"})
Misprint(c) == Printed(c) \/ (c # <<>> /\ Negation(c[1]) /\ Printed(c[1].r))

RECURSIVE ButNumbers(_, _)
ButNumbers(was, is) ==
    IF was = <<>> THEN is = <<>>
    ELSE IF was[1].k = "number" THEN Misprint(is)
    ELSE /\ is # <<>> /\ is[1].k = was[1].k /\ is[1].id = was[1].id
         /\ ButNumbers(was[1].l, is[1].l) /\ ButNumbers(was[1].r, is[1].r)

(* If what trans_stmt prints is accepted at all, it is parsed as the tree  *)
(* it was given, but for the numbers: in the place of each there is what   *)
(* it was printed as, which may be another number, a name (nan) or the     *)
(* negation of one, and no more than that is changed by it.  When they are *)
(* printed right the frontend accepts it and gets the tree back; only a    *)
(* number below zero comes back as a negation.                             *)
TranspiledParsesBack ==
    stage = "reparse" /\ result # "none" /\ ~short_once /\ ~short =>
        /\ result = "tree" => ButNumbers(back, Top)
        /\ exact => /\ result \notin {"syntax", "empty"}
                    /\ result = "tree" /\ (\A i \in DOMAIN InOrder(back) : InOrder(back)[i] >= 0)
                          => Top = back

(* Whatever the source, grammar_rule returns: no rule goes on without      *)
(* taking a token, and none waits for one that does not come.              *)
Terminates == result = "none" ~> result # "none"
====
