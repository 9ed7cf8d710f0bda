---- MODULE Frontend ----
(***************************************************************************)
(* The way of a program to a backend and back: frontend/main.cpp parses    *)
(* the source and saves the tree, trans/main.cpp reads the tree and prints *)
(* it as a source, and the frontend parses that again.  The file may be    *)
(* cut on the way: no program looks at what fprintf and fclose return.     *)
(***************************************************************************)
EXTENDS Parser, TreeFile, Transpiler

VARIABLES
    stage,      (* "parse", "saved", "read", "reparse", "done"               *)
    source,     (* the tokens of the source, once the tree is there          *)
    short_once, (* `short' of the first parse                                *)
    tree,       (* the tree the frontend saves                               *)
    file,       (* the tree file                                             *)
    cut,        (* the file lost its end                                     *)
    back,       (* what read_ast_tree made of the file: no tree or one       *)
    exact       (* the numbers in what trans_stmt printed are those of tree  *)

ways == <<stage, source, short_once, tree, file, cut, back, exact>>
vars == <<parser, ways>>

Init ==
    /\ ParserInit
    /\ stage = "parse" /\ source = <<>> /\ short_once = FALSE /\ tree = <<>>
    /\ file = <<>> /\ cut = FALSE /\ back = <<>> /\ exact = FALSE

Parsing == stage \in {"parse", "reparse"} /\ UNCHANGED ways
Parse      == Parsing /\ Rule
ParseFails == Parsing /\ Memory

(* An empty program is null to main, as one that does not parse is.        *)
Abandon ==
    /\ stage = "parse" /\ result \notin {"none", "tree"}
    /\ stage' = "done"
    /\ UNCHANGED <<parser, source, short_once, tree, file, cut, back, exact>>

SaveTree ==
    /\ stage = "parse" /\ result = "tree"
    /\ stage' = "saved"
    /\ tree' = Top /\ source' = toks /\ short_once' = short
    /\ \/ file' = save_ast_tree(Top[1]) /\ cut' = FALSE
       \/ file' \in Cuts(save_ast_tree(Top[1])) /\ cut' = TRUE
    /\ UNCHANGED <<parser, back, exact>>

ReadTree ==
    /\ stage = "saved"
    /\ back' = read_ast_tree(file)
    /\ stage' = IF back' = <<>> THEN "done" ELSE "read"
    /\ UNCHANGED <<parser, source, short_once, tree, file, cut, exact>>

Transpile ==
    /\ stage = "read"
    /\ \E how \in Ways :
       LET text == trans_stmt(back, how)
       IN  /\ exact' = (text = trans_stmt(back, "right"))
           /\ IF cut \/ Fails(text) THEN stage' = "done" /\ UNCHANGED parser
                             ELSE stage' = "reparse" /\ Restart(Append(text, STOP))
    /\ UNCHANGED <<source, short_once, tree, file, cut, back>>

Finish ==
    /\ stage = "reparse" /\ result # "none"
    /\ stage' = "done"
    /\ UNCHANGED <<parser, source, short_once, tree, file, cut, back, exact>>

Terminating == stage = "done" /\ UNCHANGED vars

Next == Parse \/ ParseFails \/ Abandon \/ SaveTree \/ ReadTree \/ Transpile \/ Finish \/ Terminating

(* A frontend that was started runs and waits for nothing; memory need not *)
(* run out, and nobody has to start the next program.                      *)
Spec == Init /\ [][Next]_vars /\ WF_vars(Parse)

====
