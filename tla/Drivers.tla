---- MODULE Drivers ----
(* The four main.cpp and the files they share, as the recipes of the         *)
(* Makefile and a user run them: one program at a time, on whatever the last *)
(* one left. What the stages do to a program is given by the constants here; *)
(* it is the subject of Lexer, Frontend, LegacyCompiler, ObjectFile, IRGen.  *)
EXTENDS FiniteSets

CONSTANTS
    \* The programs the source file may hold.
    Programs,
    \* Those grammar_rule accepts, those compile_tree, IRGenerator and
    \* trans_stmt accept, and those that define main.
    Parses, Compiles, Generates, Prints, HasMain,
    \* <<program, file>> for the files, "source" or "tree", that fill their
    \* last page.
    Fills

VARIABLES
    source,   \* what the source file holds: a program, or nothing
    tree,     \* the tree file
    object,   \* what the legacy backend writes
    module,   \* what the LLVM backend writes
    printed,  \* what the transpiler writes
    last,     \* the program run last, and how it ended
    taken     \* auxiliary: the source the frontend last opened its output for

vars == <<source, tree, object, module, printed, last, taken>>
files == <<source, tree, object, module, printed, taken>>

(* What a file holds, and of which program. "code" is an object without any. *)
Nothing == "nothing"
File(of, state) == [of |-> of, state |-> state]
Missing == File(Nothing, "missing")
Empty == File(Nothing, "empty")

Exit(program, code) == last' = [program |-> program, code |-> code]
EXIT_SUCCESS == "success"
EXIT_FAILURE == "failure"
Killed == "killed"

(* mmap_in refuses a file that is not there and one that is empty. It maps a *)
(* byte more than the file has and writes a zero there: where the file fills *)
(* its last page this byte is on a page without file, and the write kills    *)
(* the program.                                                              *)
MapFails(file) == file.state \in {"missing", "empty"}
MapKills(file, kind) == file.state = "whole" /\ <<file.of, kind>> \in Fills
MapMayKill(file, kind) == MapKills(file, kind) \/ file.state = "cut"
Mapped(file, kind) == ~MapFails(file) /\ ~MapKills(file, kind)

SourceFile == IF source = Nothing THEN Empty ELSE File(source, "whole")

Init ==
    /\ source \in Programs \union {Nothing}
    /\ tree = Missing /\ object = Missing /\ module = Missing
    /\ printed = Missing /\ last = [program |-> "none", code |-> EXIT_SUCCESS]
    /\ taken = Nothing

Edit ==
    /\ source' \in (Programs \union {Nothing}) \ {source}
    /\ UNCHANGED <<tree, object, module, printed, last, taken>>

\* Slip: the tree file is opened when there is a tree to save.
Opened_bug == tree
Opened == Empty

(* frontend/main.cpp opens the tree file for writing before it looks at the  *)
(* source. It is killed as well by dump_tokens when tokenize had no memory.  *)
FrontendFails ==
    /\ UNCHANGED <<source, object, module, printed>>
    /\ \/ tree' = tree /\ taken' = taken /\ Exit("tr", EXIT_FAILURE)
       \/ /\ tree' = Opened /\ taken' = source
          /\ \/ MapFails(SourceFile) /\ Exit("tr", EXIT_FAILURE)
             \/ ~MapFails(SourceFile) /\ Exit("tr", Killed)
             \/ /\ Mapped(SourceFile, "source") /\ source \notin Parses
                /\ Exit("tr", EXIT_FAILURE)

(* Nothing looks at what fprintf and fclose return: a full disk is success.  *)
Frontend ==
    /\ Mapped(SourceFile, "source") /\ source \in Parses
    /\ \E state \in {"whole", "cut"} : tree' = File(source, state)
    /\ taken' = source
    /\ Exit("tr", EXIT_SUCCESS)
    /\ UNCHANGED <<source, object, module, printed>>

(* A cut file may be no tree, or another tree than the one that was saved.   *)
TreeRead == Mapped(tree, "tree")
TreeRejected == TreeRead /\ tree.state = "cut"

(* legacy/main.cpp. The exit status looks at the tree and at `error`, which  *)
(* is that of mmap_in; what compile_tree returns is in `err`.                *)
LegacyFails ==
    /\ UNCHANGED files
    /\ \/ (MapFails(tree) \/ TreeRejected) /\ Exit("cum", EXIT_FAILURE)
       \/ MapMayKill(tree, "tree") /\ Exit("cum", Killed)

CompileFails == TreeRead /\ (tree.state = "cut" \/ tree.of \notin Compiles)

LegacyRejects ==
    /\ CompileFails
    /\ UNCHANGED files /\ Exit("cum", EXIT_SUCCESS)

(* Without main compile_tree emits nothing and returns no error. mmap_out    *)
(* may fail before it has made the file or after; what follows is a copy to  *)
(* a null pointer.                                                           *)
Legacy ==
    /\ TreeRead /\ (tree.state = "cut" \/ tree.of \in Compiles)
    /\ UNCHANGED <<source, tree, module, printed, taken>>
    /\ \/ /\ object' = File(tree.of, IF tree.of \in HasMain THEN tree.state ELSE "code")
          /\ Exit("cum", EXIT_SUCCESS)
       \/ object' \in {object, File(Nothing, "cut")} /\ Exit("cum", Killed)

(* backend/llvm/main.cpp: an exception is reported and main ends, with 0.    *)
(* The output is opened when the tree has been read.                         *)
LLVMFails ==
    /\ UNCHANGED <<source, tree, object, printed, taken>>
    /\ \/ /\ MapFails(tree) \/ TreeRejected
          /\ module' = module /\ Exit("cum-llvm", EXIT_SUCCESS)
       \/ MapMayKill(tree, "tree") /\ module' = module /\ Exit("cum-llvm", Killed)
       \/ /\ TreeRead /\ (tree.state = "cut" \/ tree.of \notin Generates)
          /\ module' = Empty /\ Exit("cum-llvm", EXIT_SUCCESS)

LLVM ==
    /\ TreeRead /\ (tree.state = "cut" \/ tree.of \in Generates)
    /\ module' = File(tree.of, tree.state) /\ Exit("cum-llvm", EXIT_SUCCESS)
    /\ UNCHANGED <<source, tree, object, printed, taken>>

(* trans/main.cpp opens its output first, and prints as far as it gets.      *)
TranspilerFails ==
    /\ UNCHANGED <<source, tree, object, module, taken>>
    /\ \/ printed' = printed /\ Exit("rev", EXIT_FAILURE)
       \/ /\ MapFails(tree) \/ TreeRejected
          /\ printed' = Empty /\ Exit("rev", EXIT_FAILURE)
       \/ MapMayKill(tree, "tree") /\ printed' = Empty /\ Exit("rev", Killed)
       \/ /\ TreeRead /\ (tree.state = "cut" \/ tree.of \notin Prints)
          /\ printed' = File(tree.of, "cut") /\ Exit("rev", EXIT_FAILURE)

Transpiler ==
    /\ TreeRead /\ (tree.state = "cut" \/ tree.of \in Prints)
    /\ \E state \in {tree.state, "cut"} : printed' = File(tree.of, state)
    /\ Exit("rev", EXIT_SUCCESS)
    /\ UNCHANGED <<source, tree, object, module, taken>>

Next ==
    \/ Edit \/ FrontendFails \/ Frontend
    \/ LegacyFails \/ LegacyRejects \/ Legacy
    \/ LLVMFails \/ LLVM \/ TranspilerFails \/ Transpiler
Spec == Init /\ [][Next]_vars

(* The tree file never holds a tree of an earlier source than the one the    *)
(* frontend last opened its output for, whatever became of that run: a       *)
(* backend that is run after a failure finds nothing to compile. About       *)
(* fopen(tree_file, "w") in frontend/main.cpp, which comes before everything *)
(* else that may fail, and mmap_in, which refuses an empty file.             *)
NoStaleTree ==
    TreeRead => tree.of = taken

(* When the legacy backend says "Compilation succeed" there is an object     *)
(* file, and it is that of the tree.                                         *)
SuccessMeansObject ==
    last = [program |-> "cum", code |-> EXIT_SUCCESS] /\ tree.state = "whole"
        => object.of = tree.of
====
