---- MODULE Drivers_proofs ----
(* The programs run in any order, on any sources, leave no stale tree.       *)
EXTENDS Drivers, TLAPS

(* A tree in the file, whole or cut, is of the source the frontend last      *)
(* opened the file for; otherwise there is no file, or an empty one. Unlike  *)
(* NoStaleTree it speaks of the files that kill their reader as well.        *)
FreshTree ==
    \/ tree.state \in {"missing", "empty"}
    \/ tree.of = taken

LEMMA FreshInit == Init => FreshTree
  BY DEF Init, FreshTree, Missing, File

(* Only the frontend writes the tree file, and it notes for which source.    *)
LEMMA FreshStep == FreshTree /\ [Next]_vars => FreshTree'
<1> SUFFICES ASSUME FreshTree, [Next]_vars PROVE FreshTree'
  OBVIOUS
<1>1. CASE tree' = tree /\ taken' = taken
  BY <1>1 DEF FreshTree
<1>2. CASE FrontendFails
  BY <1>2 DEF FrontendFails, FreshTree, Opened, Empty, File
<1>3. CASE Frontend
  BY <1>3 DEF Frontend, FreshTree, File
<1>4. CASE Edit \/ LegacyFails \/ LegacyRejects \/ Legacy \/ UNCHANGED vars
  <2>1. tree' = tree /\ taken' = taken
    BY <1>4 DEF Edit, LegacyFails, LegacyRejects, Legacy, vars, files
  <2> QED
    BY <2>1, <1>1
<1>5. CASE LLVMFails \/ LLVM \/ TranspilerFails \/ Transpiler
  <2>1. tree' = tree /\ taken' = taken
    BY <1>5 DEF LLVMFails, LLVM, TranspilerFails, Transpiler
  <2> QED
    BY <2>1, <1>1
<1> QED
  BY <1>2, <1>3, <1>4, <1>5 DEF Next

LEMMA FreshSuffices == FreshTree => NoStaleTree
  BY DEF FreshTree, NoStaleTree, TreeRead, Mapped, MapFails

(* For every set of programs, whatever each stage makes of them and whatever *)
(* pages their files fill: no program ever reads the tree of another source  *)
(* than the one the frontend last opened its output for.                     *)
THEOREM TreeIsFresh == Spec => []NoStaleTree
<1>1. Spec => []FreshTree
  BY FreshInit, FreshStep, PTL DEF Spec
<1> QED
  BY <1>1, FreshSuffices, PTL
====
