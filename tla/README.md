# Assert-lang in TLA+

Assert-lang is a small imperative language (64-bit integers, functions, global
and local variables, arrays, `while`, `if`, `in`, `out`) and this repository is
its tool chain, in C++. Everything is sequential: a chain of programs that talk
through files. What makes it hard is not concurrency but bookkeeping spread
over many functions: a register stack, a stack of scopes, jumps that are
patched later, offsets found in one pass and used in the next, an insertion
point that is moved about, a cursor that every rule of a grammar advances,
pointers into buffers that `realloc` moves.

This directory models the whole chain from the characters of a source to the
object file, the LLVM module and the source that is printed back. TLC checks it
on small instances and TLAPS proves the central facts for every instance.

## The system

```
 source --tokenize--> tokens --grammar_rule--> tree --save_ast_tree--> tree file
 tree file --read_ast_tree--> tree --+-- compile_tree --> sections --create_elf64--> .o
                                     +-- IRGenerator  --> LLVM module
                                     +-- trans_stmt   --> source
```

| Component | Files | State | Operations | What makes it correct |
|---|---|---|---|---|
| Lexer | `frontend/lexer.cpp`, `KEYWORDS` | two pointers into the text, in a comment, tokens, names | `tokenize` | every character is in one token, every token is what its characters say |
| Parser | `frontend/recursive_descent.cpp` | token cursor, the nodes each rule holds | a function per rule | the tree has the shape its readers expect and is that of the source; every parse ends |
| Tree file | `ast/parse.cpp`, `ast/tree.cpp` | - | save, read | reading gives back what was saved; a cut file is refused or has lost its right end |
| Transpiler | `trans/transpile.cpp` | output position | a function per node | what it prints is parsed to the tree it was given |
| Code generator, legacy backend | `backend/legacy/compiler.cpp` | register stack, symbol tables, `.text`, `.rela.text`, `.bss` and frame sizes | `compile_tree` and a handler per node, in two passes | each value popped once, each scope closed once, storage disjoint, calls and jumps resolved, pending values kept across calls |
| Object file writer | `backend/legacy/elf64.cpp`, `main.cpp` | nine sections with growing buffers, kept pointers | `section_alloc`, `_memcpy`, `_mmap`, `_free`, `fill_*`, `create_elf64` | writes stay in buffers, parts of the file do not overlap, names are found, no leak |
| LLVM generator | `backend/llvm/ir_gen.cpp` | scopes, blocks, insertion point | a method per node | blocks are closed once, code is in its function, variables are allocated where they are used |
| Drivers | the four `main.cpp` | the files they share | run, in any order | no backend reads the tree of an earlier source; success means success |
| Stack | `lib/stack.cpp` | array, capacity, size | construct, push, pop, top, bottom, find, destruct | last in, first out; failed calls change nothing |
| List | `lib/list.cpp` | cells linked by index, free chain | insert, delete, make linear, swap | a sequence; the links stay consistent |
| Array | `lib/array.cpp` | buffer, size, item size | push, create, top, pop, extract, free | items kept across growth |
| Tree nodes and arena | `ast/tree.cpp` | nodes; `ALLOC`, a stack of all of them | create, copy, free | each node freed once |
| I/O, dumps, run-time library | `lib/iommap.cpp`, `ast/dump_tree.cpp`, `asslib*` | - | - | - |

Components interact by calls, by shared structures and by files: the code
generator appends to sections through `section_memcpy`, keeps its tables in a
`stack` of `array`s, and finds names by the pointer the reader interned; the
programs hand each other the tree in a file nobody locks, checks or deletes.
There are no threads, callbacks or timeouts. Failures are `realloc`, `calloc`
and `mmap` returning null, a disk that is full, programs that are rejected, and
a user who runs the programs in another order than the Makefile.

## Modules

| Module | Models or proves |
|---|---|
| `Array`, `Lexer` | arrays that grow; from characters to tokens, and what the tokens owe the text |
| `Parser`, `TreeFile`, `Transpiler` | from tokens to a tree; from a tree to a file and back; from a tree to tokens |
| `Frontend` | composes the three: parse, save, cut, read, transpile, parse again |
| `FrontendProperties` | the shape of a tree, an independent printer, what the file keeps |
| `LegacyCompiler`, `CompilerProperties` | the code generator; what it owes the machine and the linker |
| `LegacyCompiler_proofs`, `CompilerCode_proofs`, `CompilerPasses_proofs` | facts on sequences and control stacks, and the handlers one by one; the theorems on registers and calls, on the symbol tables and the relocations; those on jumps, loops, frames, initialisers and the machine's stack; those on the two passes |
| `ObjectFile`, `ObjectFile_proofs` | the object file writer; its theorems on buffers and on what is in them |
| `IRGen`, `IRGenProperties`, `IRGen_proofs` | the LLVM generator, what its IR must satisfy, the theorems |
| `Drivers`, `Drivers_proofs` | the programs and the files they share, the theorem |
| `LifoStack`, `Stack`, `Stack_proofs` | the promise of `stack.h`, the code, its theorems |
| `ListSpec`, `List`, `List_proofs` | a sequence, the linked list in an array, its theorems |
| `MCLexer`, `MCFrontend`, `MCCompiler`, `MCObjectFile`, `MCIRGen`, `MCDrivers` | the inputs and bounds TLC uses |

A definition whose name ends in `_bug` is a mutant of the definition after it:
a plausible slip that must break a property (PROJECT.json, "mutants"). No
specification uses one.

Three components are recursive walks in C++: the parser and the two backends.
In the models each walk is a machine: `todo` is the control stack of the
recursion, a sequence of items still to be done, and one action does what a
function does between two recursive calls. Their input is not given either: a
node (a token, for the parser) is chosen when the walk first looks at it, so one
behaviour is one program and TLC goes through all programs within bounds. Past
its bound a walk may only choose what finishes it, so that no program is cut off.

### Lexer, Array

`tokenize` over a real string: `str` is the cursor, `start` the start of the
word it may be in. One action per branch of the loop (`SkipComment`,
`ReadSpace`, `ReadSymbol`, `create_number`, `ReadLetter`) and `Finish` for
`KW_STOP` and `array_extract`. Every operation that allocates has a set of
results, so a step that fails half-way keeps what it did before; writing to a
token that could not be created is undefined behaviour and ends the model.

Some things the code does may surprise and are modelled as they are. A comment
does not move `start`: its characters become part of the word around it, a name.
A keyword that needs no blank around it ends a word wherever it stands, so
`null` cannot be inside a name. A last word that nothing ends is dropped.
`EveryCharacterRead` and `WordsTold` say exactly this and no less.

Abstracted: a blank stands for all of `isspace`; a token keeps the positions it
stands for (the code keeps nothing); the value of a number is left to
`TreeFile`, where `strtod` is.

### Parser, TreeFile, Transpiler, Frontend

`Parser` has an action per rule and continuation. `vals` are the nodes the
active rules hold in their local variables; `Fail` is an error that every
caller hands on. A token is chosen only when a rule looks at it, so sources that
fail are cut where they fail. `OutOfMemory` is a node that could not be created
and was looked at, `NullDereference` the places where the wrong pointer is
looked at, `ShortNegation` the one where none is.

`TreeFile` reads and writes lexemes. `Cuts` are all the prefixes of a file, also
within a lexeme: nothing looks at what `fprintf` and `fclose` return.
`strtod` is rounding to the nearest, ties to even, at PRECISION bits, and the
cast to a WIDTH-bit `num_t` of what does not fit, which is undefined in C++ and
on the target gives the least number. `Transpiler` is a function from a tree to
the tokens of the text it prints; `"%lg"` for an integer prints whatever double
a floating-point register holds. `Ways` are the forms it can take once it has
gone through the lexer: the number itself, another number, a name (`nan`, `inf`),
the negation of either, and a number followed by a word (a fraction or an
exponent), which no rule accepts. All the numbers of a text take the same form,
a bound. `TranspiledParsesBack` says that whatever is accepted is the tree that
was printed but for what stands in the place of its numbers, and that it is that
tree when they are printed right.

`Frontend` composes them: `stage` goes from `parse` over `saved` and `read` to
`reparse`, in the order of the programs, and a file may be cut on the way.
`Parse` calls the parser's own actions; `SaveTree`, `ReadTree` and `Transpile`
apply the operators.

### LegacyCompiler

Only the top level of a program (`tree`) is given; below it the first pass
chooses each node, records it in `prog`, and the second pass, which in the code
walks the same tree again, replays `prog`. `compile_while`, for instance, is
`Conditional` (open a scope, compile the condition), `TestCondition` (test, emit
a `je` without target, compile the body) and `EndWhile` (emit the `jmp` back,
patch the `je`, close the scope).

| Variable | Code |
|---|---|
| `scopes` | `symtabs`: the table of functions, of globals, then local ones |
| `reg` | `vm.reg.stack`; `Mask` is the `& 0b111` of `register_top` and the others; below 0 when operands are absent |
| `text`, `relas`, `bss`, `frame` | `SEC_TEXT`, `SEC_RELA_TEXT`, the sizes of `SEC_BSS` and of `SEC_NULL` (the locals of the current function) |
| `start` | `vm._start` |
| `phase`, `outcome`, `top` | where `compile_tree` is, why it ended, the next top-level statement |
| `absent`, `sp`, `sites`, `frames` | auxiliary: operands absent so far, words pushed on the machine's stack, what held at each emitted call, the extent of each function and the bytes of its locals. No guard reads them |

Every item of `todo` also carries the depth of the register stack (`level`: with
every operand there) and the number of scopes at which its code expects to run
(`h`, `d`, auxiliary).

Operands may be absent, as in a tree file that lost its end (`CutLosesRightEnd`)
or from a frontend without memory: `compile_expr` compiles those that are there,
and so does `BinaryExpr` for as many as `Absent` leaves. The register stack is
then one short for each, and that is what `compile_tree` reports after the first
pass. Other children that are absent are no input of the model: a missing
statement or argument is an error like those modelled, and of a missing
right-hand side or body the program dies.

Sizes are counted without a bound and cut where the code cuts them: the addend
of a variable (`LocalAddend`, `DeclareVariable`) and the frame that is patched
into the prologue (`EndDefine`) go through `Imm`, the conversion to `imm32`;
IMM stands for 2^32. That `size_t` and `ptrdiff_t` wrap at 2^64, a multiple of
it, changes no instruction. Displacements, the addends of parameters and the
bytes of a call's arguments are not cut: the bounds are code below 2^31 bytes
and functions of fewer than 2^28 parameters.

Abstracted: every instruction is one unit long, so that an address is an index
into `text`, and operands are names, not bytes. Displacements are computed as
in the code, target minus the end of the instruction. The six comparisons are
one (`cmp`). A relocation's place is the address of its instruction.

Not reproduced: memory running out in the tables (`array_push` and
`push_stack` ignore it), and the scope that a rejected definition leaves open,
which no later step looks at. A symbol's name is compared by value; the code
compares interned pointers, for which `read_ast_tree` makes this the same.

### ObjectFile

The sections from the first name written to the image, in the order
`legacy/main.cpp` calls (`phase`), and the order of `elf64_utest`. What the
compiler writes is any number of chunks, in either pass. `realloc` may leave a
buffer where it is, move it, or fail. Pointers kept into a section (the names
of sections and symbols) are a buffer and an offset; the difference of pointers
into different buffers is `Lost`. After a failed allocation `section_memcpy`
writes all the same, and after a failed `mmap_out` `create_elf64` does: those
writes are undefined behaviour and end the model (phase `undefined`).

### IRGen

`IRGenerator::compile` and all it calls. `blocks` are the basic blocks of all
functions in the order they are made, each with its function and the
instructions that matter to control flow and variables; `ip` is the builder's
insertion point; `functions` are those of the module from the start on, the
generator's own `__ass_globals_init` and the library's included, so that
`declare_functions` also rejects a program that defines one of these names; `scopes` is `scopes_`; `vals` are the `llvm::Value*` held by
the active functions, of which the model keeps whether they are null (`^` has no
case and gives a null, which the next user trips over). Exceptions and LLVM's
assertions end the walk (`outcome`).

Auxiliary: an instruction's `src` (the function whose source is being compiled,
`owner`), `loops` (blocks of loop bodies) and `falls` (blocks a body ends in
without a return). LLVM itself is external: a builder that appends to a block.

### Drivers

The four programs as steps on shared files: `source`, `tree`, `object`,
`module`, `printed`. Each may be run at any time, on whatever the others left,
and `Edit` is the user. What a stage makes of a program is a constant, since the
other modules are about that. `mmap_in` refuses what is missing or empty, and
kills its program if a file fills its last page, because it writes one byte
behind it (`MapKills`). A full disk leaves a cut file and a program that
reports success.

### Stack and List

`Stack` is `lib/stack.cpp` as it is built, with `UNPROTECT`: no canaries and no
hash. `items` has `capacity` cells and pops shrink it before they read, as in
the code. `LifoStack` is the promise of `stack.h`; the last line of `Stack` is
the refinement, with the cells below `size` as contents and "nothing happens
to the stk" for every error.

`List` is `lib/list.cpp` with its cells, head, tail and free chain.
The loop of `make_linear_list` is a recursive function (`Gathered`), since the
code changes the links it follows; it takes one round for each node, and the
proofs show that the link it stops at is then 0 and never before. `call` records the last call, at a logical position, and `ListSpec`
says what that call does to a sequence. Callers pass positions of nodes, and 0
only when the list is empty; nothing in the repository calls the list, and at 0
in a list with nodes the code loses the inserted node.
Two operations end the model because the code leaves no usable list behind:
`swap_list` (both headers become the second list's), and `make_linear_list` of
an empty or full list (`MakeLinearAtEdge`: `verify_list` rejects the result).
A caller may look a node up by its position (`Lookup`): `get_real_pos` returns
the position itself when `linear` is set, and follows the links otherwise
(`Walk`). Nothing clears `linear`, so after an insertion or a deletion the answer
may be another cell or a free one, and `make_linear_list` returns at once.
`LookupsRight` says when the answer is right all the same: as long as nodes only
came and went at the end of the list since it was rearranged (`stale`), where
they meet the free cells in order. Without that condition it is violated, by
linear, an insertion in front, linear again: the comment on `make_linear_list`
("makes logical index = physical index") is not true of a list that changed.

## Runs

| Run | Asks | Bounds |
|---|---|---|
| `compiler` | registers, machine stack and pending values; jumps and loops; frames, `.bss` and relocations; both passes, calls, initialisers, rejections | 3 registers, so that the numbers wrap, and 64 values of an imm32, so that frames and `.bss` outgrow it. Expressions with calls in operands, in arguments and as statements, and with operators that lack operands: 6 nodes. Control flow: 10 nodes, three constructs in one another, with and without else. Storage: 8 nodes, arrays of two extents, constant and computed indices, parameters, scopes. Whole programs: 11 top levels (forward and backward calls, globals between functions, every way to be rejected), 6 nodes. 2.4 million states |
| `object_file` | buffers, layout, names, passes, leaks | the real sizes; writes of 160 and 460 bytes cross the first and the second doubling of a 256-byte buffer; output names that fit in it and that outgrow it at once |
| `stack` | refinement, thrashing | initial capacity 4 and 9 items: grows twice (4, 8, 16), shrinks back (the code's 8 would need 17 items for the same) |
| `list` | refinement, links, rearrangement, lookups | initial capacity 1 and 4 nodes: grows twice, with every order of insertion, deletion, rearrangement and lookup. 29 thousand states |
| `lexer` | nothing lost, nothing read twice, words told apart | every text of up to 5 or 6 characters of four alphabets, chosen where keywords share characters with each other, with names and with comments, and texts around `null`; any allocation may fail |
| `frontend` | shape, meaning, file, cut, transpiler, termination | seven vocabularies, one for each group of rules, up to 7 to 16 tokens: enough for two operators of every two levels, for a dangling else, for lists of three; any allocation may fail. PRECISION = 3 and WIDTH = 6 stand for 53 and 64 bits: 11 is a tie between two doubles, and 31 rounds to 32, which does not fit. 1.7 million states |
| `llvm` | blocks, homes, allocations | 9 nodes of control flow, in a function with a global after it; 5 nodes of everything else, over globals between functions, duplicates, missing mains |
| `drivers` | stale trees | five programs: a good one, one that does not parse, one the backends reject, one without main, one whose file fills its page |

Together the runs take every action of their next-state relations. Deadlock is
checked in every one: a machine that has ended steps to itself (`Terminating`),
and one that is stuck elsewhere is an error.

Runs TLC finds violated, each against a sentence of the repository:

| Run | What happens |
|---|---|
| `compiler_library_call` | `in` and `out` are calls too, and no pending register is saved for them |
| `object_file_long_name` | with an output name near 240 bytes `.strtab` moves after a name's address was kept: the file symbol has a wrong name |
| `llvm_parameters` | every argument is stored once for each parameter, and every parameter's name is bound to a copy of the first argument |
| `drivers_success` | the legacy backend reports "Compilation succeed" of a program it rejected |

Some properties are stated with the conditions under which the code does keep
them. `PendingValuesSurvive`: fewer than NREG values, and no operand absent
(such a program is reported, and none of its code is written). `CallsResolved`,
`SecondPassMovesNothing` and `StartInitialisesGlobals`: functions defined once.
`FrameHoldsLocals` and `StorageDisjoint`: frames and a `.bss` that an `imm32`
reaches; beyond, both are violated by the casts: a frame of 2^32 bytes is
reserved as 0. `LookupsRight`: see List. `NamesFound`: names within the first
buffer or beyond it from the start. `VariablesAllocated`: variables not declared
in the body of a loop (which opens no table). `TranspiledParsesBack`: the tree
comes back itself only when no number is negative, for a negative one is printed
as a negation. That `StartInitialisesGlobals` needs its condition came out of
the attempt to prove it: in `main(); main(); g = 1; g()` `declare_functions`
stops at the second `main` and drops the error, so the last `g` is not declared
as a function, `compile_define` finds the global of that name and moves its
initialiser to the function's code. `MCCompiler` has this program among its
trees.

Seen on the way, and not kept as runs: with as many pending values as registers
`compile_call` saves none, since their number is masked; a program that is
reported as unbalanced, like one without `main`, returns no error, and an object
file without code is written for it; an `in` among the arguments of a call is
misaligned, since `compile_call_begin` aligns for its own words only; and a
function defined twice is accepted by the legacy backend.

**Fairness.** One property is about progress: `Terminates`, that `grammar_rule`
returns whatever the source is. It assumes `WF_vars(Parse)`, that a parser that
can take its next step takes it: it is a function running in a process of its
own that waits for nothing. No fairness is put on memory running out, on the
next program being started, or on the other modules, whose walks end by the
structure of the tree they are given. In the parser it is not the structure of
an input but the movement of the cursor that ends the loops, and that is what
the property can find wrong.

## Proofs

| Theorem | For |
|---|---|
| `LegacyCompiler_proofs`: `Invariant`, `TypeCorrect`, `AlwaysBalanced`, `CallsKeepValues` | every tree, node set and number of registers |
| `LegacyCompiler_proofs`: `NamesAreUnique`, `StorageIsDisjoint`, `RelocationsCorrect` | the same |
| `CompilerCode_proofs`: `JumpsArePatched`, `LoopsAreClosed`, `FramesAreLargeEnough`, `StackIsBalanced` | the same |
| `CompilerCode_proofs`: `GlobalsAreInitialised` | the same, for programs that define each function once |
| `CompilerPasses_proofs`: `SecondPassSucceeds` | every tree, node set and number of registers |
| `CompilerPasses_proofs`: `PassesAgree`, `CallsAreResolved` | the same, for programs that define each function once |
| `ObjectFile_proofs`: `Invariant`, `TypeCorrect`, `BuffersCorrect`, `ImageCorrect`, `BuffersFreed`, `PassesApart` | all sizes of sections, names and writes |
| `ObjectFile_proofs`: `NamesInPlace` | the same, if `.shstrtab` and `.strtab` fit in their first allocation |
| `IRGen_proofs`: `AlwaysAtHome`, `BlocksAreClosed`, `VariablesAreAllocated` | every tree and node set |
| `Drivers_proofs`: `TreeIsFresh` | all programs, whatever the stages make of them |
| `Stack_proofs`: `TypeCorrect`, `CellsCorrect`, `Implements` | all capacities, items and sizes |
| `Stack_proofs`: `NeverThrashes` | the same, with an initial capacity of more than 4 |
| `List_proofs`: `Safety`, `LookupsAreRight`, `Refines` | all items, initial capacities and numbers of nodes |

They rest on the ASSUMEs of the modules: for the compilers, at least one
register, well-typed nodes and, for the legacy one, a number of values of an
`imm32` that is a multiple of 32 (2^32 is); for the object file, positive sizes, an
alignment that is a power of two up to 16, and a section header no larger than
the file header (`create_elf64` copies as many bytes of one as the other has);
for the stack, an initial capacity of at least 2 and a poison value that is no
item; for the list, an initial capacity of at least 1 and a mark for free data
that is no item; for the drivers, nothing.

**Balance.** `Balanced` says that between top-level statements two tables are
open and the register stack is short by exactly the operands that were absent,
so that the first pass ends with the report for trees that lack one and for no
other. It is not inductive: inside a statement anything may be pending.
`CompilerInv` adds `ControlLinked`: every item of `todo` starts at the depths
where the one before it stops, and the last stops at 0 registers and 2 scopes.
The depth of registers is counted in `level`, which is `reg` and what was absent:
an item that is expanded is replaced by items that link over the same distance
(an operator that lacks an operand raises `level` by it, and its first item
starts there), and an action that emits code moves the current depths by the
distance of the item it removes, so the chain stays linked; when it is empty, the
depths are 0 and 2. `LegacyCompiler_proofs` has the two facts about chains
(replace the head, drop the head) and each handler is an instance. `Complete`
and `Reported` carry what was absent through the phases: the second pass begins
only if nothing was.
`CallsPending`, `SitesSaved`, `TablesOpen` and `FunctionsFirst` are what the
handlers of calls and definitions need: a pending call's saved registers are
those counted at its beginning, and the name is that of a function in the first
table, so that its offset is read from where it was written.

**Symbol tables.** `StorageDisjoint` compares variables two by two and says
nothing of what the next one will get. `ScopesInv` adds that every entry lies
where its kind belongs: parameters above the return address, a local below it
and no deeper than the frame counted so far, a global in the `.bss` counted so
far; a new one starts where the count was, so it is clear of all. This holds as
long as the counts are within what an addend reaches (`Reached`); counts only
grow within a function, so what was laid out within reach stays, and beyond it
only that a local begins inside the frame is kept. A step that
adds an entry is an instance of `TableMore` (an entry is an old one or the new
one) and needs `NotFound`, that the lookup the code makes before it declares
has failed in every open table; that is also all of `NamesAreUnique`. The frame
counter goes back to 0 at each definition, which is only right if no table with
a local is still open: `EndsAtThree` says that the end of a definition is
reached with its own table on top of the two global ones, and the lemmas on
`Marks` that no handler leaves another such end on the control stack.

**Relocations.** `RelocationsMatch` follows from `Match`, which relates the code
and its entries from a first address on, so that a piece of code with its own
entries can be put behind the rest (`MoreMatch`). Most handlers emit code that
needs none (`MorePlain`), some one access among such code (`MoreAccess`). The
handlers that patch are why `Match` alone is not inductive: a patch overwrites
the operand an entry may have to agree with. `ToPatch` says that what the items
of the control stack will patch is there and is no relocated instruction, and
`Extends` that emitted operations never change until the second pass frees them.

**Code.** `CompilerCode_proofs` first sorts the handlers by what they do to the
code and to the control stack (`StepCases`): most emit flat code and replace an
item of an expression or a statement by others of that kind (`Calm`); the rest
open, turn or close a construct or a function. Each invariant then has one lemma
for the calm steps and one for each of the others.

- *Jumps.* `JumpsInv` says of each item that owes a jump where in the code it is,
  and that constructs nest in `todo` as their addresses do in the code. Then the
  jumps without target are those that are owed; `JumpsOK` adds that no other jump
  crosses an address a pending construct has noted, which is what a loop needs
  when it is closed: whatever its body contains stays on its side.
- *Frames.* `FrameInv`: every local that the code of the current function
  accesses is below the count of the frame, and those of the functions that are
  done below the operand patched into their prologue, where the bytes of the frame fit
it (`Short`; the cast then gives the bytes themselves, `ImmIs`). An access that is still
  pending on the control stack is below the count too.
- *Initialisers.* `InitsOK`: the entry of each global in its table has the
  address of code that runs straight to a store to that global and a `ret`.
  `AssignsOK` is about the one that is being compiled: its code so far runs
  straight, and nothing but expressions comes before its store. `DeclaresOK` says
  that every definition finds its own function in the table (what fails when one
  is defined twice), and `EndOK` that `_start` calls what the table then holds.
- *Machine stack.* That `sp` is 0 between statements is not inductive: inside a
  call anything may be pushed. `WordsOwed` gives each item of the control stack a
  weight, the words its code will take off again (for a call its padding, its
  saved registers and its arguments, less those still to be pushed; -1 for a
  push), and says that a function along the stack, 0 behind the last item and
  growing by the weight of each, is `sp` at the front. `NestedOK`: above an item
  with a weight there are only expressions, so between statements nothing is owed.

**Two passes.** That the second pass repeats the first relates states of
different times; what is proved about is a record of the first pass. The *core*
of a state is what the walk depends on: the symbols without their offsets (the
second pass begins with those of the first, so the two differ in nothing else),
the control stack, the register stack, `level` and the sizes of the code, of `.bss` and
of the frame. `Effect` is the function that gives the next core for a node, and
`Accepts` says when the handler goes on; `PassRegular` proves, handler by
handler, that each step takes the one and requires the other. `First` says that
there is a sequence of cores from the beginning of the pass to the present one,
each the `Effect` of the one before for the next node of the program; the first
pass makes it longer (`FirstOnPath`). When the second begins, its core is that
of the beginning: the registers are balanced (no operand was absent, or the
pass would have been reported), nothing of the frame is left
(`FramesInv`: outside functions the frame is 0), and the tables are those
`Declared` opened. `Second` says that it is at some place of the sequence, and
as the node to be read there is the one that was read, it goes one place on
(`SecondStep`) and is refused nothing (`SecondAccepts`). Sizes of instructions
are part of `Effect`, so the code is laid out alike; `Placed` adds that each
function of the table has the address at which the sequence came by its
definition, which the second pass then writes again. A name defined twice has
two such addresses, so this needs functions to be defined once, like
`DeclaresOK`. `ResolvedInv` follows the calls of the second pass: one is emitted
with the offset in the table (`CallGoes`), the table does not change, and nothing
that is patched later is a call (`CallsStay`); a function that has been compiled
has its prologue at its offset, names in the table differ, and at the end all
functions of the table have been compiled (`CallsAreResolved`).

**Object file.** `ObjectInv` adds to the properties what keeps them: which
phases have which names, that a section's buffer is its own and live, and that
offsets are sums of aligned sizes in order.

`ContentInv` is about what is in the buffers. A section's contents are a sequence
of pieces, and the place of a piece is the sum of the lengths before it, which
`Start` computes recursively. `Induction`, in its set form (if the naturals that
are not in a set had a least one, ...), follows from the library's
well-foundedness of the naturals without an operator as parameter, and gives the
few facts about running sums that are needed: the next piece begins at the
section's size, and a piece that is there keeps its place. The rest says that the
pieces of the code sections are of the current pass (`OfPass`), that the names
that were counted are there, in order (`NamesCounted`), and that a buffer that
is large enough from the start is never moved (`NamesKept`), so that the
difference of a kept pointer and the buffer is the place of its name.

**Instructions at home.** `InstructionsAtHome` looks at code that was emitted;
what keeps it is about code that will be. `HomeInv` adds where the builder
stands (while something is left to compile, `ip` is a block of `owner`), what
the branches and loops on the control stack will jump to or move the builder to
(`Plan`: blocks of `owner`, all of them, and the end of the definition, which
changes the owner, comes last), and `Ends`: that the last block of
`__ass_globals_init` exists, which is where the builder goes for a global, and
the first of `main` if there is one, where `EndCompile` jumps. Two kinds of step
matter, and each is a lemma: one that emits in the current block and goes on
with a plan (`EmittedOne`, `Rebuild`), and one that appends blocks (`AppendBlock`).

**Blocks closed.** That no jump is followed by anything is not inductive: it has
to be known which blocks may still be written to. `Walk` names them: block 1,
where the initialisers go until `EndCompile` returns from it; the blocks that
functions fell out of; those that an item of the control stack will move the
builder to (`Owes`), each owed by one item only; and the block the builder is
in, unless a terminator has just been put into it (`last`). All of these hold no
jump, every other block ends in its only one (`Shape`). After a terminator the
builder's block is closed though the builder is still there, so what comes next
must look at `last` first. `Tolerant` are the items that do, and `Follows` says
what comes behind what: behind a `return`, an `if` or a branch the rest of a
list, behind a list a branch's end, a loop's or the definition's. Items are
sorted as in the compiler: the ones of expressions owe nothing and stay in their
block (`Quiet`, `QuietStep`), some close it and move to the block they owe
(`Moves`), some close it, add three and owe two of them (`Opened`). An
initialiser writes to block 1 only as long as it is an expression, and no
function may have the initialiser's name: `declare_functions` refuses it.

**Variables allocated.** Dominance is stated with `Reached`, a recursive function
that follows all jumps for as many rounds as there are blocks. What the proof
carries is a view of the module that the code does not keep: for each block a set
`dom` of blocks, itself and, for a new block, those that were passed where the
block was split (for the body and the exit of a loop also its condition).
`Graph`: along every jump `dom` of the target holds no block but the target that
`dom` of the source lacks, and a variable that an instruction uses was allocated
in the `dom` of its block, or where the body of some loop is in `dom`. So the
blocks without `a` in their `dom` are closed under the jumps that do not enter
`a`, the entry is one of them, and whatever is in the `dom` of a block dominates
it (`PassedDominates`). What keeps the view is again about code still to be
emitted. `Standing` lays a course along the control stack: before and behind
every item a stage, a block that has been passed there and a number of tables
that are left, and the variables of those tables may be used in that block
(`Fit`). `Way` says how each kind of item leads from its stage to the next: an
item that closes a block goes on in the block it owes, a `join` and the end of a
definition drop a table, and a loop's blocks are below its condition. `Pending`
names the loops whose body is in the view before the model counts it in `loops`.
A step that opens branches or a loop replaces its item by a course over the new
blocks that begins and ends at the old stages (`IfStages`, `WhileStages`);
`ClosedInv` is needed to know in which block the builder is when a statement
begins. An assignment to a new name enters the variable in the innermost table
before its expression is compiled; that the store finds it there needs that no
item of an expression drops a table.

**Fresh tree.** `FreshTree` is `NoStaleTree` without its condition that the file
can be read: the tree that is there is of the source the frontend last took,
also where reading it would kill the reader.

**Stack.** `TypeOK` and `OnlyItemsBelow` are inductive together: a shrink keeps
at least `size` cells because it only happens below a quarter. `Implements` is
the refinement of `LifoStack`: the abstract contents are the cells below `size`,
a push appends the item (`PushAppends`), a pop drops the last (`PopTakesLast`),
and a resize, whatever it does to the capacity, leaves them as they are.
`NeverThrashes` needs one more invariant, `Filled`: an array that has grown is
more than a quarter full, and its capacity is never 1. It is not true of an
initial capacity of 2, where an array that grew to 8 shrinks back to 4 and the
next push grows it again; `INIT_CAP > 4` rules that out, and the code has 8.

**List.** `WellFormed` is what `verify_list` sees when it follows the links; it
says nothing of how to get from one list to the next. `ListInv` names the orders
that the links only imply: there are a function `w`, the cells of the nodes in
their order between two zeros, and a function `c`, the free cells in the order of
the chain, such that each link is the neighbour in `w` or `c` (`InOrder`,
`Chained`) and every cell but 0 is in one of them (`Covered`); the two witnesses
are disjoint because `prev` tells nodes and free cells apart. An insertion widens
`w` at a gap and takes the head off `c` (`SpliceRepresents`), after
`realloc_list` has put the new cells in front of `c`, if there was none left
(`GrowRepresents`); `EachInserts` finds the gap each of the four calls means. A
deletion narrows `w` and puts the cell in front of `c` (`UnlinkRepresents`).
`make_linear_list` breaks the invariant while it runs, so its loop has one of its
own (`Gathering`): after `j` rounds the first `j` nodes are in cells 1 to `j`,
every next link is right, and so is every prev link but that of the node that
comes next, whose predecessor has moved. A round finds the cell free or taken by
a later node, whose neighbours must be told before the two are swapped
(`MovedToFree`, `MovedBySwap`); when the node that is moved is such a neighbour,
the order of the four assignments matters. `Ordered` adds what a lookup relies on
while `linear` is set and the list not `stale`: the nodes are in cells 1 to n and
the free cells behind them in order, which an insertion or deletion at the end
keeps (`InsertOrdered`, `DeleteOrdered`). `Refines` follows because the items in
the order of `w` are the abstract sequence.

Only model-checked: of the object file the case of a name that outgrows its
first buffer at once; and everything about `Lexer`, whose texts are strings,
which the prover does not take for sequences. `TreeFile`, `Transpiler` and
`FrontendProperties`, and so `Frontend`, are recursive over trees and use
RECURSIVE operators, which the prover does not accept, and `Terminates` is
liveness; both are out of its reach. Of the compiler every property that a run
checks is proved.

## Not modelled

- The machine that runs the emitted code. What a program means is compared with
  its code only through the properties above: a function without `return`, or a
  variable of one branch used in the other, is compiled as the code does it, and
  nothing says what it computes.
- Memory of the arena of nodes: it is a `Stack` that is filled while a program
  runs and emptied when it ends. `free_tree` is called from a unit test only.
- Instruction encodings, symbol values and the fields of ELF headers: tables of
  constants, better compared with a disassembler.
- Types and values of LLVM arithmetic (`i1` against `i64`), offsets of elements,
  and LLVM itself.
- `iommap.cpp` beyond what it refuses and the byte it writes behind a file
  (system calls), `dump_tree.cpp` (layout of a drawing), the run-time library
  (printf and scanf).
- `item_size` of `Array`, and `array_top` and `array_pop`, which act on tables
  that `LegacyCompiler` keeps as sequences.
