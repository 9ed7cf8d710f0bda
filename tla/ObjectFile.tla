---- MODULE ObjectFile ----
(***************************************************************************)
(* backend/legacy/elf64.cpp: the sections of an object file, from the      *)
(* first name written to the image mapped on the output file, in the order *)
(* legacy/main.cpp (and the unit test of elf64.cpp) call the functions.    *)
(* What the compiler writes is abstracted to how many bytes it appends to  *)
(* which section in which pass.  Pointers into a section are kept as the   *)
(* buffer they point into and an offset, since realloc may move the        *)
(* buffer; the bytes of a section are kept as chunks, each labelled with   *)
(* what it is.                                                             *)
(***************************************************************************)
EXTENDS Integers, Sequences

CONSTANTS
    SEG_ALLOC_INIT, (* first allocation of a section: 256                  *)
    SEC_ALIGN,      (* alignment of the parts of the file: 16              *)
    EhdrSize, ShdrSize, SymSize, (* sizeof: 64, 64, 24                     *)
    SecNames,       (* bytes of the section names, in order                *)
    LibNames,       (* bytes of the names in STDLIB, in order              *)
    OutNames,       (* bytes the name of the output file may take          *)
    StartName,      (* sizeof("_start")                                    *)
    Blobs,          (* how many bytes an instruction or an entry takes     *)
    MaxSize         (* bound on the bytes of a section                     *)

Sizes == Nat \ {0}

ASSUME SizesAssumption ==
    /\ SEG_ALLOC_INIT \in Sizes /\ SEC_ALIGN \in {1, 2, 4, 8, 16}
    /\ EhdrSize \in Sizes /\ ShdrSize \in Sizes /\ SymSize \in Sizes
    /\ ShdrSize <= EhdrSize
    /\ StartName \in Sizes /\ LibNames \in Seq(Sizes)
    /\ OutNames \subseteq Sizes /\ Blobs \subseteq Sizes
    /\ MaxSize \in Nat

(* enum elf64_sections_enum                                                *)
SEC_NULL == 0
SEC_TEXT == 1
SEC_RODATA == 2
SEC_DATA == 3
SEC_BSS == 4
SEC_SHSTRTAB == 5
SEC_SYMTAB == 6
SEC_STRTAB == 7
SEC_RELA_TEXT == 8
Sec == 0..8
SEC_NUM == 9

ASSUME NamesAssumption == SecNames \in [1..SEC_NUM -> Sizes]

(* SYM_NULL, SYM_FILE, four section symbols, STDLIB, SYM_START             *)
SYM_NUM == 7 + Len(LibNames)

VARIABLES
    phase,   (* where main is                                              *)
    pass,    (* of compile_tree                                            *)
    secs,    (* [size, allocated, data]; data is a buffer, 0 for nullptr   *)
    live,    (* the buffers allocated and not freed                        *)
    last,    (* the last buffer allocated                                  *)
    bytes,   (* the chunks of each section                                 *)
    names,   (* the pointers kept: the section names, then the symbols'    *)
    out,     (* bytes of the name of the output file                       *)
    file     (* the image, once created                                    *)

vars == <<phase, pass, secs, live, last, bytes, names, out, file>>
heap == <<secs, live, last, bytes>>

NULL    == 0
Lost    == -1    (* the difference of pointers into different buffers      *)
NoFile  == [size |-> 0, parts |-> {}, sec_names |-> <<>>, sym_names |-> <<>>]
Empty   == [size |-> 0, allocated |-> 0, data |-> NULL]

Init ==
    /\ phase = "sections" /\ pass = 0
    /\ secs = [s \in Sec |-> Empty] /\ bytes = [s \in Sec |-> <<>>]
    /\ live = {} /\ last = 0
    /\ names = <<>> /\ out \in OutNames /\ file = NoFile

(* Bounds how often one call doubles.                                      *)
Doublings == {1, 2, 4, 8, 16}

(* Definitions whose name ends in _bug are mutants: the definition after   *)
(* them with a plausible slip.  The specification does not use them.       *)

(* The capacities section_alloc can give section s for n more bytes: the   *)
(* first doubling that fits.                                               *)
section_alloc_bug(s, n) ==
    LET from == IF secs[s].allocated = 0 THEN SEG_ALLOC_INIT ELSE secs[s].allocated IN
    {c \in {from * d : d \in Doublings} : c >= n /\ (c > from => c < 2 * n)}
section_alloc(s, n) ==
    LET from == IF secs[s].allocated = 0 THEN SEG_ALLOC_INIT ELSE secs[s].allocated
        need == secs[s].size + n IN
    {c \in {from * d : d \in Doublings} : c >= need /\ (c > from => c < 2 * need)}

(* Where realloc leaves a buffer that grows: in place or in a new one.     *)
realloc(s, cap) ==
    IF cap > secs[s].allocated THEN {last + 1} \union ({secs[s].data} \ {NULL})
                               ELSE {secs[s].data}

section_memcpy(s, what, n) ==
    /\ secs[s].size + n <= MaxSize
    /\ \E cap \in section_alloc(s, n) : \E data \in realloc(s, cap) :
          /\ secs' = [secs EXCEPT ![s] = [size |-> secs[s].size + n,
                                          allocated |-> cap, data |-> data]]
          /\ live' = (live \ {secs[s].data}) \union {data}
          /\ last' = IF data > last THEN data ELSE last
    /\ bytes' = [bytes EXCEPT ![s] = Append(@, [of |-> what, len |-> n])]

(* The pointer section_memcpy returns.                                     *)
Written_bug(s) == [data |-> secs'[s].data, at |-> secs'[s].size]
Written(s) == [data |-> secs'[s].data, at |-> secs[s].size]

(* section_free of every section of ss                                     *)
section_free_bug(ss) ==
    /\ secs' = [s \in Sec |-> IF s \in ss THEN [secs[s] EXCEPT !.size = 0, !.allocated = 0]
                                          ELSE secs[s]]
    /\ live' = live \ {secs[s].data : s \in ss}
    /\ bytes' = [s \in Sec |-> IF s \in ss THEN <<>> ELSE bytes[s]]
    /\ UNCHANGED last
section_free(ss) ==
    /\ secs' = [s \in Sec |-> IF s \in ss THEN Empty ELSE secs[s]]
    /\ live' = live \ {secs[s].data : s \in ss}
    /\ bytes' = [s \in Sec |-> IF s \in ss THEN <<>> ELSE bytes[s]]
    /\ UNCHANGED last

(* memcpy to a null pointer or past a buffer: nothing more can be said.    *)
Undefined == phase' = "undefined" /\ UNCHANGED <<pass, heap, names, out, file>>
AllocationFails(s, n) ==
    /\ \A c \in section_alloc(s, n) : c > secs[s].allocated
    /\ Undefined

fill_sections_names ==
    /\ phase = "sections"
    /\ LET i == Len(names) IN
       \/ /\ i < SEC_NUM /\ section_memcpy(SEC_SHSTRTAB, i + 1, SecNames[i + 1])
          /\ names' = Append(names, Written(SEC_SHSTRTAB))
          /\ UNCHANGED phase
       \/ i < SEC_NUM /\ AllocationFails(SEC_SHSTRTAB, SecNames[i + 1])
       \/ i = SEC_NUM /\ phase' = "symbols" /\ UNCHANGED <<heap, names>>
    /\ UNCHANGED <<pass, out, file>>

(* The empty name, the file, STDLIB and _start.                            *)
SymbolNames == <<1, out>> \o LibNames \o <<StartName>>

(* main compiles a tree; elf64_utest maps sections it has ready.           *)
fill_symbols_info ==
    /\ phase = "symbols"
    /\ LET i == Len(names) - SEC_NUM IN
       \/ /\ i < Len(SymbolNames)
          /\ section_memcpy(SEC_STRTAB, SEC_NUM + i + 1, SymbolNames[i + 1])
          /\ names' = Append(names, Written(SEC_STRTAB))
          /\ UNCHANGED <<phase, pass>>
       \/ i < Len(SymbolNames) /\ AllocationFails(SEC_STRTAB, SymbolNames[i + 1])
       \/ /\ i = Len(SymbolNames) /\ UNCHANGED <<heap, names>>
          /\ \/ phase' = "compile" /\ pass' = 1
             \/ phase' = "utest" /\ pass' = 2
    /\ UNCHANGED <<out, file>>

(* emit and the relocations, in either pass; the relocations of the test.  *)
Emit(s, n) ==
    /\ \/ phase = "compile" /\ s \in {SEC_TEXT, SEC_RELA_TEXT}
       \/ phase = "utest" /\ s = SEC_RELA_TEXT /\ secs[SEC_BSS].size # 0
    /\ \/ section_memcpy(s, pass, n) /\ UNCHANGED <<phase, pass, names, out, file>>
       \/ AllocationFails(s, n)

(* A global variable takes space in .bss and bytes in no buffer.           *)
Reserve(n) ==
    /\ \/ phase = "compile"
       \/ phase = "utest" /\ secs[SEC_BSS].size = 0
    /\ secs[SEC_BSS].size + n <= MaxSize
    /\ secs' = [secs EXCEPT ![SEC_BSS].size = @ + n]
    /\ bytes' = [bytes EXCEPT ![SEC_BSS] = Append(@, [of |-> pass, len |-> n])]
    /\ UNCHANGED <<phase, pass, live, last, names, out, file>>

(* section_mmap of the test's .text, .rodata and .data, in order.  Where   *)
(* it fails the test goes on without the section.                          *)
section_mmap(s, n) ==
    /\ phase = "utest" /\ s \in {SEC_TEXT, SEC_RODATA, SEC_DATA}
    /\ secs[SEC_BSS].size = 0 /\ \A t \in s..SEC_DATA : secs[t].data = NULL
    /\ section_memcpy(s, pass, n) /\ UNCHANGED <<phase, pass, names, out, file>>

(* compile_tree drops what the first pass wrote.                           *)
Dropped_bug == {SEC_TEXT, SEC_BSS}
Dropped == {SEC_TEXT, SEC_BSS, SEC_RELA_TEXT}

SecondPass ==
    /\ phase = "compile" /\ pass = 1
    /\ section_free(Dropped) /\ pass' = 2
    /\ UNCHANGED <<phase, names, out, file>>

(* The end of the second pass, or no main: compile_tree reports no error.  *)
compile_tree ==
    /\ \/ phase = "compile" /\ pass = 2
       \/ phase = "compile" /\ pass = 1 /\ \A s \in Dropped : secs[s].size = 0
       \/ phase = "utest" /\ secs[SEC_BSS].size # 0
    /\ phase' = "create" /\ UNCHANGED <<pass, heap, names, out, file>>

CompileFails ==
    /\ phase = "compile" /\ pass = 1
    /\ phase' = "cleanup" /\ UNCHANGED <<pass, heap, names, out, file>>

elf64_align_bug(size) == size - (size % SEC_ALIGN)
elf64_align(size) == size + ((SEC_ALIGN - size) % SEC_ALIGN)

(* elf64_create_shdrs: the offsets of sections 1 to 8.  .bss takes no      *)
(* bytes of the file and .symtab comes from the symbols.                   *)
Offsets ==
    LET base     == elf64_align(EhdrSize) + elf64_align(ShdrSize * SEC_NUM)
        rodata   == base     + elf64_align(secs[SEC_TEXT].size)
        data     == rodata   + elf64_align(secs[SEC_RODATA].size)
        bss      == data     + elf64_align(secs[SEC_DATA].size)
        symtab   == bss      + elf64_align(secs[SEC_SHSTRTAB].size)
        strtab   == symtab   + elf64_align(SYM_NUM * SymSize)
        rela     == strtab   + elf64_align(secs[SEC_STRTAB].size)
    IN <<base, rodata, data, bss, bss, symtab, strtab, rela>>

(* What create_elf64 copies where: the header (as many bytes as a section  *)
(* header has), the section headers, .symtab, the sections that have data. *)
EHDR  == 9
SHDRS == 10
Part(what, at, len) == [what |-> what, at |-> at, len |-> len]
Parts ==
    {Part(EHDR, 0, ShdrSize), Part(SHDRS, EhdrSize, ShdrSize * SEC_NUM),
     Part(SEC_SYMTAB, Offsets[SEC_SYMTAB], SYM_NUM * SymSize)}
    \union {Part(s, Offsets[s], secs[s].size) :
               s \in {t \in Sec \ {SEC_NULL, SEC_SYMTAB} : secs[t].data # NULL}}

(* sh_name and st_name: the distance of a kept pointer from the buffer.    *)
Distance(p, s) == IF p.data = secs[s].data THEN p.at ELSE Lost

Image ==
    [size  |-> elf64_align(secs[SEC_RELA_TEXT].size + Offsets[SEC_RELA_TEXT]),
     parts |-> Parts,
     sec_names |-> [i \in 1..SEC_NUM |-> Distance(names[i], SEC_SHSTRTAB)],
     sym_names |-> [i \in 2..Len(SymbolNames) |->
                       Distance(names[SEC_NUM + i], SEC_STRTAB)]]

create_elf64 ==
    /\ phase = "create"
    /\ \/ file' = Image /\ phase' = "cleanup" /\ UNCHANGED <<pass, heap, names, out>>
       \/ Undefined      (* mmap_out failed, which is not looked at        *)

Cleaned_bug == {s \in Sec \ {SEC_RELA_TEXT} : secs[s].data # NULL}
Cleaned == {s \in Sec : secs[s].data # NULL}

Cleanup ==
    /\ phase = "cleanup" /\ section_free(Cleaned)
    /\ phase' = "done" /\ UNCHANGED <<pass, names, out, file>>

Stopped == phase \in {"done", "undefined"} /\ UNCHANGED vars

Next ==
    \/ fill_sections_names \/ fill_symbols_info
    \/ \E n \in Blobs : \E s \in Sec : Emit(s, n) \/ section_mmap(s, n)
    \/ \E n \in Blobs : Reserve(n)
    \/ SecondPass \/ compile_tree \/ CompileFails
    \/ create_elf64 \/ Cleanup \/ Stopped

Spec == Init /\ [][Next]_vars

(* The types; a pointer to data is null or points to a live buffer.        *)
TypeOK ==
    /\ phase \in {"sections", "symbols", "compile", "utest", "create", "cleanup",
                  "done", "undefined"}
    /\ pass \in 0..2 /\ last \in Nat /\ live \subseteq 1..last
    /\ secs \in [Sec -> [size : Nat, allocated : Nat, data : live \union {NULL}]]
    /\ names \in Seq([data : Sizes, at : Nat])
    /\ out \in Sizes

(* No section writes past its buffer, none holds more than twice what it   *)
(* needs beyond the first allocation, and no two share a buffer.           *)
WithinBuffers ==
    /\ \A s \in Sec \ {SEC_BSS} :
          /\ secs[s].size <= secs[s].allocated
          /\ secs[s].data = NULL <=> secs[s].allocated = 0
          /\ secs[s].allocated > SEG_ALLOC_INIT => secs[s].allocated < 2 * secs[s].size
    /\ \A s, t \in Sec : secs[s].data = secs[t].data => s = t \/ secs[s].data = NULL

(* The parts create_elf64 copies into the file lie inside it, apart from   *)
(* one another: no section's bytes overwrite another's or the headers; and *)
(* the sections start at multiples of SEC_ALIGN.                           *)
Apart(p, q) == p.at + p.len <= q.at \/ q.at + q.len <= p.at
ImageLaidOut ==
    \A p \in file.parts :
       /\ p.at >= 0 /\ p.at + p.len <= file.size
       /\ \A q \in file.parts : p = q \/ Apart(p, q)
       /\ p.what \in Sec => p.at % SEC_ALIGN = 0

(* Where in a section its chunk number i starts.                           *)
Start(s, i) == LET upto[j \in 1..i] == IF j = 1 THEN 0 ELSE upto[j - 1] + bytes[s][j - 1].len
               IN upto[i]
Named(at, s, i) == bytes[s][i].of = (IF s = SEC_STRTAB THEN SEC_NUM + i ELSE i)
                   /\ at = Start(s, i)

(* In the file written, each section header's sh_name and each symbol's    *)
(* st_name is the place where its own name begins.                         *)
SectionsNamed ==
    phase = "cleanup" /\ file # NoFile =>
       \A i \in 1..SEC_NUM : Named(file.sec_names[i], SEC_SHSTRTAB, i)
SymbolsNamed ==
    phase = "cleanup" /\ file # NoFile =>
       \A i \in 2..Len(SymbolNames) : Named(file.sym_names[i], SEC_STRTAB, i)
NamesFound == SectionsNamed /\ SymbolsNamed

(* The code, the relocations and the .bss that go into the file are those  *)
(* of one pass, all of them, and no bytes of the pass before.              *)
OnePassOnly ==
    phase = "create" =>
       \A s \in {SEC_TEXT, SEC_BSS, SEC_RELA_TEXT} :
          /\ \A i \in DOMAIN bytes[s] : bytes[s][i].of = pass
          /\ bytes[s] = <<>> <=> secs[s].size = 0
          /\ bytes[s] # <<>> =>
                secs[s].size = Start(s, Len(bytes[s])) + bytes[s][Len(bytes[s])].len

(* The live buffers are those of the sections, so that none can be lost    *)
(* and freed twice or never; and at the end, on every path, all are freed. *)
NothingLeaked ==
    /\ live = {secs[s].data : s \in Sec} \ {NULL}
    /\ phase = "done" => live = {}
====
