---- MODULE ObjectFile_proofs ----
(* What holds of the sections, of what is in them and of the image for all *)
(* sizes.                                                                  *)
EXTENDS ObjectFile, FiniteSetTheorems, WellFoundedInduction, TLAPS

HeapType ==
    /\ last \in Nat /\ live \subseteq 1..last
    /\ secs \in [Sec -> [size : Nat, allocated : Nat, data : live \union {NULL}]]

Owned == live = {secs[s].data : s \in Sec} \ {NULL}

(* The sections and the buffers agree.  .bss never gets a buffer: its      *)
(* offset in the file is that of the section after it.                     *)
HeapInv ==
    /\ HeapType /\ WithinBuffers /\ Owned
    /\ secs[SEC_BSS].data = NULL

ControlType ==
    /\ phase \in {"sections", "symbols", "compile", "utest", "create", "cleanup",
                  "done", "undefined"}
    /\ pass \in 0..2
    /\ names \in Seq([data : Sizes, at : Nat])
    /\ out \in Sizes

(* The symbols are named after the sections.                               *)
SectionsFirst == phase = "symbols" => Len(names) >= SEC_NUM

FreedAtEnd == phase = "done" => live = {}

ObjectInv == HeapInv /\ ControlType /\ SectionsFirst /\ ImageLaidOut /\ FreedAtEnd

(* elf64_align rounds up to a multiple of SEC_ALIGN.                       *)
LEMMA AlignUp ==
    ASSUME NEW n \in Nat
    PROVE  /\ elf64_align(n) \in Nat /\ elf64_align(n) >= n
           /\ elf64_align(n) % SEC_ALIGN = 0
<1>1. CASE SEC_ALIGN = 1   BY <1>1 DEF elf64_align
<1>2. CASE SEC_ALIGN = 2   BY <1>2 DEF elf64_align
<1>3. CASE SEC_ALIGN = 4   BY <1>3 DEF elf64_align
<1>4. CASE SEC_ALIGN = 8   BY <1>4 DEF elf64_align
<1>5. CASE SEC_ALIGN = 16  BY <1>5 DEF elf64_align
<1> QED  BY <1>1, <1>2, <1>3, <1>4, <1>5, SizesAssumption

(* Multiples of SEC_ALIGN are closed under addition.                       *)
LEMMA AlignedSum ==
    ASSUME NEW a \in Nat, NEW b \in Nat, a % SEC_ALIGN = 0, b % SEC_ALIGN = 0
    PROVE  a + b \in Nat /\ (a + b) % SEC_ALIGN = 0
<1>1. CASE SEC_ALIGN = 1   BY <1>1
<1>2. CASE SEC_ALIGN = 2   BY <1>2
<1>3. CASE SEC_ALIGN = 4   BY <1>3
<1>4. CASE SEC_ALIGN = 8   BY <1>4
<1>5. CASE SEC_ALIGN = 16  BY <1>5
<1> QED  BY <1>1, <1>2, <1>3, <1>4, <1>5, SizesAssumption

(* From one offset to the next, past a section of n bytes.                 *)
LEMMA Advance ==
    ASSUME NEW a \in Nat, a % SEC_ALIGN = 0, NEW n \in Nat
    PROVE  /\ a + elf64_align(n) \in Nat /\ (a + elf64_align(n)) % SEC_ALIGN = 0
           /\ a + n <= a + elf64_align(n)
<1>1. elf64_align(n) \in Nat /\ elf64_align(n) >= n /\ elf64_align(n) % SEC_ALIGN = 0
  BY AlignUp
<1> QED  BY <1>1, AlignedSum

(* What section_alloc offers: enough, and little more than enough.         *)
LEMMA AllocatedEnough ==
    ASSUME HeapInv, NEW s \in Sec, NEW n \in Sizes, NEW cap \in section_alloc(s, n)
    PROVE  /\ cap \in Nat /\ cap >= secs[s].size + n /\ cap >= secs[s].allocated
           /\ cap > SEG_ALLOC_INIT => cap < 2 * (secs[s].size + n) \/ cap = secs[s].allocated
           /\ cap = secs[s].allocated => secs[s].allocated # 0
<1> DEFINE from == IF secs[s].allocated = 0 THEN SEG_ALLOC_INIT ELSE secs[s].allocated
           need == secs[s].size + n
<1>1. from \in Nat \ {0} /\ need \in Nat /\ secs[s].allocated \in Nat
  BY SizesAssumption DEF HeapInv, HeapType, Sizes
<1>2. PICK d \in Doublings : cap = from * d
  BY DEF section_alloc
<1>3. cap >= need /\ (cap > from => cap < 2 * need)
  BY DEF section_alloc
<1>4. from * d \in Nat /\ from * d >= from
  BY <1>1, <1>2 DEF Doublings
<1>5. from = secs[s].allocated \/ (from = SEG_ALLOC_INIT /\ secs[s].allocated = 0)
  OBVIOUS
<1>6. cap \in Nat /\ cap >= from
  BY <1>2, <1>4
<1> HIDE DEF from, need
<1> QED  BY <1>1, <1>3, <1>5, <1>6, SizesAssumption DEF need, Sizes

(* section_memcpy keeps the sections and the buffers in agreement, and the *)
(* section it wrote to has a buffer.                                       *)
LEMMA Memcpy ==
    ASSUME HeapInv, NEW s \in Sec \ {SEC_BSS}, NEW n \in Sizes, NEW what,
           section_memcpy(s, what, n)
    PROVE  HeapInv' /\ secs'[s].data \in Sizes /\ secs[s].size \in Nat
<1>0. PICK cap \in section_alloc(s, n) : \E data \in realloc(s, cap) :
         /\ secs' = [secs EXCEPT ![s] = [size |-> secs[s].size + n,
                                         allocated |-> cap, data |-> data]]
         /\ live' = (live \ {secs[s].data}) \union {data}
         /\ last' = IF data > last THEN data ELSE last
  BY DEF section_memcpy
<1>1. PICK data \in realloc(s, cap) :
         /\ secs' = [secs EXCEPT ![s] = [size |-> secs[s].size + n,
                                         allocated |-> cap, data |-> data]]
         /\ live' = (live \ {secs[s].data}) \union {data}
         /\ last' = IF data > last THEN data ELSE last
  BY <1>0
<1>2. /\ cap \in Nat /\ cap >= secs[s].size + n /\ cap >= secs[s].allocated
      /\ cap > SEG_ALLOC_INIT => cap < 2 * (secs[s].size + n) \/ cap = secs[s].allocated
      /\ cap = secs[s].allocated => secs[s].allocated # 0
  BY AllocatedEnough
<1>t. /\ last \in Nat /\ live \subseteq 1..last
      /\ \A t \in Sec : /\ secs[t] \in [size : Nat, allocated : Nat, data : live \union {NULL}]
                        /\ secs[t].size \in Nat /\ secs[t].allocated \in Nat
                        /\ secs[t].data \in live \union {NULL}
  BY DEF HeapInv, HeapType
<1>w. /\ \A t \in Sec \ {SEC_BSS} :
            /\ secs[t].size <= secs[t].allocated
            /\ secs[t].data = NULL <=> secs[t].allocated = 0
            /\ secs[t].allocated > SEG_ALLOC_INIT => secs[t].allocated < 2 * secs[t].size
      /\ \A t, u \in Sec : secs[t].data = secs[u].data => t = u \/ secs[t].data = NULL
  BY DEF HeapInv, WithinBuffers
<1>3. data \in 1..(last + 1) /\ (data = last + 1 \/ data = secs[s].data)
  <2>1. CASE cap > secs[s].allocated
    BY <2>1, <1>1, <1>t DEF realloc, NULL
  <2>2. CASE ~(cap > secs[s].allocated)
    <3>1. cap = secs[s].allocated  BY <2>2, <1>2, <1>t
    <3>2. secs[s].data # NULL      BY <3>1, <1>2, <1>w
    <3> QED  BY <2>2, <3>2, <1>1, <1>t DEF realloc
  <2> QED  BY <2>1, <2>2
<1>4. secs[s].size \in Nat /\ secs[s].size + n \in Nat
  BY <1>t DEF Sizes
<1>5. last' \in Nat /\ last' >= last /\ last' >= data
  BY <1>1, <1>3, <1>t
<1>6. live' \subseteq 1..last' /\ data \in live' /\ live \ {secs[s].data} \subseteq live'
  <2>1. 1..last \subseteq 1..last' /\ data \in 1..last'
    BY <1>3, <1>5, <1>t
  <2> QED  BY <2>1, <1>1, <1>t
<1>7. \A t \in Sec : t # s => secs'[t] = secs[t]
                             /\ secs[t].data \in live' \union {NULL}
  BY <1>1, <1>t, <1>w, <1>6, <1>3
<1>8. secs'[s] = [size |-> secs[s].size + n, allocated |-> cap, data |-> data]
  BY <1>1 DEF HeapInv, HeapType
<1>9. secs' \in [Sec -> [size : Nat, allocated : Nat, data : live' \union {NULL}]]
  <2>1. \A t \in Sec : secs'[t] \in [size : Nat, allocated : Nat, data : live' \union {NULL}]
    <3> TAKE t \in Sec
    <3>1. CASE t = s   BY <3>1, <1>8, <1>4, <1>2, <1>6
    <3>2. CASE t # s   BY <3>2, <1>7, <1>t
    <3> QED  BY <3>1, <3>2
  <2> QED  BY <2>1, <1>1 DEF HeapInv, HeapType
<1>10. HeapType'
  BY <1>5, <1>6, <1>9 DEF HeapType
<1>11. \A t \in Sec : t # s => secs[t].data # data \/ secs[t].data = NULL
  BY <1>3, <1>t, <1>w DEF NULL
<1>12. WithinBuffers'
  <2>1. /\ secs[s].size + n <= cap
        /\ data # NULL /\ cap # 0
        /\ cap > SEG_ALLOC_INIT => cap < 2 * (secs[s].size + n)
    <3>1. secs[s].size + n <= cap /\ cap # 0 /\ data # NULL
      BY <1>2, <1>3, <1>4, <1>t DEF Sizes, NULL
    <3>2. ASSUME cap = secs[s].allocated, cap > SEG_ALLOC_INIT
          PROVE  cap < 2 * (secs[s].size + n)
      <4>1. cap < 2 * secs[s].size  BY <3>2, <1>w
      <4> QED  BY <4>1, <1>2, <1>4, <1>t DEF Sizes
    <3>3. cap > SEG_ALLOC_INIT => cap < 2 * (secs[s].size + n)
      BY <3>2, <1>2
    <3> QED  BY <3>1, <3>3
  <2>2. \A t \in Sec \ {SEC_BSS} :
            /\ secs'[t].size <= secs'[t].allocated
            /\ secs'[t].data = NULL <=> secs'[t].allocated = 0
            /\ secs'[t].allocated > SEG_ALLOC_INIT => secs'[t].allocated < 2 * secs'[t].size
    <3> TAKE t \in Sec \ {SEC_BSS}
    <3>1. CASE t = s   BY <3>1, <1>8, <2>1
    <3>2. CASE t # s   BY <3>2, <1>7, <1>w
    <3> QED  BY <3>1, <3>2
  <2>3. \A t, u \in Sec : secs'[t].data = secs'[u].data => t = u \/ secs'[t].data = NULL
    <3> TAKE t, u \in Sec
    <3>1. CASE t = s /\ u # s   BY <3>1, <1>7, <1>8, <1>11
    <3>2. CASE t # s /\ u = s   BY <3>2, <1>7, <1>8, <1>11
    <3>3. CASE t # s /\ u # s   BY <3>3, <1>7, <1>w
    <3> QED  BY <3>1, <3>2, <3>3
  <2> QED  BY <2>2, <2>3 DEF WithinBuffers, NULL
<1>13. Owned'
  <2>1. \A b \in live' : b # NULL /\ \E t \in Sec : secs'[t].data = b
    <3> TAKE b \in live'
    <3>1. CASE b = data   BY <3>1, <1>8, <1>3 DEF NULL
    <3>2. CASE b # data
      <4>1. b \in live /\ b # secs[s].data  BY <3>2, <1>1
      <4>2. PICK t \in Sec : secs[t].data = b /\ b # NULL  BY <4>1 DEF HeapInv, Owned
      <4> QED  BY <4>1, <4>2, <1>7
    <3> QED  BY <3>1, <3>2
  <2>2. \A t \in Sec : secs'[t].data \in live' \union {NULL}
    BY <1>7, <1>8, <1>6
  <2> QED  BY <2>1, <2>2 DEF Owned, NULL
<1>14. secs'[SEC_BSS].data = NULL
  BY <1>7 DEF HeapInv, Sec, SEC_BSS, NULL
<1>15. HeapInv'
  BY <1>10, <1>12, <1>13, <1>14 DEF HeapInv, NULL
<1> QED  BY <1>15, <1>8, <1>3, <1>t DEF Sizes

(* section_free keeps the sections and the buffers in agreement.           *)
LEMMA Freed ==
    ASSUME HeapInv, NEW ss \in SUBSET Sec, section_free(ss)
    PROVE  HeapInv' /\ \A s \in ss : secs'[s] = Empty
<1>1. /\ secs' = [s \in Sec |-> IF s \in ss THEN Empty ELSE secs[s]]
      /\ live' = live \ {secs[s].data : s \in ss} /\ last' = last
  BY DEF section_free
<1>2. /\ \A s \in Sec : secs'[s] = IF s \in ss THEN Empty ELSE secs[s]
      /\ \A s \in ss : secs'[s] = Empty
  BY <1>1
<1>3. /\ \A s \in Sec : secs[s] \in [size : Nat, allocated : Nat, data : live \union {NULL}]
      /\ \A s, t \in Sec : secs[s].data = secs[t].data => s = t \/ secs[s].data = NULL
      /\ live = {secs[s].data : s \in Sec} \ {NULL}
  BY DEF HeapInv, HeapType, WithinBuffers, Owned
<1>4. \A s \in Sec : s \notin ss => secs[s].data \in live' \union {NULL}
  BY <1>1, <1>3
<1>5. Empty \in [size : Nat, allocated : Nat, data : live' \union {NULL}]
  BY DEF Empty, NULL
<1>6. HeapType'
  <2>1. \A s \in Sec : secs'[s] \in [size : Nat, allocated : Nat, data : live' \union {NULL}]
    BY <1>2, <1>3, <1>4, <1>5
  <2> QED  BY <2>1, <1>1 DEF HeapInv, HeapType
<1>7. WithinBuffers'
  BY <1>2, SizesAssumption DEF HeapInv, WithinBuffers, Empty, NULL, Sizes
<1>8. Owned'
  <2>1. \A b \in live' : b # NULL /\ \E t \in Sec : secs'[t].data = b
    BY <1>1, <1>2, <1>3
  <2>2. \A t \in Sec : secs'[t].data \in live' \union {NULL}
    BY <1>6 DEF HeapType
  <2> QED  BY <2>1, <2>2 DEF Owned, NULL
<1>9. secs'[SEC_BSS].data = NULL
  BY <1>2 DEF HeapInv, Sec, SEC_BSS, Empty, NULL
<1> QED  BY <1>6, <1>7, <1>8, <1>9, <1>2 DEF HeapInv, NULL

(* The sections of the image lie one after another, each from an aligned   *)
(* offset and as long as the code pads it to, whatever their sizes.        *)
LEMMA OffsetsOrdered ==
    ASSUME HeapInv, NEW o, o = Offsets
    PROVE  /\ \A i \in 1..8 : o[i] \in Nat /\ o[i] % SEC_ALIGN = 0
           /\ EhdrSize + ShdrSize * SEC_NUM <= o[1]
           /\ o[1] + secs[SEC_TEXT].size <= o[2]
           /\ o[2] + secs[SEC_RODATA].size <= o[3]
           /\ o[3] + secs[SEC_DATA].size <= o[5]
           /\ o[5] + secs[SEC_SHSTRTAB].size <= o[6]
           /\ o[6] + SYM_NUM * SymSize <= o[7]
           /\ o[7] + secs[SEC_STRTAB].size <= o[8]
           /\ SYM_NUM * SymSize \in Nat
<1>1. /\ secs[SEC_TEXT].size \in Nat /\ secs[SEC_RODATA].size \in Nat
      /\ secs[SEC_DATA].size \in Nat /\ secs[SEC_SHSTRTAB].size \in Nat
      /\ secs[SEC_STRTAB].size \in Nat
  BY DEF HeapInv, HeapType, Sec, SEC_TEXT, SEC_RODATA, SEC_DATA, SEC_SHSTRTAB, SEC_STRTAB
<1>2. SYM_NUM \in Nat /\ SYM_NUM * SymSize \in Nat
  <2>1. Len(LibNames) \in Nat  BY SizesAssumption
  <2>2. SYM_NUM \in Nat        BY <2>1 DEF SYM_NUM
  <2> QED  BY <2>2, SizesAssumption DEF Sizes
<1>3. EhdrSize \in Nat /\ ShdrSize * SEC_NUM \in Nat
  BY SizesAssumption DEF Sizes, SEC_NUM
<1> DEFINE base   == elf64_align(EhdrSize) + elf64_align(ShdrSize * SEC_NUM)
           rodata == base   + elf64_align(secs[SEC_TEXT].size)
           data   == rodata + elf64_align(secs[SEC_RODATA].size)
           bss    == data   + elf64_align(secs[SEC_DATA].size)
           symtab == bss    + elf64_align(secs[SEC_SHSTRTAB].size)
           strtab == symtab + elf64_align(SYM_NUM * SymSize)
           rela   == strtab + elf64_align(secs[SEC_STRTAB].size)
<1>4. o = <<base, rodata, data, bss, bss, symtab, strtab, rela>>
  BY DEF Offsets
<1>5. base \in Nat /\ base % SEC_ALIGN = 0 /\ EhdrSize + ShdrSize * SEC_NUM <= base
  <2>1. /\ elf64_align(EhdrSize) \in Nat /\ elf64_align(EhdrSize) >= EhdrSize
        /\ elf64_align(EhdrSize) % SEC_ALIGN = 0
    BY <1>3, AlignUp
  <2>2. /\ base \in Nat /\ base % SEC_ALIGN = 0
        /\ elf64_align(EhdrSize) + ShdrSize * SEC_NUM <= base
    BY <1>3, <2>1, Advance
  <2> QED  BY <1>3, <2>1, <2>2
<1> HIDE DEF base
<1>6. /\ rodata \in Nat /\ rodata % SEC_ALIGN = 0 /\ base + secs[SEC_TEXT].size <= rodata
  BY <1>1, <1>5, Advance
<1> HIDE DEF rodata
<1>7. /\ data \in Nat /\ data % SEC_ALIGN = 0 /\ rodata + secs[SEC_RODATA].size <= data
  BY <1>1, <1>6, Advance
<1> HIDE DEF data
<1>8. /\ bss \in Nat /\ bss % SEC_ALIGN = 0 /\ data + secs[SEC_DATA].size <= bss
  BY <1>1, <1>7, Advance
<1> HIDE DEF bss
<1>9. /\ symtab \in Nat /\ symtab % SEC_ALIGN = 0 /\ bss + secs[SEC_SHSTRTAB].size <= symtab
  BY <1>1, <1>8, Advance
<1> HIDE DEF symtab
<1>10. /\ strtab \in Nat /\ strtab % SEC_ALIGN = 0 /\ symtab + SYM_NUM * SymSize <= strtab
  BY <1>2, <1>9, Advance
<1> HIDE DEF strtab
<1>11. /\ rela \in Nat /\ rela % SEC_ALIGN = 0 /\ strtab + secs[SEC_STRTAB].size <= rela
  BY <1>1, <1>10, Advance
<1> HIDE DEF rela
<1>12. /\ o[1] = base /\ o[2] = rodata /\ o[3] = data /\ o[4] = bss /\ o[5] = bss
       /\ o[6] = symtab /\ o[7] = strtab /\ o[8] = rela
  BY <1>4
<1>13. \A i \in 1..8 : o[i] \in Nat /\ o[i] % SEC_ALIGN = 0
  <2> TAKE i \in 1..8
  <2>1. i \in {1, 2, 3, 4, 5, 6, 7, 8}  OBVIOUS
  <2> QED  BY <2>1, <1>12, <1>5, <1>6, <1>7, <1>8, <1>9, <1>10, <1>11
<1> QED  BY <1>2, <1>5, <1>6, <1>7, <1>8, <1>9, <1>10, <1>11, <1>12, <1>13

(* The image create_elf64 writes is laid out as ImageLaidOut asks.         *)
LEMMA ImageOfHeap ==
    ASSUME HeapInv, file' = Image
    PROVE  ImageLaidOut'
<1> DEFINE o   == Offsets
           sym == SYM_NUM * SymSize
           end == elf64_align(secs[SEC_RELA_TEXT].size + o[SEC_RELA_TEXT])
<1>1. /\ \A i \in 1..8 : o[i] \in Nat /\ o[i] % SEC_ALIGN = 0
      /\ EhdrSize + ShdrSize * SEC_NUM <= o[1]
      /\ o[1] + secs[SEC_TEXT].size <= o[2]
      /\ o[2] + secs[SEC_RODATA].size <= o[3]
      /\ o[3] + secs[SEC_DATA].size <= o[5]
      /\ o[5] + secs[SEC_SHSTRTAB].size <= o[6]
      /\ o[6] + sym <= o[7]
      /\ o[7] + secs[SEC_STRTAB].size <= o[8]
      /\ sym \in Nat
  BY OffsetsOrdered
<1> HIDE DEF o, sym
<1>2. \A s \in Sec : secs[s].size \in Nat
  BY DEF HeapInv, HeapType
<1>3. end \in Nat /\ secs[SEC_RELA_TEXT].size + o[8] <= end
  <2>1. secs[SEC_RELA_TEXT].size + o[8] \in Nat
    BY <1>1, <1>2 DEF Sec, SEC_RELA_TEXT
  <2> QED  BY <2>1, AlignUp DEF SEC_RELA_TEXT
<1>4. EhdrSize \in Nat /\ ShdrSize \in Nat /\ ShdrSize <= EhdrSize
      /\ ShdrSize * SEC_NUM \in Nat
  BY SizesAssumption DEF Sizes, SEC_NUM
<1> HIDE DEF end
<1> DEFINE Kinds == {EHDR, SHDRS, SEC_TEXT, SEC_RODATA, SEC_DATA, SEC_SHSTRTAB, SEC_SYMTAB,
                     SEC_STRTAB, SEC_RELA_TEXT}
           at  == [w \in Kinds |-> IF w = EHDR THEN 0 ELSE IF w = SHDRS THEN EhdrSize ELSE o[w]]
           len == [w \in Kinds |-> IF w = EHDR THEN ShdrSize
                                   ELSE IF w = SHDRS THEN ShdrSize * SEC_NUM
                                   ELSE IF w = SEC_SYMTAB THEN sym ELSE secs[w].size]
<1>5. /\ at[EHDR] = 0 /\ at[SHDRS] = EhdrSize /\ at[SEC_TEXT] = o[1] /\ at[SEC_RODATA] = o[2]
      /\ at[SEC_DATA] = o[3] /\ at[SEC_SHSTRTAB] = o[5] /\ at[SEC_SYMTAB] = o[6]
      /\ at[SEC_STRTAB] = o[7] /\ at[SEC_RELA_TEXT] = o[8]
      /\ len[EHDR] = ShdrSize /\ len[SHDRS] = ShdrSize * SEC_NUM
      /\ len[SEC_TEXT] = secs[SEC_TEXT].size /\ len[SEC_RODATA] = secs[SEC_RODATA].size
      /\ len[SEC_DATA] = secs[SEC_DATA].size /\ len[SEC_SHSTRTAB] = secs[SEC_SHSTRTAB].size
      /\ len[SEC_SYMTAB] = sym /\ len[SEC_STRTAB] = secs[SEC_STRTAB].size
      /\ len[SEC_RELA_TEXT] = secs[SEC_RELA_TEXT].size
  BY DEF EHDR, SHDRS, SEC_TEXT, SEC_RODATA, SEC_DATA, SEC_SHSTRTAB, SEC_SYMTAB, SEC_STRTAB,
         SEC_RELA_TEXT
<1>6. \A p \in Parts : p.what \in Kinds /\ p.at = at[p.what] /\ p.len = len[p.what]
                       /\ p = Part(p.what, p.at, p.len)
  <2> TAKE p \in Parts
  <2>1. CASE p = Part(EHDR, 0, ShdrSize)  BY <2>1, <1>5 DEF Part
  <2>2. CASE p = Part(SHDRS, EhdrSize, ShdrSize * SEC_NUM)  BY <2>2, <1>5 DEF Part
  <2>3. CASE p = Part(SEC_SYMTAB, o[SEC_SYMTAB], sym)
    BY <2>3, <1>5 DEF Part, SEC_SYMTAB
  <2>4. ASSUME NEW s \in Sec \ {SEC_NULL, SEC_SYMTAB}, secs[s].data # NULL,
               p = Part(s, o[s], secs[s].size)
        PROVE  p.what \in Kinds /\ p.at = at[p.what] /\ p.len = len[p.what]
               /\ p = Part(p.what, p.at, p.len)
    <3>1. s # SEC_BSS /\ s \in Sec  BY <2>4 DEF HeapInv
    <3>2. s \in {SEC_TEXT, SEC_RODATA, SEC_DATA, SEC_SHSTRTAB, SEC_STRTAB, SEC_RELA_TEXT}
      BY <3>1, <2>4 DEF Sec, SEC_NULL, SEC_BSS, SEC_TEXT, SEC_RODATA, SEC_DATA, SEC_SHSTRTAB,
                        SEC_STRTAB, SEC_RELA_TEXT, SEC_SYMTAB
    <3>3. s \in Kinds /\ at[s] = o[s] /\ len[s] = secs[s].size
      BY <3>2 DEF EHDR, SHDRS, SEC_TEXT, SEC_RODATA, SEC_DATA, SEC_SHSTRTAB,
                  SEC_STRTAB, SEC_RELA_TEXT, SEC_SYMTAB
    <3> QED  BY <2>4, <3>3 DEF Part
  <2> QED  BY <2>1, <2>2, <2>3, <2>4 DEF Parts, o, sym
<1>7. /\ secs[SEC_TEXT].size \in Nat /\ secs[SEC_RODATA].size \in Nat
      /\ secs[SEC_DATA].size \in Nat /\ secs[SEC_SHSTRTAB].size \in Nat
      /\ secs[SEC_STRTAB].size \in Nat /\ secs[SEC_RELA_TEXT].size \in Nat
      /\ o[1] \in Nat /\ o[2] \in Nat /\ o[3] \in Nat /\ o[5] \in Nat /\ o[6] \in Nat
      /\ o[7] \in Nat /\ o[8] \in Nat
  BY <1>1, <1>2 DEF Sec, SEC_TEXT, SEC_RODATA, SEC_DATA, SEC_SHSTRTAB, SEC_STRTAB, SEC_RELA_TEXT
<1> HIDE DEF at, len
<1>8. \A w \in Kinds : at[w] \in Nat /\ len[w] \in Nat /\ at[w] + len[w] <= end
  BY <1>1, <1>3, <1>4, <1>5, <1>7
<1>9. \A w, v \in Kinds : w # v => at[w] + len[w] <= at[v] \/ at[v] + len[v] <= at[w]
  BY <1>1, <1>4, <1>5, <1>7
<1>10. \A w \in Kinds : w \in Sec => at[w] % SEC_ALIGN = 0
  <2>1. EHDR \notin Sec /\ SHDRS \notin Sec  BY DEF EHDR, SHDRS, Sec
  <2> QED  BY <2>1, <1>1, <1>5
<1>11. file'.parts = Parts /\ file'.size = end
  BY DEF Image, end, o
<1> HIDE DEF Kinds
<1>12. \A p, q \in Parts : p = q \/ Apart(p, q)
  <2> TAKE p, q \in Parts
  <2>1. CASE p.what = q.what  BY <2>1, <1>6
  <2>2. CASE p.what # q.what  BY <2>2, <1>6, <1>9 DEF Apart
  <2> QED  BY <2>1, <2>2
<1>13. \A p \in Parts : /\ p.at >= 0 /\ p.at + p.len <= end
                        /\ p.what \in Sec => p.at % SEC_ALIGN = 0
  BY <1>6, <1>8, <1>10
<1> QED  BY <1>11, <1>12, <1>13 DEF ImageLaidOut

(* Before the first name.                                                  *)
LEMMA InitInv ==
    ASSUME Init PROVE ObjectInv
<1>1. HeapType
  BY DEF Init, HeapType, Empty, NULL
<1>2. WithinBuffers
  BY SizesAssumption DEF Init, WithinBuffers, Empty, NULL, Sizes
<1>3. Owned
  BY DEF Init, Owned, Empty, NULL
<1>4. secs[SEC_BSS].data = NULL
  BY DEF Init, Empty, NULL, Sec, SEC_BSS
<1>5. ControlType
  BY SizesAssumption DEF Init, ControlType, Sizes
<1>6. ImageLaidOut /\ SectionsFirst /\ FreedAtEnd
  BY DEF Init, ImageLaidOut, NoFile, SectionsFirst, FreedAtEnd
<1> QED  BY <1>1, <1>2, <1>3, <1>4, <1>5, <1>6 DEF ObjectInv, HeapInv

(* A step that leaves the heap alone keeps what is said of it.             *)
LEMMA SameHeap ==
    ASSUME HeapInv, UNCHANGED heap
    PROVE  HeapInv'
BY DEF heap, HeapInv, HeapType, WithinBuffers, Owned

(* The pointer section_memcpy returns has its type.                        *)
LEMMA WrittenType ==
    ASSUME HeapInv, ControlType, NEW s \in Sec \ {SEC_BSS}, NEW n \in Sizes, NEW what,
           section_memcpy(s, what, n)
    PROVE  Append(names, Written(s)) \in Seq([data : Sizes, at : Nat])
<1>1. secs'[s].data \in Sizes /\ secs[s].size \in Nat
  BY Memcpy
<1>2. Written(s) \in [data : Sizes, at : Nat]
  BY <1>1 DEF Written
<1> QED  BY <1>2 DEF ControlType

(* Undefined steps say nothing more and change nothing else.               *)
LEMMA UndefinedInv ==
    ASSUME ObjectInv, Undefined PROVE ObjectInv'
<1>1. HeapInv'  BY SameHeap DEF ObjectInv, Undefined
<1>2. ControlType' /\ ImageLaidOut' /\ SectionsFirst' /\ FreedAtEnd'
  BY DEF ObjectInv, Undefined, ControlType, ImageLaidOut, SectionsFirst, FreedAtEnd, Apart
<1> QED  BY <1>1, <1>2 DEF ObjectInv

(* fill_sections_names.                                                    *)
LEMMA SectionNamesInv ==
    ASSUME ObjectInv, fill_sections_names PROVE ObjectInv'
<1> DEFINE i == Len(names)
<1>1. i \in Nat  BY DEF ObjectInv, ControlType
<1>2. CASE /\ i < SEC_NUM /\ section_memcpy(SEC_SHSTRTAB, i + 1, SecNames[i + 1])
           /\ names' = Append(names, Written(SEC_SHSTRTAB)) /\ UNCHANGED phase
  <2>1. SecNames[i + 1] \in Sizes
    BY <1>1, <1>2, NamesAssumption DEF SEC_NUM
  <2>2. SEC_SHSTRTAB \in Sec \ {SEC_BSS}  BY DEF SEC_SHSTRTAB, Sec, SEC_BSS
  <2>3. HeapInv'  BY <2>1, <2>2, <1>2, Memcpy DEF ObjectInv
  <2>4. names' \in Seq([data : Sizes, at : Nat])
    BY <2>1, <2>2, <1>2, WrittenType DEF ObjectInv
  <2>5. /\ phase' = phase /\ pass' = pass /\ out' = out /\ file' = file
        /\ phase = "sections"
    BY <1>2 DEF fill_sections_names
  <2> QED  BY <2>3, <2>4, <2>5 DEF ObjectInv, ControlType, ImageLaidOut, SectionsFirst, FreedAtEnd, Apart
<1>3. CASE Undefined
  BY <1>3, UndefinedInv
<1>4. CASE i = SEC_NUM /\ phase' = "symbols" /\ UNCHANGED <<heap, names>>
  <2>1. HeapInv'  BY <1>4, SameHeap DEF ObjectInv
  <2>2. pass' = pass /\ out' = out /\ file' = file /\ names' = names
        /\ Len(names) >= SEC_NUM
    BY <1>1, <1>4 DEF fill_sections_names, SEC_NUM
  <2> QED  BY <2>1, <2>2, <1>4 DEF ObjectInv, ControlType, ImageLaidOut, SectionsFirst, FreedAtEnd, Apart
<1> QED  BY <1>2, <1>3, <1>4 DEF fill_sections_names, AllocationFails

(* fill_symbols_info.                                                      *)
LEMMA SymbolsInv ==
    ASSUME ObjectInv, fill_symbols_info PROVE ObjectInv'
<1> DEFINE i == Len(names) - SEC_NUM
<1>2. CASE /\ i < Len(SymbolNames)
           /\ section_memcpy(SEC_STRTAB, SEC_NUM + i + 1, SymbolNames[i + 1])
           /\ names' = Append(names, Written(SEC_STRTAB))
           /\ UNCHANGED <<phase, pass>>
  <2>1. /\ out' = out /\ file' = file /\ phase' = phase /\ pass' = pass /\ phase = "symbols"
        /\ Len(names) \in Nat /\ Len(names) >= SEC_NUM /\ SEC_NUM \in Nat
    BY <1>2 DEF fill_symbols_info, ObjectInv, ControlType, SectionsFirst, SEC_NUM
  <2>2. i \in Nat  BY <2>1
  <2>3. SymbolNames \in Seq(Sizes)
    <3>1. <<1, out>> \in Seq(Sizes) /\ <<StartName>> \in Seq(Sizes) /\ LibNames \in Seq(Sizes)
      BY SizesAssumption DEF ObjectInv, ControlType, Sizes
    <3> QED  BY <3>1 DEF SymbolNames
  <2>4. SymbolNames[i + 1] \in Sizes
    <3>1. i < Len(SymbolNames)  BY <1>2
    <3> HIDE DEF i
    <3> QED  BY <3>1, <2>2, <2>3
  <2>5. SEC_STRTAB \in Sec \ {SEC_BSS}  BY DEF SEC_STRTAB, Sec, SEC_BSS
  <2>6. HeapInv'  BY <2>4, <2>5, <1>2, Memcpy DEF ObjectInv
  <2>7. names' = Append(names, Written(SEC_STRTAB)) /\ names \in Seq([data : Sizes, at : Nat])
        /\ Append(names, Written(SEC_STRTAB)) \in Seq([data : Sizes, at : Nat])
    BY <2>4, <2>5, <1>2, WrittenType DEF ObjectInv, ControlType
  <2>8. Len(names') >= SEC_NUM
    <3>1. Len(names') = Len(names) + 1  BY <2>7
    <3> QED  BY <3>1, <2>1
  <2> QED  BY <2>1, <2>6, <2>7, <2>8
           DEF ObjectInv, ControlType, ImageLaidOut, SectionsFirst, FreedAtEnd, Apart
<1>3. CASE Undefined
  BY <1>3, UndefinedInv
<1>4. CASE /\ UNCHANGED <<heap, names>>
           /\ \/ phase' = "compile" /\ pass' = 1
              \/ phase' = "utest" /\ pass' = 2
  <2>1. HeapInv'  BY <1>4, SameHeap DEF ObjectInv
  <2>2. out' = out /\ file' = file /\ names' = names
    BY <1>4 DEF fill_symbols_info
  <2> QED  BY <2>1, <2>2, <1>4 DEF ObjectInv, ControlType, ImageLaidOut, SectionsFirst, FreedAtEnd, Apart
<1> QED  BY <1>2, <1>3, <1>4 DEF fill_symbols_info, AllocationFails

(* A step that appends to a section and changes nothing else.              *)
LEMMA AppendInv ==
    ASSUME ObjectInv, NEW s \in Sec \ {SEC_BSS}, NEW n \in Sizes, NEW what,
           section_memcpy(s, what, n), UNCHANGED <<phase, pass, names, out, file>>,
           phase # "done"
    PROVE  ObjectInv'
<1>1. HeapInv'  BY Memcpy DEF ObjectInv
<1> QED  BY <1>1 DEF ObjectInv, ControlType, ImageLaidOut, SectionsFirst, FreedAtEnd, Apart

(* Code and relocations.                                                   *)
LEMMA EmitInv ==
    ASSUME ObjectInv, NEW s \in Sec, NEW n \in Blobs, Emit(s, n) PROVE ObjectInv'
<1>1. s \in Sec \ {SEC_BSS} /\ n \in Sizes /\ phase # "done"
  BY SizesAssumption DEF Emit, SEC_BSS, SEC_TEXT, SEC_RELA_TEXT
<1>2. CASE section_memcpy(s, pass, n) /\ UNCHANGED <<phase, pass, names, out, file>>
  BY <1>1, <1>2, AppendInv
<1>3. CASE Undefined
  BY <1>3, UndefinedInv
<1> QED  BY <1>2, <1>3 DEF Emit, AllocationFails

(* The sections of the unit test.                                          *)
LEMMA MmapInv ==
    ASSUME ObjectInv, NEW s \in Sec, NEW n \in Blobs, section_mmap(s, n) PROVE ObjectInv'
<1>1. s \in Sec \ {SEC_BSS} /\ n \in Sizes /\ phase # "done"
  BY SizesAssumption DEF section_mmap, SEC_BSS, SEC_TEXT, SEC_RODATA, SEC_DATA
<1> QED  BY <1>1, AppendInv DEF section_mmap

(* Space in .bss.                                                          *)
LEMMA ReserveInv ==
    ASSUME ObjectInv, NEW n \in Blobs, Reserve(n) PROVE ObjectInv'
<1>1. n \in Nat  BY SizesAssumption DEF Sizes
<1>2. /\ secs' = [secs EXCEPT ![SEC_BSS].size = @ + n]
      /\ live' = live /\ last' = last /\ UNCHANGED <<phase, pass, names, out, file>>
      /\ phase # "done"
  BY DEF Reserve
<1>3. /\ secs \in [Sec -> [size : Nat, allocated : Nat, data : live \union {NULL}]]
      /\ SEC_BSS \in Sec /\ secs[SEC_BSS].size + n \in Nat
  BY <1>1 DEF ObjectInv, HeapInv, HeapType, Sec, SEC_BSS
<1>4. /\ secs' \in [Sec -> [size : Nat, allocated : Nat, data : live' \union {NULL}]]
      /\ \A s \in Sec : secs'[s].data = secs[s].data
      /\ \A s \in Sec \ {SEC_BSS} : secs'[s] = secs[s]
  BY <1>2, <1>3
<1>5. HeapType'       BY <1>2, <1>4 DEF ObjectInv, HeapInv, HeapType
<1>6. WithinBuffers'  BY <1>4 DEF ObjectInv, HeapInv, WithinBuffers
<1>7. Owned'          BY <1>2, <1>4 DEF ObjectInv, HeapInv, Owned
<1>8. secs'[SEC_BSS].data = NULL  BY <1>3, <1>4 DEF ObjectInv, HeapInv
<1> QED  BY <1>2, <1>5, <1>6, <1>7, <1>8
         DEF ObjectInv, HeapInv, ControlType, ImageLaidOut, SectionsFirst, FreedAtEnd, Apart, NULL

(* The sections dropped between the passes.                                *)
LEMMA SecondPassInv ==
    ASSUME ObjectInv, SecondPass PROVE ObjectInv'
<1>1. Dropped \in SUBSET Sec
  BY DEF Dropped, Sec, SEC_TEXT, SEC_BSS, SEC_RELA_TEXT
<1>2. HeapInv'  BY <1>1, Freed DEF ObjectInv, SecondPass
<1> QED  BY <1>2 DEF ObjectInv, SecondPass, ControlType, ImageLaidOut, SectionsFirst, FreedAtEnd, Apart

(* The end of compile_tree, well or badly.                                 *)
LEMMA EndInv ==
    ASSUME ObjectInv, compile_tree \/ CompileFails PROVE ObjectInv'
<1>1. HeapInv'  BY SameHeap DEF ObjectInv, compile_tree, CompileFails
<1> QED  BY <1>1 DEF ObjectInv, compile_tree, CompileFails, ControlType, ImageLaidOut,
                     SectionsFirst, FreedAtEnd, Apart

(* create_elf64.                                                           *)
LEMMA CreateInv ==
    ASSUME ObjectInv, create_elf64 PROVE ObjectInv'
<1>1. CASE file' = Image /\ phase' = "cleanup" /\ UNCHANGED <<pass, heap, names, out>>
  <2>1. HeapInv'       BY <1>1, SameHeap DEF ObjectInv
  <2>2. ImageLaidOut'  BY <1>1, ImageOfHeap DEF ObjectInv
  <2> QED  BY <1>1, <2>1, <2>2 DEF ObjectInv, ControlType, SectionsFirst, FreedAtEnd
<1>2. CASE Undefined
  BY <1>2, UndefinedInv
<1> QED  BY <1>1, <1>2 DEF create_elf64

(* The sections freed at the end of main.                                  *)
LEMMA CleanupInv ==
    ASSUME ObjectInv, Cleanup PROVE ObjectInv'
<1>1. Cleaned \in SUBSET Sec
  BY DEF Cleaned
<1>2. HeapInv' /\ \A s \in Cleaned : secs'[s] = Empty
  BY <1>1, Freed DEF ObjectInv, Cleanup
<1>3. live' = {}
  BY DEF ObjectInv, HeapInv, Owned, Cleanup, section_free, Cleaned
<1> QED  BY <1>2, <1>3 DEF ObjectInv, Cleanup, ControlType, ImageLaidOut, SectionsFirst, FreedAtEnd, Apart

(* Every step keeps the invariant.                                         *)
LEMMA StepInv ==
    ASSUME ObjectInv, [Next]_vars PROVE ObjectInv'
<1>1. CASE UNCHANGED vars
  <2>1. HeapInv'  BY <1>1, SameHeap DEF ObjectInv, vars, heap
  <2> QED  BY <1>1, <2>1 DEF ObjectInv, vars, ControlType, ImageLaidOut, SectionsFirst, FreedAtEnd, Apart
<1> QED  BY <1>1, SectionNamesInv, SymbolsInv, EmitInv, MmapInv, ReserveInv, SecondPassInv,
            EndInv, CreateInv, CleanupInv DEF Next, Stopped

(* Of every object file, whatever the sizes of its sections and names and  *)
(* however realloc behaves: ObjectInv.                                     *)
THEOREM Invariant == Spec => []ObjectInv
BY InitInv, StepInv, PTL DEF Spec

(* Section, pointer and control variables keep their types, and no section *)
(* points to a buffer that has been freed.                                 *)
THEOREM TypeCorrect == Spec => []TypeOK
<1>1. ObjectInv => TypeOK
  BY DEF ObjectInv, HeapInv, HeapType, ControlType, TypeOK
<1> QED  BY <1>1, Invariant, PTL

(* section_alloc always leaves room for what is copied, and no two         *)
(* sections share a buffer.                                                *)
THEOREM BuffersCorrect == Spec => []WithinBuffers
<1>1. ObjectInv => WithinBuffers
  BY DEF ObjectInv, HeapInv
<1> QED  BY <1>1, Invariant, PTL

(* create_elf64 never lets two parts of the file overlap, nor one leave it.*)
THEOREM ImageCorrect == Spec => []ImageLaidOut
<1>1. ObjectInv => ImageLaidOut
  BY DEF ObjectInv
<1> QED  BY <1>1, Invariant, PTL

(* Every buffer is freed once, by the end of main.                         *)
THEOREM BuffersFreed == Spec => []NothingLeaked
<1>1. ObjectInv => NothingLeaked
  BY DEF ObjectInv, HeapInv, Owned, FreedAtEnd, NothingLeaked
<1> QED  BY <1>1, Invariant, PTL

(* Where chunks start: Start is a running sum of their lengths.            *)

Chunk == [of : Nat, len : Sizes]

(* Start, of the chunks b of any section.                                  *)
Place(b, i) ==
    LET upto[j \in 1..i] == IF j = 1 THEN 0 ELSE upto[j - 1] + b[j - 1].len
    IN upto[i]

(* f gives the places where the chunks of list start, and its end.         *)
Starts(list, f) ==
    /\ f = [j \in 1..(Len(list) + 1) |-> f[j]] /\ f[1] = 0
    /\ \A j \in 1..Len(list) : f[j + 1] = f[j] + list[j].len

(* A set of numbers that is not empty has a least one.                     *)
LEMMA NatMinimum ==
    ASSUME NEW T \in SUBSET Nat, T # {}
    PROVE  \E m \in T : \A n \in T : m <= n
<1> DEFINE Below == {0..m : m \in T}
             R     == StrictSubsetOrdering(Nat)
<1>1. Below \subseteq FiniteSubsetsOf(Nat) /\ Below # {}
    <2>1. \A m \in T : IsFiniteSet(0..m) /\ 0..m \in SUBSET Nat
      BY FS_Interval
    <2> QED BY <2>1 DEF FiniteSubsetsOf
<1>2. PICK x \in Below : \A y \in Below : <<y, x>> \notin R
    <2> HIDE DEF Below
    <2> QED BY <1>1, FS_StrictSubsetOrderingWellFounded, WFMin
<1>3. PICK m \in T : x = 0..m
    BY <1>2
<1>4. ASSUME NEW n \in T, ~(m <= n)
        PROVE  FALSE
    <2>1. n \in Nat /\ m \in Nat /\ n < m
      BY <1>4
    <2>2. 0..n \subseteq 0..m /\ m \in 0..m /\ m \notin 0..n
      BY <2>1
    <2>3. <<0..n, 0..m>> \in R
      BY <2>2, <2>1 DEF StrictSubsetOrdering
    <2> QED BY <1>2, <1>3, <2>3
<1> QED BY <1>3, <1>4

(* What holds of 0 and of the successor of each of its members holds of    *)
(* every number.                                                           *)
LEMMA Induction ==
    ASSUME NEW T, 0 \in T, \A n \in Nat : n \in T => n + 1 \in T
    PROVE  \A n \in Nat : n \in T
<1> SUFFICES ASSUME NEW k \in Nat, k \notin T
             PROVE  FALSE
  OBVIOUS
<1> DEFINE U == Nat \ T
<1>1. PICK n \in U : \A m \in U : n <= m
  <2>1. U \in SUBSET Nat /\ U # {}  OBVIOUS
  <2> HIDE DEF U
  <2> QED  BY <2>1, NatMinimum
<1>2. n # 0
  OBVIOUS
<1>3. n - 1 \in Nat /\ n - 1 \notin U
  BY <1>1, <1>2
<1> QED  BY <1>3

(* Every list has such places.                                             *)
LEMMA StartsExist ==
    ASSUME NEW list, Len(list) \in Nat
    PROVE  \E f : Starts(list, f)
<1> DEFINE Upto(g, n) == g[1] = 0 /\ \A j \in 1..n : g[j + 1] = g[j] + list[j].len
           T == {n \in Nat : \E g : Upto(g, n)}
<1>1. 0 \in T
  <2>1. Upto([j \in {1} |-> 0], 0)  OBVIOUS
  <2> HIDE DEF Upto
  <2> QED  BY <2>1
<1>2. ASSUME NEW n \in Nat, n \in T
      PROVE  n + 1 \in T
  <2>1. PICK g : Upto(g, n)
    BY <1>2
  <2> DEFINE h == [j \in 1..(n + 2) |-> IF j <= n + 1 THEN g[j] ELSE g[n + 1] + list[n + 1].len]
  <2>2. /\ 1 \in 1..(n + 2) /\ h[1] = g[1]
        /\ h[n + 1] = g[n + 1] /\ h[n + 2] = g[n + 1] + list[n + 1].len
        /\ \A j \in 1..n : h[j] = g[j] /\ h[j + 1] = g[j + 1]
    OBVIOUS
  <2> HIDE DEF h
  <2>3. ASSUME NEW j \in 1..(n + 1)
        PROVE  h[j + 1] = h[j] + list[j].len
    <3>1. CASE j \in 1..n
      BY <2>1, <2>2, <3>1
    <3>2. CASE j = n + 1
      <4>1. j + 1 = n + 2  BY <3>2
      <4> QED  BY <2>2, <3>2, <4>1
    <3> QED  BY <3>1, <3>2
  <2>4. Upto(h, n + 1)
    BY <2>1, <2>2, <2>3
  <2> HIDE DEF Upto
  <2> QED  BY <2>4
<1>3. Len(list) \in T
  <2> HIDE DEF T
  <2> QED  BY <1>1, <1>2, Induction
<1>4. PICK g : Upto(g, Len(list))
  BY <1>3
<1> DEFINE f == [j \in 1..(Len(list) + 1) |-> g[j]]
<1>5. /\ 1 \in 1..(Len(list) + 1)
      /\ \A j \in 1..Len(list) : j \in 1..(Len(list) + 1) /\ j + 1 \in 1..(Len(list) + 1)
  OBVIOUS
<1>6. Starts(list, f)
  BY <1>4, <1>5 DEF Starts
<1> QED  BY <1>6

(* The places are numbers, and those of a list behind which a chunk is put *)
(* are the same as far as both go.                                         *)
LEMMA StartsAgree ==
    ASSUME NEW list, Len(list) \in Nat, NEW more, Len(more) \in Nat,
           Len(list) <= Len(more), \A j \in 1..Len(list) : more[j] = list[j],
           NEW f, Starts(list, f), NEW g, Starts(more, g), NEW i \in 1..(Len(list) + 1)
    PROVE  f[i] = g[i]
<1> DEFINE T == {n \in Nat : n <= Len(list) => f[n + 1] = g[n + 1]}
<1>1. 0 \in T
  BY DEF Starts
<1>2. ASSUME NEW n \in Nat, n \in T
      PROVE  n + 1 \in T
  <2> SUFFICES ASSUME n + 1 <= Len(list)
               PROVE  f[(n + 1) + 1] = g[(n + 1) + 1]
    OBVIOUS
  <2>1. n + 1 \in 1..Len(list) /\ n + 1 \in 1..Len(more) /\ n <= Len(list)
    OBVIOUS
  <2>2. f[n + 1] = g[n + 1]
    BY <1>2, <2>1
  <2> QED  BY <2>1, <2>2 DEF Starts
<1>3. i - 1 \in T /\ i - 1 \in Nat /\ i - 1 <= Len(list) /\ (i - 1) + 1 = i
  <2>1. i - 1 \in Nat /\ i - 1 <= Len(list) /\ (i - 1) + 1 = i
    OBVIOUS
  <2> HIDE DEF T
  <2> QED  BY <1>1, <1>2, <2>1, Induction
<1> QED  BY <1>3

LEMMA StartsNat ==
    ASSUME NEW list \in Seq(Chunk), NEW f, Starts(list, f), NEW i \in 1..(Len(list) + 1)
    PROVE  f[i] \in Nat
<1> DEFINE T == {n \in Nat : n <= Len(list) => f[n + 1] \in Nat}
<1>0. Len(list) \in Nat /\ \A j \in 1..Len(list) : list[j].len \in Nat
  <2>1. Len(list) \in Nat /\ \A j \in 1..Len(list) : list[j] \in Chunk
    OBVIOUS
  <2> QED  BY <2>1 DEF Chunk, Sizes
<1>1. 0 \in T
  BY DEF Starts
<1>2. ASSUME NEW n \in Nat, n \in T
      PROVE  n + 1 \in T
  <2> SUFFICES ASSUME n + 1 <= Len(list)
               PROVE  f[(n + 1) + 1] \in Nat
    OBVIOUS
  <2>1. n + 1 \in 1..Len(list) /\ n <= Len(list)
    BY <1>0
  <2>2. f[n + 1] \in Nat /\ list[n + 1].len \in Nat
    BY <1>0, <1>2, <2>1
  <2>3. f[(n + 1) + 1] = f[n + 1] + list[n + 1].len
    BY <2>1 DEF Starts
  <2> QED  BY <2>2, <2>3
<1>3. i - 1 \in T /\ i - 1 \in Nat /\ i - 1 <= Len(list) /\ (i - 1) + 1 = i
  <2>1. i - 1 \in Nat /\ i - 1 <= Len(list) /\ (i - 1) + 1 = i
    BY <1>0
  <2> HIDE DEF T
  <2> QED  BY <1>1, <1>2, <2>1, Induction
<1> QED  BY <1>3

(* The recursive function computes them.                                   *)
LEMMA PlaceIs ==
    ASSUME NEW b, Len(b) \in Nat, NEW f, Starts(b, f), NEW i \in 1..(Len(b) + 1)
    PROVE  Place(b, i) = f[i]
<1> DEFINE Eq(h) == h = [j \in 1..i |-> IF j = 1 THEN 0 ELSE h[j - 1] + b[j - 1].len]
           g == [j \in 1..i |-> f[j]]
<1>1. Eq(g)
  <2>1. \A j \in 1..i : g[j] = f[j]
    OBVIOUS
  <2>2. ASSUME NEW j \in 1..i
        PROVE  g[j] = IF j = 1 THEN 0 ELSE g[j - 1] + b[j - 1].len
    <3>1. CASE j = 1
      BY <2>1, <3>1 DEF Starts
    <3>2. CASE j # 1
      <4>1. j - 1 \in 1..Len(b) /\ j - 1 \in 1..i /\ (j - 1) + 1 = j
        BY <3>2
      <4>2. f[(j - 1) + 1] = f[j - 1] + b[j - 1].len
        BY <4>1 DEF Starts
      <4> QED  BY <2>1, <3>2, <4>1, <4>2
    <3> QED  BY <3>1, <3>2
  <2>3. g = [j \in 1..i |-> g[j]]
    OBVIOUS
  <2> HIDE DEF g
  <2> QED  BY <2>2, <2>3
<1> HIDE DEF g
<1>2. ASSUME NEW h, Eq(h)
      PROVE  h[i] = f[i]
  <2> DEFINE T == {n \in Nat : n + 1 <= i => h[n + 1] = f[n + 1]}
  <2>0. \A j \in 1..i : h[j] = IF j = 1 THEN 0 ELSE h[j - 1] + b[j - 1].len
    BY <1>2
  <2> HIDE DEF Eq
  <2>1. 0 \in T
    BY <2>0 DEF Starts
  <2>2. ASSUME NEW n \in Nat, n \in T
        PROVE  n + 1 \in T
    <3> SUFFICES ASSUME (n + 1) + 1 <= i
                 PROVE  h[(n + 1) + 1] = f[(n + 1) + 1]
      OBVIOUS
    <3>1. /\ n + 1 \in 1..Len(b) /\ (n + 1) + 1 \in 1..i /\ n + 1 <= i
          /\ (n + 1) + 1 # 1 /\ ((n + 1) + 1) - 1 = n + 1
      OBVIOUS
    <3>2. h[n + 1] = f[n + 1]
      BY <2>2, <3>1
    <3>3. h[(n + 1) + 1] = h[n + 1] + b[n + 1].len
      BY <2>0, <3>1
    <3>4. f[(n + 1) + 1] = f[n + 1] + b[n + 1].len
      BY <3>1 DEF Starts
    <3> QED  BY <3>2, <3>3, <3>4
  <2>3. i - 1 \in T /\ i - 1 \in Nat /\ (i - 1) + 1 = i
    <3>1. i - 1 \in Nat /\ (i - 1) + 1 = i
      OBVIOUS
    <3> HIDE DEF T
    <3> QED  BY <2>1, <2>2, <3>1, Induction
  <2> QED  BY <2>3
<1>3. Eq(CHOOSE h : Eq(h))
  <2> HIDE DEF Eq
  <2> QED  BY <1>1
<1>4. Place(b, i) = (CHOOSE h : Eq(h))[i]
  BY DEF Place
<1> HIDE DEF Eq
<1> QED  BY <1>2, <1>3, <1>4

(* A chunk starts where the one before it ends.                            *)
LEMMA PlaceNext ==
    ASSUME NEW b \in Seq(Chunk)
    PROVE  /\ Place(b, 1) = 0 /\ Place(b, Len(b) + 1) \in Nat
           /\ \A i \in 1..Len(b) : /\ Place(b, i) \in Nat
                                   /\ Place(b, i + 1) = Place(b, i) + b[i].len
<1>0. Len(b) \in Nat
  OBVIOUS
<1>1. PICK f : Starts(b, f)
  BY <1>0, StartsExist
<1>2. \A i \in 1..(Len(b) + 1) : Place(b, i) = f[i] /\ f[i] \in Nat
  BY <1>0, <1>1, PlaceIs, StartsNat
<1>3. f[1] = 0 /\ \A j \in 1..Len(b) : f[j + 1] = f[j] + b[j].len
  BY <1>1 DEF Starts
<1>4. /\ 1 \in 1..(Len(b) + 1) /\ Len(b) + 1 \in 1..(Len(b) + 1)
      /\ \A i \in 1..Len(b) : i \in 1..(Len(b) + 1) /\ i + 1 \in 1..(Len(b) + 1)
  BY <1>0
<1> QED  BY <1>2, <1>3, <1>4

(* A chunk put behind the others moves none of them.                       *)
LEMMA PlaceAppend ==
    ASSUME NEW b \in Seq(Chunk), NEW c \in Chunk
    PROVE  /\ Append(b, c) \in Seq(Chunk) /\ Len(Append(b, c)) = Len(b) + 1
           /\ \A i \in 1..(Len(b) + 1) : Place(Append(b, c), i) = Place(b, i)
           /\ Place(Append(b, c), Len(b) + 2) = Place(b, Len(b) + 1) + c.len
<1> DEFINE m == Append(b, c)
<1>1. /\ m \in Seq(Chunk) /\ Len(b) \in Nat /\ Len(m) = Len(b) + 1
      /\ \A j \in 1..Len(b) : m[j] = b[j]
      /\ m[Len(b) + 1] = c
  OBVIOUS
<1> HIDE DEF m
<1>2. PICK f : Starts(b, f)
  BY <1>1, StartsExist
<1>3. Len(m) \in Nat /\ Len(b) <= Len(m)
  BY <1>1
<1>4. PICK g : Starts(m, g)
  BY <1>3, StartsExist
<1>5. ASSUME NEW i \in 1..(Len(b) + 1)
      PROVE  Place(m, i) = Place(b, i)
  <2>1. f[i] = g[i]
    BY <1>1, <1>2, <1>3, <1>4, StartsAgree
  <2>2. i \in 1..(Len(m) + 1)
    BY <1>1
  <2>3. Place(m, i) = g[i]
    BY <1>3, <1>4, <2>2, PlaceIs
  <2>4. Place(b, i) = f[i]
    BY <1>1, <1>2, PlaceIs
  <2> QED  BY <2>1, <2>3, <2>4
<1>6. Place(m, Len(b) + 2) = Place(b, Len(b) + 1) + c.len
  <2>1. /\ Len(b) + 1 \in 1..Len(m) /\ Len(b) + 1 \in 1..(Len(b) + 1)
        /\ (Len(b) + 1) + 1 = Len(b) + 2
    BY <1>1
  <2>2. Place(m, (Len(b) + 1) + 1) = Place(m, Len(b) + 1) + m[Len(b) + 1].len
    BY <1>1, <2>1, PlaceNext
  <2> QED  BY <1>1, <1>5, <2>1, <2>2
<1> QED  BY <1>1, <1>5, <1>6 DEF m

(* A section without bytes has no chunks, and the other way round.         *)
LEMMA PlaceNone ==
    ASSUME NEW b \in Seq(Chunk)
    PROVE  /\ b = <<>> <=> Place(b, Len(b) + 1) = 0
           /\ b # <<>> => Place(b, Len(b) + 1) = Place(b, Len(b)) + b[Len(b)].len
<1>1. CASE b = <<>>
  <2>1. Len(b) + 1 = 1  BY <1>1
  <2> QED  BY <1>1, <2>1, PlaceNext
<1>2. CASE b # <<>>
  <2>1. Len(b) \in 1..Len(b) /\ b[Len(b)] \in Chunk
    BY <1>2
  <2>2. b[Len(b)].len \in Nat /\ b[Len(b)].len # 0
    BY <2>1 DEF Chunk, Sizes
  <2>3. /\ Place(b, Len(b)) \in Nat
        /\ Place(b, Len(b) + 1) = Place(b, Len(b)) + b[Len(b)].len
    BY <2>1, PlaceNext
  <2> QED  BY <1>2, <2>2, <2>3
<1> QED  BY <1>1, <1>2

(* What the bytes of the sections are.                                     *)

(* The chunks of a section add up to its size; and a section that has a    *)
(* buffer has one of the first allocation at least.                        *)
Content ==
    /\ bytes \in [Sec -> Seq(Chunk)]
    /\ \A s \in Sec : secs[s].size = Place(bytes[s], Len(bytes[s]) + 1)
    /\ \A s \in Sec \ {SEC_BSS} :
          secs[s].allocated = 0 \/ secs[s].allocated >= SEG_ALLOC_INIT

(* The sections of the program have nothing before the compiler runs, and  *)
(* then what the pass that is running wrote.                               *)
OfPass ==
    /\ phase \in {"sections", "symbols"} => \A s \in Dropped : bytes[s] = <<>>
    /\ phase \in {"compile", "utest", "create"} =>
          \A s \in Dropped : \A i \in 1..Len(bytes[s]) : bytes[s][i].of = pass

(* The names kept: number i is that of a section or, after those, that of  *)
(* a symbol.  It starts where its chunk does, and the pointer is into the  *)
(* buffer of today if the first allocation is still large enough.          *)
NameSec(i)   == IF i <= SEC_NUM THEN SEC_SHSTRTAB ELSE SEC_STRTAB
NameChunk(i) == IF i <= SEC_NUM THEN i ELSE i - SEC_NUM
NameAt(p, i, b, c) ==
    /\ NameChunk(i) \in 1..Len(b)
    /\ p.at = Place(b, NameChunk(i)) /\ b[NameChunk(i)].of = i
    /\ c.size <= SEG_ALLOC_INIT => p.data = c.data
NamesKept ==
    phase # "done" =>
       \A i \in 1..Len(names) : NameAt(names[i], i, bytes[NameSec(i)], secs[NameSec(i)])

(* How many names there are.                                               *)
NamesCounted ==
    /\ phase = "sections" => /\ Len(names) <= SEC_NUM
                             /\ Len(bytes[SEC_SHSTRTAB]) = Len(names)
                             /\ bytes[SEC_STRTAB] = <<>>
    /\ phase = "symbols" => /\ Len(bytes[SEC_STRTAB]) = Len(names) - SEC_NUM
                            /\ Len(names) <= SEC_NUM + Len(SymbolNames)
    /\ phase \in {"compile", "utest", "create"} =>
          Len(names) = SEC_NUM + Len(SymbolNames)

(* No file before create_elf64.                                            *)
NoFileYet ==
    phase \in {"sections", "symbols", "compile", "utest", "create"} => file = NoFile

(* The names fit in the first allocation of their sections, so that no     *)
(* buffer with names has moved.                                            *)
ShortNames ==
    /\ secs[SEC_SHSTRTAB].size <= SEG_ALLOC_INIT
    /\ secs[SEC_STRTAB].size <= SEG_ALLOC_INIT

ContentInv ==
    /\ ObjectInv /\ Content /\ OfPass /\ NamesKept /\ NamesCounted /\ NoFileYet
    /\ ShortNames => NamesFound

LEMMA SectionNumbers ==
    /\ SEC_SHSTRTAB \in Sec \ {SEC_BSS} /\ SEC_STRTAB \in Sec \ {SEC_BSS}
    /\ SEC_SHSTRTAB # SEC_STRTAB
    /\ SEC_SHSTRTAB \notin Dropped /\ SEC_STRTAB \notin Dropped
    /\ SEC_TEXT \in Sec \ {SEC_BSS} /\ SEC_RELA_TEXT \in Sec \ {SEC_BSS}
    /\ SEC_BSS \in Sec /\ Dropped \subseteq Sec
    /\ Dropped = {SEC_TEXT, SEC_BSS, SEC_RELA_TEXT}
    /\ \A s \in {SEC_TEXT, SEC_RODATA, SEC_DATA, SEC_RELA_TEXT, SEC_BSS} :
          s \in Sec /\ s # SEC_SHSTRTAB /\ s # SEC_STRTAB
    /\ \A i \in Nat : NameSec(i) \in {SEC_SHSTRTAB, SEC_STRTAB}
BY DEF Sec, Dropped, SEC_TEXT, SEC_RODATA, SEC_DATA, SEC_BSS, SEC_SHSTRTAB, SEC_STRTAB,
       SEC_RELA_TEXT, NameSec

(* section_memcpy: the chunk is behind the others, and the buffer stays    *)
(* where it is as long as the first allocation is large enough.            *)
LEMMA MemcpyContent ==
    ASSUME ObjectInv, Content, NEW s \in Sec \ {SEC_BSS}, NEW n \in Sizes, NEW what \in Nat,
           section_memcpy(s, what, n)
    PROVE  /\ Content'
           /\ bytes'[s] = Append(bytes[s], [of |-> what, len |-> n])
           /\ [of |-> what, len |-> n] \in Chunk
           /\ \A t \in Sec : t # s => bytes'[t] = bytes[t] /\ secs'[t] = secs[t]
           /\ secs'[s].size = secs[s].size + n /\ secs[s].size \in Nat
           /\ bytes[s] # <<>> /\ secs'[s].size <= SEG_ALLOC_INIT =>
                 secs'[s].data = secs[s].data
<1> DEFINE c == [of |-> what, len |-> n]
<1>0. HeapInv
  BY DEF ObjectInv
<1>1. PICK cap \in section_alloc(s, n) : \E data \in realloc(s, cap) :
         secs' = [secs EXCEPT ![s] = [size |-> secs[s].size + n,
                                      allocated |-> cap, data |-> data]]
  BY DEF section_memcpy
<1>2. PICK data \in realloc(s, cap) :
         secs' = [secs EXCEPT ![s] = [size |-> secs[s].size + n,
                                      allocated |-> cap, data |-> data]]
  BY <1>1
<1>3. /\ \A t \in Sec : secs[t].size \in Nat /\ secs[t].allocated \in Nat
      /\ DOMAIN secs = Sec
  BY <1>0 DEF HeapInv, HeapType
<1>4. /\ secs'[s] = [size |-> secs[s].size + n, allocated |-> cap, data |-> data]
      /\ \A t \in Sec : t # s => secs'[t] = secs[t]
  BY <1>2, <1>3
<1>5. bytes' = [bytes EXCEPT ![s] = Append(@, c)]
  BY DEF section_memcpy
<1>6. c \in Chunk /\ bytes[s] \in Seq(Chunk)
  BY DEF Chunk, Content
<1>7. /\ bytes'[s] = Append(bytes[s], c)
      /\ \A t \in Sec : t # s => bytes'[t] = bytes[t]
      /\ bytes' \in [Sec -> Seq(Chunk)]
  BY <1>5, <1>6 DEF Content
<1>8. /\ Len(bytes'[s]) = Len(bytes[s]) + 1 /\ Len(bytes[s]) \in Nat
      /\ Place(bytes'[s], Len(bytes[s]) + 2) = Place(bytes[s], Len(bytes[s]) + 1) + n
  BY <1>6, <1>7, PlaceAppend
<1>9. secs'[s].size = Place(bytes'[s], Len(bytes'[s]) + 1)
  <2>1. Len(bytes'[s]) + 1 = Len(bytes[s]) + 2
    BY <1>8
  <2> QED  BY <1>4, <1>8, <2>1 DEF Content
<1>10. cap \in Nat /\ cap >= secs[s].allocated /\ cap >= SEG_ALLOC_INIT
  <2> DEFINE from == IF secs[s].allocated = 0 THEN SEG_ALLOC_INIT ELSE secs[s].allocated
  <2>1. PICK d \in Doublings : cap = from * d
    BY DEF section_alloc
  <2>2. from \in Nat /\ from >= SEG_ALLOC_INIT /\ from >= secs[s].allocated
    BY <1>3, SizesAssumption DEF Content, Sizes
  <2>3. from * d \in Nat /\ from * d >= from
    <3> HIDE DEF from
    <3> QED  BY <2>2 DEF Doublings
  <2> HIDE DEF from
  <2> QED  BY <2>1, <2>2, <2>3, <1>3, SizesAssumption DEF Sizes
<1>11. \A t \in Sec \ {SEC_BSS} :
           secs'[t].allocated = 0 \/ secs'[t].allocated >= SEG_ALLOC_INIT
  BY <1>4, <1>10 DEF Content
<1>12. Content'
  <2>1. \A t \in Sec : secs'[t].size = Place(bytes'[t], Len(bytes'[t]) + 1)
    BY <1>4, <1>7, <1>9 DEF Content
  <2> QED  BY <1>7, <1>11, <2>1 DEF Content
<1>13. ASSUME bytes[s] # <<>>, secs'[s].size <= SEG_ALLOC_INIT
       PROVE  secs'[s].data = secs[s].data
  <2>1. secs[s].size # 0
    BY <1>6, <1>13, PlaceNone DEF Content
  <2>2. secs[s].size <= secs[s].allocated
    BY <1>0 DEF HeapInv, WithinBuffers
  <2>3. secs[s].allocated # 0 /\ secs[s].allocated >= SEG_ALLOC_INIT
    BY <2>1, <2>2, <1>3 DEF Content
  <2>4. PICK d \in Doublings : cap = secs[s].allocated * d
    BY <2>3 DEF section_alloc
  <2>5. cap > secs[s].allocated => cap < 2 * (secs[s].size + n)
    BY <2>3 DEF section_alloc
  <2>6. secs[s].size + n <= SEG_ALLOC_INIT
    BY <1>4, <1>13
  <2>7. SEG_ALLOC_INIT \in Nat /\ n \in Nat
    BY SizesAssumption DEF Sizes
  <2>8. ~(cap > secs[s].allocated)
    BY <2>3, <2>4, <2>5, <2>6, <2>7, <1>3 DEF Doublings
  <2> QED  BY <1>4, <2>8 DEF realloc
<1> QED  BY <1>3, <1>4, <1>6, <1>7, <1>12, <1>13

(* A step that leaves the heap alone.                                      *)
LEMMA ContentSame ==
    ASSUME Content, UNCHANGED heap
    PROVE  Content'
BY DEF Content, heap

(* section_free: nothing is left of a section.                             *)
LEMMA FreedContent ==
    ASSUME Content, NEW ss \in SUBSET Sec, section_free(ss)
    PROVE  /\ Content'
           /\ \A s \in ss : bytes'[s] = <<>>
           /\ \A s \in Sec \ ss : bytes'[s] = bytes[s] /\ secs'[s] = secs[s]
<1>1. /\ \A s \in ss : bytes'[s] = <<>> /\ secs'[s] = Empty
      /\ \A s \in Sec \ ss : bytes'[s] = bytes[s] /\ secs'[s] = secs[s]
      /\ bytes' = [s \in Sec |-> IF s \in ss THEN <<>> ELSE bytes[s]]
  BY DEF section_free
<1>2. bytes' \in [Sec -> Seq(Chunk)]
  BY <1>1 DEF Content
<1>3. Place(<<>>, Len(<<>>) + 1) = 0 /\ <<>> \in Seq(Chunk)
  <2>1. <<>> \in Seq(Chunk)  OBVIOUS
  <2> QED  BY <2>1, PlaceNone
<1>4. \A s \in Sec : secs'[s].size = Place(bytes'[s], Len(bytes'[s]) + 1)
  <2> TAKE s \in Sec
  <2>1. CASE s \in ss
    <3>1. bytes'[s] = <<>> /\ secs'[s].size = 0  BY <1>1, <2>1 DEF Empty
    <3> QED  BY <1>3, <3>1
  <2>2. CASE s \notin ss
    BY <1>1, <2>2 DEF Content
  <2> QED  BY <2>1, <2>2
<1>5. \A s \in Sec \ {SEC_BSS} :
          secs'[s].allocated = 0 \/ secs'[s].allocated >= SEG_ALLOC_INIT
  <2> TAKE s \in Sec \ {SEC_BSS}
  <2>1. CASE s \in ss
    <3>1. secs'[s].allocated = 0  BY <1>1, <2>1 DEF Empty
    <3> QED  BY <3>1
  <2>2. CASE s \notin ss
    BY <1>1, <2>2 DEF Content
  <2> QED  BY <2>1, <2>2
<1> QED  BY <1>1, <1>2, <1>4, <1>5 DEF Content

(* The names stay where they are if their sections do.                     *)
LEMMA NamesStay ==
    ASSUME NamesKept, names \in Seq([data : Sizes, at : Nat]),
           names' = names, phase # "done",
           bytes'[SEC_SHSTRTAB] = bytes[SEC_SHSTRTAB], bytes'[SEC_STRTAB] = bytes[SEC_STRTAB],
           secs'[SEC_SHSTRTAB] = secs[SEC_SHSTRTAB], secs'[SEC_STRTAB] = secs[SEC_STRTAB]
    PROVE  NamesKept'
<1>1. \A i \in 1..Len(names) : /\ bytes'[NameSec(i)] = bytes[NameSec(i)]
                               /\ secs'[NameSec(i)] = secs[NameSec(i)]
  BY SectionNumbers
<1> QED  BY <1>1 DEF NamesKept

(* A name more, at the end of its section.                                 *)
LEMMA NameMore ==
    ASSUME ObjectInv, Content, NamesKept, phase # "done",
           NEW s \in {SEC_SHSTRTAB, SEC_STRTAB}, NEW n \in Sizes,
           s = NameSec(Len(names) + 1),
           NameChunk(Len(names) + 1) = Len(bytes[s]) + 1,
           section_memcpy(s, Len(names) + 1, n),
           names' = Append(names, Written(s))
    PROVE  NamesKept' /\ Len(names') = Len(names) + 1 /\ Len(bytes'[s]) = Len(bytes[s]) + 1
<1> DEFINE m == Len(names) + 1
           c == [of |-> m, len |-> n]
<1>0. names \in Seq([data : Sizes, at : Nat]) /\ Len(names) \in Nat /\ m \in Nat
  BY DEF ObjectInv, ControlType
<1>1. s \in Sec \ {SEC_BSS}
  BY SectionNumbers
<1>2. /\ bytes'[s] = Append(bytes[s], c) /\ c \in Chunk
      /\ \A t \in Sec : t # s => bytes'[t] = bytes[t] /\ secs'[t] = secs[t]
      /\ secs'[s].size = secs[s].size + n /\ secs[s].size \in Nat
      /\ bytes[s] # <<>> /\ secs'[s].size <= SEG_ALLOC_INIT => secs'[s].data = secs[s].data
  BY <1>0, <1>1, MemcpyContent
<1>3. bytes[s] \in Seq(Chunk) /\ secs[s].size = Place(bytes[s], Len(bytes[s]) + 1)
  BY <1>1 DEF Content
<1>4. /\ Len(bytes'[s]) = Len(bytes[s]) + 1 /\ Len(bytes[s]) \in Nat
      /\ \A i \in 1..(Len(bytes[s]) + 1) : Place(bytes'[s], i) = Place(bytes[s], i)
      /\ bytes'[s][Len(bytes[s]) + 1] = c
      /\ \A i \in 1..Len(bytes[s]) : bytes'[s][i] = bytes[s][i]
  BY <1>2, <1>3, PlaceAppend
<1>5. /\ Len(names') = m /\ names'[m] = Written(s)
      /\ \A i \in 1..Len(names) : names'[i] = names[i]
  <2>1. names' = Append(names, Written(s))
    OBVIOUS
  <2> QED  BY <1>0, <2>1
<1>6. NameAt(names'[m], m, bytes'[s], secs'[s])
  <2>1. Written(s).at = secs[s].size /\ Written(s).data = secs'[s].data
    BY DEF Written
  <2> HIDE DEF m
  <2>2. NameChunk(m) = Len(bytes[s]) + 1
    BY DEF m
  <2>3. NameChunk(m) \in 1..Len(bytes'[s])
    BY <1>4, <2>2
  <2>4. Len(bytes[s]) + 1 \in 1..(Len(bytes[s]) + 1)
    BY <1>4
  <2> QED  BY <1>3, <1>4, <1>5, <2>1, <2>2, <2>3, <2>4 DEF NameAt
<1>7. ASSUME NEW i \in 1..Len(names)
      PROVE  NameAt(names'[i], i, bytes'[NameSec(i)], secs'[NameSec(i)])
  <2>0. NameSec(i) \in Sec
    BY SectionNumbers, <1>0
  <2>1. NameAt(names[i], i, bytes[NameSec(i)], secs[NameSec(i)])
    BY DEF NamesKept
  <2>2. CASE NameSec(i) # s
    BY <1>2, <1>5, <2>0, <2>1, <2>2
  <2>3. CASE NameSec(i) = s
    <3>1. /\ NameChunk(i) \in 1..Len(bytes[s]) /\ names[i].at = Place(bytes[s], NameChunk(i))
          /\ bytes[s][NameChunk(i)].of = i
          /\ secs[s].size <= SEG_ALLOC_INIT => names[i].data = secs[s].data
      BY <2>1, <2>3 DEF NameAt
    <3>2. /\ NameChunk(i) \in 1..(Len(bytes[s]) + 1) /\ NameChunk(i) \in 1..Len(bytes'[s])
          /\ bytes[s] # <<>>
      BY <1>3, <1>4, <3>1
    <3>3. secs'[s].size <= SEG_ALLOC_INIT =>
             secs[s].size <= SEG_ALLOC_INIT /\ secs'[s].data = secs[s].data
      <4>1. secs'[s].size <= SEG_ALLOC_INIT => secs[s].size <= SEG_ALLOC_INIT
        BY <1>2, SizesAssumption DEF Sizes
      <4> QED  BY <1>2, <3>2, <4>1
    <3>4. NameAt(names'[i], i, bytes'[s], secs'[s])
      BY <1>4, <1>5, <3>1, <3>2, <3>3 DEF NameAt
    <3> QED  BY <2>3, <3>4
  <2> QED  BY <2>2, <2>3
<1>8. \A i \in 1..Len(names') : i = m \/ i \in 1..Len(names)
  BY <1>0, <1>5
<1>9. NamesKept'
  BY <1>5, <1>6, <1>7, <1>8 DEF NamesKept
<1> QED  BY <1>4, <1>5, <1>9

(* The steps.                                                              *)

(* Only a step to "cleanup" has to answer for the file.                    *)
LEMMA NoCleanup ==
    ASSUME phase' # "cleanup"
    PROVE  NamesFound'
BY DEF NamesFound, SectionsNamed, SymbolsNamed

LEMMA ContentInit ==
    ASSUME Init PROVE ContentInv
<1>1. ObjectInv
  BY InitInv
<1>2. \A s \in Sec : bytes[s] = <<>> /\ secs[s].size = 0 /\ secs[s].allocated = 0
  BY DEF Init, Empty
<1>3. Place(<<>>, Len(<<>>) + 1) = 0 /\ <<>> \in Seq(Chunk)
  <2>1. <<>> \in Seq(Chunk)  OBVIOUS
  <2> QED  BY <2>1, PlaceNone
<1>4. Content
  <2>1. bytes \in [Sec -> Seq(Chunk)]
    BY <1>3 DEF Init
  <2>2. \A s \in Sec : secs[s].size = Place(bytes[s], Len(bytes[s]) + 1)
    BY <1>2, <1>3
  <2> QED  BY <1>2, <2>1, <2>2 DEF Content
<1>5. phase = "sections" /\ names = <<>> /\ file = NoFile
  BY DEF Init
<1>6. OfPass
  BY <1>2, <1>5, SectionNumbers DEF OfPass
<1>7. NamesKept
  BY <1>5 DEF NamesKept
<1>8. NamesCounted
  BY <1>2, <1>5, SectionNumbers DEF NamesCounted, SEC_NUM
<1>9. NoFileYet
  BY <1>5 DEF NoFileYet
<1>10. NamesFound
  BY <1>5 DEF NamesFound, SectionsNamed, SymbolsNamed
<1> QED  BY <1>1, <1>4, <1>6, <1>7, <1>8, <1>9, <1>10 DEF ContentInv

(* After an undefined step nothing is said of a file.                      *)
LEMMA UndefinedContent ==
    ASSUME ContentInv, phase # "done", Undefined PROVE ContentInv'
<1>1. ObjectInv'
  BY UndefinedInv DEF ContentInv
<1>2. phase' = "undefined" /\ UNCHANGED <<pass, heap, names, out, file>>
  BY DEF Undefined
<1>3. secs' = secs /\ bytes' = bytes /\ names' = names
  BY <1>2 DEF heap
<1>4. Content'
  BY <1>2, ContentSame DEF ContentInv
<1>5. NamesKept'
  BY <1>3, NamesStay DEF ContentInv, ObjectInv, ControlType
<1>6. OfPass' /\ NamesCounted' /\ NoFileYet'
  BY <1>2 DEF OfPass, NamesCounted, NoFileYet
<1>7. NamesFound'
  BY <1>2, NoCleanup
<1> QED  BY <1>1, <1>4, <1>5, <1>6, <1>7 DEF ContentInv

(* fill_sections_names.                                                    *)
LEMMA SectionNamesContent ==
    ASSUME ContentInv, fill_sections_names PROVE ContentInv'
<1> DEFINE i == Len(names)
<1>0. /\ ObjectInv /\ Content /\ OfPass /\ NamesKept /\ NamesCounted /\ NoFileYet
      /\ phase = "sections" /\ pass' = pass /\ file' = file /\ out' = out
      /\ i \in Nat /\ i <= SEC_NUM /\ Len(bytes[SEC_SHSTRTAB]) = i
      /\ bytes[SEC_STRTAB] = <<>>
  BY DEF ContentInv, fill_sections_names, NamesCounted, ObjectInv, ControlType
<1>1. ObjectInv'
  BY <1>0, SectionNamesInv
<1>2. CASE /\ i < SEC_NUM /\ section_memcpy(SEC_SHSTRTAB, i + 1, SecNames[i + 1])
           /\ names' = Append(names, Written(SEC_SHSTRTAB)) /\ UNCHANGED phase
  <2>1. SecNames[i + 1] \in Sizes
    BY <1>0, <1>2, NamesAssumption DEF SEC_NUM
  <2>2. i + 1 \in Nat /\ NameSec(i + 1) = SEC_SHSTRTAB /\ NameChunk(i + 1) = i + 1
    BY <1>0, <1>2 DEF NameSec, NameChunk, SEC_NUM
  <2>3. /\ NamesKept' /\ Len(names') = i + 1 /\ Len(bytes'[SEC_SHSTRTAB]) = i + 1
    <3>1. phase # "done" /\ NameChunk(Len(names) + 1) = Len(bytes[SEC_SHSTRTAB]) + 1
      BY <1>0, <2>2
    <3>2. /\ NamesKept' /\ Len(names') = Len(names) + 1
          /\ Len(bytes'[SEC_SHSTRTAB]) = Len(bytes[SEC_SHSTRTAB]) + 1
      BY <1>0, <1>2, <2>1, <2>2, <3>1, NameMore
    <3> QED  BY <1>0, <3>2
  <2>4. /\ Content'
        /\ \A t \in Sec : t # SEC_SHSTRTAB => bytes'[t] = bytes[t] /\ secs'[t] = secs[t]
    BY <1>0, <1>2, <2>1, <2>2, SectionNumbers, MemcpyContent
  <2>5. OfPass'
    BY <1>0, <1>2, <2>4, SectionNumbers DEF OfPass
  <2>6. NamesCounted'
    BY <1>0, <1>2, <2>3, <2>4, SectionNumbers DEF NamesCounted, SEC_NUM
  <2>7. NoFileYet' /\ NamesFound'
    BY <1>0, <1>2, NoCleanup DEF NoFileYet
  <2> QED  BY <1>1, <2>3, <2>4, <2>5, <2>6, <2>7 DEF ContentInv
<1>3. CASE Undefined
  BY <1>0, <1>3, UndefinedContent
<1>4. CASE i = SEC_NUM /\ phase' = "symbols" /\ UNCHANGED <<heap, names>>
  <2>1. secs' = secs /\ bytes' = bytes /\ names' = names /\ phase' = "symbols"
    BY <1>4 DEF heap
  <2>2. Content'
    BY <1>0, <1>4, ContentSame
  <2>3. NamesKept'
    BY <1>0, <2>1, NamesStay DEF ObjectInv, ControlType
  <2>4. OfPass'
    BY <1>0, <2>1 DEF OfPass
  <2>5. NamesCounted'
    <3>1. Len(bytes'[SEC_STRTAB]) = Len(names') - SEC_NUM
      BY <1>0, <1>4, <2>1 DEF SEC_NUM
    <3>2. Len(SymbolNames) \in Nat /\ SymbolNames' = SymbolNames
      BY <1>0, SizesAssumption DEF SymbolNames, ObjectInv, ControlType
    <3>3. Len(names') <= SEC_NUM + Len(SymbolNames)'
      <4>1. Len(names') = SEC_NUM /\ Len(SymbolNames)' = Len(SymbolNames)
        BY <1>4, <2>1, <3>2
      <4> QED  BY <3>2, <4>1 DEF SEC_NUM
    <3> QED  BY <2>1, <3>1, <3>3 DEF NamesCounted
  <2>6. NoFileYet' /\ NamesFound'
    BY <1>0, <2>1, NoCleanup DEF NoFileYet
  <2> QED  BY <1>1, <2>2, <2>3, <2>4, <2>5, <2>6 DEF ContentInv
<1> QED  BY <1>2, <1>3, <1>4 DEF fill_sections_names, AllocationFails

(* fill_symbols_info.                                                      *)
LEMMA SymbolsContent ==
    ASSUME ContentInv, fill_symbols_info PROVE ContentInv'
<1> DEFINE i == Len(names) - SEC_NUM
<1>0. /\ ObjectInv /\ Content /\ OfPass /\ NamesKept /\ NamesCounted /\ NoFileYet
      /\ phase = "symbols" /\ file' = file /\ out' = out
      /\ Len(names) \in Nat /\ Len(names) >= SEC_NUM /\ Len(bytes[SEC_STRTAB]) = i
      /\ Len(names) <= SEC_NUM + Len(SymbolNames)
  BY DEF ContentInv, fill_symbols_info, NamesCounted, ObjectInv, ControlType, SectionsFirst
<1>1. ObjectInv'
  BY <1>0, SymbolsInv
<1>s. SymbolNames \in Seq(Sizes) /\ Len(SymbolNames) \in Nat /\ SymbolNames' = SymbolNames
  <2>1. <<1, out>> \in Seq(Sizes) /\ <<StartName>> \in Seq(Sizes) /\ LibNames \in Seq(Sizes)
    BY <1>0, SizesAssumption DEF ObjectInv, ControlType, Sizes
  <2> QED  BY <1>0, <2>1 DEF SymbolNames
<1>2. CASE /\ i < Len(SymbolNames)
           /\ section_memcpy(SEC_STRTAB, SEC_NUM + i + 1, SymbolNames[i + 1])
           /\ names' = Append(names, Written(SEC_STRTAB))
           /\ UNCHANGED <<phase, pass>>
  <2>1. i \in Nat /\ SEC_NUM + i + 1 = Len(names) + 1
    BY <1>0 DEF SEC_NUM
  <2>2. SymbolNames[i + 1] \in Sizes
    <3>1. i < Len(SymbolNames)  BY <1>2
    <3> HIDE DEF i
    <3> QED  BY <3>1, <2>1, <1>s
  <2>3. /\ NameSec(Len(names) + 1) = SEC_STRTAB
        /\ NameChunk(Len(names) + 1) = Len(bytes[SEC_STRTAB]) + 1
    BY <1>0 DEF NameSec, NameChunk, SEC_NUM
  <2>4. section_memcpy(SEC_STRTAB, Len(names) + 1, SymbolNames[i + 1])
    BY <1>2, <2>1
  <2>n. names' = Append(names, Written(SEC_STRTAB)) /\ phase' = phase /\ pass' = pass
        /\ i < Len(SymbolNames)
    BY <1>2
  <2>5. /\ NamesKept' /\ Len(names') = Len(names) + 1
        /\ Len(bytes'[SEC_STRTAB]) = Len(bytes[SEC_STRTAB]) + 1
    <3>1. phase # "done"  BY <1>0
    <3> HIDE DEF i
    <3> QED  BY <1>0, <2>n, <2>2, <2>3, <2>4, <3>1, NameMore
  <2>6. /\ Content'
        /\ \A t \in Sec : t # SEC_STRTAB => bytes'[t] = bytes[t] /\ secs'[t] = secs[t]
    <3>1. Len(names) + 1 \in Nat  BY <1>0
    <3> HIDE DEF i
    <3> QED  BY <1>0, <2>2, <2>4, <3>1, SectionNumbers, MemcpyContent
  <2>7. OfPass'
    BY <1>0, <2>n, <2>6, SectionNumbers DEF OfPass
  <2>8. NamesCounted'
    <3>1. /\ Len(bytes'[SEC_STRTAB]) = Len(names') - SEC_NUM
          /\ Len(names') <= SEC_NUM + Len(SymbolNames)
      BY <1>0, <1>s, <2>n, <2>5 DEF SEC_NUM
    <3>2. phase' = "symbols"
      BY <1>0, <2>n
    <3> QED  BY <1>s, <3>1, <3>2 DEF NamesCounted
  <2>9. NoFileYet' /\ NamesFound'
    BY <1>0, <2>n, NoCleanup DEF NoFileYet
  <2> QED  BY <1>1, <2>5, <2>6, <2>7, <2>8, <2>9 DEF ContentInv
<1>3. CASE Undefined
  BY <1>0, <1>3, UndefinedContent
<1>4. CASE /\ i = Len(SymbolNames) /\ UNCHANGED <<heap, names>>
           /\ \/ phase' = "compile" /\ pass' = 1
              \/ phase' = "utest" /\ pass' = 2
  <2>1. secs' = secs /\ bytes' = bytes /\ names' = names /\ phase' \in {"compile", "utest"}
    BY <1>4 DEF heap
  <2>2. Content'
    BY <1>0, <1>4, ContentSame
  <2>3. NamesKept'
    BY <1>0, <2>1, NamesStay DEF ObjectInv, ControlType
  <2>4. OfPass'
    BY <1>0, <2>1 DEF OfPass
  <2>5. Len(names') = SEC_NUM + Len(SymbolNames)
    BY <1>0, <1>s, <1>4, <2>1 DEF SEC_NUM
  <2>6. NamesCounted'
    BY <1>s, <2>1, <2>5 DEF NamesCounted
  <2>7. NoFileYet' /\ NamesFound'
    BY <1>0, <2>1, NoCleanup DEF NoFileYet
  <2> QED  BY <1>1, <2>2, <2>3, <2>4, <2>6, <2>7 DEF ContentInv
<1> QED  BY <1>2, <1>3, <1>4 DEF fill_symbols_info, AllocationFails

(* A step that appends a chunk of this pass to a section of the program.   *)
LEMMA AppendContent ==
    ASSUME ContentInv, ObjectInv', phase \in {"compile", "utest"},
           UNCHANGED <<phase, pass, names, out, file>>, Content',
           NEW s \in {SEC_TEXT, SEC_RODATA, SEC_DATA, SEC_RELA_TEXT, SEC_BSS},
           NEW n \in Sizes,
           bytes'[s] = Append(bytes[s], [of |-> pass, len |-> n]),
           \A t \in Sec : t # s => bytes'[t] = bytes[t] /\ secs'[t] = secs[t]
    PROVE  ContentInv'
<1>1. /\ bytes'[SEC_SHSTRTAB] = bytes[SEC_SHSTRTAB] /\ bytes'[SEC_STRTAB] = bytes[SEC_STRTAB]
      /\ secs'[SEC_SHSTRTAB] = secs[SEC_SHSTRTAB] /\ secs'[SEC_STRTAB] = secs[SEC_STRTAB]
      /\ s \in Sec
  BY SectionNumbers
<1>2. NamesKept'
  BY <1>1, NamesStay DEF ContentInv, ObjectInv, ControlType
<1>3. OfPass'
  <2> SUFFICES ASSUME NEW t \in Dropped, NEW i \in 1..Len(bytes'[t])
               PROVE  bytes'[t][i].of = pass
    BY DEF OfPass
  <2>0. t \in Sec
    BY SectionNumbers
  <2>1. \A j \in 1..Len(bytes[t]) : bytes[t][j].of = pass
    BY DEF ContentInv, OfPass
  <2>2. CASE t # s
    BY <2>0, <2>1, <2>2
  <2>3. CASE t = s
    <3>1. bytes[s] \in Seq(Chunk)
      BY <1>1 DEF ContentInv, Content
    <3>2. i \in 1..Len(bytes[s]) \/ i = Len(bytes[s]) + 1
      BY <2>3, <3>1
    <3>3. CASE i \in 1..Len(bytes[s])
      <4>1. bytes'[s][i] = bytes[s][i]  BY <3>1, <3>3
      <4> QED  BY <2>1, <2>3, <3>3, <4>1
    <3>4. CASE i = Len(bytes[s]) + 1
      <4>1. bytes'[s][i] = [of |-> pass, len |-> n]  BY <3>1, <3>4
      <4> QED  BY <2>3, <4>1
    <3> QED  BY <3>2, <3>3, <3>4
  <2> QED  BY <2>2, <2>3
<1>4. NamesCounted'
  <2>1. SymbolNames' = SymbolNames  BY DEF SymbolNames
  <2> QED  BY <1>1, <2>1 DEF ContentInv, NamesCounted
<1>5. NoFileYet' /\ NamesFound'
  BY NoCleanup DEF ContentInv, NoFileYet
<1> QED  BY <1>2, <1>3, <1>4, <1>5 DEF ContentInv

(* Code and relocations.                                                   *)
LEMMA EmitContent ==
    ASSUME ContentInv, NEW s \in Sec, NEW n \in Blobs, Emit(s, n) PROVE ContentInv'
<1>0. ObjectInv /\ Content /\ pass \in Nat
  BY DEF ContentInv, ObjectInv, ControlType
<1>1. ObjectInv'
  BY <1>0, EmitInv
<1>2. /\ s \in {SEC_TEXT, SEC_RELA_TEXT} /\ phase \in {"compile", "utest"} /\ n \in Sizes
  BY SizesAssumption DEF Emit
<1>3. CASE section_memcpy(s, pass, n) /\ UNCHANGED <<phase, pass, names, out, file>>
  <2>1. s \in Sec \ {SEC_BSS}
    BY <1>2, SectionNumbers
  <2>2. /\ Content' /\ bytes'[s] = Append(bytes[s], [of |-> pass, len |-> n])
        /\ \A t \in Sec : t # s => bytes'[t] = bytes[t] /\ secs'[t] = secs[t]
    BY <1>0, <1>2, <1>3, <2>1, MemcpyContent
  <2>3. s \in {SEC_TEXT, SEC_RODATA, SEC_DATA, SEC_RELA_TEXT, SEC_BSS}
    BY <1>2
  <2> QED  BY <1>1, <1>2, <1>3, <2>2, <2>3, AppendContent
<1>4. CASE Undefined
  BY <1>2, <1>4, UndefinedContent
<1> QED  BY <1>3, <1>4 DEF Emit, AllocationFails

(* The sections of the unit test.                                          *)
LEMMA MmapContent ==
    ASSUME ContentInv, NEW s \in Sec, NEW n \in Blobs, section_mmap(s, n) PROVE ContentInv'
<1>0. ObjectInv /\ Content /\ pass \in Nat
  BY DEF ContentInv, ObjectInv, ControlType
<1>1. ObjectInv'
  BY <1>0, MmapInv
<1>2. /\ s \in {SEC_TEXT, SEC_RODATA, SEC_DATA} /\ phase = "utest" /\ n \in Sizes
      /\ section_memcpy(s, pass, n) /\ UNCHANGED <<phase, pass, names, out, file>>
  BY SizesAssumption DEF section_mmap
<1>3. s \in Sec \ {SEC_BSS}
  BY <1>2 DEF SEC_BSS, SEC_TEXT, SEC_RODATA, SEC_DATA
<1>4. /\ Content' /\ bytes'[s] = Append(bytes[s], [of |-> pass, len |-> n])
      /\ \A t \in Sec : t # s => bytes'[t] = bytes[t] /\ secs'[t] = secs[t]
  BY <1>0, <1>2, <1>3, MemcpyContent
<1>5. s \in {SEC_TEXT, SEC_RODATA, SEC_DATA, SEC_RELA_TEXT, SEC_BSS}
  BY <1>2
<1> QED  BY <1>1, <1>2, <1>4, <1>5, AppendContent

(* Space in .bss.                                                          *)
LEMMA ReserveContent ==
    ASSUME ContentInv, NEW n \in Blobs, Reserve(n) PROVE ContentInv'
<1>0. ObjectInv /\ Content /\ pass \in Nat /\ n \in Sizes
      /\ secs \in [Sec -> [size : Nat, allocated : Nat, data : live \union {NULL}]]
  BY SizesAssumption DEF ContentInv, ObjectInv, ControlType, HeapInv, HeapType
<1>1. ObjectInv'
  BY <1>0, ReserveInv
<1> DEFINE c == [of |-> pass, len |-> n]
<1>2. /\ phase \in {"compile", "utest"} /\ UNCHANGED <<phase, pass, names, out, file>>
      /\ secs' = [secs EXCEPT ![SEC_BSS].size = @ + n]
      /\ bytes' = [bytes EXCEPT ![SEC_BSS] = Append(@, c)]
  BY DEF Reserve
<1>3. bytes[SEC_BSS] \in Seq(Chunk) /\ c \in Chunk /\ SEC_BSS \in Sec
  BY <1>0, SectionNumbers DEF Content, Chunk
<1>4. /\ bytes'[SEC_BSS] = Append(bytes[SEC_BSS], c)
      /\ \A t \in Sec : t # SEC_BSS => bytes'[t] = bytes[t]
      /\ bytes' \in [Sec -> Seq(Chunk)]
  BY <1>0, <1>2, <1>3 DEF Content
<1>5. /\ secs'[SEC_BSS].size = secs[SEC_BSS].size + n
      /\ \A t \in Sec : t # SEC_BSS => secs'[t] = secs[t]
  BY <1>0, <1>2, <1>3
<1>6. secs'[SEC_BSS].size = Place(bytes'[SEC_BSS], Len(bytes'[SEC_BSS]) + 1)
  <2>1. /\ Len(bytes'[SEC_BSS]) + 1 = Len(bytes[SEC_BSS]) + 2
        /\ Place(bytes'[SEC_BSS], Len(bytes[SEC_BSS]) + 2)
           = Place(bytes[SEC_BSS], Len(bytes[SEC_BSS]) + 1) + n
    <3>1. /\ Len(bytes'[SEC_BSS]) = Len(bytes[SEC_BSS]) + 1 /\ Len(bytes[SEC_BSS]) \in Nat
          /\ Place(bytes'[SEC_BSS], Len(bytes[SEC_BSS]) + 2)
             = Place(bytes[SEC_BSS], Len(bytes[SEC_BSS]) + 1) + n
      BY <1>3, <1>4, PlaceAppend
    <3> QED  BY <3>1
  <2> QED  BY <1>0, <1>3, <1>5, <2>1 DEF Content
<1>7. Content'
  <2>1. \A t \in Sec : secs'[t].size = Place(bytes'[t], Len(bytes'[t]) + 1)
    BY <1>0, <1>4, <1>5, <1>6 DEF Content
  <2>2. \A t \in Sec \ {SEC_BSS} :
            secs'[t].allocated = 0 \/ secs'[t].allocated >= SEG_ALLOC_INIT
    BY <1>0, <1>5 DEF Content
  <2> QED  BY <1>4, <2>1, <2>2 DEF Content
<1> QED  BY <1>0, <1>1, <1>2, <1>4, <1>5, <1>7, AppendContent

(* The sections dropped between the passes.                                *)
LEMMA SecondPassContent ==
    ASSUME ContentInv, SecondPass PROVE ContentInv'
<1>0. /\ phase = "compile" /\ phase' = phase /\ names' = names /\ out' = out /\ file' = file
      /\ section_free(Dropped) /\ Dropped \in SUBSET Sec /\ ObjectInv /\ Content
  BY SectionNumbers DEF SecondPass, ContentInv
<1>1. ObjectInv'
  BY <1>0, SecondPassInv
<1>2. /\ Content' /\ \A s \in Dropped : bytes'[s] = <<>>
      /\ \A s \in Sec \ Dropped : bytes'[s] = bytes[s] /\ secs'[s] = secs[s]
  BY <1>0, FreedContent
<1>3. /\ bytes'[SEC_SHSTRTAB] = bytes[SEC_SHSTRTAB] /\ bytes'[SEC_STRTAB] = bytes[SEC_STRTAB]
      /\ secs'[SEC_SHSTRTAB] = secs[SEC_SHSTRTAB] /\ secs'[SEC_STRTAB] = secs[SEC_STRTAB]
  BY <1>2, SectionNumbers
<1>4. NamesKept'
  BY <1>0, <1>3, NamesStay DEF ContentInv, ObjectInv, ControlType
<1>5. OfPass'
  BY <1>0, <1>2 DEF OfPass
<1>6. NamesCounted'
  <2>1. SymbolNames' = SymbolNames  BY <1>0 DEF SymbolNames
  <2> QED  BY <1>0, <2>1 DEF ContentInv, NamesCounted
<1>7. NoFileYet' /\ NamesFound'
  BY <1>0, NoCleanup DEF ContentInv, NoFileYet
<1> QED  BY <1>1, <1>2, <1>4, <1>5, <1>6, <1>7 DEF ContentInv

(* The end of compile_tree, well or badly.                                 *)
LEMMA EndContent ==
    ASSUME ContentInv, compile_tree \/ CompileFails PROVE ContentInv'
<1>0. /\ phase \in {"compile", "utest"} /\ phase' \in {"create", "cleanup"}
      /\ UNCHANGED <<pass, heap, names, out, file>> /\ ObjectInv
  BY DEF compile_tree, CompileFails, ContentInv
<1>1. ObjectInv'
  BY <1>0, EndInv
<1>2. Content'
  BY <1>0, ContentSame DEF ContentInv
<1>3. secs' = secs /\ bytes' = bytes /\ names' = names
  BY <1>0 DEF heap
<1>4. NamesKept'
  BY <1>0, <1>3, NamesStay DEF ContentInv, ObjectInv, ControlType
<1>5. OfPass'
  BY <1>0, <1>3 DEF ContentInv, OfPass
<1>6. NamesCounted'
  <2>1. SymbolNames' = SymbolNames  BY <1>0 DEF SymbolNames
  <2> QED  BY <1>0, <2>1 DEF ContentInv, NamesCounted
<1>7. file' = NoFile
  BY <1>0 DEF ContentInv, NoFileYet
<1>8. NoFileYet' /\ NamesFound'
  BY <1>7 DEF NoFileYet, NamesFound, SectionsNamed, SymbolsNamed
<1> QED  BY <1>1, <1>2, <1>4, <1>5, <1>6, <1>8 DEF ContentInv

(* create_elf64: the names of the file are those of the kept pointers.     *)
LEMMA CreateContent ==
    ASSUME ContentInv, create_elf64 PROVE ContentInv'
<1>0. phase = "create" /\ ObjectInv /\ Content /\ NamesKept /\ NamesCounted
  BY DEF create_elf64, ContentInv
<1>1. CASE file' = Image /\ phase' = "cleanup" /\ UNCHANGED <<pass, heap, names, out>>
  <2>1. ObjectInv'
    BY <1>0, CreateInv
  <2>2. Content'
    BY <1>0, <1>1, ContentSame
  <2>3. secs' = secs /\ bytes' = bytes /\ names' = names /\ SymbolNames' = SymbolNames
    BY <1>1 DEF heap, SymbolNames
  <2>4. NamesKept'
    BY <1>0, <2>3, NamesStay DEF ObjectInv, ControlType
  <2>5. OfPass' /\ NamesCounted' /\ NoFileYet'
    BY <1>1 DEF OfPass, NamesCounted, NoFileYet
  <2>6. Len(names) = SEC_NUM + Len(SymbolNames) /\ Len(SymbolNames) \in Nat
    BY <1>0, SizesAssumption DEF NamesCounted, SymbolNames, ObjectInv, ControlType
  <2>7. ASSUME ShortNames, NEW i \in 1..SEC_NUM
        PROVE  Named(file.sec_names[i], SEC_SHSTRTAB, i)'
    <3>1. i \in 1..Len(names) /\ NameSec(i) = SEC_SHSTRTAB /\ NameChunk(i) = i
      BY <2>6 DEF NameSec, NameChunk, SEC_NUM
    <3>2. NameAt(names[i], i, bytes[SEC_SHSTRTAB], secs[SEC_SHSTRTAB])
      BY <1>0, <3>1 DEF NamesKept
    <3>3. Distance(names[i], SEC_SHSTRTAB) = names[i].at
      BY <2>7, <3>2 DEF NameAt, ShortNames, Distance
    <3>4. file'.sec_names[i] = names[i].at
      BY <1>1, <3>3 DEF Image
    <3>5. /\ bytes[SEC_SHSTRTAB][i].of = i
          /\ names[i].at = Place(bytes[SEC_SHSTRTAB], i)
      BY <3>1, <3>2 DEF NameAt
    <3>6. Start(SEC_SHSTRTAB, i)' = Place(bytes'[SEC_SHSTRTAB], i)
      BY DEF Start, Place
    <3>7. SEC_SHSTRTAB # SEC_STRTAB
      BY SectionNumbers
    <3> QED  BY <2>3, <3>4, <3>5, <3>6, <3>7 DEF Named
  <2>8. ASSUME ShortNames, NEW i \in 2..Len(SymbolNames)
        PROVE  Named(file.sym_names[i], SEC_STRTAB, i)'
    <3> DEFINE j == SEC_NUM + i
    <3>1. j \in 1..Len(names) /\ NameSec(j) = SEC_STRTAB /\ NameChunk(j) = i
      BY <2>6 DEF NameSec, NameChunk, SEC_NUM
    <3>2. NameAt(names[j], j, bytes[SEC_STRTAB], secs[SEC_STRTAB])
      BY <1>0, <3>1 DEF NamesKept
    <3>3. Distance(names[j], SEC_STRTAB) = names[j].at
      BY <2>8, <3>2 DEF NameAt, ShortNames, Distance
    <3>4. file'.sym_names[i] = names[j].at
      BY <1>1, <3>3 DEF Image
    <3>5. /\ bytes[SEC_STRTAB][i].of = j
          /\ names[j].at = Place(bytes[SEC_STRTAB], i)
      BY <3>1, <3>2 DEF NameAt
    <3>6. Start(SEC_STRTAB, i)' = Place(bytes'[SEC_STRTAB], i)
      BY DEF Start, Place
    <3> QED  BY <2>3, <3>4, <3>5, <3>6 DEF Named
  <2>9. (ShortNames => NamesFound)'
    BY <2>3, <2>7, <2>8 DEF ShortNames, NamesFound, SectionsNamed, SymbolsNamed
  <2> QED  BY <2>1, <2>2, <2>4, <2>5, <2>9 DEF ContentInv
<1>2. CASE Undefined
  BY <1>0, <1>2, UndefinedContent
<1> QED  BY <1>1, <1>2 DEF create_elf64

(* The sections freed at the end of main.                                  *)
LEMMA CleanupContent ==
    ASSUME ContentInv, Cleanup PROVE ContentInv'
<1>0. ObjectInv /\ Content /\ phase' = "done" /\ section_free(Cleaned)
  BY DEF ContentInv, Cleanup
<1>1. ObjectInv'
  BY <1>0, CleanupInv
<1>2. Content'
  BY <1>0, FreedContent DEF Cleaned
<1>3. OfPass' /\ NamesKept' /\ NamesCounted' /\ NoFileYet' /\ NamesFound'
  BY <1>0, NoCleanup DEF OfPass, NamesKept, NamesCounted, NoFileYet
<1> QED  BY <1>1, <1>2, <1>3 DEF ContentInv

(* Every step keeps the invariant.                                         *)
LEMMA ContentStep ==
    ASSUME ContentInv, [Next]_vars PROVE ContentInv'
<1>1. CASE UNCHANGED vars
  <2>1. ObjectInv'
    BY <1>1, StepInv DEF ContentInv
  <2>2. /\ UNCHANGED <<phase, pass, heap, names, out, file>>
        /\ secs' = secs /\ bytes' = bytes
    BY <1>1 DEF vars, heap
  <2>3. Content'
    BY <2>2, ContentSame DEF ContentInv
  <2>4. SymbolNames' = SymbolNames
    BY <2>2 DEF SymbolNames
  <2>5. OfPass' /\ NamesKept' /\ NamesCounted' /\ NoFileYet'
    BY <2>2, <2>4 DEF ContentInv, OfPass, NamesKept, NamesCounted, NoFileYet
  <2>6. \A at, s, i : Named(at, s, i)' <=> Named(at, s, i)
    <3>1. \A s, i : Start(s, i)' = Start(s, i)
      BY <2>2 DEF Start
    <3> QED  BY <2>2, <3>1 DEF Named
  <2>7. (ShortNames => NamesFound)'
    BY <2>2, <2>4, <2>6 DEF ContentInv, ShortNames, NamesFound, SectionsNamed, SymbolsNamed
  <2> QED  BY <2>1, <2>3, <2>5, <2>7 DEF ContentInv
<1>2. CASE fill_sections_names  BY <1>2, SectionNamesContent
<1>3. CASE fill_symbols_info    BY <1>3, SymbolsContent
<1>4. CASE \E n \in Blobs : \E s \in Sec : Emit(s, n) \/ section_mmap(s, n)
  BY <1>4, EmitContent, MmapContent
<1>5. CASE \E n \in Blobs : Reserve(n)  BY <1>5, ReserveContent
<1>6. CASE SecondPass                  BY <1>6, SecondPassContent
<1>7. CASE compile_tree \/ CompileFails  BY <1>7, EndContent
<1>8. CASE create_elf64                BY <1>8, CreateContent
<1>9. CASE Cleanup                     BY <1>9, CleanupContent
<1> QED  BY <1>1, <1>2, <1>3, <1>4, <1>5, <1>6, <1>7, <1>8, <1>9 DEF Next, Stopped

(* Of every object file, whatever its sizes and however realloc behaves:   *)
(* ContentInv.                                                             *)
THEOREM ContentInvariant == Spec => []ContentInv
BY ContentInit, ContentStep, PTL DEF Spec

(* The code, the relocations and the .bss that create_elf64 puts into the  *)
(* file are what one pass wrote: section_free between the passes of        *)
(* compile_tree leaves nothing of the first.                               *)
THEOREM PassesApart == Spec => []OnePassOnly
<1>1. ASSUME ContentInv PROVE OnePassOnly
  <2> SUFFICES ASSUME phase = "create", NEW s \in Dropped
               PROVE  /\ \A i \in DOMAIN bytes[s] : bytes[s][i].of = pass
                      /\ bytes[s] = <<>> <=> secs[s].size = 0
                      /\ bytes[s] # <<>> =>
                            secs[s].size = Start(s, Len(bytes[s])) + bytes[s][Len(bytes[s])].len
    BY DEF OnePassOnly, Dropped
  <2>1. bytes[s] \in Seq(Chunk) /\ secs[s].size = Place(bytes[s], Len(bytes[s]) + 1)
    BY <1>1, SectionNumbers DEF ContentInv, Content
  <2>2. \A i \in DOMAIN bytes[s] : bytes[s][i].of = pass
    BY <1>1, <2>1 DEF ContentInv, OfPass
  <2>3. Start(s, Len(bytes[s])) = Place(bytes[s], Len(bytes[s]))
    BY DEF Start, Place
  <2> QED  BY <2>1, <2>2, <2>3, PlaceNone
<1> QED  BY <1>1, ContentInvariant, PTL

(* As long as the names of the sections and the symbols fit in the first   *)
(* allocation of .shstrtab and .strtab, each sh_name and st_name that      *)
(* create_elf64 writes is the place of its own name, whatever realloc does *)
(* to the other sections.                                                  *)
THEOREM NamesInPlace == Spec => [](ShortNames => NamesFound)
<1>1. ContentInv => (ShortNames => NamesFound)
  BY DEF ContentInv
<1> QED  BY <1>1, ContentInvariant, PTL
====
