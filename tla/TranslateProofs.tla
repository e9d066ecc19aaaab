-------------------------- MODULE TranslateProofs --------------------------
(***************************************************************************)
(* The three phases as the command runs them, on any ELF object: an        *)
(* inductive invariant of SpecAll, the properties of a loaded dylib        *)
(* whichever phase has written it, and the proof that each phase keeps the *)
(* translator's contract - it refuses only what it cannot translate, and   *)
(* the counts it reports are the ones of the ELF object and of the dylib.  *)
(***************************************************************************)
EXTENDS Phase3Proofs
-----------------------------------------------------------------------------
(* Phase 2: the loads it lays out, the words it patches, what dyld loads of them.*)

\* f[i] is the cursor of _map_loads in front of load i, for the first n loads.
StartIs(n, f) ==
  f = [i \in 1 .. n |-> IF i = 1 THEN PageSize
                        ELSE Align(FileEnd(LaterSegment(elf.loads[i - 1], f[i - 1])))]

\* Such a function exists.
LEMMA StartsExist ==
  ASSUME NEW n \in Nat
  PROVE  \E f : StartIs(n, f)
<1> DEFINE Later(i, at) == Align(FileEnd(LaterSegment(elf.loads[i - 1], at)))
           T == {m \in Nat : ~\E f : StartIs(m, f)}
<1> SUFFICES ASSUME T # {} PROVE FALSE
  BY Zenon
<1>1. PICK m \in T : \A y \in T : m <= y
  <2>1. T \in SUBSET Nat
    BY Zenon
  <2> HIDE DEF T
  <2> QED BY <2>1, LeastExists, Zenon
<1>2. m \in Nat /\ ~\E f : StartIs(m, f)
  BY Zenon
<1>3. m # 0
  <2>1. StartIs(0, [i \in 1 .. 0 |-> 0])
    BY DEF StartIs
  <2> QED BY <2>1, <1>2
<1>4. m - 1 \in Nat /\ m - 1 \notin T
  BY <1>1, <1>2, <1>3
<1>5. PICK g : StartIs(m - 1, g)
  BY <1>4
<1>is. \A f, l : StartIs(l, f) <=> f = [i \in 1 .. l |->
                                 IF i = 1 THEN PageSize ELSE Later(i, f[i - 1])]
  BY Zenon DEF StartIs
<1> HIDE DEF Later
<1> DEFINE f == [i \in 1 .. m |-> IF i = 1 THEN PageSize ELSE Later(i, g[i - 1])]
<1>6. \A i \in 1 .. m - 1 : g[i] = IF i = 1 THEN PageSize ELSE Later(i, g[i - 1])
  BY <1>5, <1>4, <1>is
<1>7. \A i \in 1 .. m : i # 1 => f[i - 1] = g[i - 1]
  <2> TAKE i \in 1 .. m
  <2> HAVE i # 1
  <2>1. i - 1 \in 1 .. m - 1 /\ i - 1 \in 1 .. m
    BY <1>2
  <2>2. f[i - 1] = IF i - 1 = 1 THEN PageSize ELSE Later(i - 1, g[(i - 1) - 1])
    BY <2>1
  <2> HIDE DEF f
  <2> QED BY <1>6, <2>1, <2>2
<1>8. f = [i \in 1 .. m |-> IF i = 1 THEN PageSize ELSE Later(i, f[i - 1])]
  <2> DEFINE h == [i \in 1 .. m |-> IF i = 1 THEN PageSize ELSE Later(i, f[i - 1])]
  <2>1. \A i \in 1 .. m : f[i] = h[i]
    <3> TAKE i \in 1 .. m
    <3>1. f[i] = IF i = 1 THEN PageSize ELSE Later(i, g[i - 1])
      OBVIOUS
    <3>2. h[i] = IF i = 1 THEN PageSize ELSE Later(i, f[i - 1])
      OBVIOUS
    <3> HIDE DEF f, h
    <3> QED BY <3>1, <3>2, <1>7, Zenon
  <2>2. f = [i \in 1 .. m |-> f[i]] /\ h = [i \in 1 .. m |-> h[i]]
    OBVIOUS
  <2> HIDE DEF f
  <2>3. QED BY <2>1, <2>2, Zenon
<1>9. StartIs(m, f)
  <2> HIDE DEF f
  <2> QED BY <1>8, <1>is
<1> HIDE DEF f
<1> QED BY <1>2, <1>9, Zenon

\* The cursor of _map_loads, load by load.
LEMMA FileStarts ==
  ASSUME TypeOK
  PROVE  /\ DOMAIN elf.loads = 1 .. Len(elf.loads) /\ Len(elf.loads) \in Nat
         /\ \A i \in 1 .. Len(elf.loads) :
              FileStart[i] = IF i = 1 THEN PageSize
                             ELSE Align(FileEnd(LaterSegment(elf.loads[i - 1], FileStart[i - 1])))
<1>1. DOMAIN elf.loads = 1 .. Len(elf.loads) /\ Len(elf.loads) \in Nat
  <2>1. elf.loads \in Seq(LoadHeader)
    BY DEF TypeOK, WellFormed, Elf
  <2> QED BY <2>1
<1>2. StartIs(Len(elf.loads), FileStart)
  <2>1. \E f : f = [i \in DOMAIN elf.loads |->
                      IF i = 1 THEN PageSize
                      ELSE Align(FileEnd(LaterSegment(elf.loads[i - 1], f[i - 1])))]
    <3>1. \E f : StartIs(Len(elf.loads), f)
      BY <1>1, StartsExist
    <3> QED BY <1>1, <3>1, Zenon DEF StartIs
  <2>2. FileStart = [i \in DOMAIN elf.loads |->
                      IF i = 1 THEN PageSize
                      ELSE Align(FileEnd(LaterSegment(elf.loads[i - 1], FileStart[i - 1])))]
    BY <2>1, Zenon DEF FileStart
  <2> QED BY <1>1, <2>2, Zenon DEF StartIs
<1> DEFINE later(i) == Align(FileEnd(LaterSegment(elf.loads[i - 1], FileStart[i - 1])))
<1>3. FileStart = [i \in 1 .. Len(elf.loads) |-> IF i = 1 THEN PageSize ELSE later(i)]
  BY <1>2, Zenon DEF StartIs
<1> HIDE DEF later
<1>4. \A i \in 1 .. Len(elf.loads) : FileStart[i] = IF i = 1 THEN PageSize ELSE later(i)
  BY <1>3
<1> QED BY <1>1, <1>4, Zenon DEF later

\* Where _map_loads has put load i.
Laid(i) == LaterSegment(elf.loads[i], FileStart[i])

\* The cursor is always at the front of a page behind the header page.
LEMMA StartsTyped ==
  ASSUME TypeOK, NEW i \in DOMAIN elf.loads
  PROVE  FileStart[i] \in Nat /\ FileStart[i] % PageSize = 0 /\ FileStart[i] >= PageSize
<1> DEFINE Fine(j) == /\ FileStart[j] \in Nat /\ FileStart[j] % PageSize = 0
                      /\ FileStart[j] >= PageSize
           T == {j \in DOMAIN elf.loads : ~Fine(j)}
<1>1. DOMAIN elf.loads = 1 .. Len(elf.loads) /\ Len(elf.loads) \in Nat
  BY FileStarts
<1>p. PageSize \in Nat \ {0} /\ PageSize % PageSize = 0
  <2>1. (1 * PageSize) % PageSize = 0
    BY MultipleAligned
  <2> QED BY <2>1, LayoutAssumption
<1>2. T = {}
  <2> SUFFICES ASSUME T # {} PROVE FALSE
    OBVIOUS
  <2>1. T \in SUBSET Nat
    BY <1>1
  <2>2. PICK m \in T : \A y \in T : m <= y
    <3> HIDE DEF T
    <3> QED BY <2>1, LeastExists, Zenon
  <2>3. m \in 1 .. Len(elf.loads) /\ ~Fine(m)
    BY <1>1
  <2>4. CASE m = 1
    <3>1. FileStart[m] = PageSize
      BY <2>3, <2>4, FileStarts
    <3> QED BY <2>3, <3>1, <1>p
  <2>5. CASE m # 1
    <3>1. m - 1 \in DOMAIN elf.loads /\ m - 1 \notin T
      BY <1>1, <2>2, <2>3, <2>5
    <3>2. Fine(m - 1)
      BY <3>1
    <3> DEFINE s == Laid(m - 1)
    <3>3. /\ elf.loads[m - 1].vaddr \in Nat /\ elf.loads[m - 1].offset \in Nat
          /\ elf.loads[m - 1].filesz \in Nat /\ elf.loads[m - 1].memsz \in Nat
          /\ elf.loads[m - 1].flags \in 0 .. 7
      BY <3>1, LoadFacts
    <3>4. s \in Segment /\ s.fileoff = FileStart[m - 1]
      BY <3>2, <3>3, LaterPlaced DEF Laid
    <3> HIDE DEF s
    <3>5. FileEnd(s) \in Nat /\ FileEnd(s) >= FileStart[m - 1]
      BY <3>2, <3>4 DEF FileEnd, Segment
    <3>6. FileStart[m] = Align(FileEnd(s))
      BY <2>3, <2>5, FileStarts DEF s, Laid
    <3>7. Align(FileEnd(s)) \in Int /\ FileEnd(s) <= Align(FileEnd(s)) /\ Align(FileEnd(s)) % PageSize = 0
      BY <3>5, AlignFacts
    <3> QED BY <2>3, <3>2, <3>5, <3>6, <3>7, <1>p
  <2> QED BY <2>4, <2>5
<1> QED BY <1>2

\* _map_loads: every load at its address plus the slide, behind the header page,
\* with the part of its page in front of it.
LEMMA LaidFacts ==
  ASSUME TypeOK, NEW i \in DOMAIN elf.loads
  PROVE  /\ Laid(i) \in Segment
         /\ Laid(i).elf_vaddr = elf.loads[i].vaddr
         /\ Laid(i).elf_filesz = elf.loads[i].filesz
         /\ Laid(i).elf_offset = elf.loads[i].offset
         /\ Laid(i).data_addr = Slide + elf.loads[i].vaddr
         /\ Laid(i).vmaddr = Slide + Floor(elf.loads[i].vaddr)
         /\ Laid(i).vmaddr <= Laid(i).data_addr
         /\ PageSize <= Laid(i).fileoff /\ Laid(i).fileoff = FileStart[i]
         /\ Laid(i).fileoff <= Laid(i).data_fileoff
         /\ Laid(i).data_fileoff + elf.loads[i].filesz = FileEnd(Laid(i))
         /\ Laid(i).data_addr - Laid(i).vmaddr = Laid(i).data_fileoff - Laid(i).fileoff
         /\ Laid(i).vmaddr + Laid(i).vmsize
              = Slide + Align(elf.loads[i].vaddr + elf.loads[i].memsz)
         /\ FileEnd(Laid(i)) \in Nat
<1>1. FileStart[i] \in Nat /\ FileStart[i] % PageSize = 0 /\ FileStart[i] >= PageSize
  BY StartsTyped
<1>2. /\ elf.loads[i].vaddr \in Nat /\ elf.loads[i].offset \in Nat
      /\ elf.loads[i].filesz \in Nat /\ elf.loads[i].memsz \in Nat
      /\ elf.loads[i].flags \in 0 .. 7
  BY LoadFacts
<1> DEFINE s == Laid(i) 
<1>3. /\ s \in Segment
      /\ s.vmaddr = Slide + Floor(elf.loads[i].vaddr) /\ s.vmaddr <= s.data_addr
      /\ s.fileoff = FileStart[i] /\ s.fileoff <= s.data_fileoff
      /\ s.data_addr - s.vmaddr = s.data_fileoff - s.fileoff
      /\ s.data_fileoff + elf.loads[i].filesz = FileEnd(s)
      /\ s.vmaddr + s.vmsize = Slide + Align(elf.loads[i].vaddr + elf.loads[i].memsz)
      /\ s.elf_vaddr = elf.loads[i].vaddr /\ s.elf_offset = elf.loads[i].offset
      /\ s.elf_filesz = elf.loads[i].filesz /\ s.data_addr = Slide + elf.loads[i].vaddr
  BY <1>1, <1>2, LaterPlaced DEF Laid
<1> HIDE DEF s
<1>4. FileEnd(s) \in Nat
  BY <1>3 DEF FileEnd, Segment
<1>5. PageSize <= s.fileoff
  BY <1>1, <1>3, LayoutAssumption
<1> QED BY <1>3, <1>4, <1>5 DEF s

\* The loads follow each other in the file.
LEMMA LaidApart ==
  ASSUME TypeOK, NEW i \in DOMAIN elf.loads, NEW j \in DOMAIN elf.loads, i < j
  PROVE  FileEnd(Laid(i)) <= Laid(j).fileoff
<1> DEFINE T == {n \in DOMAIN elf.loads : i < n /\ ~(FileEnd(Laid(i)) <= FileStart[n])}
<1>1. DOMAIN elf.loads = 1 .. Len(elf.loads) /\ Len(elf.loads) \in Nat
  BY FileStarts
<1>2. T = {}
  <2> SUFFICES ASSUME T # {} PROVE FALSE
    OBVIOUS
  <2>1. T \in SUBSET Nat
    BY <1>1
  <2>2. PICK m \in T : \A y \in T : m <= y
    <3> HIDE DEF T
    <3> QED BY <2>1, LeastExists, Zenon
  <2>3. m \in 1 .. Len(elf.loads) /\ i < m /\ ~(FileEnd(Laid(i)) <= FileStart[m]) /\ i \in Nat /\ i # 0
    BY <1>1
  <2>4. m - 1 \in DOMAIN elf.loads /\ m - 1 \notin T /\ m # 1
    BY <1>1, <2>2, <2>3
  <2>5. FileStart[m] = Align(FileEnd(Laid(m - 1)))
    BY <2>3, <2>4, FileStarts DEF Laid
  <2>6. FileEnd(Laid(m - 1)) \in Nat /\ FileEnd(Laid(i)) \in Nat
    BY <2>4, LaidFacts
  <2>7. FileEnd(Laid(m - 1)) <= FileStart[m] /\ FileStart[m] \in Int
    BY <2>5, <2>6, AlignFacts
  <2>8. CASE m - 1 = i
    BY <2>3, <2>7, <2>8
  <2>9. CASE m - 1 # i
    <3>1. FileEnd(Laid(i)) <= FileStart[m - 1]
      BY <1>1, <2>3, <2>4, <2>9
    <3>2. /\ Laid(m - 1) \in Segment /\ Laid(m - 1).fileoff = FileStart[m - 1]
      BY <2>4, LaidFacts
    <3>3. FileStart[m - 1] <= FileEnd(Laid(m - 1)) /\ FileStart[m - 1] \in Nat
      BY <3>2 DEF FileEnd, Segment
    <3> QED BY <2>3, <2>6, <2>7, <3>1, <3>3
  <2> QED BY <2>8, <2>9
<1>3. Laid(j).fileoff = FileStart[j]
  BY LaidFacts
<1> QED BY <1>2, <1>3

\* self.loads holds them all.
LEMMA MapLoadsIs ==
  ASSUME TypeOK
  PROVE  /\ DOMAIN MapLoads = DOMAIN elf.loads /\ DOMAIN elf.loads = 1 .. Len(elf.loads)
         /\ Len(elf.loads) \in Nat /\ Len(MapLoads) = Len(elf.loads)
         /\ MapLoads \in Seq(Segment)
         /\ \A i \in DOMAIN elf.loads : MapLoads[i] = Laid(i)
<1>1. DOMAIN elf.loads = 1 .. Len(elf.loads) /\ Len(elf.loads) \in Nat
  BY FileStarts
<1>2. MapLoads = [i \in 1 .. Len(elf.loads) |-> Laid(i)]
  BY <1>1, Zenon DEF MapLoads, Laid
<1>3. \A i \in 1 .. Len(elf.loads) : Laid(i) \in Segment
  BY <1>1, LaidFacts
<1>4. MapLoads \in Seq(Segment) /\ Len(MapLoads) = Len(elf.loads)
  BY <1>1, <1>2, <1>3
<1> QED BY <1>1, <1>2, <1>4

\* The image has room for every load.
LEMMA ImageEnd2 ==
  ASSUME TypeOK, elf.loads # <<>>
  PROVE  /\ DataEnd2(MapLoads) \in Nat
         /\ \A i \in DOMAIN elf.loads : FileEnd(Laid(i)) <= DataEnd2(MapLoads)
<1> DEFINE n == Len(elf.loads)
           S == {Align(FileEnd(Laid(i))) : i \in DOMAIN elf.loads}
           m == Align(FileEnd(Laid(n)))
<1>1. n \in DOMAIN elf.loads /\ n \in Nat /\ DOMAIN elf.loads = 1 .. n
  <2>1. elf.loads \in Seq(LoadHeader)
    BY DEF TypeOK, WellFormed, Elf
  <2> QED BY <2>1
<1>2. DataEnd2(MapLoads) = Max(S)
  BY MapLoadsIs DEF DataEnd2
<1> HIDE DEF n
<1>3. \A i \in DOMAIN elf.loads : FileEnd(Laid(i)) \in Nat
  BY LaidFacts
<1>4. m \in Int /\ m % PageSize = 0 /\ FileEnd(Laid(n)) <= m
  BY <1>1, <1>3, AlignFacts
<1> HIDE DEF m
<1>5. ASSUME NEW i \in DOMAIN elf.loads PROVE FileEnd(Laid(i)) <= m
  <2>1. CASE i = n
    BY <1>4, <2>1
  <2>2. CASE i < n
    <3>1. FileEnd(Laid(i)) <= Laid(n).fileoff
      BY <1>1, <2>2, LaidApart
    <3>2. Laid(n) \in Segment
      BY <1>1, LaidFacts
    <3>3. Laid(n).fileoff <= FileEnd(Laid(n)) /\ Laid(n).fileoff \in Nat
      BY <3>2 DEF FileEnd, Segment
    <3> QED BY <1>1, <1>3, <1>4, <3>1, <3>3
  <2> QED BY <1>1, <2>1, <2>2
<1>6. ASSUME NEW i \in DOMAIN elf.loads PROVE Align(FileEnd(Laid(i))) <= m
  BY <1>3, <1>4, <1>5, AlignLeast
<1>7. S \in SUBSET Int
  BY <1>3, AlignFacts
<1>8. m \in S /\ \A x \in S : x <= m
  BY <1>1, <1>6 DEF m
<1> HIDE DEF S
<1>9. Max(S) = m
  BY <1>7, <1>8, MaxIs
<1> QED BY <1>1, <1>2, <1>3, <1>4, <1>5, <1>9

\* A word of the output belongs to one load at most.
LEMMA LaidOwner ==
  ASSUME TypeOK, NEW i \in DOMAIN elf.loads, NEW j \in DOMAIN elf.loads, NEW o \in Int,
         o - Laid(i).data_fileoff \in 0 .. elf.loads[i].filesz - 1,
         o - Laid(j).data_fileoff \in 0 .. elf.loads[j].filesz - 1
  PROVE  i = j
<1>1. ASSUME NEW a \in DOMAIN elf.loads, NEW b \in DOMAIN elf.loads, a < b,
             o - Laid(a).data_fileoff \in 0 .. elf.loads[a].filesz - 1,
             o - Laid(b).data_fileoff \in 0 .. elf.loads[b].filesz - 1
      PROVE  FALSE
  <2>1. FileEnd(Laid(a)) <= Laid(b).fileoff
    BY <1>1, LaidApart
  <2>2. /\ Laid(a).data_fileoff + elf.loads[a].filesz = FileEnd(Laid(a))
        /\ Laid(b).fileoff <= Laid(b).data_fileoff
        /\ Laid(a) \in Segment /\ Laid(b) \in Segment
    BY LaidFacts
  <2>3. elf.loads[a].filesz \in Nat /\ elf.loads[b].filesz \in Nat
    BY LoadFacts
  <2>4. Laid(a).data_fileoff \in Nat /\ Laid(b).data_fileoff \in Nat /\ Laid(b).fileoff \in Nat
    BY <2>2 DEF Segment
  <2> QED BY <1>1, <2>1, <2>2, <2>3, <2>4
<1>2. i \in Int /\ j \in Int
  BY MapLoadsIs
<1> QED BY <1>1, <1>2

\* The loop that copies: what is at the place of a load's word, and nothing
\* where no load has one.
LEMMA Copied2Is ==
  ASSUME TypeOK, NEW o \in Int
  PROVE  /\ \A i \in DOMAIN elf.loads :
              o - Laid(i).data_fileoff \in 0 .. elf.loads[i].filesz - 1 =>
                CopiedWord2(MapLoads, o)
                  = elf.data[elf.loads[i].offset + (o - Laid(i).data_fileoff) + 1]
         /\ (\A i \in DOMAIN elf.loads :
               o - Laid(i).data_fileoff \notin 0 .. elf.loads[i].filesz - 1) =>
              CopiedWord2(MapLoads, o) = 0
<1> DEFINE owners == {i \in DOMAIN elf.loads :
                        o - Laid(i).data_fileoff \in 0 .. elf.loads[i].filesz - 1}
<1>1. CopiedWord2(MapLoads, o)
        = IF owners = {} THEN 0
          ELSE elf.data[MapLoads[Max(owners)].elf_offset
                        + (o - MapLoads[Max(owners)].data_fileoff) + 1]
  <2>1. owners = {i \in DOMAIN MapLoads :
                    o - MapLoads[i].data_fileoff \in 0 .. MapLoads[i].elf_filesz - 1}
    <3>1. \A i \in DOMAIN elf.loads : /\ MapLoads[i] = Laid(i)
                                      /\ Laid(i).elf_filesz = elf.loads[i].filesz
      BY MapLoadsIs, LaidFacts
    <3>2. DOMAIN MapLoads = DOMAIN elf.loads
      BY MapLoadsIs
    <3> QED BY <3>1, <3>2
  <2> HIDE DEF owners
  <2> QED BY <2>1, Zenon DEF CopiedWord2
<1>2. ASSUME NEW i \in DOMAIN elf.loads,
             o - Laid(i).data_fileoff \in 0 .. elf.loads[i].filesz - 1
      PROVE  CopiedWord2(MapLoads, o)
               = elf.data[elf.loads[i].offset + (o - Laid(i).data_fileoff) + 1]
  <2>1. i \in owners /\ \A h \in owners : h = i
    BY <1>2, LaidOwner
  <2>2. i \in Int
    BY MapLoadsIs
  <2> HIDE DEF owners
  <2>3. owners \in SUBSET Int /\ \A h \in owners : h <= i
    BY <2>1, <2>2
  <2>4. Max(owners) = i
    BY <2>1, <2>3, MaxIs
  <2>5. MapLoads[i] = Laid(i) /\ Laid(i).elf_offset = elf.loads[i].offset
    BY MapLoadsIs, LaidFacts
  <2> QED BY <1>1, <2>1, <2>4, <2>5
<1>3. ASSUME \A i \in DOMAIN elf.loads :
               o - Laid(i).data_fileoff \notin 0 .. elf.loads[i].filesz - 1
      PROVE  CopiedWord2(MapLoads, o) = 0
  <2>1. owners = {}
    BY <1>3
  <2> HIDE DEF owners
  <2> QED BY <1>1, <2>1
<1> HIDE DEF owners
<1> QED BY <1>2, <1>3

\* What is copied is a pointer.
LEMMA Copied2Typed ==
  ASSUME TypeOK, NEW o \in Int
  PROVE  CopiedWord2(MapLoads, o) \in 0 .. WordMod - 1
<1>1. CASE \A i \in DOMAIN elf.loads :
             o - Laid(i).data_fileoff \notin 0 .. elf.loads[i].filesz - 1
  BY <1>1, Copied2Is, LayoutAssumption
<1>2. ASSUME NEW i \in DOMAIN elf.loads,
             o - Laid(i).data_fileoff \in 0 .. elf.loads[i].filesz - 1
      PROVE  CopiedWord2(MapLoads, o) \in 0 .. WordMod - 1
  <2> DEFINE W == 0 .. WordMod - 1
             x == elf.loads[i].offset + (o - Laid(i).data_fileoff) + 1
  <2>1. elf.data \in Seq(W)
    BY DEF TypeOK, WellFormed, Elf
  <2>2. CopiedWord2(MapLoads, o) = elf.data[x]
    BY <1>2, Copied2Is
  <2>3. /\ elf.loads[i].offset \in Nat /\ elf.loads[i].filesz \in Nat
        /\ elf.loads[i].offset + elf.loads[i].filesz <= Len(elf.data)
    BY LoadFacts
  <2>4. Len(elf.data) \in Nat
    <3> HIDE DEF W
    <3> QED BY <2>1
  <2>5. x \in 1 .. Len(elf.data)
    <3>1. PICK d : d = o - Laid(i).data_fileoff
      OBVIOUS
    <3>2. d \in 0 .. elf.loads[i].filesz - 1
      BY <1>2, <3>1
    <3>3. elf.loads[i].offset + d + 1 \in 1 .. Len(elf.data)
      BY <2>3, <2>4, <3>2
    <3> QED BY <3>1, <3>3
  <2> HIDE DEF W, x
  <2>6. elf.data[x] \in W
    BY <2>1, <2>5
  <2> QED BY <2>2, <2>6 DEF W
<1> QED BY <1>1, <1>2

-----------------------------------------------------------------------------
(* The relocation loop of Phase 2.                                         *)

\* Relocation j is one that Phase 2 does not refuse.
Relocates(j) ==
  /\ elf.relocs[j].type # "other"
  /\ elf.relocs[j].type # "RELATIVE" => elf.relocs[j].symbol + 1 \in DOMAIN elf.symbols
  /\ LoadsOf(elf, elf.relocs[j]) # {}

\* The load that relocation j is in, and its place in the image.
Home(j) == Min(LoadsOf(elf, elf.relocs[j]))
Out2(j) == Laid(Home(j)).data_fileoff + (elf.relocs[j].offset - elf.loads[Home(j)].vaddr)

\* The words that no relocation so far has patched, and those that one has.
Image2Copied ==
  \A o \in DOMAIN image2 :
    (\A j \in 1 .. k2 - 1 : Internal(j) => Out2(j) # o) => image2[o] = CopiedWord2(MapLoads, o)
Image2Patched ==
  \A j \in 1 .. k2 - 1 : Internal(j) => image2[Out2(j)] = Word(Unslid(j))

\* What the loop has done, exactly.
Loop2Inv ==
  /\ k2 \in Nat \ {0}
  /\ pc2 = "idle" => k2 = 1
  /\ pc2 \in {"relocate", "done"} =>
       /\ elf.supported /\ elf.loads # <<>> /\ loads = MapLoads
       /\ k2 - 1 <= Len(elf.relocs)
       /\ image2 \in [0 .. DataEnd2(MapLoads) - 1 -> 0 .. WordMod - 1]
       /\ \A j \in 1 .. k2 - 1 : Relocates(j)
       /\ Plain => Image2Copied /\ Image2Patched

\* The relocations among the first n that are resolved, and those left to symbol s.
ResolvedIn(n)  == {j \in 1 .. n : Internal(j)}
LeftTo(s, n)   == {j \in 1 .. n : ~Internal(j) /\ elf.symbols[elf.relocs[j].symbol + 1].name = s}

\* The positions of a name on a list.
Naming(u, s) == {i \in DOMAIN u : u[i] = s}

\* The report counts them.
Report2Inv ==
  /\ patched2 \in [{"RELATIVE", "ABS64", "GLOB_DAT", "JUMP_SLOT"} -> Nat]
  /\ unresolved \in Seq(STRING)
  /\ pc2 = "idle" => Sum(patched2) = 0 /\ unresolved = <<>>
  /\ pc2 \in {"relocate", "done"} =>
       /\ Sum(patched2) = Cardinality(ResolvedIn(k2 - 1))
       /\ \A s \in STRING : Cardinality(Naming(unresolved, s)) = Cardinality(LeftTo(s, k2 - 1))

\* The dylib as it was written.
Written2 ==
  pc2 = "done" =>
    /\ k2 - 1 = Len(elf.relocs) /\ HeaderSize2 <= PageSize
    /\ dylib2.file = [o \in DOMAIN image2 |-> IF o < HeaderSize2 THEN -1 ELSE image2[o]]
    /\ dylib2.segments = <<HeaderSegment>> \o loads
    /\ dylib2.rebase = <<[op |-> "done"]>> /\ dylib2.bind = <<[op |-> "done"]>>

\* The end of the memory that dyld maps a dylib to.
Top(d) == dyld!Max({s.vmaddr + s.vmsize : s \in dyld!Range(d.segments)})

\* dyld maps it where it was linked to be and has nothing to fix.
Dyld2Inv ==
  pc2 # "idle" =>
    /\ pc = "construct" /\ step4 = "phase3" /\ ip = 1
    /\ stage \in {"closed", "rebase", "bind", "loaded"}
    /\ stage # "closed" =>
         /\ pc2 = "done" /\ lib = dylib2 /\ base = 0
         /\ mem = [a \in 0 .. Top(lib) - 1 |->
                     dyld!MappedWord(lib, a)]

\* What Phase 2 refuses, it cannot translate.
Refused2 == pc2 = "error" => ~Accepts2(elf)

AllInv ==
  /\ TranslatorInv /\ (pc2 = "idle" => EndToEndInv)
  /\ Loop2Inv /\ Report2Inv /\ Written2 /\ Dyld2Inv /\ Refused2

\* Where relocation j is: in a load, and at its place of the image.
LEMMA HomeFacts ==
  ASSUME TypeOK, NEW j \in DOMAIN elf.relocs, Relocates(j)
  PROVE  /\ j \in Nat /\ elf.relocs[j].offset \in Nat /\ elf.relocs[j].addend \in Int
         /\ Home(j) \in DOMAIN elf.loads /\ InFile(Home(j), elf.relocs[j].offset)
         /\ Home(j) \in LoadsOf(elf, elf.relocs[j])
         /\ \A i \in LoadsOf(elf, elf.relocs[j]) : Home(j) <= i
         /\ Out2(j) \in 0 .. DataEnd2(MapLoads) - 1
         /\ Out2(j) - Laid(Home(j)).data_fileoff = elf.relocs[j].offset - elf.loads[Home(j)].vaddr
         /\ Out2(j) - Laid(Home(j)).data_fileoff \in 0 .. elf.loads[Home(j)].filesz - 1
         /\ elf.relocs[j].type # "RELATIVE" =>
              /\ elf.symbols[elf.relocs[j].symbol + 1].value \in Nat
              /\ elf.symbols[elf.relocs[j].symbol + 1].name \in STRING
              /\ elf.symbols[elf.relocs[j].symbol + 1].defined \in BOOLEAN
         /\ elf.relocs[j].type \in {"RELATIVE", "ABS64", "GLOB_DAT", "JUMP_SLOT"}
<1> DEFINE r == elf.relocs[j]
           S == LoadsOf(elf, r)
           h == Home(j)
<1>1. elf.relocs \in Seq(Relocation) /\ elf.symbols \in Seq(Symbol)
  BY DEF TypeOK, WellFormed, Elf
<1>2. r \in Relocation /\ j \in Nat
  BY <1>1
<1>3. /\ r.offset \in Nat /\ r.addend \in Int /\ r.symbol \in Nat
      /\ r.type \in {"RELATIVE", "ABS64", "GLOB_DAT", "JUMP_SLOT"}
  BY <1>2 DEF Relocation, RelocTypes, Relocates
<1>4. S \in SUBSET Nat /\ S # {} /\ S \subseteq DOMAIN elf.loads
  BY MapLoadsIs DEF LoadsOf, Relocates
<1>5. h \in S /\ \A i \in S : h <= i
  <2>1. \E x \in S : \A y \in S : x <= y
    <3> HIDE DEF S
    <3> QED BY <1>4, LeastExists
  <2> HIDE DEF S
  <2>2. Min(S) \in S /\ \A i \in S : Min(S) <= i
    BY <2>1 DEF Min
  <2> QED BY <2>2 DEF Home, S
<1>6. h \in DOMAIN elf.loads /\ r.offset - elf.loads[h].vaddr \in 0 .. elf.loads[h].filesz - 1
  BY <1>5 DEF LoadsOf
<1> HIDE DEF h
<1>7. /\ elf.loads[h].vaddr \in Nat /\ elf.loads[h].filesz \in Nat
  BY <1>6, LoadFacts
<1>8. InFile(h, r.offset)
  BY <1>3, <1>6, <1>7 DEF InFile
<1>9. /\ Laid(h).data_fileoff + elf.loads[h].filesz = FileEnd(Laid(h))
      /\ Laid(h).data_fileoff \in Nat /\ FileEnd(Laid(h)) \in Nat
  <2>1. Laid(h) \in Segment
    BY <1>6, LaidFacts
  <2>2. Laid(h).data_fileoff \in Nat
    BY <2>1 DEF Segment
  <2> QED BY <1>6, <2>2, LaidFacts
<1>10. FileEnd(Laid(h)) <= DataEnd2(MapLoads) /\ DataEnd2(MapLoads) \in Nat
  <2>1. elf.loads # <<>>
    BY <1>6
  <2> QED BY <1>6, <2>1, ImageEnd2
<1>11. Out2(j) = Laid(h).data_fileoff + (r.offset - elf.loads[h].vaddr)
  BY DEF Out2, h
<1>12. PICK d : d = r.offset - elf.loads[h].vaddr
  OBVIOUS
<1>13. /\ d \in 0 .. elf.loads[h].filesz - 1
       /\ Laid(h).data_fileoff + d \in 0 .. DataEnd2(MapLoads) - 1
       /\ (Laid(h).data_fileoff + d) - Laid(h).data_fileoff = d
  BY <1>6, <1>7, <1>9, <1>10, <1>12
<1>14. /\ Out2(j) \in 0 .. DataEnd2(MapLoads) - 1
       /\ Out2(j) - Laid(h).data_fileoff = r.offset - elf.loads[h].vaddr
       /\ Out2(j) - Laid(h).data_fileoff \in 0 .. elf.loads[h].filesz - 1
  BY <1>11, <1>12, <1>13
<1>15. ASSUME r.type # "RELATIVE"
       PROVE  /\ elf.symbols[r.symbol + 1].value \in Nat
              /\ elf.symbols[r.symbol + 1].name \in STRING
              /\ elf.symbols[r.symbol + 1].defined \in BOOLEAN
  <2>1. r.symbol + 1 \in DOMAIN elf.symbols
    BY <1>15 DEF Relocates
  <2>2. elf.symbols[r.symbol + 1] \in Symbol
    BY <1>1, <2>1
  <2> QED BY <2>2 DEF Symbol
<1> QED BY <1>2, <1>3, <1>5, <1>6, <1>8, <1>14, <1>15 DEF h

\* Two relocations are never at one place of the image.
LEMMA Out2Apart ==
  ASSUME TypeOK, PlacesApart, NEW i \in DOMAIN elf.relocs, NEW j \in DOMAIN elf.relocs,
         Relocates(i), Relocates(j), i # j
  PROVE  Out2(i) # Out2(j)
<1> SUFFICES ASSUME Out2(i) = Out2(j) PROVE FALSE
  OBVIOUS
<1>1. /\ Home(i) \in DOMAIN elf.loads /\ Home(j) \in DOMAIN elf.loads
      /\ Out2(i) - Laid(Home(i)).data_fileoff \in 0 .. elf.loads[Home(i)].filesz - 1
      /\ Out2(j) - Laid(Home(j)).data_fileoff \in 0 .. elf.loads[Home(j)].filesz - 1
      /\ Out2(i) - Laid(Home(i)).data_fileoff = elf.relocs[i].offset - elf.loads[Home(i)].vaddr
      /\ Out2(j) - Laid(Home(j)).data_fileoff = elf.relocs[j].offset - elf.loads[Home(j)].vaddr
      /\ elf.relocs[i].offset \in Nat /\ elf.relocs[j].offset \in Nat
  BY HomeFacts
<1>2. Out2(i) \in Int
  BY ImageEnd2, HomeFacts
<1>3. Home(i) = Home(j)
  BY <1>1, <1>2, LaidOwner
<1>4. elf.loads[Home(i)].vaddr \in Nat
  BY <1>1, LoadFacts
<1>5. elf.relocs[i].offset = elf.relocs[j].offset
  BY <1>1, <1>3, <1>4
<1> QED BY <1>5 DEF PlacesApart

\* The loop looks where the relocation is.
LEMMA Holding2Is ==
  ASSUME TypeOK, Loop2Inv, pc2 = "relocate", k2 <= Len(elf.relocs)
  PROVE  /\ k2 \in DOMAIN elf.relocs /\ k2 \in Nat \ {0} /\ Rel2 = elf.relocs[k2]
         /\ \A j \in 1 .. k2 - 1 : j \in DOMAIN elf.relocs /\ j # k2
         /\ Holding2 = LoadsOf(elf, Rel2)
         /\ Holding2 # {} => Dst = Out2(k2)
         /\ SymbolicRel2 => Rel2.symbol + 1 \in DOMAIN elf.symbols
         /\ Holding2 # {} /\ (Rel2.type = "RELATIVE" \/ SymbolicRel2) => Relocates(k2)
         /\ Relocates(k2) => Holding2 # {} /\ (Rel2.type = "RELATIVE" \/ SymbolicRel2)
         /\ Sym2 = elf.symbols[elf.relocs[k2].symbol + 1]
<1>1. loads = MapLoads /\ k2 \in Nat \ {0}
  BY DEF Loop2Inv
<1>2. /\ elf.relocs \in Seq(Relocation) /\ elf.symbols \in Seq(Symbol)
      /\ elf.loads \in Seq(LoadHeader)
  BY DEF TypeOK, WellFormed, Elf
<1>3. k2 \in DOMAIN elf.relocs /\ \A j \in 1 .. k2 - 1 : j \in DOMAIN elf.relocs /\ j # k2
  BY <1>1, <1>2
<1>4. /\ DOMAIN MapLoads = DOMAIN elf.loads
      /\ \A i \in DOMAIN elf.loads : /\ MapLoads[i] = Laid(i)
                                     /\ Laid(i).elf_vaddr = elf.loads[i].vaddr
                                     /\ Laid(i).elf_filesz = elf.loads[i].filesz
  BY MapLoadsIs, LaidFacts
<1>5. Holding2 = LoadsOf(elf, Rel2)
  BY <1>1, <1>4 DEF Holding2, LoadsOf
<1>6. Rel2 = elf.relocs[k2] /\ Rel2 \in Relocation
  BY <1>2, <1>3 DEF Rel2
<1>7. Rel2.symbol \in Nat /\ Rel2.type \in {"RELATIVE", "ABS64", "GLOB_DAT", "JUMP_SLOT", "other"}
  BY <1>6 DEF Relocation, RelocTypes
<1>8. SymbolicRel2 <=> /\ Rel2.type \in {"ABS64", "GLOB_DAT", "JUMP_SLOT"}
                       /\ Rel2.symbol + 1 \in DOMAIN elf.symbols
  BY <1>2, <1>7 DEF SymbolicRel2
<1>9. Relocates(k2) <=> Holding2 # {} /\ (Rel2.type = "RELATIVE" \/ SymbolicRel2)
  BY <1>5, <1>6, <1>7, <1>8 DEF Relocates
<1>10. ASSUME Holding2 # {} PROVE Dst = Out2(k2)
  <2>1. Holding2 \in SUBSET Nat
    BY <1>2, <1>5 DEF LoadsOf
  <2>2. \E x \in Holding2 : \A y \in Holding2 : x <= y
    BY <1>10, <2>1, LeastExists
  <2>3. Min(Holding2) \in Holding2
    BY <2>2 DEF Min
  <2>4. Min(Holding2) = Home(k2) /\ Home(k2) \in DOMAIN elf.loads
    BY <1>5, <1>6, <2>3 DEF Home, LoadsOf
  <2> QED BY <1>1, <1>4, <1>6, <2>4 DEF Dst, Out2
<1> QED BY <1>1, <1>3, <1>5, <1>6, <1>8, <1>9, <1>10 DEF Sym2, Rel2

\* The layout and the places are functions of the ELF.
LEMMA Same2 ==
  ASSUME elf' = elf
  PROVE  /\ MapLoads' = MapLoads /\ Plain' = Plain
         /\ DataEnd2(MapLoads)' = DataEnd2(MapLoads)
         /\ \A j : /\ Internal(j)' = Internal(j) /\ Unslid(j)' = Unslid(j)
                   /\ Out2(j)' = Out2(j) /\ Relocates(j)' = Relocates(j)
         /\ \A o : CopiedWord2(MapLoads, o)' = CopiedWord2(MapLoads, o)
<1>1. FileStart' = FileStart
  BY Zenon DEF FileStart
<1>2. MapLoads' = MapLoads /\ \A i : Laid(i)' = Laid(i)
  BY <1>1 DEF MapLoads, Laid
<1>3. Plain' = Plain
  BY DEF Plain, PageSeparated, PlacesApart
<1>4. DataEnd2(MapLoads)' = DataEnd2(MapLoads)
  BY <1>2 DEF DataEnd2
<1>5. ASSUME NEW j PROVE Internal(j)' = Internal(j) /\ Relocates(j)' = Relocates(j)
  BY DEF Internal, Binds, Relocates, LoadsOf
<1>6. ASSUME NEW j PROVE Unslid(j)' = Unslid(j)
  BY DEF Unslid, Implicit, ElfWord
<1>7. ASSUME NEW j PROVE Out2(j)' = Out2(j)
  <2>1. Home(j)' = Home(j)
    BY DEF Home, LoadsOf
  <2> QED BY <1>2, <2>1 DEF Out2
<1>8. ASSUME NEW o PROVE CopiedWord2(MapLoads, o)' = CopiedWord2(MapLoads, o)
  BY <1>2 DEF CopiedWord2
<1> QED BY <1>2, <1>3, <1>4, <1>5, <1>6, <1>7, <1>8

\* A place that no earlier relocation has patched holds what the ELF has there.
LEMMA Existing2 ==
  ASSUME TypeOK, Loop2Inv, pc2 = "relocate", k2 <= Len(elf.relocs), Relocates(k2), Plain
  PROVE  image2[Out2(k2)] = ElfWord(elf.relocs[k2].offset)
<1> DEFINE o == Out2(k2)
           h == Home(k2)
<1>1. /\ k2 \in DOMAIN elf.relocs /\ \A j \in 1 .. k2 - 1 : j \in DOMAIN elf.relocs /\ j # k2
  BY Holding2Is
<1>2. /\ \A j \in 1 .. k2 - 1 : Relocates(j)
      /\ DOMAIN image2 = 0 .. DataEnd2(MapLoads) - 1 /\ Image2Copied
  BY DEF Loop2Inv
<1>3. /\ o \in 0 .. DataEnd2(MapLoads) - 1 /\ h \in DOMAIN elf.loads
      /\ InFile(h, elf.relocs[k2].offset) /\ elf.relocs[k2].offset \in Nat
      /\ o - Laid(h).data_fileoff = elf.relocs[k2].offset - elf.loads[h].vaddr
      /\ o - Laid(h).data_fileoff \in 0 .. elf.loads[h].filesz - 1
  BY <1>1, HomeFacts
<1>4. \A j \in 1 .. k2 - 1 : Out2(j) # o
  BY <1>1, <1>2, Out2Apart DEF Plain
<1>5. o \in Int
  <2> HIDE DEF o
  <2>1. elf.loads # <<>>
    BY DEF Loop2Inv
  <2> QED BY <1>3, <2>1, ImageEnd2
<1> HIDE DEF o, h
<1>6. image2[o] = CopiedWord2(MapLoads, o)
  BY <1>2, <1>3, <1>4 DEF Image2Copied
<1>7. CopiedWord2(MapLoads, o) = elf.data[elf.loads[h].offset + (o - Laid(h).data_fileoff) + 1]
  BY <1>3, <1>5, Copied2Is
<1>8. ElfWord(elf.relocs[k2].offset)
        = elf.data[elf.loads[h].offset + (elf.relocs[k2].offset - elf.loads[h].vaddr) + 1]
  BY <1>3, ElfWordIs DEF Plain
<1> QED BY <1>3, <1>6, <1>7, <1>8 DEF o

\* Writing a pointer into the image keeps what is known of the rest.
LEMMA Patch2Step ==
  ASSUME TypeOK, Loop2Inv, pc2 = "relocate", k2 <= Len(elf.relocs), Relocates(k2),
         Internal(k2), elf' = elf, NEW value \in Int, Patch2(value),
         Plain => value = Unslid(k2)
  PROVE  Loop2Inv'
<1>1. /\ k2 \in DOMAIN elf.relocs /\ k2 \in Nat \ {0} /\ Dst = Out2(k2)
      /\ \A j \in 1 .. k2 - 1 : j \in DOMAIN elf.relocs /\ j # k2
  BY Holding2Is
<1>2. /\ elf.supported /\ elf.loads # <<>> /\ loads = MapLoads
      /\ image2 \in [0 .. DataEnd2(MapLoads) - 1 -> 0 .. WordMod - 1]
      /\ \A j \in 1 .. k2 - 1 : Relocates(j)
      /\ Plain => Image2Copied /\ Image2Patched
  BY DEF Loop2Inv
<1>3. /\ image2' = [image2 EXCEPT ![Out2(k2)] = Word(value)] /\ k2' = k2 + 1
      /\ pc2' = pc2 /\ loads' = loads
  BY <1>1 DEF Patch2
<1>4. Word(value) \in 0 .. WordMod - 1
  BY LayoutAssumption DEF Word
<1>5. image2' \in [0 .. DataEnd2(MapLoads) - 1 -> 0 .. WordMod - 1]
  BY <1>2, <1>3, <1>4
<1>6. /\ k2' - 1 = k2 /\ k2' \in Nat \ {0} /\ Len(elf.relocs) \in Nat
      /\ \A j \in 1 .. k2 : j = k2 \/ j \in 1 .. k2 - 1
      /\ \A j \in 1 .. k2 - 1 : j \in 1 .. k2
  <2>1. Len(elf.relocs) \in Nat
    BY DEF TypeOK, WellFormed, Elf
  <2> QED BY <1>1, <1>3, <2>1
<1>7. \A j \in 1 .. k2' - 1 : Relocates(j)'
  BY <1>2, <1>6, Same2
<1>8. ASSUME Plain PROVE Image2Copied' /\ Image2Patched'
  <2>1. /\ \A j \in 1 .. k2 - 1 : Out2(j) # Out2(k2)
    BY <1>1, <1>2, <1>8, Out2Apart DEF Plain
  <2>2. Image2Copied /\ Image2Patched /\ value = Unslid(k2)
    BY <1>2, <1>8
  <2>3. Out2(k2) \in DOMAIN image2 /\ DOMAIN image2' = DOMAIN image2
    BY <1>1, <1>2, <1>3, HomeFacts
  <2>4. ASSUME NEW j \in 1 .. k2, Internal(j) PROVE image2'[Out2(j)] = Word(Unslid(j))
    <3>1. CASE j = k2
      BY <1>3, <2>2, <2>3, <3>1
    <3>2. CASE j \in 1 .. k2 - 1
      <4>1. image2[Out2(j)] = Word(Unslid(j)) /\ Out2(j) # Out2(k2)
        BY <2>1, <2>2, <2>4, <3>2 DEF Image2Patched
      <4>2. Out2(j) \in DOMAIN image2
        BY <1>1, <1>2, <3>2, HomeFacts
      <4> QED BY <1>3, <4>1, <4>2
    <3> QED BY <1>6, <3>1, <3>2
  <2>5. ASSUME NEW o \in DOMAIN image2, \A j \in 1 .. k2 : Internal(j) => Out2(j) # o
        PROVE  image2'[o] = CopiedWord2(MapLoads, o)
    <3>1. Out2(k2) # o /\ \A j \in 1 .. k2 - 1 : Internal(j) => Out2(j) # o
      BY <1>1, <1>6, <2>5
    <3>2. image2[o] = CopiedWord2(MapLoads, o)
      BY <2>2, <3>1 DEF Image2Copied
    <3> QED BY <1>3, <3>1, <3>2
  <2>6. Image2Patched'
    BY <1>6, <2>4, Same2 DEF Image2Patched
  <2>7. Image2Copied'
    BY <1>6, <2>3, <2>5, Same2 DEF Image2Copied
  <2> QED BY <2>6, <2>7
<1>9. k2' - 1 <= Len(elf.relocs) /\ pc2' = "relocate"
  BY <1>3, <1>6
<1> QED BY <1>2, <1>3, <1>5, <1>6, <1>7, <1>8, <1>9, Same2 DEF Loop2Inv

\* Leaving a place as it is keeps what is known of the image.
LEMMA Leave2Step ==
  ASSUME TypeOK, Loop2Inv, LeaveUnresolved, elf' = elf
  PROVE  Loop2Inv'
<1>1. /\ pc2 = "relocate" /\ k2 <= Len(elf.relocs) /\ Holding2 # {} /\ SymbolicRel2
      /\ ~Sym2.defined /\ image2' = image2 /\ k2' = k2 + 1 /\ pc2' = pc2 /\ loads' = loads
  BY DEF LeaveUnresolved, AtReloc2
<1>2. /\ k2 \in DOMAIN elf.relocs /\ k2 \in Nat \ {0} /\ Relocates(k2) /\ Rel2 = elf.relocs[k2]
      /\ Sym2 = elf.symbols[elf.relocs[k2].symbol + 1]
  BY <1>1, Holding2Is
<1>3. ~Internal(k2)
  BY <1>1, <1>2 DEF Internal, Binds, SymbolicRel2
<1>4. /\ elf.supported /\ elf.loads # <<>> /\ loads = MapLoads
      /\ image2 \in [0 .. DataEnd2(MapLoads) - 1 -> 0 .. WordMod - 1]
      /\ \A j \in 1 .. k2 - 1 : Relocates(j)
      /\ Plain => Image2Copied /\ Image2Patched
  BY <1>1 DEF Loop2Inv
<1>5. /\ k2' - 1 = k2 /\ k2' \in Nat \ {0} /\ Len(elf.relocs) \in Nat
      /\ \A j \in 1 .. k2 : j = k2 \/ j \in 1 .. k2 - 1
      /\ \A j \in 1 .. k2 - 1 : j \in 1 .. k2
  <2>1. Len(elf.relocs) \in Nat
    BY DEF TypeOK, WellFormed, Elf
  <2> QED BY <1>1, <1>2, <2>1
<1>6. \A j \in 1 .. k2' - 1 : Relocates(j)'
  BY <1>2, <1>4, <1>5, Same2
<1>7. ASSUME Plain PROVE Image2Copied' /\ Image2Patched'
  <2>1. Image2Patched'
    <3>1. \A j \in 1 .. k2 : Internal(j) => j \in 1 .. k2 - 1
      BY <1>3, <1>5
    <3> QED BY <1>1, <1>4, <1>5, <1>7, <3>1, Same2 DEF Image2Patched
  <2>2. Image2Copied'
    BY <1>1, <1>4, <1>5, <1>7, Same2 DEF Image2Copied
  <2> QED BY <2>1, <2>2
<1>8. k2' - 1 <= Len(elf.relocs) /\ pc2' = "relocate"
  BY <1>1, <1>5
<1> QED BY <1>1, <1>4, <1>5, <1>6, <1>7, <1>8, Same2 DEF Loop2Inv

\* The pointer that PatchInternal2 writes.
LEMMA Internal2Value ==
  ASSUME TypeOK, Loop2Inv, PatchInternal2
  PROVE  \E value \in Int : /\ Patch2(value) /\ Relocates(k2) /\ Internal(k2)
                            /\ pc2 = "relocate" /\ k2 <= Len(elf.relocs)
                            /\ Plain => value = Unslid(k2)
<1> DEFINE old == IF Rel2.type = "ABS64" THEN image2[Dst] ELSE 0
           value == Slide + Sym2.value + Rel2.addend + old
<1>1. /\ pc2 = "relocate" /\ k2 <= Len(elf.relocs) /\ Holding2 # {} /\ SymbolicRel2
      /\ Sym2.defined /\ Patch2(value)
  BY DEF PatchInternal2, AtReloc2
<1>2. /\ k2 \in DOMAIN elf.relocs /\ Relocates(k2) /\ Dst = Out2(k2)
      /\ Sym2 = elf.symbols[elf.relocs[k2].symbol + 1] /\ Rel2 = elf.relocs[k2]
  BY <1>1, Holding2Is
<1>3. Rel2.type # "RELATIVE"
  BY <1>1 DEF SymbolicRel2
<1>4. /\ Sym2.value \in Nat /\ Rel2.addend \in Int /\ Out2(k2) \in 0 .. DataEnd2(MapLoads) - 1
  BY <1>2, <1>3, HomeFacts
<1>5. image2 \in [0 .. DataEnd2(MapLoads) - 1 -> 0 .. WordMod - 1]
  BY <1>1 DEF Loop2Inv
<1>6. image2[Dst] \in Int
  <2>1. image2[Out2(k2)] \in 0 .. WordMod - 1
    BY <1>4, <1>5
  <2> QED BY <1>2, <2>1, LayoutAssumption
<1>7. old \in Int /\ Slide \in Int
  BY <1>6, SlideAligned
<1>8. ASSUME Plain PROVE old = Implicit(Rel2)
  <2>1. image2[Dst] = ElfWord(Rel2.offset)
    BY <1>1, <1>2, <1>8, Existing2
  <2> QED BY <2>1 DEF Implicit
<1> HIDE DEF old
<1>9. value \in Int
  BY <1>4, <1>7
<1>10. Plain => value = Unslid(k2)
  BY <1>2, <1>3, <1>8 DEF Unslid
<1>11. Internal(k2)
  BY <1>1, <1>2 DEF Internal, Binds
<1> HIDE DEF value
<1> QED BY <1>1, <1>2, <1>9, <1>10, <1>11

\* The pointer that PatchRelative2 writes.
LEMMA Relative2Value ==
  ASSUME TypeOK, Loop2Inv, PatchRelative2
  PROVE  \E value \in Int : /\ Patch2(value) /\ Relocates(k2) /\ Internal(k2)
                            /\ pc2 = "relocate" /\ k2 <= Len(elf.relocs)
                            /\ Plain => value = Unslid(k2)
<1>1. /\ pc2 = "relocate" /\ k2 <= Len(elf.relocs) /\ Holding2 # {} /\ Rel2.type = "RELATIVE"
      /\ Patch2(Slide + Rel2.addend)
  BY DEF PatchRelative2, AtReloc2
<1>2. /\ k2 \in DOMAIN elf.relocs /\ Relocates(k2) /\ Rel2 = elf.relocs[k2]
  BY <1>1, Holding2Is
<1>3. Rel2.addend \in Int
  BY <1>2, HomeFacts
<1>4. Slide + Rel2.addend \in Int
  BY <1>3, SlideAligned
<1>5. Slide + Rel2.addend = Unslid(k2) /\ Internal(k2)
  BY <1>1, <1>2 DEF Unslid, Internal, Binds
<1> QED BY <1>1, <1>2, <1>4, <1>5

\* _map_loads and the copying loop start with nothing patched.
LEMMA MapStep ==
  ASSUME TypeOK, Loop2Inv, MapAndCopy, elf' = elf
  PROVE  Loop2Inv'
<1>1. /\ pc2 = "idle" /\ elf.supported /\ elf.loads # <<>> /\ loads' = MapLoads
      /\ image2' = [o \in 0 .. DataEnd2(MapLoads) - 1 |-> CopiedWord2(MapLoads, o)]
      /\ pc2' = "relocate" /\ k2' = k2
  BY DEF MapAndCopy
<1>2. k2 = 1
  BY <1>1 DEF Loop2Inv
<1>3. DataEnd2(MapLoads) \in Nat
  BY <1>1, ImageEnd2
<1>4. \A o \in 0 .. DataEnd2(MapLoads) - 1 : CopiedWord2(MapLoads, o) \in 0 .. WordMod - 1
  BY <1>3, Copied2Typed
<1>5. image2' \in [0 .. DataEnd2(MapLoads) - 1 -> 0 .. WordMod - 1]
  BY <1>1, <1>4
<1>6. k2' - 1 = 0 /\ 1 .. (k2' - 1) = {} /\ k2' \in Nat \ {0} /\ 0 <= Len(elf.relocs)
  <2>1. Len(elf.relocs) \in Nat
    BY DEF TypeOK, WellFormed, Elf
  <2> QED BY <1>1, <1>2, <2>1
<1>7. Image2Copied' /\ Image2Patched'
  <2>1. \A o \in DOMAIN image2' : image2'[o] = CopiedWord2(MapLoads, o)
    BY <1>1
  <2> QED BY <1>6, <2>1, Same2 DEF Image2Copied, Image2Patched
<1> QED BY <1>1, <1>5, <1>6, <1>7, Same2 DEF Loop2Inv

\* Every step keeps what is known of the loop.
LEMMA Loop2Step ==
  ASSUME TypeOK, Loop2Inv, elf' = elf, Translate2 \/ UNCHANGED vars2
  PROVE  Loop2Inv'
<1>1. CASE MapAndCopy
  BY <1>1, MapStep
<1>2. CASE PatchRelative2
  BY <1>2, Relative2Value, Patch2Step
<1>3. CASE PatchInternal2
  BY <1>3, Internal2Value, Patch2Step
<1>4. CASE LeaveUnresolved
  BY <1>4, Leave2Step
<1>5. CASE Fail2
  BY <1>5 DEF Fail2, Loop2Inv
<1>6. CASE WriteDylib2
  <2>1. /\ pc2 = "relocate" /\ pc2' = "done" /\ k2' = k2 /\ loads' = loads /\ image2' = image2
    BY <1>6 DEF WriteDylib2, AtEnd2
  <2>2. Plain => Image2Copied' /\ Image2Patched'
    BY <2>1, Same2 DEF Loop2Inv, Image2Copied, Image2Patched
  <2> QED BY <2>1, <2>2, Same2 DEF Loop2Inv
<1>7. CASE UNCHANGED vars2
  <2>1. /\ pc2' = pc2 /\ k2' = k2 /\ loads' = loads /\ image2' = image2
    BY <1>7 DEF vars2
  <2>2. Image2Copied /\ Image2Patched => Image2Copied' /\ Image2Patched'
    BY <2>1, Same2 DEF Image2Copied, Image2Patched
  <2> QED BY <2>1, <2>2, Same2 DEF Loop2Inv
<1> QED BY <1>1, <1>2, <1>3, <1>4, <1>5, <1>6, <1>7
        DEF Translate2, RejectElf2, RejectReloc2, RejectHeader2
-----------------------------------------------------------------------------
(* What the reports count.                                                 *)

\* Sets of indices are finite, and one more index is one more element.
LEMMA IndexSets ==
  ASSUME NEW n \in Nat, NEW S \in SUBSET (1 .. n)
  PROVE  /\ IsFiniteSet(S) /\ Cardinality(S) \in Nat
         /\ Cardinality(S \cup {n + 1}) = Cardinality(S) + 1
<1>1. IsFiniteSet(1 .. n)
  BY FS_Interval
<1>2. IsFiniteSet(S) /\ Cardinality(S) \in Nat
  BY <1>1, FS_Subset, FS_CardinalityType
<1>3. n + 1 \notin S
  OBVIOUS
<1>4. Cardinality(S \cup {n + 1}) = Cardinality(S) + 1
  BY <1>2, <1>3, FS_AddElement
<1> QED BY <1>2, <1>4

\* One more relocation is one more that is resolved, or one more that is left to
\* its symbol.
LEMMA RelocsCounted ==
  ASSUME NEW n \in Nat
  PROVE  /\ Cardinality(ResolvedIn(n)) \in Nat
         /\ Internal(n + 1) => /\ Cardinality(ResolvedIn(n + 1)) = Cardinality(ResolvedIn(n)) + 1
                               /\ \A s : LeftTo(s, n + 1) = LeftTo(s, n)
         /\ ~Internal(n + 1) =>
              /\ ResolvedIn(n + 1) = ResolvedIn(n)
              /\ \A s : IF s = elf.symbols[elf.relocs[n + 1].symbol + 1].name
                        THEN Cardinality(LeftTo(s, n + 1)) = Cardinality(LeftTo(s, n)) + 1
                        ELSE LeftTo(s, n + 1) = LeftTo(s, n)
<1>1. 1 .. n + 1 = (1 .. n) \cup {n + 1}
  OBVIOUS
<1>2. ResolvedIn(n) \in SUBSET (1 .. n) /\ \A s : LeftTo(s, n) \in SUBSET (1 .. n)
  BY DEF ResolvedIn, LeftTo
<1>3. ASSUME Internal(n + 1)
      PROVE  /\ ResolvedIn(n + 1) = ResolvedIn(n) \cup {n + 1}
             /\ \A s : LeftTo(s, n + 1) = LeftTo(s, n)
  BY <1>1, <1>3 DEF ResolvedIn, LeftTo
<1>4. ASSUME ~Internal(n + 1)
      PROVE  /\ ResolvedIn(n + 1) = ResolvedIn(n)
             /\ \A s : IF s = elf.symbols[elf.relocs[n + 1].symbol + 1].name
                        THEN LeftTo(s, n + 1) = LeftTo(s, n) \cup {n + 1}
                        ELSE LeftTo(s, n + 1) = LeftTo(s, n)
  BY <1>1, <1>4 DEF ResolvedIn, LeftTo
<1>5. /\ Cardinality(ResolvedIn(n)) \in Nat
      /\ Cardinality(ResolvedIn(n) \cup {n + 1}) = Cardinality(ResolvedIn(n)) + 1
  BY <1>2, IndexSets
<1>6. \A s : Cardinality(LeftTo(s, n) \cup {n + 1}) = Cardinality(LeftTo(s, n)) + 1
  BY <1>2, IndexSets
<1> QED BY <1>3, <1>4, <1>5, <1>6

\* One more name on a list.
LEMMA NamesCounted ==
  ASSUME NEW A, NEW u \in Seq(A), NEW m \in A, NEW s
  PROVE  /\ s = m => Cardinality(Naming(Append(u, m), s)) = Cardinality(Naming(u, s)) + 1
         /\ s # m => Naming(Append(u, m), s) = Naming(u, s)
<1> DEFINE n == Len(u)
           w == Append(u, m)
<1>1. /\ n \in Nat /\ DOMAIN u = 1 .. n /\ DOMAIN w = 1 .. n + 1
      /\ \A i \in 1 .. n : w[i] = u[i]
      /\ w[n + 1] = m
  <2> HIDE DEF n, w
  <2> QED BY Appended DEF n, w
<1> HIDE DEF n, w
<1>2. Naming(u, s) \in SUBSET (1 .. n)
  BY <1>1 DEF Naming
<1>3. Cardinality(Naming(u, s) \cup {n + 1}) = Cardinality(Naming(u, s)) + 1
  BY <1>1, <1>2, IndexSets
<1>4. 1 .. n + 1 = (1 .. n) \cup {n + 1} /\ n + 1 \notin 1 .. n
  BY <1>1
<1>5. s = m => Naming(w, s) = Naming(u, s) \cup {n + 1}
  BY <1>1, <1>4 DEF Naming
<1>6. s # m => Naming(w, s) = Naming(u, s)
  BY <1>1, <1>4 DEF Naming
<1> QED BY <1>3, <1>5, <1>6 DEF w

\* One more of one type is one more.
LEMMA SumCounted ==
  ASSUME NEW p \in [{"RELATIVE", "ABS64", "GLOB_DAT", "JUMP_SLOT"} -> Nat],
         NEW t \in {"RELATIVE", "ABS64", "GLOB_DAT", "JUMP_SLOT"}
  PROVE  /\ Sum([p EXCEPT ![t] = @ + 1]) = Sum(p) + 1
         /\ [p EXCEPT ![t] = @ + 1] \in [{"RELATIVE", "ABS64", "GLOB_DAT", "JUMP_SLOT"} -> Nat]
<1>1. CASE t = "RELATIVE"
  BY <1>1 DEF Sum
<1>2. CASE t = "ABS64"
  BY <1>2 DEF Sum
<1>3. CASE t = "GLOB_DAT"
  BY <1>3 DEF Sum
<1>4. CASE t = "JUMP_SLOT"
  BY <1>4 DEF Sum
<1> QED BY <1>1, <1>2, <1>3, <1>4

\* The counts are functions of the ELF.
LEMMA SameCounts ==
  ASSUME elf' = elf
  PROVE  \A n : ResolvedIn(n)' = ResolvedIn(n) /\ \A s : LeftTo(s, n)' = LeftTo(s, n)
BY Same2 DEF ResolvedIn, LeftTo

\* Every step of Phase 2 keeps the report right.
LEMMA Report2Step ==
  ASSUME TypeOK, Loop2Inv, Report2Inv, elf' = elf, Translate2 \/ UNCHANGED vars2
  PROVE  Report2Inv'
<1> DEFINE Types == {"RELATIVE", "ABS64", "GLOB_DAT", "JUMP_SLOT"}
<1>1. patched2 \in [Types -> Nat] /\ unresolved \in Seq(STRING)
  BY DEF Report2Inv
<1>2. CASE MapAndCopy
  <2>1. /\ pc2 = "idle" /\ pc2' = "relocate" /\ k2' = k2 /\ patched2' = patched2
        /\ unresolved' = unresolved
    BY <1>2 DEF MapAndCopy
  <2>2. k2' - 1 = 0 /\ Sum(patched2) = 0 /\ unresolved = <<>>
    BY <2>1 DEF Loop2Inv, Report2Inv
  <2>3. ResolvedIn(0) = {} /\ \A s : LeftTo(s, 0) = {}
    BY DEF ResolvedIn, LeftTo
  <2>4. \A s \in STRING : Naming(unresolved, s) = {}
    BY <2>2 DEF Naming
  <2>5. Cardinality({}) = 0
    BY FS_EmptySet
  <2>6. Sum(patched2)' = 0 /\ unresolved' = unresolved
    BY <2>1, <2>2 DEF Sum
  <2>7. ResolvedIn(k2 - 1)' = {} /\ \A s : LeftTo(s, k2 - 1)' = {}
    <3>1. ResolvedIn(k2 - 1)' = ResolvedIn(0) /\ \A s : LeftTo(s, k2 - 1)' = LeftTo(s, 0)
      BY <2>2, SameCounts
    <3> QED BY <2>3, <3>1
  <2> QED BY <1>1, <2>1, <2>4, <2>5, <2>6, <2>7 DEF Report2Inv
<1>3. ASSUME NEW value, Patch2(value), Relocates(k2), Internal(k2), pc2 = "relocate",
             k2 <= Len(elf.relocs)
      PROVE  Report2Inv'
  <2>1. /\ patched2' = [patched2 EXCEPT ![Rel2.type] = @ + 1] /\ k2' = k2 + 1 /\ pc2' = pc2
        /\ unresolved' = unresolved
    BY <1>3 DEF Patch2
  <2>2. k2 \in DOMAIN elf.relocs /\ k2 \in Nat \ {0} /\ Rel2 = elf.relocs[k2]
    BY <1>3, Holding2Is
  <2>3. Rel2.type \in Types
    BY <1>3, <2>2, HomeFacts
  <2>4. patched2' \in [Types -> Nat] /\ Sum(patched2') = Sum(patched2) + 1
    BY <1>1, <2>1, <2>3, SumCounted
  <2>5. k2 - 1 \in Nat /\ (k2 - 1) + 1 = k2 /\ k2' - 1 = k2
    BY <2>1, <2>2
  <2>6. /\ Cardinality(ResolvedIn(k2)) = Cardinality(ResolvedIn(k2 - 1)) + 1
        /\ \A s : LeftTo(s, k2) = LeftTo(s, k2 - 1)
    BY <1>3, <2>5, RelocsCounted
  <2>7. /\ ResolvedIn(k2 - 1)' = ResolvedIn(k2)
        /\ \A s : LeftTo(s, k2 - 1)' = LeftTo(s, k2)
    BY <2>5, SameCounts
  <2>8. /\ Sum(patched2) = Cardinality(ResolvedIn(k2 - 1))
        /\ \A s \in STRING : Cardinality(Naming(unresolved, s)) = Cardinality(LeftTo(s, k2 - 1))
    BY <1>3 DEF Report2Inv
  <2>10. Sum(patched2)' = Cardinality(ResolvedIn(k2 - 1))'
    BY <2>4, <2>6, <2>7, <2>8 DEF Sum
  <2> QED BY <1>1, <1>3, <2>1, <2>4, <2>6, <2>7, <2>8, <2>10 DEF Report2Inv
<1>4. CASE PatchRelative2
  BY <1>3, <1>4, Relative2Value
<1>5. CASE PatchInternal2
  BY <1>3, <1>5, Internal2Value
<1>6. CASE LeaveUnresolved
  <2>1. /\ pc2 = "relocate" /\ k2 <= Len(elf.relocs) /\ Holding2 # {} /\ SymbolicRel2
        /\ ~Sym2.defined /\ k2' = k2 + 1 /\ pc2' = pc2 /\ patched2' = patched2
        /\ unresolved' = Append(unresolved, Sym2.name)
    BY <1>6 DEF LeaveUnresolved, AtReloc2
  <2>2. /\ k2 \in DOMAIN elf.relocs /\ k2 \in Nat \ {0} /\ Rel2 = elf.relocs[k2] /\ Relocates(k2)
        /\ Sym2 = elf.symbols[elf.relocs[k2].symbol + 1]
    BY <2>1, Holding2Is
  <2>3. ~Internal(k2) /\ Rel2.type # "RELATIVE"
    BY <2>1, <2>2 DEF Internal, Binds, SymbolicRel2
  <2>4. Sym2.name \in STRING
    BY <2>2, <2>3, HomeFacts
  <2>5. unresolved' \in Seq(STRING)
    BY <1>1, <2>1, <2>4
  <2>6. k2 - 1 \in Nat /\ (k2 - 1) + 1 = k2 /\ k2' - 1 = k2
    BY <2>1, <2>2
  <2>7. /\ ResolvedIn(k2) = ResolvedIn(k2 - 1)
        /\ \A s : IF s = Sym2.name
                  THEN Cardinality(LeftTo(s, k2)) = Cardinality(LeftTo(s, k2 - 1)) + 1
                  ELSE LeftTo(s, k2) = LeftTo(s, k2 - 1)
    BY <2>2, <2>3, <2>6, RelocsCounted
  <2>8. /\ ResolvedIn(k2 - 1)' = ResolvedIn(k2)
        /\ \A s : LeftTo(s, k2 - 1)' = LeftTo(s, k2)
    BY <2>6, SameCounts
  <2>9. /\ Sum(patched2) = Cardinality(ResolvedIn(k2 - 1))
        /\ \A s \in STRING : Cardinality(Naming(unresolved, s)) = Cardinality(LeftTo(s, k2 - 1))
    BY <2>1 DEF Report2Inv
  <2>10. \A s : /\ s = Sym2.name => Cardinality(Naming(unresolved', s))
                                      = Cardinality(Naming(unresolved, s)) + 1
                /\ s # Sym2.name => Naming(unresolved', s) = Naming(unresolved, s)
    BY <1>1, <2>1, <2>4, NamesCounted
  <2>11. Sum(patched2)' = Cardinality(ResolvedIn(k2 - 1))'
    BY <2>1, <2>7, <2>8, <2>9 DEF Sum
  <2>12. \A s \in STRING : Cardinality(Naming(unresolved', s)) = Cardinality(LeftTo(s, k2 - 1))'
    BY <2>7, <2>8, <2>9, <2>10
  <2> QED BY <1>1, <2>1, <2>5, <2>11, <2>12 DEF Report2Inv
<1>7. CASE Fail2
  BY <1>1, <1>7 DEF Fail2, Report2Inv
<1>8. CASE WriteDylib2 \/ UNCHANGED vars2
  <2>1. /\ patched2' = patched2 /\ unresolved' = unresolved /\ k2' = k2
        /\ pc2' \in {"relocate", "done"} => pc2 \in {"relocate", "done"}
        /\ pc2' = "idle" => pc2 = "idle"
    BY <1>8 DEF WriteDylib2, AtEnd2, vars2
  <2>2. /\ ResolvedIn(k2 - 1)' = ResolvedIn(k2 - 1)
        /\ \A s : LeftTo(s, k2 - 1)' = LeftTo(s, k2 - 1)
    BY <2>1, SameCounts
  <2>3. Sum(patched2)' = Sum(patched2)
    BY <2>1 DEF Sum
  <2> QED BY <2>1, <2>2, <2>3 DEF Report2Inv
<1> QED BY <1>2, <1>4, <1>5, <1>6, <1>7, <1>8
        DEF Translate2, RejectElf2, RejectReloc2, RejectHeader2
-----------------------------------------------------------------------------
(* The dylib of Phase 2, dyld, and the three phases together.              *)

\* A step as the phases see it: of Phase 2, of dyld with Phase 2's dylib, of the
\* others, or of none.
LEMMA AllSteps ==
  ASSUME [NextAll]_<<vars4, vars2>>
  PROVE  \/ Translate2 /\ UNCHANGED vars4
         \/ Load2 /\ UNCHANGED <<vars, step4, final, vars2>>
         \/ pc2 = "idle" /\ [Next4]_vars4 /\ UNCHANGED vars2
         \/ UNCHANGED vars4 /\ UNCHANGED vars2
BY DEF NextAll

\* No step changes the object.
LEMMA SameElf ==
  [NextAll]_<<vars4, vars2>> => elf' = elf /\ [Next]_vars /\ (Translate2 \/ UNCHANGED vars2)
<1> SUFFICES ASSUME [NextAll]_<<vars4, vars2>>
             PROVE  elf' = elf /\ [Next]_vars /\ (Translate2 \/ UNCHANGED vars2)
  OBVIOUS
<1>1. [Next]_vars /\ (Translate2 \/ UNCHANGED vars2)
  <2>1. CASE Translate2 /\ UNCHANGED vars4
    BY <2>1 DEF vars4, vars
  <2>2. CASE Load2 /\ UNCHANGED <<vars, step4, final, vars2>>
    BY <2>2
  <2>3. CASE pc2 = "idle" /\ [Next4]_vars4 /\ UNCHANGED vars2
    BY <2>3, TranslatorOnly
  <2>4. CASE UNCHANGED vars4 /\ UNCHANGED vars2
    BY <2>4 DEF vars4, vars
  <2> QED BY <2>1, <2>2, <2>3, <2>4, AllSteps
<1>2. [Next]_vars => elf' = elf
  BY DEF Next, RejectElf, LayoutText, LayoutLoad, CopyLoads, RejectReloc, PatchRelative,
         PatchInternal, PatchAndRebase, BindExternal, RejectOutput, WriteDylib, Fail, vars
<1> QED BY <1>1, <1>2

\* Every step keeps the dylib that Phase 2 has written.
LEMMA Written2Step ==
  ASSUME TypeOK, Loop2Inv, Written2, elf' = elf, Translate2 \/ UNCHANGED vars2
  PROVE  Written2'
<1>1. CASE WriteDylib2
  <2>1. /\ pc2 = "relocate" /\ k2 > Len(elf.relocs) /\ HeaderSize2 <= PageSize
        /\ k2' = k2 /\ loads' = loads /\ image2' = image2
        /\ dylib2' = [file     |-> [o \in DOMAIN image2 |->
                                      IF o < HeaderSize2 THEN -1 ELSE image2[o]],
                      segments |-> <<HeaderSegment>> \o loads,
                      rebase   |-> <<[op |-> "done"]>>, bind |-> <<[op |-> "done"]>>]
    BY <1>1 DEF WriteDylib2, AtEnd2
  <2>2. k2 - 1 = Len(elf.relocs)
    <3>1. Len(elf.relocs) \in Nat
      BY DEF TypeOK, WellFormed, Elf
    <3>2. k2 \in Nat /\ k2 - 1 <= Len(elf.relocs)
      BY <2>1 DEF Loop2Inv
    <3> QED BY <2>1, <3>1, <3>2
  <2>3. HeaderSize2' = HeaderSize2
    BY <2>1 DEF HeaderSize2
  <2>4. /\ dylib2'.file = [o \in DOMAIN image2 |-> IF o < HeaderSize2 THEN -1 ELSE image2[o]]
        /\ dylib2'.segments = <<HeaderSegment>> \o loads
        /\ dylib2'.rebase = <<[op |-> "done"]>> /\ dylib2'.bind = <<[op |-> "done"]>>
    BY <2>1
  <2> QED BY <2>1, <2>2, <2>3, <2>4 DEF Written2, HeaderSegment
<1>2. CASE UNCHANGED vars2
  <2>1. /\ pc2' = pc2 /\ k2' = k2 /\ loads' = loads /\ image2' = image2 /\ dylib2' = dylib2
    BY <1>2 DEF vars2
  <2>2. HeaderSize2' = HeaderSize2
    BY <2>1 DEF HeaderSize2
  <2> QED BY <2>1, <2>2 DEF Written2, HeaderSegment
<1>3. CASE pc2' # "done"
  BY <1>3 DEF Written2
<1> QED BY <1>1, <1>2, <1>3
        DEF Translate2, RejectElf2, RejectReloc2, RejectHeader2, Fail2, MapAndCopy,
            PatchRelative2, PatchInternal2, Patch2, LeaveUnresolved, AtReloc2

\* An object that Phase 2 refuses is one that it cannot translate.
LEMMA Refused2Step ==
  ASSUME TypeOK, Loop2Inv, Refused2, elf' = elf, Translate2 \/ UNCHANGED vars2
  PROVE  Refused2'
<1>1. Accepts2(elf)' = Accepts2(elf)
  BY Zenon DEF Accepts2, Relocatable, LoadsOf
<1>2. CASE RejectElf2
  BY <1>1, <1>2 DEF RejectElf2, Refused2, Accepts2
<1>3. CASE RejectReloc2
  <2>1. /\ pc2 = "relocate" /\ k2 <= Len(elf.relocs)
        /\ Holding2 = {} \/ (Rel2.type # "RELATIVE" /\ ~SymbolicRel2)
    BY <1>3 DEF RejectReloc2, AtReloc2
  <2>2. k2 \in DOMAIN elf.relocs /\ ~Relocates(k2)
    BY <2>1, Holding2Is
  <2>3. elf.relocs[k2] \in Range(elf.relocs)
    BY <2>2 DEF Range
  <2>4. ~Relocatable(elf)
    BY <2>2, <2>3 DEF Relocatable, Relocates
  <2> QED BY <1>1, <2>4 DEF Refused2, Accepts2
<1>4. CASE RejectHeader2
  <2>1. pc2 = "relocate" /\ HeaderSize2 > PageSize
    BY <1>4 DEF RejectHeader2, AtEnd2
  <2>2. Len(loads) = Len(elf.loads) /\ Len(elf.loads) \in Nat
    BY <2>1, MapLoadsIs DEF Loop2Inv
  <2>3. HeaderSize2 = FixedCommandSize2 + SegmentCommandSize2 * (Len(elf.loads) + 1)
    BY <2>2 DEF HeaderSize2
  <2>4. HeaderSize2 \in Int
    BY <2>2, <2>3, Phase2Assumption
  <2>5. ~(FixedCommandSize2 + SegmentCommandSize2 * (Len(elf.loads) + 1) <= PageSize)
    <3>1. ~(HeaderSize2 <= PageSize)
      BY <2>1, <2>4, LayoutAssumption
    <3> QED BY <2>3, <3>1
  <2> QED BY <1>1, <2>5 DEF Refused2, Accepts2
<1>5. CASE UNCHANGED vars2
  BY <1>1, <1>5 DEF vars2, Refused2
<1>6. CASE pc2' # "error"
  BY <1>6 DEF Refused2
<1> QED BY <1>2, <1>3, <1>4, <1>5, <1>6
        DEF Translate2, MapAndCopy, PatchRelative2, PatchInternal2, Patch2, LeaveUnresolved,
            AtReloc2, WriteDylib2
-----------------------------------------------------------------------------
(* The phases one after the other.                                         *)

\* Phase 4 waits for Phase 3 to end.
Step4Inv ==
  /\ step4 \in {"phase3", "done", "error"}
  /\ step4 # "phase3" => pc \in {"done", "error"}

\* Phase 3 ends once.
LEMMA EndIsFinal == pc \in {"done", "error"} /\ [Next]_vars => UNCHANGED vars
BY DEF Next, RejectElf, RejectReloc, RejectOutput, CopyLoads, LayoutText, LayoutLoad,
       PatchRelative, PatchInternal, BindExternal, AtReloc, WriteDylib, AtEnd

\* Every step keeps this.
LEMMA Step4Step == Step4Inv /\ [NextAll]_<<vars4, vars2>> => Step4Inv'
<1> SUFFICES ASSUME Step4Inv, [NextAll]_<<vars4, vars2>> PROVE Step4Inv'
  OBVIOUS
<1>1. CASE step4' = step4
  <2>1. [Next]_vars
    BY SameElf
  <2>2. pc \in {"done", "error"} => pc' = pc
    BY <2>1, EndIsFinal DEF vars
  <2> QED BY <1>1, <2>2 DEF Step4Inv
<1>2. CASE (Reject4 \/ Rewrite) /\ UNCHANGED loadVars
  <2>1. step4' \in {"done", "error"} /\ pc \in {"done", "error"} /\ pc' = pc
    BY <1>2 DEF Reject4, Rewrite, loadVars
  <2> QED BY <2>1 DEF Step4Inv
<1> QED BY <1>1, <1>2, AllSteps DEF Next4, vars4

\* dyld only takes the step from the mapped image to the loaded one.
LEMMA Dyld2Step ==
  ASSUME pc2 = "idle" => EndToEndInv,
         Step4Inv, Written2, Dyld2Inv, [NextAll]_<<vars4, vars2>>
  PROVE  Dyld2Inv'
<1>1. CASE Translate2 /\ UNCHANGED vars4
  <2>1. /\ pc' = pc /\ step4' = step4 /\ ip' = ip /\ stage' = stage
    BY <1>1 DEF vars4
  <2>2. CASE pc2 = "idle"
    <3>1. pc = "construct"
      BY <1>1, <2>2
         DEF Translate2, RejectElf2, MapAndCopy, RejectReloc2, PatchRelative2, PatchInternal2,
             LeaveUnresolved, RejectHeader2, WriteDylib2, AtReloc2, AtEnd2
    <3>2. stage = "closed" /\ ip = 1 /\ step4 = "phase3"
      BY <2>2, <3>1 DEF EndToEndInv, LibInv, RegInv, Step4Inv
    <3> QED BY <2>1, <3>1, <3>2 DEF Dyld2Inv
  <2>3. CASE pc2 = "relocate"
    <3>1. stage = "closed" /\ pc = "construct" /\ step4 = "phase3" /\ ip = 1
      BY <2>3 DEF Dyld2Inv
    <3> QED BY <2>1, <3>1 DEF Dyld2Inv
  <2> QED BY <1>1, <2>2, <2>3
         DEF Translate2, RejectElf2, MapAndCopy, RejectReloc2, PatchRelative2, PatchInternal2,
             LeaveUnresolved, RejectHeader2, WriteDylib2, AtReloc2, AtEnd2
<1>2. CASE Load2 /\ UNCHANGED <<vars, step4, final, vars2>>
  <2>1. /\ pc' = pc /\ step4' = step4 /\ pc2' = pc2 /\ dylib2' = dylib2 /\ pc2 = "done"
    BY <1>2 DEF Load2, vars, vars2
  <2>2. /\ pc = "construct" /\ step4 = "phase3" /\ ip = 1
        /\ stage \in {"closed", "rebase", "bind", "loaded"}
    BY <2>1 DEF Dyld2Inv
  <2>3. CASE dyld!Open(dylib2) /\ base' = 0
    <3>1. /\ lib' = dylib2 /\ stage' = "rebase" /\ ip' = ip
          /\ mem' = [a \in 0 .. Top(dylib2) - 1 |->
                       dyld!MappedWord(dylib2, a)]
      BY <2>3 DEF dyld!Open, Top
    <3>2. mem' = [a \in 0 .. Top(lib) - 1 |->
                       dyld!MappedWord(lib, a)]'
      BY <3>1 DEF dyld!MappedWord, Top
    <3> QED BY <2>1, <2>2, <2>3, <3>1, <3>2 DEF Dyld2Inv
  <2>4. CASE dyld!Next
    <3>1. stage # "closed" /\ lib' = lib /\ base' = base
      BY <2>4 DEF dyld!Next, dyld!Rebase, dyld!Bind
    <3>2. lib = dylib2 /\ base = 0
          /\ mem = [a \in 0 .. Top(lib) - 1 |->
                      dyld!MappedWord(lib, a)]
      BY <2>1, <3>1 DEF Dyld2Inv
    <3>3. lib.rebase[ip].op = "done" /\ lib.bind[ip].op = "done"
      BY <2>1, <2>2, <3>2 DEF Written2
    <3>4. stage' \in {"bind", "loaded"} /\ ip' = 1 /\ mem' = mem
      <4>1. CASE dyld!Rebase
        BY <4>1, <3>3, DoneOpcode DEF dyld!Rebase
      <4>2. CASE dyld!Bind
        BY <4>2, <3>3, DoneOpcode DEF dyld!Bind
      <4> QED BY <2>4, <4>1, <4>2 DEF dyld!Next
    <3>5. mem' = [a \in 0 .. Top(lib) - 1 |->
                       dyld!MappedWord(lib, a)]'
      BY <3>1, <3>2, <3>4 DEF dyld!MappedWord, Top
    <3> QED BY <2>1, <2>2, <3>1, <3>2, <3>4, <3>5 DEF Dyld2Inv
  <2> QED BY <1>2, <2>3, <2>4 DEF Load2
<1>3. CASE pc2 = "idle" /\ UNCHANGED vars2
  BY <1>3 DEF vars2, Dyld2Inv
<1>4. CASE UNCHANGED vars4 /\ UNCHANGED vars2
  <2>1. /\ pc' = pc /\ step4' = step4 /\ ip' = ip /\ stage' = stage /\ pc2' = pc2 /\ lib' = lib
        /\ dylib2' = dylib2 /\ base' = base /\ mem' = mem
    BY <1>4 DEF vars4, vars2
  <2>2. \A a : dyld!MappedWord(lib, a)' = dyld!MappedWord(lib, a)
    BY <2>1 DEF dyld!MappedWord, Top
  <2> QED BY <2>1, <2>2 DEF Dyld2Inv
<1> QED BY <1>1, <1>2, <1>3, <1>4, AllSteps

\* The invariant of the three phases and dyld.
PhasesInv == AllInv /\ Step4Inv

\* It holds at the start.
LEMMA PhasesInit == InitAll => PhasesInv
<1> SUFFICES ASSUME InitAll PROVE PhasesInv
  OBVIOUS
<1>1. Init4 /\ Init2
  BY DEF InitAll
<1>2. Init /\ stage = "closed" /\ ip = 1 /\ reg = dyld!ClearRegisters /\ step4 = "phase3"
  BY <1>1 DEF Init4, LoadInit, dyld!Init
<1>3. TranslatorInv
  BY <1>2, TranslatorInit
<1>4. EndToEndInv
  BY <1>2, <1>3 DEF EndToEndInv, Rewritten, LibInv, RegInv, MemInv
<1>5. pc2 = "idle" /\ k2 = 1 /\ unresolved = <<>>
      /\ patched2 = [t \in {"RELATIVE", "ABS64", "GLOB_DAT", "JUMP_SLOT"} |-> 0]
  BY <1>1 DEF Init2
<1>6. Loop2Inv /\ Written2 /\ Dyld2Inv /\ Refused2
  BY <1>5 DEF Loop2Inv, Written2, Dyld2Inv, Refused2
<1>7. Report2Inv
  <2>1. unresolved \in Seq(STRING)
    BY <1>5
  <2>2. Sum(patched2) = 0
    BY <1>5 DEF Sum
  <2> QED BY <1>5, <2>1, <2>2 DEF Report2Inv
<1>8. Step4Inv
  BY <1>2 DEF Step4Inv
<1> QED BY <1>3, <1>4, <1>6, <1>7, <1>8 DEF PhasesInv, AllInv

\* Every step keeps it.
LEMMA PhasesStep == PhasesInv /\ [NextAll]_<<vars4, vars2>> => PhasesInv'
<1> SUFFICES ASSUME PhasesInv, [NextAll]_<<vars4, vars2>> PROVE PhasesInv'
  OBVIOUS
<1>1. /\ TranslatorInv /\ (pc2 = "idle" => EndToEndInv) /\ Loop2Inv /\ Report2Inv
      /\ Written2 /\ Dyld2Inv /\ Refused2 /\ Step4Inv
  BY DEF PhasesInv, AllInv
<1>2. TypeOK
  BY <1>1 DEF TranslatorInv, Phase3Inv
<1>3. elf' = elf /\ [Next]_vars /\ (Translate2 \/ UNCHANGED vars2)
  BY SameElf
<1>4. TranslatorInv'
  BY <1>1, <1>3, TranslatorStep
<1>5. Loop2Inv'
  BY <1>1, <1>2, <1>3, Loop2Step
<1>6. Report2Inv'
  BY <1>1, <1>2, <1>3, Report2Step
<1>7. Written2' /\ Refused2'
  BY <1>1, <1>2, <1>3, Written2Step, Refused2Step
<1>8. Dyld2Inv'
  BY <1>1, Dyld2Step
<1>9. Step4Inv'
  BY <1>1, Step4Step
<1>10. ASSUME pc2' = "idle" PROVE EndToEndInv'
  <2>1. pc2 = "idle" /\ UNCHANGED vars2
    BY <1>3, <1>10
       DEF Translate2, RejectElf2, MapAndCopy, RejectReloc2, PatchRelative2, PatchInternal2, Patch2,
           LeaveUnresolved, RejectHeader2, WriteDylib2, AtReloc2, AtEnd2, Fail2, vars2
  <2>2. [Next4]_vars4
    <3>1. CASE Translate2 /\ UNCHANGED vars4
      BY <3>1
    <3>2. CASE Load2
      BY <2>1, <3>2 DEF Load2
    <3> QED BY <3>1, <3>2, AllSteps
  <2>3. TranslatorInv /\ Rewritten /\ LibInv /\ RegInv /\ MemInv
    BY <1>1, <2>1 DEF EndToEndInv
  <2>4. Rewritten' /\ LibInv' /\ RegInv' /\ MemInv'
    BY <2>2, <2>3, RewrittenStep, LibStep, RegStep, MemStep
  <2> QED BY <1>4, <2>4 DEF EndToEndInv
<1> QED BY <1>4, <1>5, <1>6, <1>7, <1>8, <1>9, <1>10 DEF PhasesInv, AllInv

\* Every state of the three phases with dyld satisfies the invariant.
THEOREM PhasesInvariant == SpecAll => []PhasesInv
BY PhasesInit, PhasesStep, PTL DEF SpecAll

\* Types are kept: no relocation is patched outside the image.
THEOREM TypesKept == SpecAll => []TypeOK
<1>1. PhasesInv => TypeOK
  BY DEF PhasesInv, AllInv, TranslatorInv, Phase3Inv
<1> QED BY <1>1, PhasesInvariant, PTL

\* One constant slide in Phase 3's layout: every PT_LOAD lies in its segment at its
\* ELF address plus the slide, and the segments are disjoint in the file, and in
\* memory when the loads do not share a page.
THEOREM LayoutIsSound == SpecAll => []LayoutSound
<1>1. PhasesInv => LayoutSound
  BY DEF PhasesInv, AllInv, TranslatorInv, Phase3Inv
<1> QED BY <1>1, PhasesInvariant, PTL

\* No relocation is dropped, doubled or invented between the ELF's tables and
\* the lists that Phase 3's dyld opcodes are made from.
THEOREM FixupsAreTheRelocs == SpecAll => []FixupsMatchRelocs
<1>1. PhasesInv => FixupsMatchRelocs
  BY DEF PhasesInv, AllInv, TranslatorInv, Phase3Inv
<1> QED BY <1>1, PhasesInvariant, PTL

\* _location always names the pointer the ELF address denotes, in the file
\* and in memory alike.
THEOREM LocationsAgreeAlways == SpecAll => []LocationsAgree
<1>1. PhasesInv => LocationsAgree
  BY LocationsRight DEF PhasesInv, AllInv, TranslatorInv
<1> QED BY <1>1, PhasesInvariant, PTL
-----------------------------------------------------------------------------
(* What holds of a dylib of Phase 2 that dyld has loaded.                  *)

\* The segments of Phase 2's dylib: the header page, then the loads.
LEMMA Segments2 ==
  ASSUME TypeOK, Loop2Inv, Written2, pc2 = "done"
  PROVE  /\ DOMAIN dylib2.segments = 1 .. Len(elf.loads) + 1 /\ Len(elf.loads) \in Nat \ {0}
         /\ DOMAIN elf.loads = 1 .. Len(elf.loads)
         /\ dylib2.segments[1] = HeaderSegment
         /\ \A i \in DOMAIN elf.loads : dylib2.segments[i + 1] = Laid(i)
         /\ \A x \in DOMAIN dylib2.segments : x = 1 \/ \E i \in DOMAIN elf.loads : x = i + 1
<1>1. loads = MapLoads /\ elf.loads # <<>>
  BY DEF Loop2Inv
<1>2. /\ DOMAIN elf.loads = 1 .. Len(elf.loads) /\ Len(elf.loads) \in Nat
      /\ Len(MapLoads) = Len(elf.loads) /\ MapLoads \in Seq(Segment)
      /\ \A i \in DOMAIN elf.loads : MapLoads[i] = Laid(i)
  BY MapLoadsIs
<1>3. Len(elf.loads) # 0
  <2>1. elf.loads \in Seq(LoadHeader)
    BY DEF TypeOK, WellFormed, Elf
  <2> QED BY <1>1, <2>1
<1> DEFINE S == Segment \cup {HeaderSegment}
           g == <<HeaderSegment>>
<1>4. g \in Seq(S) /\ Len(g) = 1 /\ g[1] = HeaderSegment
  <2>1. HeaderSegment \in S
    OBVIOUS
  <2> HIDE DEF S
  <2> QED BY <2>1
<1>5. MapLoads \in Seq(S)
  <2>1. Segment \subseteq S
    OBVIOUS
  <2> HIDE DEF S
  <2> QED BY <1>2, <2>1
<1>6. dylib2.segments = g \o MapLoads
  BY <1>1 DEF Written2
<1> HIDE DEF S, g
<1>7. /\ g \o MapLoads \in Seq(S) /\ Len(g \o MapLoads) = Len(g) + Len(MapLoads)
      /\ \A i \in 1 .. Len(g) : (g \o MapLoads)[i] = g[i]
      /\ \A i \in 1 .. Len(MapLoads) : (g \o MapLoads)[Len(g) + i] = MapLoads[i]
  <2>1. PICK h : h = MapLoads
    OBVIOUS
  <2>2. g \in Seq(S) /\ h \in Seq(S)
    BY <1>4, <1>5, <2>1
  <2>3. /\ g \o h \in Seq(S) /\ Len(g \o h) = Len(g) + Len(h)
        /\ \A i \in 1 .. Len(g) : (g \o h)[i] = g[i]
        /\ \A i \in 1 .. Len(h) : (g \o h)[Len(g) + i] = h[i]
    BY <2>2, Concatenation
  <2> QED BY <2>1, <2>3
<1>8. DOMAIN dylib2.segments = 1 .. Len(elf.loads) + 1
  <2>1. DOMAIN (g \o MapLoads) = 1 .. Len(g \o MapLoads)
    BY <1>7
  <2>2. 1 + Len(elf.loads) = Len(elf.loads) + 1
    BY <1>2
  <2> QED BY <1>2, <1>4, <1>6, <1>7, <2>1, <2>2
<1>9. dylib2.segments[1] = HeaderSegment
  BY <1>4, <1>6, <1>7
<1>10. ASSUME NEW i \in DOMAIN elf.loads PROVE dylib2.segments[i + 1] = Laid(i)
  <2>1. i \in 1 .. Len(MapLoads) /\ Len(g) + i = i + 1
    BY <1>2, <1>4
  <2> QED BY <1>2, <1>6, <1>7, <2>1
<1>11. ASSUME NEW x \in DOMAIN dylib2.segments, x # 1
       PROVE  \E i \in DOMAIN elf.loads : x = i + 1
  <2>1. x - 1 \in DOMAIN elf.loads /\ x = (x - 1) + 1
    BY <1>2, <1>8, <1>11
  <2> QED BY <2>1
<1> QED BY <1>2, <1>3, <1>8, <1>9, <1>10, <1>11

\* Loads in pages of their own end where the next may begin.
LEMMA LaidEnds ==
  ASSUME TypeOK, PageSeparated, NEW i \in DOMAIN elf.loads, NEW j \in DOMAIN elf.loads, i < j
  PROVE  /\ End(Laid(i)) <= Laid(j).vmaddr /\ Laid(j).vmaddr <= End(Laid(j))
         /\ End(Laid(i)) \in Nat /\ End(Laid(j)) \in Nat /\ Laid(j).vmaddr \in Nat
<1>1. Align(elf.loads[i].vaddr + elf.loads[i].memsz) <= Floor(elf.loads[j].vaddr)
  BY DEF PageSeparated
<1>2. /\ Laid(i) \in Segment /\ Laid(j) \in Segment
      /\ End(Laid(i)) = Slide + Align(elf.loads[i].vaddr + elf.loads[i].memsz)
      /\ Laid(j).vmaddr = Slide + Floor(elf.loads[j].vaddr)
  BY LaidFacts DEF End
<1>3. /\ End(Laid(i)) \in Nat /\ End(Laid(j)) \in Nat /\ Laid(j).vmaddr \in Nat
      /\ Laid(j).vmaddr <= End(Laid(j))
  BY <1>2 DEF End, Segment
<1>4. Align(elf.loads[i].vaddr + elf.loads[i].memsz) \in Int /\ Floor(elf.loads[j].vaddr) \in Int
  <2>1. /\ elf.loads[i].vaddr \in Nat /\ elf.loads[i].memsz \in Nat /\ elf.loads[j].vaddr \in Nat
    BY LoadFacts
  <2>2. elf.loads[i].vaddr + elf.loads[i].memsz \in Int
    BY <2>1
  <2> QED BY <2>1, <2>2, AlignFacts, FloorFacts
<1> QED BY <1>1, <1>2, <1>3, <1>4, SlideAligned

\* The address of a load's word is in its segment and in no other.
LEMMA Covers2 ==
  ASSUME TypeOK, Loop2Inv, Written2, pc2 = "done", PageSeparated,
         NEW i \in DOMAIN elf.loads, NEW v \in Nat, InLoad(i, v)
  PROVE  /\ {x \in DOMAIN dylib2.segments : dyld!Covers(dylib2.segments[x], Slide + v)} = {i + 1}
         /\ Laid(i).vmaddr <= Slide + v /\ Slide + v < End(Laid(i))
<1> DEFINE a == Slide + v
<1>1. /\ elf.loads[i].vaddr \in Nat /\ elf.loads[i].memsz \in Nat
      /\ elf.loads[i].vaddr <= v /\ v < elf.loads[i].vaddr + elf.loads[i].memsz
  BY LoadFacts DEF InLoad
<1>2. Slide \in Nat /\ a \in Nat
  BY SlideAligned
<1>3. /\ Laid(i) \in Segment /\ Laid(i).vmaddr = Slide + Floor(elf.loads[i].vaddr)
      /\ End(Laid(i)) = Slide + Align(elf.loads[i].vaddr + elf.loads[i].memsz)
  BY LaidFacts DEF End
<1>4. Laid(i).vmaddr <= a /\ a < End(Laid(i))
  <2>1. Floor(elf.loads[i].vaddr) \in Int /\ Floor(elf.loads[i].vaddr) <= elf.loads[i].vaddr
    BY <1>1, FloorFacts
  <2>2. elf.loads[i].vaddr + elf.loads[i].memsz \in Int
    BY <1>1
  <2>3. /\ Align(elf.loads[i].vaddr + elf.loads[i].memsz) \in Int
        /\ elf.loads[i].vaddr + elf.loads[i].memsz
             <= Align(elf.loads[i].vaddr + elf.loads[i].memsz)
    BY <2>2, AlignFacts
  <2> QED BY <1>1, <1>2, <1>3, <2>1, <2>3
<1>5. Laid(i).vmaddr \in Nat /\ End(Laid(i)) \in Nat
  BY <1>3 DEF End, Segment
<1> HIDE DEF a
<1>6. dyld!Covers(dylib2.segments[i + 1], a) /\ i + 1 \in DOMAIN dylib2.segments
  <2>1. dylib2.segments[i + 1] = Laid(i) /\ i + 1 \in DOMAIN dylib2.segments
    BY Segments2
  <2> QED BY <1>4, <2>1 DEF dyld!Covers, End
<1>7. ~dyld!Covers(HeaderSegment, a)
  BY <1>2, LayoutAssumption DEF dyld!Covers, HeaderSegment, Slide, a
<1>8. ASSUME NEW j \in DOMAIN elf.loads, dyld!Covers(Laid(j), a) PROVE j = i
  <2>1. Laid(j).vmaddr <= a /\ a < End(Laid(j)) 
    BY <1>8 DEF dyld!Covers, End
  <2>2. i \in Int /\ j \in Int
    BY MapLoadsIs
  <2>3. ~(i < j)
    <3> SUFFICES ASSUME i < j PROVE FALSE
      OBVIOUS
    <3>1. End(Laid(i)) <= Laid(j).vmaddr /\ Laid(j).vmaddr \in Nat
      BY LaidEnds
    <3> QED BY <1>2, <1>4, <1>5, <2>1, <3>1 DEF a
  <2>4. ~(j < i)
    <3> SUFFICES ASSUME j < i PROVE FALSE
      OBVIOUS
    <3>1. End(Laid(j)) <= Laid(i).vmaddr /\ End(Laid(j)) \in Nat
      BY LaidEnds
    <3> QED BY <1>2, <1>4, <1>5, <2>1, <3>1 DEF a
  <2> QED BY <2>2, <2>3, <2>4
<1>9. ASSUME NEW x \in DOMAIN dylib2.segments, dyld!Covers(dylib2.segments[x], a)
      PROVE  x = i + 1
  <2>1. x # 1
    BY <1>7, <1>9, Segments2
  <2>2. PICK j \in DOMAIN elf.loads : x = j + 1
    BY <2>1, Segments2
  <2>3. dylib2.segments[x] = Laid(j)
    BY <2>2, Segments2
  <2> QED BY <1>8, <1>9, <2>2, <2>3
<1>10. {x \in DOMAIN dylib2.segments : dyld!Covers(dylib2.segments[x], a)} = {i + 1}
  BY <1>6, <1>9
<1> QED BY <1>4, <1>10 DEF a

\* The memory mapped reaches to the end of every load.
LEMMA Top2 ==
  ASSUME TypeOK, Loop2Inv, Written2, pc2 = "done", PageSeparated, NEW i \in DOMAIN elf.loads
  PROVE  Top(dylib2) \in Nat /\ End(Laid(i)) <= Top(dylib2)
<1> DEFINE n == Len(elf.loads)
           T == {s.vmaddr + s.vmsize : s \in dyld!Range(dylib2.segments)}
           m == End(Laid(n))
<1>1. /\ n \in DOMAIN elf.loads /\ n \in Nat /\ DOMAIN elf.loads = 1 .. n
  BY Segments2
<1>2. \A j \in DOMAIN elf.loads : Laid(j) \in Segment
  BY LaidFacts
<1>3. \A j \in DOMAIN elf.loads : End(Laid(j)) \in Nat /\ Laid(j).vmaddr \in Nat /\ Laid(j).vmsize \in Nat
  BY <1>2 DEF End, Segment
<1>4. ASSUME NEW j \in DOMAIN elf.loads PROVE End(Laid(j)) <= m
  <2>1. CASE j = n
    BY <1>1, <1>3, <2>1
  <2>2. CASE j < n
    BY <1>1, <1>3, <2>2, LaidEnds
  <2> QED BY <1>1, <2>1, <2>2
<1>5. End(HeaderSegment) = Slide
  BY LayoutAssumption DEF End, HeaderSegment, Slide
<1>6. Slide <= m
  <2>1. Laid(n).vmaddr = Slide + Floor(elf.loads[n].vaddr)
    BY <1>1, LaidFacts
  <2>2. elf.loads[n].vaddr \in Nat
    BY <1>1, LoadFacts
  <2>3. Floor(elf.loads[n].vaddr) >= 0 /\ Floor(elf.loads[n].vaddr) \in Int
    <3>1. elf.loads[n].vaddr \div PageSize \in Nat
      BY <2>2, LayoutAssumption
    <3>2. PICK q : q = elf.loads[n].vaddr \div PageSize
      OBVIOUS
    <3>3. q * PageSize \in Nat
      BY <3>1, <3>2, LayoutAssumption
    <3> QED BY <3>2, <3>3 DEF Floor
  <2>4. m = Laid(n).vmaddr + Laid(n).vmsize
    BY DEF End
  <2> HIDE DEF m, n
  <2> QED BY <1>1, <1>3, <2>1, <2>3, <2>4, SlideAligned
<1>7. ASSUME NEW t \in T PROVE t \in Int /\ t <= m
  <2>1. PICK x \in DOMAIN dylib2.segments : t = End(dylib2.segments[x])
    BY DEF dyld!Range, End
  <2>2. CASE x = 1
    BY <1>5, <1>6, <2>1, <2>2, Segments2, SlideAligned
  <2>3. CASE x # 1
    <3>1. PICK j \in DOMAIN elf.loads : x = j + 1
      BY <2>3, Segments2
    <3>2. t = End(Laid(j))
      BY <2>1, <3>1, Segments2
    <3> QED BY <1>3, <1>4, <3>2
  <2> QED BY <2>2, <2>3
<1>8. m \in T
  <2>1. n + 1 \in DOMAIN dylib2.segments /\ dylib2.segments[n + 1] = Laid(n)
    BY <1>1, Segments2, SMTT(30)
  <2> QED BY <2>1 DEF dyld!Range, End
<1>9. T \in SUBSET Int
  BY <1>7
<1>10. m \in Nat
  BY <1>1, <1>3
<1> HIDE DEF T, m
<1>11. Max(T) = m
  BY <1>7, <1>8, <1>9, MaxIs
<1>12. dyld!Max(T) = Max(T)
  BY DEF dyld!Max, Max
<1>13. Top(dylib2) = dyld!Max(T)
  BY DEF Top, T
<1> QED BY <1>4, <1>10, <1>11, <1>12, <1>13

\* What dyld leaves of Phase 2's image: every word of a load's contents as it is
\* in the image, and zero behind them.
LEMMA Loaded2Is ==
  ASSUME TypeOK, Loop2Inv, Written2, Dyld2Inv, pc2 # "idle", stage = "loaded", PageSeparated,
         NEW i \in DOMAIN elf.loads, NEW v \in Nat, InLoad(i, v)
  PROVE  /\ InFile(i, v) =>
              /\ Laid(i).data_fileoff + (v - elf.loads[i].vaddr) \in DOMAIN image2
              /\ Loaded(v) = image2[Laid(i).data_fileoff + (v - elf.loads[i].vaddr)]
         /\ ~InFile(i, v) => Loaded(v) = 0
<1> DEFINE a == Slide + v
           s == Laid(i)
           ph == elf.loads[i]
           o == s.data_fileoff + (v - ph.vaddr)
           over == {x \in DOMAIN dylib2.segments : dyld!Covers(dylib2.segments[x], a)}
<1>1. /\ pc2 = "done" /\ lib = dylib2
      /\ mem = [x \in 0 .. Top(dylib2) - 1 |-> dyld!MappedWord(dylib2, x)]
  BY DEF Dyld2Inv
<1>2. over = {i + 1} /\ s.vmaddr <= a /\ a < End(s)
  BY <1>1, Covers2
<1>3. Top(dylib2) \in Nat /\ End(s) <= Top(dylib2)
  BY <1>1, Top2
<1>4. /\ ph.vaddr \in Nat /\ ph.filesz \in Nat /\ ph.memsz \in Nat /\ ph.filesz <= ph.memsz
      /\ ph.vaddr <= v /\ v < ph.vaddr + ph.memsz
  BY LoadFacts DEF InLoad
<1>5. /\ s \in Segment /\ s.data_addr = Slide + ph.vaddr /\ PageSize <= s.fileoff
      /\ s.fileoff <= s.data_fileoff
      /\ s.data_fileoff + ph.filesz = FileEnd(s)
      /\ s.data_addr - s.vmaddr = s.data_fileoff - s.fileoff
  BY LaidFacts
<1>6. /\ s.vmaddr \in Nat /\ s.vmsize \in Nat /\ s.fileoff \in Nat /\ s.filesize \in Nat
      /\ s.data_fileoff \in Nat /\ Slide \in Nat /\ PageSize \in Nat /\ a \in Nat
  BY <1>5, SlideAligned, LayoutAssumption DEF Segment
<1> HIDE DEF s, ph, over
<1>7. a \in 0 .. Top(dylib2) - 1
  BY <1>2, <1>3, <1>6 DEF End
<1>8. Loaded(v) = dyld!MappedWord(dylib2, a)
  <2> HIDE DEF a
  <2>1. mem[a] = dyld!MappedWord(dylib2, a)
    BY <1>1, <1>7
  <2> QED BY <2>1 DEF Loaded, a
<1>9. dylib2.segments[i + 1] = s
  BY <1>1, Segments2 DEF s
<1>10. dyld!Max(over) = i + 1
  <2>1. i + 1 \in Int
    BY MapLoadsIs
  <2>2. PICK z : z = i + 1
    OBVIOUS
  <2>3. \E x \in {z} : \A y \in {z} : x >= y
    BY <2>1, <2>2
  <2> QED BY <1>2, <2>2, <2>3, Zenon DEF dyld!Max
<1>11. dyld!MappedWord(dylib2, a)
         = IF a - s.vmaddr >= s.filesize THEN 0 ELSE dylib2.file[s.fileoff + (a - s.vmaddr)]
  <2>1. dyld!MappedWord(dylib2, a)
         = LET seg == dylib2.segments[dyld!Max(over)] q == a - seg.vmaddr
           IN IF over = {} \/ q >= seg.filesize THEN 0 ELSE dylib2.file[seg.fileoff + q]
    BY Zenon DEF dyld!MappedWord, over
  <2> HIDE DEF a
  <2> QED BY <1>2, <1>9, <1>10, <2>1
<1>12. /\ a - s.vmaddr >= s.filesize <=> ~(v < ph.vaddr + ph.filesz)
       /\ s.fileoff + (a - s.vmaddr) = o
  BY <1>4, <1>5, <1>6 DEF FileEnd
<1>13. InFile(i, v) <=> v < ph.vaddr + ph.filesz
  BY <1>4 DEF InFile, ph
<1>14. ASSUME InFile(i, v)
       PROVE  o \in DOMAIN image2 /\ dylib2.file[o] = image2[o]
  <2>1. FileEnd(s) <= DataEnd2(MapLoads) /\ DataEnd2(MapLoads) \in Nat
    BY <1>1, ImageEnd2 DEF Loop2Inv, s
  <2>2. /\ DOMAIN image2 = 0 .. DataEnd2(MapLoads) - 1
    BY <1>1 DEF Loop2Inv
  <2>3. o \in Nat /\ o >= PageSize /\ o < FileEnd(s) /\ FileEnd(s) \in Nat
    BY <1>4, <1>5, <1>6, <1>13, <1>14
  <2> HIDE DEF o
  <2>4. o \in DOMAIN image2
    BY <2>1, <2>2, <2>3
  <2>5. HeaderSize2 <= PageSize /\ HeaderSize2 \in Int
    <3>1. loads = MapLoads /\ Len(MapLoads) \in Nat
      BY <1>1, MapLoadsIs DEF Loop2Inv
    <3>2. HeaderSize2 \in Int
      BY <3>1, Phase2Assumption DEF HeaderSize2
    <3> QED BY <1>1, <3>2 DEF Written2
  <2>6. dylib2.file[o] = IF o < HeaderSize2 THEN -1 ELSE image2[o]
    BY <1>1, <2>4 DEF Written2
  <2>7. ~(o < HeaderSize2)
    BY <1>6, <2>3, <2>5
  <2> QED BY <2>4, <2>6, <2>7
<1> HIDE DEF a, o
<1>15. InFile(i, v) => Loaded(v) = image2[o] /\ o \in DOMAIN image2
  BY <1>8, <1>11, <1>12, <1>13, <1>14
<1>16. ~InFile(i, v) => Loaded(v) = 0
  BY <1>8, <1>11, <1>12, <1>13
<1> QED BY <1>15, <1>16 DEF o, s, ph
-----------------------------------------------------------------------------
(* The properties of a translation, of all three phases.                   *)

\* What Phase 2 relies on in an object that dyld has loaded for it.
LEMMA Loaded2Facts ==
  ASSUME PhasesInv, pc2 # "idle", stage # "closed", Plain
  PROVE  /\ TypeOK /\ Loop2Inv /\ Written2 /\ Dyld2Inv /\ PageSeparated /\ PlacesApart
         /\ pc2 = "done" /\ base = 0 /\ pc = "construct" /\ step4 = "phase3" /\ stage # "fault"
         /\ Image2Copied /\ Image2Patched
         /\ \A j \in DOMAIN elf.relocs : j \in 1 .. k2 - 1 /\ Relocates(j)
         /\ \A j \in 1 .. k2 - 1 : j \in DOMAIN elf.relocs
         /\ DOMAIN image2 \in SUBSET Int
<1>1. /\ TypeOK /\ Loop2Inv /\ Written2 /\ Dyld2Inv /\ PageSeparated /\ PlacesApart
  BY DEF PhasesInv, AllInv, TranslatorInv, Phase3Inv, Plain
<1>2. pc2 = "done" /\ base = 0 /\ pc = "construct" /\ step4 = "phase3" /\ stage # "fault"
  BY <1>1 DEF Dyld2Inv
<1>3. elf.relocs \in Seq(Relocation) /\ k2 - 1 = Len(elf.relocs) /\ k2 \in Nat
  BY <1>1, <1>2 DEF TypeOK, WellFormed, Elf, Written2, Loop2Inv
<1>4. /\ Image2Copied /\ Image2Patched /\ \A j \in 1 .. k2 - 1 : Relocates(j)
      /\ DOMAIN image2 = 0 .. DataEnd2(MapLoads) - 1 /\ elf.loads # <<>>
  BY <1>1, <1>2 DEF Loop2Inv
<1>5. \A x \in DOMAIN image2 : x \in Int
  BY <1>1, <1>4, ImageEnd2
<1> QED BY <1>1, <1>2, <1>3, <1>4, <1>5

\* A word that Phase 2 has resolved nothing in is loaded as it is in the ELF.
LEMMA Untouched2 ==
  ASSUME PhasesInv, pc2 # "idle", stage = "loaded", Plain,
         NEW i \in DOMAIN elf.loads, NEW v \in Nat, InFile(i, v),
         \A j \in DOMAIN elf.relocs : Internal(j) => elf.relocs[j].offset # v
  PROVE  Loaded(v) = ElfWord(v)
<1>1. /\ TypeOK /\ Loop2Inv /\ Written2 /\ Dyld2Inv /\ PageSeparated
      /\ Image2Copied /\ DOMAIN image2 \in SUBSET Int
      /\ \A j \in 1 .. k2 - 1 : j \in DOMAIN elf.relocs /\ Relocates(j)
  BY Loaded2Facts
<1>2. PICK o : o = Laid(i).data_fileoff + (v - elf.loads[i].vaddr)
  OBVIOUS
<1>3. InLoad(i, v)
  BY <1>1, FileIsInLoad
<1>4. o \in DOMAIN image2 /\ Loaded(v) = image2[o] /\ o \in Int
  BY <1>1, <1>2, <1>3, Loaded2Is
<1>5. /\ Laid(i).data_fileoff \in Nat /\ elf.loads[i].vaddr \in Nat /\ elf.loads[i].filesz \in Nat
      /\ elf.loads[i].vaddr <= v /\ v < elf.loads[i].vaddr + elf.loads[i].filesz
  <2>1. Laid(i) \in Segment
    BY <1>1, LaidFacts
  <2>2. Laid(i).data_fileoff \in Nat
    BY <2>1 DEF Segment
  <2> QED BY <1>1, <2>2, LoadFacts DEF InFile
<1>6. /\ o - Laid(i).data_fileoff = v - elf.loads[i].vaddr
      /\ o - Laid(i).data_fileoff \in 0 .. elf.loads[i].filesz - 1
  BY <1>2, <1>5
<1>7. ASSUME NEW j \in 1 .. k2 - 1, Internal(j), Out2(j) = o PROVE FALSE
  <2>1. j \in DOMAIN elf.relocs /\ Relocates(j)
    BY <1>1
  <2>2. /\ Home(j) \in DOMAIN elf.loads /\ elf.relocs[j].offset \in Nat
        /\ Out2(j) - Laid(Home(j)).data_fileoff = elf.relocs[j].offset - elf.loads[Home(j)].vaddr
        /\ Out2(j) - Laid(Home(j)).data_fileoff \in 0 .. elf.loads[Home(j)].filesz - 1
    BY <1>1, <2>1, HomeFacts
  <2>3. Home(j) = i
    BY <1>1, <1>4, <1>6, <1>7, <2>2, LaidOwner
  <2>4. elf.relocs[j].offset = v
    BY <1>5, <1>6, <1>7, <2>2, <2>3
  <2> QED BY <1>7, <2>1, <2>4
<1>8. image2[o] = CopiedWord2(MapLoads, o)
  BY <1>1, <1>4, <1>7 DEF Image2Copied
<1>9. CopiedWord2(MapLoads, o) = elf.data[elf.loads[i].offset + (o - Laid(i).data_fileoff) + 1]
  BY <1>1, <1>4, <1>6, Copied2Is
<1>10. ElfWord(v) = elf.data[elf.loads[i].offset + (v - elf.loads[i].vaddr) + 1]
  BY <1>1, ElfWordIs
<1> QED BY <1>4, <1>6, <1>8, <1>9, <1>10

\* Where the relocations are once Phase 2's dylib is loaded.
LEMMA Reloc2Is ==
  ASSUME PhasesInv, pc2 # "idle", stage = "loaded", Plain, NEW j \in DOMAIN elf.relocs
  PROVE  /\ elf.relocs[j].offset \in Nat /\ elf.relocs[j].addend \in Int
         /\ Home(j) \in DOMAIN elf.loads /\ InFile(Home(j), elf.relocs[j].offset)
         /\ Loaded(elf.relocs[j].offset) = image2[Out2(j)]
         /\ elf.relocs[j].type # "RELATIVE" => elf.symbols[elf.relocs[j].symbol + 1].value \in Nat
<1>1. /\ TypeOK /\ Loop2Inv /\ Written2 /\ Dyld2Inv /\ PageSeparated /\ Relocates(j)
  BY Loaded2Facts
<1>2. /\ elf.relocs[j].offset \in Nat /\ elf.relocs[j].addend \in Int
      /\ Home(j) \in DOMAIN elf.loads /\ InFile(Home(j), elf.relocs[j].offset)
      /\ elf.relocs[j].type # "RELATIVE" => elf.symbols[elf.relocs[j].symbol + 1].value \in Nat
  BY <1>1, HomeFacts
<1>3. InLoad(Home(j), elf.relocs[j].offset)
  BY <1>1, <1>2, FileIsInLoad
<1>4. Loaded(elf.relocs[j].offset)
        = image2[Laid(Home(j)).data_fileoff + (elf.relocs[j].offset - elf.loads[Home(j)].vaddr)]
  BY <1>1, <1>2, <1>3, Loaded2Is
<1> QED BY <1>2, <1>4 DEF Out2

\* The pointers that Phase 2 has resolved.
LEMMA InternalRight2 ==
  ASSUME PhasesInv, pc2 # "idle", Plain
  PROVE  InternalPointersRight
<1> SUFFICES ASSUME stage = "loaded", NEW j \in DOMAIN elf.relocs, Internal(j)
             PROVE  Loaded(elf.relocs[j].offset) = BionicPointer(elf.relocs[j])
  <2>1. \A r \in Relocs : \E j \in DOMAIN elf.relocs : r = elf.relocs[j]
    BY DEF Relocs, Range
  <2> QED BY <2>1 DEF InternalPointersRight, Internal
<1>1. /\ TypeOK /\ PageSeparated /\ Image2Patched /\ base = 0 /\ j \in 1 .. k2 - 1
  BY Loaded2Facts
<1>2. PICK v, r : v = elf.relocs[j].offset /\ r = elf.relocs[j]
  OBVIOUS
<1>3. Loaded(v) = Word(Unslid(j))
  BY <1>1, <1>2, Reloc2Is DEF Image2Patched
<1>4. Unslid(j) = IF r.type = "RELATIVE" THEN Slide + r.addend
                  ELSE Slide + elf.symbols[r.symbol + 1].value + r.addend + Implicit(r)
  BY <1>2 DEF Unslid
<1>5. BionicPointer(r) = Word(IF r.type = "RELATIVE" THEN Bias + r.addend
                              ELSE Bias + elf.symbols[r.symbol + 1].value + r.addend + Implicit(r))
  BY <1>2 DEF BionicPointer, Internal
<1>6. Bias = Slide
  BY <1>1, SlideAligned DEF Bias
<1> QED BY <1>2, <1>3, <1>4, <1>5, <1>6

\* The words that it has left.
LEMMA ContentsKept2 ==
  ASSUME PhasesInv, pc2 # "idle", Plain
  PROVE  ContentsPreserved
<1> SUFFICES ASSUME stage = "loaded", NEW i \in DOMAIN elf.loads
             PROVE  /\ \A a \in FileWords(i) :
                         (\A r \in Relocs : r.offset # a) => Loaded(a) = ElfWord(a)
                    /\ \A a \in ZeroWords(i) : Loaded(a) = 0
  BY DEF ContentsPreserved
<1>1. TypeOK /\ Loop2Inv /\ Written2 /\ Dyld2Inv /\ PageSeparated
  BY Loaded2Facts
<1>2. /\ elf.loads[i].vaddr \in Nat /\ elf.loads[i].filesz \in Nat /\ elf.loads[i].memsz \in Nat
      /\ elf.loads[i].filesz <= elf.loads[i].memsz
  BY <1>1, LoadFacts
<1>3. ASSUME NEW a \in FileWords(i), \A r \in Relocs : r.offset # a
      PROVE  Loaded(a) = ElfWord(a)
  <2>1. a \in Nat /\ InFile(i, a)
    BY <1>2 DEF FileWords, InFile
  <2>2. \A j \in DOMAIN elf.relocs : elf.relocs[j].offset # a
    BY <1>3 DEF Relocs, Range
  <2> QED BY <2>1, <2>2, Untouched2
<1>4. ASSUME NEW a \in ZeroWords(i) PROVE Loaded(a) = 0
  <2>1. a \in Nat /\ ~InFile(i, a) /\ InLoad(i, a)
    BY <1>2 DEF ZeroWords, InFile, InLoad
  <2> QED BY <1>1, <2>1, Loaded2Is
<1> QED BY <1>3, <1>4

\* The imports that it has left.
LEMMA ImportsKept2 ==
  ASSUME PhasesInv, Plain
  PROVE  UnresolvedKept
<1> SUFFICES ASSUME pc2 = "done", stage = "loaded", NEW j \in DOMAIN elf.relocs, ~Internal(j)
             PROVE  Loaded(elf.relocs[j].offset) = ElfWord(elf.relocs[j].offset)
  <2>1. \A r \in Relocs : \E j \in DOMAIN elf.relocs : r = elf.relocs[j]
    BY DEF Relocs, Range
  <2> QED BY <2>1 DEF UnresolvedKept, Internal
<1>1. PlacesApart
  BY DEF Plain
<1>2. \A h \in DOMAIN elf.relocs : Internal(h) => elf.relocs[h].offset # elf.relocs[j].offset
  BY <1>1 DEF PlacesApart
<1>3. /\ elf.relocs[j].offset \in Nat /\ Home(j) \in DOMAIN elf.loads
      /\ InFile(Home(j), elf.relocs[j].offset)
  BY Reloc2Is
<1> QED BY <1>2, <1>3, Untouched2

\* translate's RELATIVE and internal symbolic relocations, end to end: once dyld
\* has run the opcodes of Phase 3's dylib or of Phase 4's, or has mapped Phase 2's
\* where it was linked to be, every pointer into the object is the one Bionic would
\* have written, for every ELF whose loads are in pages of their own and whose
\* relocations are for pointers of their own.
THEOREM InternalPointersAll == SpecAll => [](Plain => InternalPointersRight)
<1>1. PhasesInv => (Plain => InternalPointersRight)
  BY InternalRight, InternalRight2 DEF PhasesInv, AllInv
<1> QED BY <1>1, PhasesInvariant, PTL

\* The bindings end to end: an imported pointer is the shim's symbol plus the
\* relocation's own addend, unless another import's is left over.
THEOREM ImportedPointersAll == SpecAll => [](Plain => ImportsRightUpToAddend)
<1>1. PhasesInv => (Plain => ImportsRightUpToAddend)
  BY ImportsRight DEF PhasesInv, AllInv, Dyld2Inv, ImportsRightUpToAddend
<1> QED BY <1>1, PhasesInvariant, PTL

\* The layout end to end: what no relocation is for is loaded as it was in the
\* ELF, and the rest of every load is zero, whichever phase has translated it.
THEOREM ContentsPreservedAll == SpecAll => [](Plain => ContentsPreserved)
<1>1. PhasesInv => (Plain => ContentsPreserved)
  BY ContentsKept, ContentsKept2 DEF PhasesInv, AllInv
<1> QED BY <1>1, PhasesInvariant, PTL

\* LeaveUnresolved: the imports that Phase 2 reports are in its image as they were
\* in the ELF, whatever has been patched around them.
THEOREM UnresolvedImportsKept == SpecAll => [](Plain => UnresolvedKept)
<1>1. PhasesInv => (Plain => UnresolvedKept)
  BY ImportsKept2
<1> QED BY <1>1, PhasesInvariant, PTL

\* dyld accepts every fixup but those in loads that are not writable, and all that
\* Phase 2 asks of it.
THEOREM FaultsAreTextRelocsAll == SpecAll => [](PageSeparated => FaultsOnlyOnTextRelocs)
<1>1. PhasesInv => (PageSeparated => FaultsOnlyOnTextRelocs)
  BY FaultsExplained DEF PhasesInv, AllInv, Dyld2Inv, FaultsOnlyOnTextRelocs
<1> QED BY <1>1, PhasesInvariant, PTL

\* Phase 4's command_segments: the segments of its dylib follow each other in the
\* file and in memory.
THEOREM SegmentsContiguousAll == SpecAll => []SegmentsContiguous
<1>1. PhasesInv => SegmentsContiguous
  <2>1. EndToEndInv => SegmentsContiguous
    BY ContiguousWhenWritten DEF EndToEndInv, TranslatorInv
  <2>2. PhasesInv /\ pc2 # "idle" => step4 = "phase3"
    BY DEF PhasesInv, AllInv, Dyld2Inv
  <2> QED BY <2>1, <2>2 DEF PhasesInv, AllInv, SegmentsContiguous
<1> QED BY <1>1, PhasesInvariant, PTL

\* Phase 4's _exports: dlsym and the rebased pointers of the object agree on
\* every exported symbol.
THEOREM ExportsAgreeAll == SpecAll => [](Plain /\ NamesApart => ExportsAgree)
<1>1. PhasesInv => (Plain /\ NamesApart => ExportsAgree)
  BY ExportsRight DEF PhasesInv, AllInv, Dyld2Inv, ExportsAgree
<1> QED BY <1>1, PhasesInvariant, PTL
-----------------------------------------------------------------------------
(* Phase 2 keeps the contract.                                             *)

\* What the contract knows of a translation, from how far it has come.
Outcome(done, error) ==
  IF done THEN [status |-> "done", tally |-> Tally(elf)]
  ELSE [status |-> IF error THEN "refused" ELSE "pending"]

\* The contract's words are the ones of ElfFile.
LEMMA SameTally ==
  /\ C2!Tally(elf) = Tally(elf) /\ C3!Tally(elf) = Tally(elf) /\ C4!Tally(elf) = Tally(elf)
<1>1. C2!Tally(elf) = Tally(elf)
  BY Zenon DEF C2!Tally, Tally, IsImport, C2!IsImport, ImportsOf, C2!ImportsOf, Range, C2!Range,
              Cardinality, C2!Cardinality, IsFiniteSet, C2!IsFiniteSet
<1>2. C3!Tally(elf) = Tally(elf)
  BY Zenon DEF C3!Tally, Tally, IsImport, C3!IsImport, ImportsOf, C3!ImportsOf, Range, C3!Range,
              Cardinality, C3!Cardinality, IsFiniteSet, C3!IsFiniteSet
<1>3. C4!Tally(elf) = Tally(elf)
  BY Zenon DEF C4!Tally, Tally, IsImport, C4!IsImport, ImportsOf, C4!ImportsOf, Range, C4!Range,
              Cardinality, C4!Cardinality, IsFiniteSet, C4!IsFiniteSet
<1> QED BY <1>1, <1>2, <1>3

\* Phase 2 moves on as the contract says.
LEMMA Contract2Step ==
  ASSUME elf' = elf,
         pc2 = "done" => Accepts2(elf), pc2' = "done" => Accepts2(elf),
         pc2 = "error" => ~Accepts2(elf), pc2' = "error" => ~Accepts2(elf),
         Result2 = Outcome(pc2 = "done", pc2 = "error"),
         Result2' = Outcome(pc2 = "done", pc2 = "error")',
         pc2 \in {"done", "error"} => pc2' = pc2
  PROVE  [C2!Translate]_<<elf, Result2>>
<1> USE SameTally DEF C2!Translate, C2!Done, C2!Refused, C2!Pending, Outcome
<1>1. CASE pc2 \in {"done", "error"}
  BY <1>1
<1>2. CASE pc2 \notin {"done", "error"} /\ pc2' \notin {"done", "error"}
  BY <1>2
<1>3. CASE pc2 \notin {"done", "error"} /\ pc2' = "done"
  BY <1>3
<1>4. CASE pc2 \notin {"done", "error"} /\ pc2' = "error"
  BY <1>4
<1> QED BY <1>1, <1>2, <1>3, <1>4

\* A count of names that is right for every name is the tally's.
LEMMA CountsAreTally ==
  ASSUME TypeOK, \A j \in DOMAIN elf.relocs : Relocates(j), NEW f, IsFiniteSet(DOMAIN f),
         \A x \in DOMAIN f : f[x] \in STRING,
         \A s \in STRING : Cardinality(Naming(f, s)) = Cardinality(LeftTo(s, Len(elf.relocs)))
  PROVE  Count(f) = Tally(elf).imports
<1> DEFINE n == Len(elf.relocs)
           Named(s) == {j \in DOMAIN elf.relocs :
                          /\ IsImport(elf, elf.relocs[j])
                          /\ elf.symbols[elf.relocs[j].symbol + 1].name = s}
<1>1. elf.relocs \in Seq(Relocation) /\ n \in Nat /\ DOMAIN elf.relocs = 1 .. n
  BY DEF TypeOK, WellFormed, Elf
<1>2. \A s : Named(s) = LeftTo(s, n)
  BY <1>1 DEF LeftTo, Internal, Binds, IsImport
<1>3. Tally(elf).imports = [s \in ImportsOf(elf) |-> Cardinality(Named(s))]
  BY DEF Tally
<1>4. ImportsOf(elf) = {s \in STRING : Named(s) # {}}
  <2>1. ASSUME NEW s \in ImportsOf(elf) PROVE s \in STRING /\ Named(s) # {}
    <3>1. PICK r \in Range(elf.relocs) : IsImport(elf, r) /\ s = elf.symbols[r.symbol + 1].name
      BY DEF ImportsOf
    <3>2. PICK j \in DOMAIN elf.relocs : r = elf.relocs[j]
      BY DEF Range
    <3>3. r.type # "RELATIVE"
      BY <3>1 DEF IsImport
    <3>4. s \in STRING
      BY <3>1, <3>2, <3>3, HomeFacts
    <3>5. j \in Named(s)
      BY <3>1, <3>2
    <3> QED BY <3>4, <3>5
  <2>2. ASSUME NEW s, Named(s) # {} PROVE s \in ImportsOf(elf)
    <3>1. PICK j \in DOMAIN elf.relocs : /\ IsImport(elf, elf.relocs[j])
                                         /\ elf.symbols[elf.relocs[j].symbol + 1].name = s
      BY <2>2
    <3>2. elf.relocs[j] \in Range(elf.relocs)
      BY DEF Range
    <3> QED BY <3>1, <3>2 DEF ImportsOf
  <2> HIDE DEF Named
  <2> QED BY <2>1, <2>2
<1> HIDE DEF Named, n
<1>5. \A s \in STRING : Naming(f, s) = {} <=> Named(s) = {}
  <2> TAKE s \in STRING
  <2>1. IsFiniteSet(Naming(f, s))
    BY FS_Subset DEF Naming
  <2>2. IsFiniteSet(Named(s))
    <3>1. IsFiniteSet(1 .. n)
      BY <1>1, FS_Interval
    <3>2. Named(s) \subseteq 1 .. n
      BY <1>2 DEF LeftTo
    <3> QED BY <3>1, <3>2, FS_Subset
  <2>3. Cardinality(Naming(f, s)) = Cardinality(Named(s))
    BY <1>2 DEF n
  <2> QED BY <2>1, <2>2, <2>3, FS_EmptySet
<1>6. Range(f) = {s \in STRING : Naming(f, s) # {}}
  BY DEF Range, Naming
<1>7. Range(f) = ImportsOf(elf)
  BY <1>4, <1>5, <1>6
<1>8. Count(f) = [s \in Range(f) |-> Cardinality(Naming(f, s))]
  BY Zenon DEF Count, Naming
<1>9. \A s \in Range(f) : Cardinality(Naming(f, s)) = Cardinality(Named(s))
  BY <1>2, <1>6 DEF n
<1> QED BY <1>3, <1>7, <1>8, <1>9

\* What was accepted, relocation by relocation.
LEMMA RelocatableIs ==
  (\A j \in DOMAIN elf.relocs : Relocates(j)) <=> Relocatable(elf)
BY DEF Relocates, Relocatable, Range

\* The relocations resolved are those that are not imports.
LEMMA ResolvedIsTally ==
  ASSUME TypeOK
  PROVE  Tally(elf).internal = Cardinality(ResolvedIn(Len(elf.relocs)))
<1>1. elf.relocs \in Seq(Relocation)
  BY DEF TypeOK, WellFormed, Elf
<1>2. DOMAIN elf.relocs = 1 .. Len(elf.relocs)
  BY <1>1
<1>3. {j \in DOMAIN elf.relocs : ~IsImport(elf, elf.relocs[j])} = ResolvedIn(Len(elf.relocs))
  BY <1>2 DEF ResolvedIn, Internal, Binds, IsImport
<1> QED BY <1>3 DEF Tally

\* Phase 2 has written what it can translate, with every relocation accounted for.
LEMMA Outcome2 ==
  ASSUME PhasesInv
  PROVE  /\ pc2 = "done" => Accepts2(elf)
         /\ pc2 = "error" => ~Accepts2(elf)
         /\ Result2 = Outcome(pc2 = "done", pc2 = "error")
<1>1. TypeOK /\ Loop2Inv /\ Report2Inv /\ Written2 /\ Refused2
  BY DEF PhasesInv, AllInv, TranslatorInv, Phase3Inv
<1>2. pc2 = "error" => ~Accepts2(elf)
  BY <1>1 DEF Refused2
<1>3. ASSUME pc2 = "done"
      PROVE  Accepts2(elf) /\ [internal |-> Sum(patched2), imports |-> Count(unresolved)] = Tally(elf)
  <2>1. /\ k2 - 1 = Len(elf.relocs) /\ HeaderSize2 <= PageSize
        /\ elf.supported /\ elf.loads # <<>> /\ loads = MapLoads
        /\ \A j \in 1 .. k2 - 1 : Relocates(j)
    BY <1>1, <1>3 DEF Written2, Loop2Inv
  <2>2. DOMAIN elf.relocs = 1 .. Len(elf.relocs)
    BY <1>1 DEF TypeOK, WellFormed, Elf
  <2>3. \A j \in DOMAIN elf.relocs : Relocates(j)
    BY <2>1, <2>2
  <2>4. HeaderSize2 = FixedCommandSize2 + SegmentCommandSize2 * (Len(elf.loads) + 1)
    BY <1>1, <2>1, MapLoadsIs DEF HeaderSize2
  <2>5. Accepts2(elf)
    BY <2>1, <2>3, <2>4, RelocatableIs DEF Accepts2
  <2>6. /\ Sum(patched2) = Cardinality(ResolvedIn(Len(elf.relocs))) /\ unresolved \in Seq(STRING)
        /\ \A s \in STRING : Cardinality(Naming(unresolved, s))
                               = Cardinality(LeftTo(s, Len(elf.relocs)))
    BY <1>1, <1>3, <2>1 DEF Report2Inv
  <2>7. Count(unresolved) = Tally(elf).imports
    <3>1. IsFiniteSet(DOMAIN unresolved) /\ \A x \in DOMAIN unresolved : unresolved[x] \in STRING
      <4>1. DOMAIN unresolved = 1 .. Len(unresolved) /\ Len(unresolved) \in Nat
        BY <2>6
      <4>2. IsFiniteSet(1 .. Len(unresolved))
        BY <4>1, FS_Interval
      <4> QED BY <2>6, <4>1, <4>2
    <3> QED BY <1>1, <2>3, <2>6, <3>1, CountsAreTally
  <2>8. Sum(patched2) = Tally(elf).internal
    BY <1>1, <2>6, ResolvedIsTally
  <2>9. Tally(elf) = [internal |-> Tally(elf).internal, imports |-> Tally(elf).imports]
    BY DEF Tally
  <2> QED BY <2>5, <2>7, <2>8, <2>9
<1>4. Result2 = Outcome(pc2 = "done", pc2 = "error")
  BY <1>3 DEF Result2, Outcome
<1> QED BY <1>2, <1>3, <1>4
-----------------------------------------------------------------------------
(* What Phase 3 accepts, and what its report counts.                       *)

\* What Phase 3 asks of the loads, in terms of the ELF alone.
LEMMA AcceptsElfIs ==
  ASSUME TypeOK
  PROVE  AcceptsElf <=> elf.supported /\ elf.loads # <<>> /\ TextFirst(elf)
<1>1. elf.loads # <<>> => elf.loads[1].flags \in 0 .. 7
  <2>1. elf.loads \in Seq(LoadHeader)
    BY DEF TypeOK, WellFormed, Elf
  <2>2. elf.loads # <<>> => 1 \in DOMAIN elf.loads
    BY <2>1
  <2>3. elf.loads # <<>> => elf.loads[1] \in LoadHeader
    BY <2>1, <2>2
  <2> QED BY <2>3 DEF LoadHeader
<1>2. \A f \in 0 .. 7 : Flag(f, 1) <=> f % 2 = 1
  <2>1. \A f \in 0 .. 7 : f \div 1 = f
    OBVIOUS
  <2> QED BY <2>1 DEF Flag
<1> QED BY <1>1, <1>2 DEF AcceptsElf, TextFirst

\* The loop accepts a relocation where the ELF allows it, and places it in the
\* first load that holds its address.
LEMMA AcceptedIs ==
  ASSUME Phase3Inv, pc \in {"relocate", "done"}, NEW j \in DOMAIN elf.relocs
  PROVE  /\ Accepted(j) <=> Relocates(j)
         /\ Accepted(j) => At(j).seg + 1 = Home(j) /\ At(j).seg \in Nat
         /\ elf.relocs[j].type \in RelocTypes
<1> DEFINE v == elf.relocs[j].offset
<1>1. TypeOK /\ LayoutSound /\ LayoutProgress
  BY DEF Phase3Inv
<1>2. /\ elf.relocs \in Seq(Relocation) /\ elf.symbols \in Seq(Symbol)
      /\ elf.loads \in Seq(LoadHeader) /\ segments \in Seq(Segment)
  BY <1>1 DEF TypeOK, WellFormed, Elf
<1>3. v \in Nat /\ elf.relocs[j].symbol \in Nat /\ elf.relocs[j].type \in RelocTypes
  <2>1. elf.relocs[j] \in Relocation
    BY <1>2
  <2> QED BY <2>1 DEF Relocation
<1>4. DOMAIN segments = DOMAIN elf.loads
  BY <1>1, <1>2 DEF LayoutProgress
<1>5. Holding(v) = LoadsOf(elf, elf.relocs[j])
  <2>1. ASSUME NEW i \in DOMAIN segments
        PROVE  /\ segments[i].elf_vaddr = elf.loads[i].vaddr
               /\ segments[i].elf_filesz = elf.loads[i].filesz
               /\ elf.loads[i].vaddr \in Nat /\ elf.loads[i].filesz \in Nat
    BY <1>1, <1>4, SegmentOfLoad, LoadFacts
  <2>2. ASSUME NEW i \in DOMAIN segments
        PROVE  segments[i].elf_vaddr <= v /\ v < segments[i].elf_vaddr + segments[i].elf_filesz
                 <=> v - elf.loads[i].vaddr \in 0 .. elf.loads[i].filesz - 1
    <3> HIDE DEF v
    <3> QED BY <1>3, <2>1
  <2> HIDE DEF v
  <2> QED BY <1>4, <2>2 DEF Holding, LoadsOf, v
<1>6. Accepted(j) <=> Relocates(j)
  <2>1. elf.relocs[j].symbol < Len(elf.symbols) <=> elf.relocs[j].symbol + 1 \in DOMAIN elf.symbols
    BY <1>2, <1>3, SMTT(30)
  <2> QED BY <1>3, <1>5, <2>1 DEF Accepted, Relocates, RelocTypes
<1>7. ASSUME Accepted(j) PROVE At(j).seg + 1 = Home(j) /\ At(j).seg \in Nat
  <2> DEFINE i == CHOOSE i \in Holding(v) : \A h \in Holding(v) : i <= h
  <2>1. /\ Home(j) \in Holding(v) /\ \A h \in Holding(v) : Home(j) <= h
    BY <1>1, <1>5, <1>6, <1>7, HomeFacts
  <2>2. i \in Holding(v) /\ \A h \in Holding(v) : i <= h
    BY <2>1
  <2>3. Holding(v) \subseteq Nat \ {0}
    BY <1>2 DEF Holding
  <2>4. At(j).seg = i - 1
    BY Zenon DEF At, Location
  <2> HIDE DEF i, v
  <2> QED BY <2>1, <2>2, <2>3, <2>4
<1> QED BY <1>3, <1>6, <1>7

\* After the loop, the opcodes can name the segments where the ELF allows it.
LEMMA EncodableIs ==
  ASSUME Phase3Inv, LoopInv, pc \in {"relocate", "done"}, k - 1 = Len(elf.relocs)
  PROVE  SegmentsEncodable
           <=> \A r \in Range(elf.relocs) : Min(LoadsOf(elf, r)) <= MaxOpcodeSegments
<1>1. FixupsExact
  BY DEF LoopInv
<1>2. DOMAIN elf.relocs = 1 .. k - 1
  <2>1. elf.relocs \in Seq(Relocation)
    BY DEF Phase3Inv, TypeOK, WellFormed, Elf
  <2> QED BY <2>1
<1>3. \A j \in DOMAIN elf.relocs : At(j).seg + 1 = Home(j) /\ At(j).seg \in Nat
  BY <1>1, <1>2, AcceptedIs DEF FixupsExact
<1>4. MaxOpcodeSegments \in Nat
  BY LayoutAssumption
<1>5. ASSUME NEW j \in DOMAIN elf.relocs
      PROVE  At(j).seg < MaxOpcodeSegments <=> Home(j) <= MaxOpcodeSegments
  <2>1. At(j).seg + 1 = Home(j) /\ At(j).seg \in Nat
    BY <1>3
  <2> QED BY <1>4, <2>1
<1>6. SegmentsEncodable <=> \A j \in DOMAIN elf.relocs : At(j).seg < MaxOpcodeSegments
  <2>1. ASSUME SegmentsEncodable, NEW j \in DOMAIN elf.relocs PROVE At(j).seg < MaxOpcodeSegments
    BY <1>1, <1>2, <2>1 DEF SegmentsEncodable, FixupsExact, RebaseFor, BindFor
  <2>2. ASSUME \A j \in DOMAIN elf.relocs : At(j).seg < MaxOpcodeSegments
        PROVE  SegmentsEncodable
    BY <1>1, <1>2, <2>2 DEF SegmentsEncodable, FixupsExact, RebaseFor, BindFor
  <2> QED BY <2>1, <2>2
<1>7. (\A r \in Range(elf.relocs) : Min(LoadsOf(elf, r)) <= MaxOpcodeSegments)
        <=> \A j \in DOMAIN elf.relocs : Home(j) <= MaxOpcodeSegments
  BY DEF Home, Range
<1> QED BY <1>5, <1>6, <1>7

\* The bindings of a name.
BoundTo(s) == {i \in DOMAIN bindings : bindings[i].symbol = s}

\* What Phase 3's report counts, and what it has refused.
Report3Inv ==
  /\ pc \in {"construct", "layout"} => Sum(patched) = 0
  /\ pc \in {"layout", "relocate", "done"} => AcceptsElf
  /\ pc \in {"relocate", "done"} =>
       /\ Sum(patched) = Cardinality(ResolvedIn(k - 1))
       /\ Len(rebases) = Cardinality(ResolvedIn(k - 1))
       /\ \A s \in STRING : Cardinality(BoundTo(s)) = Cardinality(LeftTo(s, k - 1))
  /\ pc = "done" =>
       /\ SegmentsEncodable
       /\ out.imports = [s \in {bindings[i].symbol : i \in DOMAIN bindings} |->
                           Cardinality(BoundTo(s))]
  /\ pc = "error" => ~Accepts3(elf)
-----------------------------------------------------------------------------
(* Every relocation keeps the counts of Phase 3.                           *)

\* One more rebase keeps Phase 3's counts.
LEMMA Report3Patch ==
  ASSUME Phase3Inv, Report3Inv, AtReloc, Accepted(k), Internal(k), NEW value, PatchAndRebase(value)
  PROVE  Report3Inv'
<1> DEFINE place == [seg |-> Loc.seg, off |-> Loc.off]
<1>1. /\ pc = "relocate" /\ k \in Nat \ {0} /\ k \in DOMAIN elf.relocs
      /\ rebases \in Seq(Place) /\ bindings \in Seq(Binding)
  BY LoopFacts
<1>2. /\ rebases' = Append(rebases, place) /\ patched' = [patched EXCEPT ![Rel.type] = @ + 1]
      /\ k' = k + 1 /\ elf' = elf /\ pc' = pc /\ bindings' = bindings
  BY DEF PatchAndRebase
<1>3. Rel.type \in {"RELATIVE", "ABS64", "GLOB_DAT", "JUMP_SLOT"}
  BY DEF Accepted, Rel
<1>4. patched \in [{"RELATIVE", "ABS64", "GLOB_DAT", "JUMP_SLOT"} -> Nat]
  BY DEF Phase3Inv, TypeOK
<1>5. Sum(patched') = Sum(patched) + 1
  BY <1>2, <1>3, <1>4, SumCounted
<1>6. Len(rebases') = Len(rebases) + 1
  <2> HIDE DEF place
  <2> QED BY <1>1, <1>2
<1>7. k - 1 \in Nat /\ (k - 1) + 1 = k /\ k' - 1 = k
  BY <1>1, <1>2
<1>8. /\ Cardinality(ResolvedIn(k)) = Cardinality(ResolvedIn(k - 1)) + 1
      /\ \A s : LeftTo(s, k) = LeftTo(s, k - 1)
  BY <1>7, RelocsCounted
<1>9. /\ ResolvedIn(k - 1)' = ResolvedIn(k)
      /\ \A s : LeftTo(s, k - 1)' = LeftTo(s, k)
  BY <1>2, <1>7, SameCounts
<1>10. /\ Sum(patched) = Cardinality(ResolvedIn(k - 1))
       /\ Len(rebases) = Cardinality(ResolvedIn(k - 1))
       /\ \A s \in STRING : Cardinality(BoundTo(s)) = Cardinality(LeftTo(s, k - 1))
       /\ AcceptsElf
  BY <1>1 DEF Report3Inv
<1>11. Sum(patched)' = Cardinality(ResolvedIn(k - 1))'
  BY <1>5, <1>8, <1>9, <1>10 DEF Sum
<1>12. Len(rebases)' = Cardinality(ResolvedIn(k - 1))'
  BY <1>6, <1>8, <1>9, <1>10
<1>13. \A s : BoundTo(s)' = BoundTo(s)
  BY <1>2 DEF BoundTo
<1>14. AcceptsElf'
  BY <1>2, <1>10 DEF AcceptsElf
<1> QED BY <1>1, <1>2, <1>8, <1>9, <1>10, <1>11, <1>12, <1>13, <1>14 DEF Report3Inv

\* One more binding keeps Phase 3's counts.
LEMMA Report3Bind ==
  ASSUME Phase3Inv, Report3Inv, BindExternal
  PROVE  Report3Inv'
<1>0. PICK b, n : /\ b = [seg |-> Loc.seg, off |-> Loc.off, symbol |-> Sym.name,
                          addend |-> Rel.addend + Existing]
                  /\ n = Len(bindings)
  OBVIOUS
<1>1. /\ AtReloc /\ Holding(Rel.offset) # {} /\ SymbolicRel /\ ~Sym.defined
      /\ bindings' = Append(bindings, b) /\ k' = k + 1 /\ elf' = elf /\ pc' = pc
      /\ rebases' = rebases /\ patched' = patched
  BY <1>0 DEF BindExternal
<1>2. /\ pc = "relocate" /\ k \in Nat \ {0} /\ bindings \in Seq(Binding)
  BY <1>1, LoopFacts
<1>3. ~Internal(k) /\ Sym = elf.symbols[elf.relocs[k].symbol + 1]
  BY <1>1 DEF Internal, Binds, Sym, Rel, SymbolicRel
<1>4. b.symbol = Sym.name
  BY <1>0
<1>5. /\ n \in Nat /\ DOMAIN bindings = 1 .. n /\ DOMAIN bindings' = 1 .. n + 1
      /\ bindings'[n + 1] = b /\ \A i \in 1 .. n : bindings'[i] = bindings[i]
  <2> DEFINE S == Binding \cup {b}
  <2>1. bindings \in Seq(S) /\ b \in S
    BY <1>2
  <2> HIDE DEF S
  <2> QED BY <1>0, <1>1, <2>1, Appended
<1>6. ASSUME NEW s
      PROVE  /\ s = Sym.name => Cardinality(BoundTo(s)') = Cardinality(BoundTo(s)) + 1
             /\ s # Sym.name => BoundTo(s)' = BoundTo(s)
  <2>1. BoundTo(s) \in SUBSET (1 .. n)
    BY <1>5 DEF BoundTo
  <2>2. Cardinality(BoundTo(s) \cup {n + 1}) = Cardinality(BoundTo(s)) + 1
    BY <1>5, <2>1, IndexSets
  <2>3. 1 .. n + 1 = (1 .. n) \cup {n + 1} /\ n + 1 \notin 1 .. n
    BY <1>5
  <2>4. s = Sym.name => BoundTo(s)' = BoundTo(s) \cup {n + 1}
    BY <1>4, <1>5, <2>3 DEF BoundTo
  <2>5. s # Sym.name => BoundTo(s)' = BoundTo(s)
    BY <1>4, <1>5, <2>3 DEF BoundTo
  <2> QED BY <2>2, <2>4, <2>5
<1>7. k - 1 \in Nat /\ (k - 1) + 1 = k /\ k' - 1 = k
  BY <1>1, <1>2
<1>8. /\ ResolvedIn(k) = ResolvedIn(k - 1)
      /\ \A s : IF s = Sym.name
                THEN Cardinality(LeftTo(s, k)) = Cardinality(LeftTo(s, k - 1)) + 1
                ELSE LeftTo(s, k) = LeftTo(s, k - 1)
  BY <1>3, <1>7, RelocsCounted
<1>9. /\ ResolvedIn(k - 1)' = ResolvedIn(k)
      /\ \A s : LeftTo(s, k - 1)' = LeftTo(s, k)
  BY <1>1, <1>7, SameCounts
<1>10. /\ Sum(patched) = Cardinality(ResolvedIn(k - 1))
       /\ Len(rebases) = Cardinality(ResolvedIn(k - 1))
       /\ \A s \in STRING : Cardinality(BoundTo(s)) = Cardinality(LeftTo(s, k - 1))
       /\ AcceptsElf
  BY <1>2 DEF Report3Inv
<1>11. \A s \in STRING : Cardinality(BoundTo(s)') = Cardinality(LeftTo(s, k - 1))'
  BY <1>6, <1>8, <1>9, <1>10
<1>12. Sum(patched)' = Cardinality(ResolvedIn(k - 1))' /\ Len(rebases)' = Cardinality(ResolvedIn(k - 1))'
  BY <1>1, <1>8, <1>9, <1>10 DEF Sum
<1>13. AcceptsElf'
  BY <1>1, <1>10 DEF AcceptsElf
<1> QED BY <1>1, <1>2, <1>11, <1>12, <1>13 DEF Report3Inv

\* Every step of Phase 3 keeps its report right, and it refuses only what it must.
LEMMA Report3Step ==
  ASSUME Phase3Inv, LoopInv, Report3Inv, [Next]_vars
  PROVE  Report3Inv'
<1>1. TypeOK /\ LayoutProgress /\ FixupsMatchRelocs /\ k \in Nat \ {0} /\ Len(elf.relocs) \in Nat
  BY SMTT(30) DEF Phase3Inv, TypeOK, WellFormed, Elf
<1>2. ASSUME Fail, ~Accepts3(elf) PROVE Report3Inv'
  <2>1. pc' = "error" /\ elf' = elf
    BY <1>2 DEF Fail
  <2>2. ~Accepts3(elf)'
    BY <1>2, <2>1 DEF Accepts3, TextFirst, Relocatable, LoadsOf
  <2> QED BY <2>1, <2>2 DEF Report3Inv
<1>3. CASE RejectElf
  <2>1. Fail /\ ~AcceptsElf
    BY <1>3 DEF RejectElf
  <2>2. ~Accepts3(elf)
    BY <1>1, <2>1, AcceptsElfIs DEF Accepts3
  <2> QED BY <1>2, <2>1, <2>2
<1>4. CASE RejectReloc
  <2>1. /\ Fail /\ AtReloc
        /\ Holding(Rel.offset) = {} \/ (Rel.type # "RELATIVE" /\ ~SymbolicRel)
    BY <1>4 DEF RejectReloc
  <2>2. pc = "relocate" /\ k \in DOMAIN elf.relocs
    BY <2>1, LoopFacts
  <2>3. ~Accepted(k)
    BY <2>1 DEF Accepted, Rel, SymbolicRel
  <2>4. ~Relocates(k)
    BY <2>2, <2>3, AcceptedIs
  <2>5. ~Accepts3(elf)
    BY <2>2, <2>4, RelocatableIs DEF Accepts3
  <2> QED BY <1>2, <2>1, <2>5
<1>5. CASE RejectOutput
  <2>1. Fail /\ ~(SegmentsEncodable /\ HeaderFits) /\ pc = "relocate" /\ k > Len(elf.relocs)
    BY <1>5 DEF RejectOutput, AtEnd
  <2>2. k - 1 = Len(elf.relocs)
    BY <1>1, <2>1 DEF FixupsMatchRelocs
  <2>3. SegmentsEncodable
          <=> \A r \in Range(elf.relocs) : Min(LoadsOf(elf, r)) <= MaxOpcodeSegments
    BY <2>1, <2>2, EncodableIs
  <2>4. HeaderFits <=> FixedCommandSize + SegmentCommandSize * Len(elf.loads) <= HeaderReserve
    BY <1>1, <2>1 DEF LayoutProgress, HeaderFits, HeaderSize
  <2>5. ~Accepts3(elf)
    BY <2>1, <2>3, <2>4 DEF Accepts3
  <2> QED BY <1>2, <2>1, <2>5
<1>6. CASE LayoutText
  <2>1. /\ pc = "construct" /\ AcceptsElf /\ pc' = "layout" /\ elf' = elf /\ patched' = patched
    BY <1>6 DEF LayoutText
  <2>2. Sum(patched)' = 0 /\ AcceptsElf'
    BY <2>1 DEF Report3Inv, Sum, AcceptsElf
  <2> QED BY <2>1, <2>2 DEF Report3Inv
<1>7. CASE LayoutLoad
  <2>1. /\ pc = "layout" /\ pc' = "layout" /\ elf' = elf /\ patched' = patched
    BY <1>7 DEF LayoutLoad
  <2>2. Sum(patched)' = 0 /\ AcceptsElf'
    BY <2>1 DEF Report3Inv, Sum, AcceptsElf
  <2> QED BY <2>1, <2>2 DEF Report3Inv
<1>8. CASE CopyLoads
  <2>1. /\ pc = "layout" /\ pc' = "relocate" /\ elf' = elf /\ patched' = patched /\ k' = 1
        /\ rebases' = rebases /\ bindings' = bindings
    BY <1>8 DEF CopyLoads
  <2>2. Sum(patched)' = 0 /\ AcceptsElf' /\ k' - 1 = 0
    BY <2>1 DEF Report3Inv, Sum, AcceptsElf
  <2>3. rebases' = <<>> /\ bindings' = <<>>
    BY <1>1, <2>1 DEF LayoutProgress
  <2>4. ResolvedIn(k - 1)' = {} /\ \A s : LeftTo(s, k - 1)' = {}
    <3>1. ResolvedIn(0) = {} /\ \A s : LeftTo(s, 0) = {}
      BY DEF ResolvedIn, LeftTo
    <3>2. ResolvedIn(k - 1)' = ResolvedIn(0) /\ \A s : LeftTo(s, k - 1)' = LeftTo(s, 0)
      BY <2>1, <2>2, SameCounts
    <3> QED BY <3>1, <3>2
  <2>5. Len(rebases)' = 0 /\ \A s : BoundTo(s)' = {}
    BY <2>3 DEF BoundTo
  <2>6. Cardinality({}) = 0
    BY FS_EmptySet
  <2> QED BY <2>1, <2>2, <2>4, <2>5, <2>6 DEF Report3Inv
<1>9. CASE PatchRelative
  <2>1. /\ AtReloc /\ PatchAndRebase(Slide + Rel.addend) /\ Accepted(k) /\ Internal(k)
    BY <1>9 DEF PatchRelative, Accepted, Internal, Binds, Rel
  <2> QED BY <2>1, Report3Patch
<1>10. CASE PatchInternal
  <2>1. /\ AtReloc /\ PatchAndRebase(Slide + Sym.value + Rel.addend + Existing)
        /\ Accepted(k) /\ Internal(k)
    BY <1>10 DEF PatchInternal, Accepted, Internal, Binds, Rel, Sym, SymbolicRel
  <2> QED BY <2>1, Report3Patch
<1>11. CASE BindExternal
  BY <1>11, Report3Bind
<1>12. CASE WriteDylib
  <2>1. /\ pc = "relocate" /\ pc' = "done" /\ SegmentsEncodable /\ elf' = elf /\ patched' = patched
        /\ k' = k /\ rebases' = rebases /\ bindings' = bindings
        /\ out'.imports = [s \in {bindings[i].symbol : i \in DOMAIN bindings} |->
                             Cardinality({i \in DOMAIN bindings : bindings[i].symbol = s})]
    BY <1>12 DEF WriteDylib, AtEnd
  <2>2. /\ ResolvedIn(k - 1)' = ResolvedIn(k - 1)
        /\ \A s : LeftTo(s, k - 1)' = LeftTo(s, k - 1)
    BY <2>1, SameCounts
  <2>3. Sum(patched)' = Sum(patched) /\ AcceptsElf' = AcceptsElf
    BY <2>1 DEF Sum, AcceptsElf
  <2>4. \A s : BoundTo(s)' = BoundTo(s) /\ BoundTo(s) = {i \in DOMAIN bindings : bindings[i].symbol = s}
    BY <2>1 DEF BoundTo
  <2>5. out.imports' = [s \in {bindings[i].symbol : i \in DOMAIN bindings} |->
                           Cardinality(BoundTo(s))]'
    <3> DEFINE D == {bindings[i].symbol : i \in DOMAIN bindings}
    <3>1. [s \in D |-> Cardinality(BoundTo(s))]
            = [s \in D |-> Cardinality({i \in DOMAIN bindings : bindings[i].symbol = s})]
      BY Zenon DEF BoundTo
    <3>2. D' = D /\ \A s : Cardinality(BoundTo(s))' = Cardinality(BoundTo(s))
      BY <2>1, <2>4
    <3>3. out'.imports = [s \in D |-> Cardinality(BoundTo(s))]
      BY <2>1, <3>1
    <3>4. [s \in D' |-> Cardinality(BoundTo(s))'] = [s \in D |-> Cardinality(BoundTo(s))]
      <4> HIDE DEF D
      <4> QED BY <3>2
    <3> QED BY <3>3, <3>4
  <2>6. SegmentsEncodable'
    BY <2>1 DEF SegmentsEncodable
  <2> QED BY <2>1, <2>2, <2>3, <2>4, <2>5, <2>6 DEF Report3Inv
<1>13. CASE UNCHANGED vars
  <2>1. /\ pc' = pc /\ elf' = elf /\ patched' = patched /\ out' = out
        /\ k' = k /\ rebases' = rebases /\ bindings' = bindings
    BY <1>13 DEF vars
  <2>2. /\ ResolvedIn(k - 1)' = ResolvedIn(k - 1)
        /\ \A s : LeftTo(s, k - 1)' = LeftTo(s, k - 1)
    BY <2>1, SameCounts
  <2>3. Sum(patched)' = Sum(patched) /\ AcceptsElf' = AcceptsElf
    BY <2>1 DEF Sum, AcceptsElf
  <2>4. \A s : BoundTo(s)' = BoundTo(s)
    BY <2>1 DEF BoundTo
  <2>5. SegmentsEncodable' = SegmentsEncodable
    BY <2>1 DEF SegmentsEncodable
  <2>6. Accepts3(elf)' = Accepts3(elf)
    BY <2>1 DEF Accepts3, TextFirst, Relocatable, LoadsOf
  <2>7. [s \in {bindings[i].symbol : i \in DOMAIN bindings} |-> Cardinality(BoundTo(s))]'
          = [s \in {bindings[i].symbol : i \in DOMAIN bindings} |-> Cardinality(BoundTo(s))]
    BY <2>1, <2>4
  <2> QED BY <2>1, <2>2, <2>3, <2>4, <2>5, <2>6, <2>7 DEF Report3Inv
<1> QED BY <1>3, <1>4, <1>5, <1>6, <1>7, <1>8, <1>9, <1>10, <1>11, <1>12, <1>13 DEF Next
-----------------------------------------------------------------------------
(* The symbols that a stream of opcodes names.                             *)

\* A one-to-one correspondence keeps the count.
LEMMA SameCount ==
  ASSUME NEW A, NEW B, IsFiniteSet(A), NEW f \in [A -> B],
         \A x, y \in A : f[x] = f[y] => x = y, \A y \in B : \E x \in A : f[x] = y
  PROVE  IsFiniteSet(B) /\ Cardinality(B) = Cardinality(A)
<1>1. f \in Bijection(A, B)
  BY DEF Bijection, Injection, IsInjective, Surjection
<1>2. ExistsBijection(A, B)
  BY <1>1 DEF ExistsBijection
<1> QED BY <1>2, FS_Bijection

\* The opcodes of a bind program.
Opcodes == [op : {"symbol"}, symbol : STRING] \cup [op : {"addend"}, addend : Int]
           \cup [op : {"segment"}, seg : Nat, off : Nat]
           \cup [op : {"bind", "ordinal", "type", "done"}]

\* The positions at which a program names s.
SymbolsAt(r, s) == {p \in 1 .. Len(r) : r[p].op = "symbol" /\ r[p].symbol = s}

\* The names in two programs, one behind the other.
LEMMA SymbolsJoined ==
  ASSUME NEW g \in Seq(Opcodes), NEW h \in Seq(Opcodes), NEW s
  PROVE  /\ g \o h \in Seq(Opcodes)
         /\ Cardinality(SymbolsAt(g, s)) \in Nat /\ Cardinality(SymbolsAt(h, s)) \in Nat
         /\ Cardinality(SymbolsAt(g \o h, s))
              = Cardinality(SymbolsAt(g, s)) + Cardinality(SymbolsAt(h, s))
<1>0. PICK n, m, w, A, B : /\ n = Len(g) /\ m = Len(h) /\ w = g \o h
                           /\ A = SymbolsAt(g, s) /\ B = SymbolsAt(h, s)
  OBVIOUS
<1>1. /\ w \in Seq(Opcodes) /\ Len(w) = n + m /\ n \in Nat /\ m \in Nat
      /\ \A i \in 1 .. n : w[i] = g[i]
      /\ \A i \in 1 .. m : w[n + i] = h[i]
  BY <1>0, Concatenation
<1> DEFINE C == {p \in n + 1 .. n + m : p - n \in B}
           f == [x \in B |-> n + x]
<1>2. A \in SUBSET (1 .. n) /\ B \in SUBSET (1 .. m)
  BY <1>0 DEF SymbolsAt
<1>3. IsFiniteSet(A) /\ Cardinality(A) \in Nat /\ IsFiniteSet(B) /\ Cardinality(B) \in Nat
  BY <1>1, <1>2, IndexSets
<1>4. f \in [B -> C]
  <2>1. \A x \in B : n + x \in n + 1 .. n + m /\ (n + x) - n = x
    BY <1>1, <1>2
  <2> QED BY <2>1
<1>5. \A x, y \in B : f[x] = f[y] => x = y
  <2>1. \A x, y \in B : n + x = n + y => x = y
    BY <1>1, <1>2
  <2> QED BY <2>1
<1>6. \A y \in C : \E x \in B : f[x] = y
  <2> TAKE y \in C
  <2>1. y - n \in B /\ n + (y - n) = y
    BY <1>1
  <2>2. f[y - n] = y
    BY <2>1
  <2> QED BY <2>1, <2>2
<1>7. IsFiniteSet(C) /\ Cardinality(C) = Cardinality(B)
  <2> HIDE DEF f, C
  <2> QED BY <1>3, <1>4, <1>5, <1>6, SameCount
<1>8. A \cap C = {}
  BY <1>1, <1>2
<1>9. SymbolsAt(w, s) = A \cup C
  <2>1. ASSUME NEW p \in 1 .. n PROVE p \in SymbolsAt(w, s) <=> p \in A
    <3>1. w[p] = g[p] /\ p \in 1 .. Len(w) /\ p \in 1 .. Len(g)
      BY <1>0, <1>1
    <3> QED BY <1>0, <3>1 DEF SymbolsAt
  <2>2. ASSUME NEW p \in n + 1 .. n + m PROVE p \in SymbolsAt(w, s) <=> p - n \in B
    <3>1. p - n \in 1 .. m /\ n + (p - n) = p /\ p \in 1 .. Len(w)
      BY <1>1
    <3>2. w[p] = h[p - n]
      BY <1>1, <3>1
    <3> QED BY <1>0, <3>1, <3>2 DEF SymbolsAt
  <2>3. SymbolsAt(w, s) \subseteq (1 .. n) \cup (n + 1 .. n + m)
    BY <1>1 DEF SymbolsAt
  <2>4. \A p \in 1 .. n : p \notin C
    BY <1>1
  <2>5. \A p \in n + 1 .. n + m : p \notin A
    BY <1>1, <1>2
  <2> QED BY <1>2, <2>1, <2>2, <2>3, <2>4, <2>5
<1>10. Cardinality(A \cup C) = Cardinality(A) + Cardinality(C) - Cardinality({})
  <2> HIDE DEF C
  <2> QED BY <1>3, <1>7, <1>8, FS_Union
<1>11. Cardinality(A \cup C) = Cardinality(A) + Cardinality(B)
  <2> HIDE DEF C
  <2> QED BY <1>3, <1>7, <1>10, FS_EmptySet
<1> HIDE DEF C
<1> QED BY <1>0, <1>1, <1>3, <1>9, <1>11

\* The opcodes of a binding name its symbol, once.
LEMMA SymbolsOfOps ==
  ASSUME NEW b \in Binding, NEW s
  PROVE  /\ BindOps(b) \in Seq(Opcodes)
         /\ Cardinality(SymbolsAt(BindOps(b), s)) = IF b.symbol = s THEN 1 ELSE 0
<1>1. BindOps(b) \in Seq(OpsOf(b)) /\ Len(BindOps(b)) \in Nat /\ Len(BindOps(b)) >= 3
  <2>1. BindOps(b) \in Seq(OpsOf(b)) /\ Len(BindOps(b)) = IF b.addend # 0 THEN 4 ELSE 3
    BY BindOpsAre
  <2> QED BY <2>1
<1>2. OpsOf(b) \subseteq Opcodes
  <2>1. b.symbol \in STRING /\ b.addend \in Int /\ b.seg \in Nat /\ b.off \in Nat
    BY DEF Binding
  <2>2. /\ [op |-> "symbol", symbol |-> b.symbol] \in [op : {"symbol"}, symbol : STRING]
        /\ [op |-> "addend", addend |-> b.addend] \in [op : {"addend"}, addend : Int]
        /\ GoTo(b) \in [op : {"segment"}, seg : Nat, off : Nat]
        /\ [op |-> "bind"] \in [op : {"bind", "ordinal", "type", "done"}]
    BY <2>1 DEF GoTo
  <2> QED BY <2>2, Zenon DEF OpsOf, Opcodes
<1>3. BindOps(b) \in Seq(Opcodes)
  BY <1>1, <1>2
<1>4. ASSUME NEW x \in 1 .. Len(BindOps(b))
      PROVE  /\ BindOps(b)[x].op = "symbol" <=> x = 1
             /\ x = 1 => BindOps(b)[x].symbol = b.symbol
  <2>1. /\ Len(BindOps(b)) \in {3, 4} /\ (b.addend # 0 => Len(BindOps(b)) = 4)
        /\ \/ x = 1 /\ BindOps(b)[x].op = "symbol" /\ BindOps(b)[x].symbol = b.symbol
           \/ x = 2 /\ BindOps(b)[x].op = "addend"
           \/ x = Len(BindOps(b)) - 1 /\ BindOps(b)[x].op = "segment"
           \/ x = Len(BindOps(b)) /\ BindOps(b)[x].op = "bind"
    BY OpKinds
  <2>2. PICK n, o : n = Len(BindOps(b)) /\ o = BindOps(b)[x]
    OBVIOUS
  <2>3. /\ n \in {3, 4} /\ x \in Nat
        /\ \/ x = 1 /\ o.op = "symbol" /\ o.symbol = b.symbol
           \/ x = 2 /\ o.op = "addend"
           \/ x = n - 1 /\ o.op = "segment"
           \/ x = n /\ o.op = "bind"
    BY <2>1, <2>2
  <2>4. (o.op = "symbol" <=> x = 1) /\ (x = 1 => o.symbol = b.symbol)
    BY <2>3
  <2> QED BY <2>2, <2>4
<1>5. CASE b.symbol = s
  <2>1. SymbolsAt(BindOps(b), s) = {1}
    BY <1>1, <1>4, <1>5 DEF SymbolsAt
  <2> QED BY <1>3, <1>5, <2>1, FS_Singleton
<1>6. CASE b.symbol # s
  <2>1. SymbolsAt(BindOps(b), s) = {}
    BY <1>4, <1>6 DEF SymbolsAt
  <2> QED BY <1>3, <1>6, <2>1, FS_EmptySet
<1> QED BY <1>5, <1>6

\* The first m of a list of bindings that are for s.
ItemsFor(items, s, m) == {i \in 1 .. m : items[i].symbol = s}

\* The opcodes of a list of bindings name each symbol as often as the bindings do.
LEMMA SymbolsFlattened ==
  ASSUME NEW n \in Nat, NEW items \in [1 .. n -> Binding], NEW s,
         NEW seqs, seqs = [i \in 1 .. n |-> BindOps(items[i])]
  PROVE  /\ FlattenSeq(seqs) \in Seq(Opcodes)
         /\ Cardinality(SymbolsAt(FlattenSeq(seqs), s)) = Cardinality(ItemsFor(items, s, n))
<1>1. \A i \in 1 .. n : /\ seqs[i] \in Seq(Opcodes)
                        /\ Cardinality(SymbolsAt(seqs[i], s))
                             = IF items[i].symbol = s THEN 1 ELSE 0
  <2> TAKE i \in 1 .. n
  <2>1. items[i] \in Binding /\ seqs[i] = BindOps(items[i])
    OBVIOUS
  <2> QED BY <2>1, SymbolsOfOps
<1>2. Len(seqs) = n
  OBVIOUS
<1>3. ItemsFor(items, s, 0) = {} /\ Cardinality({}) = 0
  BY FS_EmptySet DEF ItemsFor
<1>4. CASE n = 0
  <2>1. seqs = <<>>
    BY <1>4
  <2>2. FlattenSeq(<<>>) = <<>>
    BY DEF FlattenSeq
  <2>3. SymbolsAt(<<>>, s) = {} /\ <<>> \in Seq(Opcodes)
    BY DEF SymbolsAt
  <2> QED BY <1>3, <1>4, <2>1, <2>2, <2>3
<1>5. CASE n # 0
  <2>1. PICK f : PrefixIs(seqs, n, f) /\ FlattenSeq(seqs) = f[n]
    BY <1>2, <1>5, FlattenIsPrefix
  <2>2. \A i \in 1 .. n : f[i] = IF i = 1 THEN seqs[i] ELSE f[i - 1] \o seqs[i]
    BY <2>1 DEF PrefixIs
  <2> DEFINE P(m) == /\ f[m] \in Seq(Opcodes)
                     /\ Cardinality(SymbolsAt(f[m], s)) = Cardinality(ItemsFor(items, s, m))
             T == {m \in 1 .. n : ~P(m)}
  <2>3. ASSUME NEW m \in Nat
        PROVE  /\ Cardinality(ItemsFor(items, s, m)) \in Nat
               /\ Cardinality(ItemsFor(items, s, m + 1))
                    = Cardinality(ItemsFor(items, s, m)) + IF items[m + 1].symbol = s THEN 1 ELSE 0
    <3>1. 1 .. m + 1 = (1 .. m) \cup {m + 1}
      OBVIOUS
    <3>2. ItemsFor(items, s, m) \in SUBSET (1 .. m)
      BY DEF ItemsFor
    <3>3. /\ Cardinality(ItemsFor(items, s, m)) \in Nat
          /\ Cardinality(ItemsFor(items, s, m) \cup {m + 1}) = Cardinality(ItemsFor(items, s, m)) + 1
      BY <3>2, IndexSets
    <3>4. ItemsFor(items, s, m + 1) = IF items[m + 1].symbol = s
                                      THEN ItemsFor(items, s, m) \cup {m + 1}
                                      ELSE ItemsFor(items, s, m)
      BY <3>1 DEF ItemsFor
    <3> QED BY <3>3, <3>4
  <2>4. T = {}
    <3> HIDE DEF P
    <3> SUFFICES ASSUME T # {} PROVE FALSE
      OBVIOUS
    <3>1. PICK m \in T : \A y \in T : m <= y
      <4>1. T \in SUBSET Nat
        OBVIOUS
      <4> HIDE DEF T
      <4> QED BY <4>1, LeastExists
    <3>2. m \in 1 .. n /\ ~P(m) /\ \A y \in 1 .. n : y < m => P(y)
      BY <3>1
    <3> HIDE DEF T
    <3>3. CASE m = 1
      <4>1. f[1] = seqs[1] /\ 1 \in 1 .. n
        BY <2>2, <3>2, <3>3
      <4>2. Cardinality(ItemsFor(items, s, 1)) = IF items[1].symbol = s THEN 1 ELSE 0
        <5>1. 0 \in Nat /\ 0 + 1 = 1
          OBVIOUS
        <5>2. Cardinality(ItemsFor(items, s, 1))
                = Cardinality(ItemsFor(items, s, 0)) + IF items[1].symbol = s THEN 1 ELSE 0
          BY <2>3, <5>1
        <5>3. Cardinality(ItemsFor(items, s, 0)) = 0
          BY <1>3, Zenon
        <5>4. CASE items[1].symbol = s
          BY <5>2, <5>3, <5>4
        <5>5. CASE items[1].symbol # s
          BY <5>2, <5>3, <5>5
        <5> QED BY <5>4, <5>5
      <4>3. P(1)
        BY <1>1, <4>1, <4>2 DEF P
      <4> QED BY <3>2, <3>3, <4>3
    <3>4. CASE m # 1
      <4>1. m - 1 \in 1 .. n /\ m - 1 < m /\ m - 1 \in Nat /\ (m - 1) + 1 = m
        BY <3>2, <3>4
      <4>2. /\ f[m - 1] \in Seq(Opcodes)
            /\ Cardinality(SymbolsAt(f[m - 1], s)) = Cardinality(ItemsFor(items, s, m - 1))
        BY <3>2, <4>1 DEF P
      <4>3. f[m] = f[m - 1] \o seqs[m] /\ seqs[m] \in Seq(Opcodes)
        BY <1>1, <2>2, <3>2, <3>4
      <4>4. /\ f[m] \in Seq(Opcodes)
            /\ Cardinality(SymbolsAt(f[m], s))
                 = Cardinality(SymbolsAt(f[m - 1], s)) + Cardinality(SymbolsAt(seqs[m], s))
        BY <4>2, <4>3, SymbolsJoined
      <4>5. Cardinality(ItemsFor(items, s, m))
              = Cardinality(ItemsFor(items, s, m - 1)) + IF items[m].symbol = s THEN 1 ELSE 0
        BY <2>3, <4>1
      <4>6. Cardinality(SymbolsAt(seqs[m], s)) = IF items[m].symbol = s THEN 1 ELSE 0
        BY <1>1, <3>2
      <4>7. P(m)
        BY <4>2, <4>4, <4>5, <4>6 DEF P
      <4> QED BY <3>2, <4>7
    <3> QED BY <3>3, <3>4
  <2>5. P(n)
    <3> HIDE DEF P
    <3> QED BY <1>5, <2>4
  <2> QED BY <2>1, <2>5
<1> QED BY <1>4, <1>5
-----------------------------------------------------------------------------
(* The streams of Phase 3 say what its lists hold.                         *)

\* _bind_stream names each symbol as often as there are bindings for it.
LEMMA SymbolsOfBindStream ==
  ASSUME bindings \in Seq(Binding), NEW s
  PROVE  /\ BindStream \in Seq(Opcodes)
         /\ Cardinality(SymbolsAt(BindStream, s)) = Cardinality(BoundTo(s))
<1> DEFINE n == Len(bindings)
           items == Sorted(bindings)
           seqs == [i \in DOMAIN items |-> BindOps(items[i])]
           t == <<[op |-> "ordinal"], [op |-> "type"]>>
           d == <<[op |-> "done"]>>
           r == FlattenSeq(seqs)
<1>1. n \in Nat /\ DOMAIN bindings = 1 .. n /\ \A i \in 1 .. n : bindings[i] \in Binding
  OBVIOUS
<1>2. PICK pi \in [1 .. n -> 1 .. n] :
        /\ \A i, j \in 1 .. n : pi[i] = pi[j] => i = j
        /\ \A j \in 1 .. n : \E i \in 1 .. n : pi[i] = j
        /\ items = [i \in 1 .. n |-> bindings[pi[i]]]
  <2>1. \A x \in Binding : x.seg \in Int /\ x.off \in Int
    BY DEF Binding
  <2>2. Permuted(bindings, items)
    BY <2>1, SortedPermutes
  <2> HIDE DEF items
  <2>3. PICK pi \in [DOMAIN bindings -> DOMAIN bindings] :
          /\ \A i, j \in DOMAIN bindings : pi[i] = pi[j] => i = j
          /\ \A j \in DOMAIN bindings : \E i \in DOMAIN bindings : pi[i] = j
          /\ items = [i \in DOMAIN bindings |-> bindings[pi[i]]]
    BY <2>2, Zenon DEF Permuted
  <2>4. DOMAIN bindings = 1 .. n
    BY <1>1
  <2> HIDE DEF n
  <2> QED BY <2>3, <2>4, Zenon
<1>3. items \in [1 .. n -> Binding] /\ \A i \in 1 .. n : items[i] = bindings[pi[i]]
  <2>1. \A i \in 1 .. n : pi[i] \in 1 .. n /\ bindings[pi[i]] \in Binding
    BY <1>1, <1>2
  <2> HIDE DEF items, n
  <2> QED BY <1>2, <2>1
<1>4. seqs = [i \in 1 .. n |-> BindOps(items[i])]
  <2>1. DOMAIN items = 1 .. n
    <3> HIDE DEF items, n
    <3> QED BY <1>3
  <2> HIDE DEF items, n
  <2> QED BY <2>1
<1>5. /\ r \in Seq(Opcodes)
      /\ Cardinality(SymbolsAt(r, s)) = Cardinality(ItemsFor(items, s, n))
  <2> HIDE DEF items, n, seqs
  <2> QED BY <1>1, <1>3, <1>4, SymbolsFlattened
<1>6. Cardinality(ItemsFor(items, s, n)) = Cardinality(BoundTo(s))
  <2> DEFINE A == ItemsFor(items, s, n)
             f == [i \in A |-> pi[i]]
  <2> HIDE DEF items, n
  <2>1. A \in SUBSET (1 .. n) /\ \A i \in 1 .. n : i \in A <=> bindings[pi[i]].symbol = s
    BY <1>3 DEF ItemsFor
  <2>2. IsFiniteSet(A)
    BY <1>1, <2>1, IndexSets
  <2> HIDE DEF A
  <2>3. \A i \in A : pi[i] \in BoundTo(s)
    BY <1>1, <1>2, <2>1 DEF BoundTo
  <2>4. f \in [A -> BoundTo(s)]
    BY <2>3
  <2>5. \A x, y \in A : f[x] = f[y] => x = y
    BY <1>2, <2>1
  <2>6. \A y \in BoundTo(s) : \E x \in A : f[x] = y
    <3> TAKE y \in BoundTo(s)
    <3>1. y \in 1 .. n /\ bindings[y].symbol = s
      BY <1>1 DEF BoundTo
    <3>2. PICK x \in 1 .. n : pi[x] = y
      BY <1>2, <3>1
    <3>3. x \in A
      BY <2>1, <3>1, <3>2
    <3> QED BY <3>2, <3>3
  <2> HIDE DEF f
  <2>7. Cardinality(BoundTo(s)) = Cardinality(A)
    BY <2>2, <2>4, <2>5, <2>6, SameCount
  <2> QED BY <2>7 DEF A
<1>7. BindStream = (t \o r) \o d
  BY Zenon DEF BindStream
<1>8. /\ t \in Seq(Opcodes) /\ d \in Seq(Opcodes)
      /\ Cardinality(SymbolsAt(t, s)) = 0 /\ Cardinality(SymbolsAt(d, s)) = 0
  <2>1. /\ [op |-> "ordinal"] \in Opcodes /\ [op |-> "type"] \in Opcodes /\ [op |-> "done"] \in Opcodes
    <3>1. \A o \in {"bind", "ordinal", "type", "done"} :
            [op |-> o] \in [op : {"bind", "ordinal", "type", "done"}]
      OBVIOUS
    <3> QED BY <3>1 DEF Opcodes
  <2>2. t \in Seq(Opcodes) /\ d \in Seq(Opcodes)
    <3> DEFINE o == [op |-> "ordinal"]
               y == [op |-> "type"]
               e == [op |-> "done"]
    <3>1. o \in Opcodes /\ y \in Opcodes /\ e \in Opcodes
      BY <2>1
    <3>2. t = <<o, y>> /\ d = <<e>>
      OBVIOUS
    <3> HIDE DEF o, y, e, t, d
    <3> QED BY <3>1, <3>2
  <2>3. SymbolsAt(t, s) = {} /\ SymbolsAt(d, s) = {}
    BY DEF SymbolsAt
  <2> QED BY <2>2, <2>3, FS_EmptySet
<1> HIDE DEF t, d, r, seqs, items, n
<1>9. /\ t \o r \in Seq(Opcodes) /\ Cardinality(SymbolsAt(r, s)) \in Nat
      /\ Cardinality(SymbolsAt(t \o r, s)) = 0 + Cardinality(SymbolsAt(r, s))
  BY <1>5, <1>8, SymbolsJoined
<1>10. /\ (t \o r) \o d \in Seq(Opcodes)
       /\ Cardinality(SymbolsAt((t \o r) \o d, s)) = Cardinality(SymbolsAt(t \o r, s)) + 0
  <2>1. PICK w : w = t \o r
    OBVIOUS
  <2>2. w \in Seq(Opcodes)
    BY <1>9, <2>1
  <2>3. w \o d \in Seq(Opcodes) /\ Cardinality(SymbolsAt(w \o d, s)) = Cardinality(SymbolsAt(w, s)) + 0
    BY <1>8, <2>2, SymbolsJoined
  <2> QED BY <2>1, <2>3
<1> QED BY <1>5, <1>6, <1>7, <1>9, <1>10

\* _rebase_stream has one rebase for each place.
LEMMA RebasesInStream ==
  ASSUME rebases \in Seq(Place)
  PROVE  Cardinality({p \in DOMAIN RebaseStream : RebaseStream[p].op = "rebase"}) = Len(rebases)
<1> DEFINE B == {p \in DOMAIN RebaseStream : RebaseStream[p].op = "rebase"}
<1>0. PICK n, R : n = Len(rebases) /\ R = RebaseStream
  OBVIOUS
<1>1. /\ n \in Nat /\ DOMAIN R = 1 .. 2 * n + 2
      /\ R[1].op = "type" /\ R[2 * n + 2].op = "done"
      /\ \A i \in 1 .. n : R[2 * i].op = "segment" /\ R[2 * i + 1].op = "rebase"
  <2>1. /\ DOMAIN RebaseStream = 1 .. 2 * Len(rebases) + 2
        /\ RebaseStream[1] = [op |-> "type"]
        /\ \A i \in 1 .. Len(rebases) : /\ RebaseStream[2 * i] = GoTo(Sorted(rebases)[i])
                                        /\ RebaseStream[2 * i + 1] = [op |-> "rebase"]
        /\ RebaseStream[2 * Len(rebases) + 2] = [op |-> "done"]
    BY RebaseOpcodes
  <2>2. \A l : GoTo(l).op = "segment"
    BY DEF GoTo
  <2>3. Len(rebases) \in Nat
    OBVIOUS
  <2> QED BY <1>0, <2>1, <2>2, <2>3
<1> DEFINE f == [i \in 1 .. n |-> 2 * i + 1]
<1>2. f \in [1 .. n -> B]
  <2>1. \A i \in 1 .. n : 2 * i + 1 \in 1 .. 2 * n + 2
    BY <1>1
  <2>2. \A i \in 1 .. n : 2 * i + 1 \in B
    BY <1>0, <1>1, <2>1
  <2> HIDE DEF B
  <2> QED BY <2>2
<1>3. \A x, y \in 1 .. n : f[x] = f[y] => x = y
  <2>1. \A x, y \in 1 .. n : 2 * x + 1 = 2 * y + 1 => x = y
    BY <1>1
  <2> QED BY <2>1
<1>4. \A y \in B : \E x \in 1 .. n : f[x] = y
  <2> TAKE y \in B
  <2>1. y \in 1 .. 2 * n + 2 /\ R[y].op = "rebase"
    BY <1>0, <1>1
  <2>2. \/ y = 1 \/ y = 2 * n + 2
        \/ \E i \in 1 .. n : y = 2 * i \/ y = 2 * i + 1
    BY <1>1, <2>1, RebasePositions
  <2>3. PICK i \in 1 .. n : y = 2 * i + 1
    BY <1>1, <2>1, <2>2
  <2> QED BY <2>3
<1>5. IsFiniteSet(1 .. n) /\ Cardinality(1 .. n) = n
  <2>1. n \in Nat /\ n \in Int
    BY <1>1
  <2>2. /\ IsFiniteSet(1 .. n)
        /\ Cardinality(1 .. n) = IF 1 > n THEN 0 ELSE n - 1 + 1
    BY <2>1, FS_Interval
  <2> QED BY <2>1, <2>2
<1>6. Cardinality(B) = Cardinality(1 .. n)
  <2> HIDE DEF B, f
  <2> QED BY <1>2, <1>3, <1>4, <1>5, SameCount
<1> QED BY <1>0, <1>5, <1>6
-----------------------------------------------------------------------------
(* What the contract rests on.                                             *)

\* Phase 4 refuses only what it must.
Refused4 == step4 = "error" => ~Accepts4(elf)

\* What has to be known of the three phases for the contract.
ContractInv == PhasesInv /\ Report3Inv /\ Refused4

\* The header of Phase 4, in terms of the ELF alone.
LEMMA Header4Is ==
  ASSUME Phase3Inv, pc \in {"relocate", "done"}
  PROVE  /\ HeaderFits <=> FixedCommandSize + SegmentCommandSize * Len(elf.loads) <= HeaderReserve
         /\ HeaderSize4
              = FixedCommandSize + SymtabCommandSize + SegmentCommandSize * Len(elf.loads)
         /\ HeaderSize4 \in Nat
<1>1. Len(segments) = Len(elf.loads) /\ Len(elf.loads) \in Nat
  BY DEF Phase3Inv, LayoutProgress, TypeOK, WellFormed, Elf
<1>2. SegmentCommandSize * Len(elf.loads) \in Nat
  BY <1>1, LayoutAssumption
<1>3. HeaderSize = FixedCommandSize + SegmentCommandSize * Len(elf.loads)
  BY <1>1 DEF HeaderSize
<1>4. FixedCommandSize \in Nat /\ SymtabCommandSize \in Nat
  BY LayoutAssumption, Phase4Assumption
<1>5. PICK x : x = SegmentCommandSize * Len(elf.loads)
  OBVIOUS
<1>6. HeaderSize4 = FixedCommandSize + x + SymtabCommandSize
  BY <1>3, <1>5 DEF HeaderSize4
<1>7. HeaderSize4 = FixedCommandSize + SymtabCommandSize + x /\ HeaderSize4 \in Nat
  BY <1>2, <1>4, <1>5, <1>6
<1> QED BY <1>3, <1>5, <1>7 DEF HeaderFits

\* Every step keeps the invariant.
LEMMA ContractInvStep ==
  ASSUME ContractInv, [NextAll]_<<vars4, vars2>>
  PROVE  ContractInv'
<1>1. PhasesInv'
  BY PhasesStep DEF ContractInv
<1>2. /\ elf' = elf /\ [Next]_vars /\ Phase3Inv /\ LoopInv
  BY SameElf DEF ContractInv, PhasesInv, AllInv, TranslatorInv
<1>3. Report3Inv'
  BY <1>2, Report3Step DEF ContractInv
<1>4. Accepts4(elf)' = Accepts4(elf)
  BY <1>2, SameTrie DEF Accepts4, Accepts3, TextFirst, Relocatable, LoadsOf
<1>5. Refused4'
  <2>1. CASE step4' = step4
    BY <1>4, <2>1 DEF ContractInv, Refused4
  <2>2. CASE Reject4
    <3>1. \/ pc = "error"
          \/ pc = "done" /\ ~TrieBuilds(elf)
          \/ pc = "done" /\ HeaderSize4 > HeaderReserve
      BY <2>2 DEF Reject4
    <3>2. pc = "error" => ~Accepts4(elf)
      BY DEF ContractInv, Report3Inv, Accepts4
    <3>3. pc = "done" /\ HeaderSize4 > HeaderReserve => ~Accepts4(elf)
      <4> SUFFICES ASSUME pc = "done", HeaderSize4 > HeaderReserve PROVE ~Accepts4(elf)
        OBVIOUS
      <4>1. /\ HeaderSize4
                 = FixedCommandSize + SymtabCommandSize + SegmentCommandSize * Len(elf.loads)
            /\ HeaderSize4 \in Nat /\ HeaderReserve \in Nat
        BY <1>2, Header4Is, LayoutAssumption
      <4>2. ~(HeaderSize4 <= HeaderReserve)
        BY <4>1
      <4> QED BY <4>1, <4>2 DEF Accepts4
    <3>4. ~TrieBuilds(elf) => ~Accepts4(elf)
      BY DEF Accepts4
    <3> QED BY <1>4, <3>1, <3>2, <3>3, <3>4 DEF Refused4
  <2>3. CASE Rewrite
    BY <2>3 DEF Rewrite, Refused4
  <2> QED BY <2>1, <2>2, <2>3, AllSteps DEF vars4, Next4
<1> QED BY <1>1, <1>3, <1>5 DEF ContractInv

\* The three phases keep what the contract rests on: beside the inductive
\* invariant, that Phase 3's report counts what has been done and that nothing is
\* refused that could be translated.
THEOREM ContractInvariant == SpecAll => []ContractInv
<1>1. InitAll => ContractInv
  <2> SUFFICES ASSUME InitAll PROVE ContractInv
    OBVIOUS
  <2>1. PhasesInv
    BY PhasesInit
  <2>2. /\ pc = "construct" /\ step4 = "phase3"
        /\ patched = [t \in {"RELATIVE", "ABS64", "GLOB_DAT", "JUMP_SLOT"} |-> 0]
    BY DEF InitAll, Init4, LoadInit, Init
  <2>3. Sum(patched) = 0
    BY <2>2 DEF Sum
  <2> QED BY <2>1, <2>2, <2>3 DEF ContractInv, Report3Inv, Refused4
<1>2. ContractInv /\ [NextAll]_<<vars4, vars2>> => ContractInv'
  BY ContractInvStep
<1> QED BY <1>1, <1>2, PTL DEF SpecAll
-----------------------------------------------------------------------------
(* Phases 3 and 4 keep the contract.                                       *)

\* The dylib that Phase 3 writes says in its opcodes what the report says, and both
\* account for every relocation.
LEMMA StreamsAreTally ==
  ASSUME ContractInv, pc = "done"
  PROVE  InStreams(out) = Tally(elf) /\ Reported = Tally(elf) /\ Accepts3(elf)
<1>1. Phase3Inv /\ LoopInv /\ Written /\ Report3Inv /\ TypeOK
  BY DEF ContractInv, PhasesInv, AllInv, TranslatorInv, Phase3Inv
<1>2. /\ rebases \in Seq(Place) /\ bindings \in Seq(Binding) /\ k \in Nat
      /\ k - 1 = Len(elf.relocs) /\ DOMAIN elf.relocs = 1 .. k - 1
  BY <1>1 DEF Phase3Inv, FixupsMatchRelocs, TypeOK, WellFormed, Elf
<1>3. \A j \in DOMAIN elf.relocs : Relocates(j)
  BY <1>1, <1>2, AcceptedIs DEF LoopInv, FixupsExact
<1>4. /\ Sum(patched) = Cardinality(ResolvedIn(Len(elf.relocs)))
      /\ Len(rebases) = Cardinality(ResolvedIn(Len(elf.relocs)))
      /\ \A s \in STRING : Cardinality(BoundTo(s)) = Cardinality(LeftTo(s, Len(elf.relocs)))
      /\ AcceptsElf /\ SegmentsEncodable
      /\ out.imports = [s \in {bindings[i].symbol : i \in DOMAIN bindings} |->
                          Cardinality(BoundTo(s))]
  BY <1>1, <1>2 DEF Report3Inv
<1>5. Accepts3(elf)
  <2>1. elf.supported /\ elf.loads # <<>> /\ TextFirst(elf)
    BY <1>1, <1>4, AcceptsElfIs
  <2>2. Relocatable(elf)
    BY <1>3, RelocatableIs
  <2>3. \A r \in Range(elf.relocs) : Min(LoadsOf(elf, r)) <= MaxOpcodeSegments
    BY <1>1, <1>2, <1>4, EncodableIs
  <2>4. FixedCommandSize + SegmentCommandSize * Len(elf.loads) <= HeaderReserve
    BY <1>1, Header4Is DEF Written
  <2> QED BY <2>1, <2>2, <2>3, <2>4 DEF Accepts3
<1>6. Tally(elf).internal = Cardinality(ResolvedIn(Len(elf.relocs)))
  BY <1>1, ResolvedIsTally
<1>7. Tally(elf) = [internal |-> Tally(elf).internal, imports |-> Tally(elf).imports]
  BY DEF Tally
<1>8. out.imports = Tally(elf).imports
  <2> DEFINE f == [i \in DOMAIN bindings |-> bindings[i].symbol]
  <2>1. DOMAIN f = 1 .. Len(bindings) /\ Len(bindings) \in Nat
    BY <1>2
  <2>2. IsFiniteSet(DOMAIN f)
    BY <2>1, FS_Interval
  <2>3. \A x \in DOMAIN f : f[x] \in STRING
    <3>1. \A x \in DOMAIN bindings : bindings[x] \in Binding
      BY <1>2
    <3> QED BY <3>1 DEF Binding
  <2>4. \A s : Naming(f, s) = BoundTo(s)
    BY DEF Naming, BoundTo
  <2>5. Range(f) = {bindings[i].symbol : i \in DOMAIN bindings}
    BY DEF Range
  <2> HIDE DEF f
  <2>6. Count(f) = Tally(elf).imports
    BY <1>1, <1>3, <1>4, <2>2, <2>3, <2>4, CountsAreTally
  <2>7. Count(f) = [s \in Range(f) |-> Cardinality(Naming(f, s))]
    BY Zenon DEF Count, Naming
  <2>8. Count(f) = [s \in {bindings[i].symbol : i \in DOMAIN bindings} |-> Cardinality(BoundTo(s))]
    BY <2>4, <2>5, <2>7
  <2> QED BY <1>4, <2>6, <2>8
<1>9. Reported = Tally(elf)
  BY <1>4, <1>6, <1>7, <1>8 DEF Reported
<1>10. InStreams(out).internal = Tally(elf).internal
  <2>1. InStreams(out).internal
          = Cardinality({i \in DOMAIN out.rebase : out.rebase[i].op = "rebase"})
    BY DEF InStreams
  <2>2. out.rebase = RebaseStream
    BY <1>1 DEF Written
  <2> QED BY <1>2, <1>4, <1>6, <2>1, <2>2, RebasesInStream
<1>11. InStreams(out).imports = Tally(elf).imports
  <2> DEFINE named == {i \in DOMAIN out.bind : out.bind[i].op = "symbol"}
             f == [i \in named |-> out.bind[i].symbol]
  <2>1. InStreams(out).imports = Count(f)
    BY DEF InStreams
  <2>2. out.bind = BindStream /\ BindStream \in Seq(Opcodes)
    BY <1>1, <1>2, SymbolsOfBindStream DEF Written
  <2>3. DOMAIN out.bind = 1 .. Len(out.bind) /\ Len(out.bind) \in Nat
    BY <2>2
  <2>4. IsFiniteSet(DOMAIN f)
    <3>1. DOMAIN f = named /\ named \subseteq 1 .. Len(out.bind)
      BY <2>3
    <3>2. IsFiniteSet(1 .. Len(out.bind))
      BY <2>3, FS_Interval
    <3> HIDE DEF f, named
    <3> QED BY <3>1, <3>2, FS_Subset
  <2>5. ASSUME NEW x \in DOMAIN f PROVE f[x] \in STRING
    <3>1. x \in DOMAIN out.bind /\ out.bind[x].op = "symbol" /\ f[x] = out.bind[x].symbol
      OBVIOUS
    <3>2. out.bind[x] \in Opcodes
      BY <2>2, <3>1
    <3>3. out.bind[x].symbol \in STRING
      BY <3>1, <3>2 DEF Opcodes
    <3> QED BY <3>1, <3>3
  <2>6. ASSUME NEW s PROVE Naming(f, s) = SymbolsAt(BindStream, s)
    BY <2>2, <2>3 DEF Naming, SymbolsAt
  <2>7. \A s \in STRING : Cardinality(Naming(f, s)) = Cardinality(LeftTo(s, Len(elf.relocs)))
    <3> HIDE DEF f
    <3> QED BY <1>2, <1>4, <2>6, SymbolsOfBindStream
  <2> HIDE DEF f
  <2>8. Count(f) = Tally(elf).imports
    BY <1>1, <1>3, <2>4, <2>5, <2>7, CountsAreTally
  <2> QED BY <2>1, <2>8
<1>12. InStreams(out) = [internal |-> InStreams(out).internal, imports |-> InStreams(out).imports]
  BY DEF InStreams
<1> QED BY <1>5, <1>7, <1>9, <1>10, <1>11, <1>12

\* Phase 3 has written what it can translate, and refused only what it cannot.
LEMMA Outcome3 ==
  ASSUME ContractInv
  PROVE  /\ pc = "done" => Accepts3(elf)
         /\ pc = "error" => ~Accepts3(elf)
         /\ Result3 = Outcome(pc = "done", pc = "error")
<1>1. pc = "error" => ~Accepts3(elf)
  BY DEF ContractInv, Report3Inv
<1>2. pc = "done" => InStreams(out) = Tally(elf) /\ Reported = Tally(elf) /\ Accepts3(elf)
  BY StreamsAreTally
<1>3. Result3 = Outcome(pc = "done", pc = "error")
  BY <1>2 DEF Result3, Result, Outcome
<1> QED BY <1>1, <1>2, <1>3

\* So has Phase 4.
LEMMA Outcome4 ==
  ASSUME ContractInv
  PROVE  /\ step4 = "done" => Accepts4(elf)
         /\ step4 = "error" => ~Accepts4(elf)
         /\ Result4 = Outcome(step4 = "done", step4 = "error")
<1>1. step4 = "error" => ~Accepts4(elf)
  BY DEF ContractInv, Refused4
<1>2. ASSUME step4 = "done"
      PROVE  InStreams(final) = Tally(elf) /\ Reported = Tally(elf) /\ Accepts4(elf)
  <2>1. pc2 = "idle"
    BY <1>2 DEF ContractInv, PhasesInv, AllInv, Dyld2Inv
  <2>2. /\ pc = "done" /\ TrieBuilds(elf) /\ HeaderSize4 <= HeaderReserve
        /\ final.rebase = out.rebase /\ final.bind = out.bind /\ Phase3Inv
    BY <1>2, <2>1 DEF ContractInv, PhasesInv, AllInv, EndToEndInv, TranslatorInv, Rewritten
  <2>3. InStreams(out) = Tally(elf) /\ Reported = Tally(elf) /\ Accepts3(elf)
    BY <2>2, StreamsAreTally
  <2>4. InStreams(final) = InStreams(out)
    BY <2>2, Zenon DEF InStreams
  <2>5. Accepts4(elf)
    BY <2>2, <2>3, Header4Is DEF Accepts4
  <2> QED BY <2>3, <2>4, <2>5
<1>3. Result4 = Outcome(step4 = "done", step4 = "error")
  BY <1>2 DEF Result4, Result, Outcome
<1> QED BY <1>1, <1>2, <1>3

\* Phase 3 moves on as the contract says.
LEMMA Contract3Step ==
  ASSUME elf' = elf,
         pc = "done" => Accepts3(elf), pc' = "done" => Accepts3(elf),
         pc = "error" => ~Accepts3(elf), pc' = "error" => ~Accepts3(elf),
         Result3 = Outcome(pc = "done", pc = "error"),
         Result3' = Outcome(pc = "done", pc = "error")',
         pc \in {"done", "error"} => pc' = pc
  PROVE  [C3!Translate]_<<elf, Result3>>
<1> USE SameTally DEF C3!Translate, C3!Done, C3!Refused, C3!Pending, Outcome
<1>1. CASE pc \in {"done", "error"}
  BY <1>1
<1>2. CASE pc \notin {"done", "error"} /\ pc' \notin {"done", "error"}
  BY <1>2
<1>3. CASE pc \notin {"done", "error"} /\ pc' = "done"
  BY <1>3
<1>4. CASE pc \notin {"done", "error"} /\ pc' = "error"
  BY <1>4
<1> QED BY <1>1, <1>2, <1>3, <1>4

\* Phase 4 moves on as the contract says.
LEMMA Contract4Step ==
  ASSUME elf' = elf,
         step4 = "done" => Accepts4(elf), step4' = "done" => Accepts4(elf),
         step4 = "error" => ~Accepts4(elf), step4' = "error" => ~Accepts4(elf),
         Result4 = Outcome(step4 = "done", step4 = "error"),
         Result4' = Outcome(step4 = "done", step4 = "error")',
         step4 \in {"done", "error"} => step4' = step4
  PROVE  [C4!Translate]_<<elf, Result4>>
<1> USE SameTally DEF C4!Translate, C4!Done, C4!Refused, C4!Pending, Outcome
<1>1. CASE step4 \in {"done", "error"}
  BY <1>1
<1>2. CASE step4 \notin {"done", "error"} /\ step4' \notin {"done", "error"}
  BY <1>2
<1>3. CASE step4 \notin {"done", "error"} /\ step4' = "done"
  BY <1>3
<1>4. CASE step4 \notin {"done", "error"} /\ step4' = "error"
  BY <1>4
<1> QED BY <1>1, <1>2, <1>3, <1>4

\* A translation that has ended stays as it ended.
LEMMA EndsAreFinal ==
  ASSUME Step4Inv, [NextAll]_<<vars4, vars2>>
  PROVE  /\ pc2 \in {"done", "error"} => pc2' = pc2
         /\ pc \in {"done", "error"} => pc' = pc
         /\ step4 \in {"done", "error"} => step4' = step4
<1>1. elf' = elf /\ [Next]_vars /\ (Translate2 \/ UNCHANGED vars2)
  BY SameElf
<1>2. pc2 \in {"done", "error"} => pc2' = pc2
  BY <1>1 DEF Translate2, RejectElf2, MapAndCopy, RejectReloc2, PatchRelative2, PatchInternal2,
              LeaveUnresolved, RejectHeader2, WriteDylib2, AtReloc2, AtEnd2, vars2
<1>3. pc \in {"done", "error"} => pc' = pc
  BY <1>1, EndIsFinal DEF vars
<1>4. step4 \in {"done", "error"} => step4' = step4
  BY AllSteps DEF Next4, Reject4, Rewrite, vars4
<1> QED BY <1>2, <1>3, <1>4

\* Each step of the three phases is, for each of them, a step of the contract or none.
LEMMA ContractSteps ==
  ASSUME ContractInv, ContractInv', [NextAll]_<<vars4, vars2>>
  PROVE  /\ [C2!Translate]_<<elf, Result2>>
         /\ [C3!Translate]_<<elf, Result3>>
         /\ [C4!Translate]_<<elf, Result4>>
<1>1. elf' = elf
  BY SameElf
<1>2. PhasesInv /\ PhasesInv' /\ Step4Inv
  BY DEF ContractInv, PhasesInv
<1>3. /\ pc2 \in {"done", "error"} => pc2' = pc2
      /\ pc \in {"done", "error"} => pc' = pc
      /\ step4 \in {"done", "error"} => step4' = step4
  BY <1>2, EndsAreFinal
<1>4. /\ Accepts2(elf)' = Accepts2(elf) /\ Accepts3(elf)' = Accepts3(elf)
      /\ Accepts4(elf)' = Accepts4(elf)
  BY <1>1, SameTrie DEF Accepts2, Accepts3, Accepts4, TextFirst, Relocatable, LoadsOf
<1>5. [C2!Translate]_<<elf, Result2>>
  <2>1. /\ pc2 = "done" => Accepts2(elf)
        /\ pc2 = "error" => ~Accepts2(elf)
        /\ Result2 = Outcome(pc2 = "done", pc2 = "error")
    BY <1>2, Outcome2
  <2>2. (/\ pc2 = "done" => Accepts2(elf)
         /\ pc2 = "error" => ~Accepts2(elf)
         /\ Result2 = Outcome(pc2 = "done", pc2 = "error"))'
    BY <1>2, Outcome2, PTL
  <2>3. /\ pc2' = "done" => Accepts2(elf)
        /\ pc2' = "error" => ~Accepts2(elf)
        /\ Result2' = Outcome(pc2 = "done", pc2 = "error")'
    BY <1>4, <2>2
  <2> QED BY <1>1, <1>3, <2>1, <2>3, Contract2Step
<1>6. [C3!Translate]_<<elf, Result3>>
  <2>1. /\ pc = "done" => Accepts3(elf)
        /\ pc = "error" => ~Accepts3(elf)
        /\ Result3 = Outcome(pc = "done", pc = "error")
    BY Outcome3
  <2>2. (/\ pc = "done" => Accepts3(elf)
         /\ pc = "error" => ~Accepts3(elf)
         /\ Result3 = Outcome(pc = "done", pc = "error"))'
    BY Outcome3, PTL
  <2>3. /\ pc' = "done" => Accepts3(elf)
        /\ pc' = "error" => ~Accepts3(elf)
        /\ Result3' = Outcome(pc = "done", pc = "error")'
    BY <1>4, <2>2
  <2> QED BY <1>1, <1>3, <2>1, <2>3, Contract3Step
<1>7. [C4!Translate]_<<elf, Result4>>
  <2>1. /\ step4 = "done" => Accepts4(elf)
        /\ step4 = "error" => ~Accepts4(elf)
        /\ Result4 = Outcome(step4 = "done", step4 = "error")
    BY Outcome4
  <2>2. (/\ step4 = "done" => Accepts4(elf)
         /\ step4 = "error" => ~Accepts4(elf)
         /\ Result4 = Outcome(step4 = "done", step4 = "error"))'
    BY Outcome4, PTL
  <2>3. /\ step4' = "done" => Accepts4(elf)
        /\ step4' = "error" => ~Accepts4(elf)
        /\ Result4' = Outcome(step4 = "done", step4 = "error")'
    BY <1>4, <2>2
  <2> QED BY <1>1, <1>3, <2>1, <2>3, Contract4Step
<1> QED BY <1>5, <1>6, <1>7

\* Each phase implements the contract.
THEOREM ContractKept == SpecAll => KeepContract
<1>1. InitAll => C2!Init /\ C3!Init /\ C4!Init
  BY DEF InitAll, Init4, Init2, LoadInit, Init, C2!Init, C3!Init, C4!Init, C2!Pending, C3!Pending,
         C4!Pending, Result2, Result3, Result4, Result
<1>2. ContractInv /\ ContractInv' /\ [NextAll]_<<vars4, vars2>> =>
        /\ [C2!Translate]_<<elf, Result2>>
        /\ [C3!Translate]_<<elf, Result3>>
        /\ [C4!Translate]_<<elf, Result4>>
  BY ContractSteps
<1> QED BY <1>1, <1>2, ContractInvariant, PTL DEF SpecAll, KeepContract, C2!Spec, C3!Spec, C4!Spec
=============================================================================
