---------------------------- MODULE Phase3Proofs ----------------------------
(***************************************************************************)
(* For every ELF, page size, header reserve and load address: the layout   *)
(* of Phase 3 is sound, _location agrees with it, the fixups are the       *)
(* relocations, and the object that dyld makes of Phase 3's or of Phase    *)
(* 4's dylib is, pointer by pointer, the one that Bionic would have made.  *)
(*                                                                         *)
(* The argument follows an object on its way: the relocation loop          *)
(* (LoopInv), the dylibs written (Written, Rewritten), what dyld needs of  *)
(* them (Suits), and dyld's registers (RegInv) and memory (MemInv) in      *)
(* front of every opcode.                                                  *)
(***************************************************************************)
EXTENDS Phase2, FiniteSetTheorems, WellFoundedInduction, TLAPS

-----------------------------------------------------------------------------
(* Rounding to pages.                                                      *)

\* Multiples of the page size are ordered as their factors.
LEMMA Multiples ==
  ASSUME NEW a \in Int, NEW b \in Int, a <= b
  PROVE  a * PageSize <= b * PageSize
BY LayoutAssumption

\* Division with remainder by the page size.
LEMMA Division ==
  ASSUME NEW v \in Int
  PROVE  /\ v \div PageSize \in Int
         /\ v % PageSize \in 0 .. PageSize - 1
         /\ v = (v \div PageSize) * PageSize + (v % PageSize)
BY LayoutAssumption

\* The page a value lies in is the only one that can be its quotient.
LEMMA QuotientUnique ==
  ASSUME NEW v \in Int, NEW q \in Int,
         q * PageSize <= v, v < q * PageSize + PageSize
  PROVE  v \div PageSize = q
<1>1. /\ v \div PageSize \in Int
      /\ v % PageSize \in 0 .. PageSize - 1
      /\ v = (v \div PageSize) * PageSize + (v % PageSize)
  BY Division
<1>2. CASE v \div PageSize >= q + 1
  <2>1. (q + 1) * PageSize <= (v \div PageSize) * PageSize
    BY <1>1, <1>2, Multiples
  <2>2. (q + 1) * PageSize = q * PageSize + PageSize
    BY LayoutAssumption
  <2> QED BY <1>1, <2>1, <2>2, LayoutAssumption
<1>3. CASE v \div PageSize <= q - 1
  <2>1. (v \div PageSize) * PageSize <= (q - 1) * PageSize
    BY <1>1, <1>3, Multiples
  <2>2. (q - 1) * PageSize = q * PageSize - PageSize
    BY LayoutAssumption
  <2> QED BY <1>1, <2>1, <2>2, LayoutAssumption
<1> QED BY <1>1, <1>2, <1>3

\* A multiple of the page size leaves no remainder.
LEMMA MultipleAligned ==
  ASSUME NEW q \in Int
  PROVE  (q * PageSize) % PageSize = 0
<1>1. q * PageSize \in Int
  BY LayoutAssumption
<1>2. (q * PageSize) \div PageSize = q
  BY <1>1, QuotientUnique, LayoutAssumption
<1>3. /\ q * PageSize = ((q * PageSize) \div PageSize) * PageSize
                          + ((q * PageSize) % PageSize)
      /\ (q * PageSize) % PageSize \in 0 .. PageSize - 1
  BY <1>1, Division
<1> QED BY <1>1, <1>2, <1>3, LayoutAssumption

\* _floor: the start of the page.
LEMMA FloorFacts ==
  ASSUME NEW v \in Int
  PROVE  /\ Floor(v) \in Int
         /\ Floor(v) <= v /\ v < Floor(v) + PageSize
         /\ Floor(v) % PageSize = 0
<1>1. Floor(v) \in Int /\ Floor(v) <= v /\ v < Floor(v) + PageSize
  BY Division, LayoutAssumption DEF Floor
<1>2. v \div PageSize \in Int
  BY Division
<1>3. Floor(v) % PageSize = 0
  BY <1>2, MultipleAligned DEF Floor
<1> QED BY <1>1, <1>3

\* A page-aligned displacement moves the start of the page with the value.
LEMMA FloorShift ==
  ASSUME NEW m \in Int, m % PageSize = 0, NEW v \in Int
  PROVE  Floor(m + v) = m + Floor(v)
<1> DEFINE q == m \div PageSize + v \div PageSize
<1>1. /\ m \div PageSize \in Int /\ m = (m \div PageSize) * PageSize
      /\ v \div PageSize \in Int /\ v % PageSize \in 0 .. PageSize - 1
      /\ v = (v \div PageSize) * PageSize + (v % PageSize)
  BY Division, LayoutAssumption
<1>2. /\ q * PageSize = (m \div PageSize) * PageSize + (v \div PageSize) * PageSize
      /\ q \in Int
  BY <1>1, LayoutAssumption
<1>3. q * PageSize <= m + v /\ m + v < q * PageSize + PageSize /\ m + v \in Int
  BY <1>1, <1>2, LayoutAssumption
<1>4. (m + v) \div PageSize = q
  <2> HIDE DEF q
  <2> QED BY <1>2, <1>3, QuotientUnique
<1> QED BY <1>1, <1>2, <1>4 DEF Floor

\* _align is _floor of the last value that may round up to the same page.
LEMMA AlignIsFloor ==
  ASSUME NEW v \in Int
  PROVE  Align(v) = Floor(v + PageSize - 1)
BY DEF Align, Floor

\* _align: the first page boundary that is not in front of the value.
LEMMA AlignFacts ==
  ASSUME NEW v \in Int
  PROVE  /\ Align(v) \in Int
         /\ v <= Align(v) /\ Align(v) < v + PageSize
         /\ Align(v) % PageSize = 0
<1>1. v + PageSize - 1 \in Int
  BY LayoutAssumption
<1> QED BY <1>1, FloorFacts, AlignIsFloor, LayoutAssumption

\* A page-aligned displacement moves the page boundary with the value.
LEMMA AlignShift ==
  ASSUME NEW m \in Int, m % PageSize = 0, NEW v \in Int
  PROVE  Align(m + v) = m + Align(v)
<1>1. v + PageSize - 1 \in Int /\ m + (v + PageSize - 1) = (m + v) + PageSize - 1
  BY LayoutAssumption
<1>2. Floor(m + (v + PageSize - 1)) = m + Floor(v + PageSize - 1)
  BY <1>1, FloorShift
<1>3. m + v \in Int
  OBVIOUS
<1>4. Align(m + v) = Floor((m + v) + PageSize - 1)
  BY <1>3, AlignIsFloor
<1>5. Align(v) = Floor(v + PageSize - 1)
  BY AlignIsFloor
<1> QED BY <1>1, <1>2, <1>4, <1>5

\* An aligned value stays where it is, and bounds what rounds up below it.
LEMMA AlignedFixed ==
  ASSUME NEW m \in Int, m % PageSize = 0
  PROVE  Align(m) = m
<1>1. Floor(PageSize - 1) = 0
  <2>1. (PageSize - 1) \div PageSize = 0
    BY QuotientUnique, LayoutAssumption
  <2> QED BY <2>1, LayoutAssumption DEF Floor
<1>2. Floor(m + (PageSize - 1)) = m + Floor(PageSize - 1)
  BY FloorShift, LayoutAssumption
<1>3. m + (PageSize - 1) = m + PageSize - 1
  BY LayoutAssumption
<1> QED BY <1>1, <1>2, <1>3, AlignIsFloor

\* An aligned bound stays a bound when a value below it is rounded up.
LEMMA AlignLeast ==
  ASSUME NEW v \in Int, NEW m \in Int, v <= m, m % PageSize = 0
  PROVE  Align(v) <= m
<1>1. (v + PageSize - 1) \div PageSize <= (m + PageSize - 1) \div PageSize
  BY LayoutAssumption
<1>2. (v + PageSize - 1) \div PageSize \in Int /\ (m + PageSize - 1) \div PageSize \in Int
  BY Division, LayoutAssumption
<1>3. Align(v) <= Align(m)
  BY <1>1, <1>2, Multiples DEF Align
<1> QED BY <1>3, AlignedFixed
-----------------------------------------------------------------------------
(* The layout and _location.                                               *)

\* The slide is a whole number of pages.
LEMMA SlideAligned == Slide \in Nat /\ Slide % PageSize = 0
<1>1. ImageBase \in Nat /\ HeaderReserve \in Nat /\ PageSize \in Nat
  BY LayoutAssumption
<1>2. /\ ImageBase = (ImageBase \div PageSize) * PageSize
      /\ HeaderReserve = (HeaderReserve \div PageSize) * PageSize
      /\ ImageBase \div PageSize \in Int /\ HeaderReserve \div PageSize \in Int
  BY <1>1, Division, LayoutAssumption
<1> DEFINE q == ImageBase \div PageSize + HeaderReserve \div PageSize
<1>3. Slide = q * PageSize /\ Slide \in Nat /\ q \in Int
  BY <1>1, <1>2 DEF Slide
<1> HIDE DEF q
<1>4. (q * PageSize) % PageSize = 0
  BY <1>3, MultipleAligned
<1> QED BY <1>3, <1>4

\* A set of naturals that is not empty has a least element.
LEMMA LeastExists ==
  ASSUME NEW T \in SUBSET Nat, T # {}
  PROVE  \E x \in T : \A y \in T : x <= y
<1>1. PICK x \in T : \A y \in T : ~(<<y, x>> \in OpToRel(<, Nat))
  BY WFMin, NatLessThanWellFounded, Zenon
<1>2. \A y \in T : ~(y < x)
  BY <1>1, Zenon DEF OpToRel
<1> QED BY <1>2

\* The fields of a load that the layout reads.
LEMMA LoadFacts ==
  ASSUME TypeOK, NEW i \in DOMAIN elf.loads
  PROVE  /\ elf.loads[i].vaddr \in Nat /\ elf.loads[i].offset \in Nat
         /\ elf.loads[i].filesz \in Nat /\ elf.loads[i].memsz \in Nat
         /\ elf.loads[i].flags \in 0 .. 7
         /\ elf.loads[i].filesz <= elf.loads[i].memsz
         /\ elf.loads[i].offset + elf.loads[i].filesz <= Len(elf.data)
<1>1. elf.loads \in Seq(LoadHeader)
  BY DEF TypeOK, WellFormed, Elf
<1>2. elf.loads[i] \in LoadHeader
  BY <1>1
<1> QED BY <1>2 DEF TypeOK, WellFormed, LoadHeader

\* The fields of a segment.
LEMMA SegmentFacts ==
  ASSUME TypeOK, NEW i \in DOMAIN segments
  PROVE  /\ segments[i].vmaddr \in Nat /\ segments[i].vmsize \in Nat
         /\ segments[i].fileoff \in Nat /\ segments[i].filesize \in Nat
         /\ segments[i].elf_vaddr \in Nat /\ segments[i].elf_filesz \in Nat
         /\ segments[i].data_addr \in Nat /\ segments[i].data_fileoff \in Nat
         /\ segments[i].elf_offset \in Nat
         /\ i \in 1 .. Len(segments)
<1>1. segments \in Seq(Segment)
  BY DEF TypeOK
<1>2. segments[i] \in Segment /\ i \in 1 .. Len(segments)
  BY <1>1
<1> QED BY <1>2 DEF Segment

\* An address behind the start of a load is behind the start of the segment
\* that holds it.
LEMMA BehindStart ==
  ASSUME NEW s \in Int, NEW e \in Int, NEW v \in Int, NEW m \in Int, m <= s + e, e <= v
  PROVE  (s + v) - m \in Nat
OBVIOUS

\* Counting one more fixup for one more relocation.
LEMMA OneMore ==
  ASSUME NEW a \in Nat, NEW b \in Nat, NEW c \in Nat, a + b = c - 1
  PROVE  (a + 1) + b = (c + 1) - 1 /\ (c + 1) - 1 = c
OBVIOUS

\* The same distance on both sides of an equation of distances.
LEMMA SameDistance ==
  ASSUME NEW a \in Int, NEW b \in Int, NEW c \in Int, NEW d \in Int, NEW e \in Int,
         NEW v \in Int, (a + b) - c = d - e
  PROVE  e + ((a + v) - c) = d + (v - b)
OBVIOUS

\* _location names a segment and an offset into it that denote the ELF
\* address plus the slide, and the same pointer of the file.
LEMMA LocationFacts ==
  ASSUME TypeOK, LayoutSound, LayoutProgress, NEW v \in Nat, Holding(v) # {}
  PROVE  /\ Location(v).seg \in Nat /\ Location(v).off \in Nat
         /\ Location(v).out \in Nat
         /\ Location(v).seg + 1 \in DOMAIN segments
         /\ segments[Location(v).seg + 1].vmaddr + Location(v).off = Slide + v
         /\ segments[Location(v).seg + 1].fileoff + Location(v).off = Location(v).out
         /\ Location(v).out < FileEnd(segments[Location(v).seg + 1])
<1> DEFINE i == CHOOSE i \in Holding(v) : \A j \in Holding(v) : i <= j
<1>1. Holding(v) \in SUBSET Nat
  BY SegmentFacts DEF Holding
<1>2. i \in Holding(v)
  BY <1>1, LeastExists
<1>3. Location(v) = [seg |-> i - 1,
                     out |-> segments[i].data_fileoff + (v - segments[i].elf_vaddr),
                     off |-> (Slide + v) - segments[i].vmaddr]
  BY DEF Location
<1> HIDE DEF i
<1>4. /\ i \in DOMAIN segments
      /\ segments[i].elf_vaddr <= v
      /\ v < segments[i].elf_vaddr + segments[i].elf_filesz
  BY <1>2 DEF Holding
<1>5. /\ segments[i].vmaddr \in Nat /\ segments[i].fileoff \in Nat
      /\ segments[i].filesize \in Nat /\ segments[i].elf_vaddr \in Nat
      /\ segments[i].elf_filesz \in Nat /\ segments[i].data_fileoff \in Nat
      /\ i \in 1 .. Len(segments)
  BY <1>4, SegmentFacts
<1>6. SegmentPlaced(i) /\ i \in DOMAIN elf.loads
  <2>1. elf.loads \in Seq(LoadHeader)
    BY DEF TypeOK, WellFormed, Elf
  <2> QED BY <1>4, <1>5, <2>1, SegmentFacts DEF LayoutSound, SegmentsPlaced, LayoutProgress
<1>7. (i - 1) + 1 = i /\ i - 1 \in Nat
  BY <1>5
<1>8. /\ Location(v).seg = i - 1 /\ Location(v).off = (Slide + v) - segments[i].vmaddr
      /\ Location(v).out = segments[i].data_fileoff + (v - segments[i].elf_vaddr)
      /\ Location(v).seg + 1 = i
  BY <1>3, <1>7
<1>9. elf.loads[i].vaddr \in Nat /\ elf.loads[i].filesz \in Nat /\ Slide \in Nat
  BY <1>6, LoadFacts, SlideAligned
<1>10. /\ segments[i].vmaddr <= Slide + segments[i].elf_vaddr
       /\ (Slide + segments[i].elf_vaddr) - segments[i].vmaddr
            = segments[i].data_fileoff - segments[i].fileoff
       /\ segments[i].data_fileoff + segments[i].elf_filesz
            = segments[i].fileoff + segments[i].filesize
  BY <1>6 DEF SegmentPlaced, HoldsLoad, FileEnd
<1>11. /\ Location(v).off \in Nat /\ Location(v).out \in Nat
       /\ segments[i].vmaddr + Location(v).off = Slide + v
       /\ segments[i].fileoff + Location(v).off = Location(v).out
       /\ Location(v).out < FileEnd(segments[i])
  <2>1. Location(v).off = (Slide + v) - segments[i].vmaddr /\ Location(v).off \in Int
    BY <1>5, <1>8, <1>9
  <2>2. segments[i].vmaddr + Location(v).off = Slide + v
    BY <1>5, <1>9, <2>1, SMTT(30)
  <2>3. Location(v).off \in Nat
    <3>1. (Slide + v) - segments[i].vmaddr \in Nat
      <4>1. /\ Slide \in Int /\ v \in Int
            /\ segments[i].vmaddr \in Int /\ segments[i].elf_vaddr \in Int
        BY <1>5, <1>9
      <4>2. segments[i].vmaddr <= Slide + segments[i].elf_vaddr
        BY <1>10
      <4> QED BY <1>4, <4>1, <4>2, BehindStart
    <3> QED BY <2>1, <3>1
  <2>4. Location(v).out \in Nat
    BY <1>4, <1>5, <1>8
  <2>5. segments[i].fileoff + Location(v).off = Location(v).out
    <3>1. segments[i].fileoff + ((Slide + v) - segments[i].vmaddr)
            = segments[i].data_fileoff + (v - segments[i].elf_vaddr)
      <4>1. Slide \in Int /\ v \in Int
        BY <1>9
      <4>2. /\ segments[i].vmaddr \in Int /\ segments[i].fileoff \in Int
            /\ segments[i].elf_vaddr \in Int /\ segments[i].data_fileoff \in Int
        BY <1>5
      <4>3. (Slide + segments[i].elf_vaddr) - segments[i].vmaddr
            = segments[i].data_fileoff - segments[i].fileoff
        BY <1>10
      <4> QED BY <4>1, <4>2, <4>3, SameDistance
    <3> QED BY <1>8, <3>1
  <2>6. Location(v).out < FileEnd(segments[i])
    <3>1. segments[i].data_fileoff + (v - segments[i].elf_vaddr)
            < segments[i].fileoff + segments[i].filesize
      BY <1>4, <1>5, <1>10, SMTT(30)
    <3> QED BY <1>8, <3>1 DEF FileEnd
  <2> QED BY <2>2, <2>3, <2>4, <2>5, <2>6
<1> QED
  BY <1>4, <1>7, <1>8, <1>11

\* _layout_segments on the first load, which begins at address 0.
LEMMA TextHolds ==
  ASSUME NEW ph, ph.vaddr = 0, ph.offset \in Nat, ph.filesz \in Nat, ph.memsz \in Nat
  PROVE  TextSegment(ph) \in Segment /\ HoldsLoad(TextSegment(ph), ph)
<1> DEFINE s == TextSegment(ph)
<1>1. /\ s.vmaddr = ImageBase /\ s.vmsize = Align(HeaderReserve + ph.memsz)
      /\ s.fileoff = 0 /\ s.filesize = HeaderReserve + ph.filesz
      /\ s.prot = {"r", "x"} /\ s.elf_vaddr = ph.vaddr /\ s.elf_offset = ph.offset
      /\ s.elf_filesz = ph.filesz /\ s.data_addr = Slide
      /\ s.data_fileoff = HeaderReserve
  BY DEF TextSegment
<1>2. /\ ImageBase \in Nat /\ HeaderReserve \in Nat /\ Slide = ImageBase + HeaderReserve
      /\ ImageBase % PageSize = 0 /\ HeaderReserve % PageSize = 0
      /\ PageSize \in Nat \ {0}
  BY LayoutAssumption DEF Slide
<1>3. /\ Align(HeaderReserve + ph.memsz) \in Int
      /\ HeaderReserve + ph.memsz <= Align(HeaderReserve + ph.memsz)
  <2>1. HeaderReserve + ph.memsz \in Int
    BY <1>2
  <2> QED BY <2>1, AlignFacts
<1>4. Align(HeaderReserve + ph.memsz) = HeaderReserve + Align(ph.memsz)
  BY <1>2, AlignShift
<1>5. 0 % PageSize = 0
  BY <1>2
<1>6. s \in Segment
  BY <1>2, <1>3 DEF TextSegment, Segment
<1>7. HoldsLoad(s, ph)
  <2>1. s.vmaddr % PageSize = 0 /\ s.fileoff % PageSize = 0
    BY <1>1, <1>2, <1>5
  <2>2. s.data_addr = Slide + ph.vaddr /\ s.vmaddr <= s.data_addr
    BY <1>1, <1>2
  <2>3. s.data_addr - s.vmaddr = s.data_fileoff - s.fileoff
    BY <1>1, <1>2
  <2>4. s.data_fileoff + ph.filesz = FileEnd(s) /\ s.data_fileoff >= HeaderReserve
    BY <1>1, <1>2 DEF FileEnd
  <2>5. s.vmaddr + s.vmsize = Slide + Align(ph.vaddr + ph.memsz)
    <3>1. Align(ph.memsz) \in Int /\ ph.vaddr + ph.memsz = ph.memsz
      BY AlignFacts
    <3> QED BY <1>1, <1>2, <1>4, <3>1
  <2> QED BY <1>1, <2>1, <2>2, <2>3, <2>4, <2>5 DEF HoldsLoad
<1> QED BY <1>6, <1>7

\* _layout_segments on a later load, and _map_loads on any, from a page-aligned
\* file offset: the part of the page in front of the load is in the segment too,
\* in memory and in the file.
LEMMA LaterPlaced ==
  ASSUME NEW ph, ph.vaddr \in Nat, ph.offset \in Nat, ph.filesz \in Nat,
         ph.memsz \in Nat, ph.flags \in 0 .. 7,
         NEW at \in Nat, at % PageSize = 0
  PROVE  /\ LaterSegment(ph, at) \in Segment
         /\ at >= HeaderReserve => HoldsLoad(LaterSegment(ph, at), ph)
         /\ LET s == LaterSegment(ph, at)
            IN /\ s.vmaddr = Slide + Floor(ph.vaddr) /\ s.vmaddr <= s.data_addr
               /\ s.fileoff = at /\ s.fileoff <= s.data_fileoff
               /\ s.data_addr - s.vmaddr = s.data_fileoff - s.fileoff
               /\ s.data_fileoff + ph.filesz = FileEnd(s)
               /\ s.vmaddr + s.vmsize = Slide + Align(ph.vaddr + ph.memsz)
               /\ s.elf_vaddr = ph.vaddr /\ s.elf_offset = ph.offset
               /\ s.elf_filesz = ph.filesz /\ s.data_addr = Slide + ph.vaddr
<1> DEFINE s == LaterSegment(ph, at)
           start == Floor(Slide + ph.vaddr)
           delta == (Slide + ph.vaddr) - start
<1>1. /\ s.vmaddr = start /\ s.vmsize = Align(delta + ph.memsz)
      /\ s.fileoff = at /\ s.filesize = delta + ph.filesz
      /\ s.prot = MachProt(ph.flags) /\ s.elf_vaddr = ph.vaddr /\ s.elf_offset = ph.offset
      /\ s.elf_filesz = ph.filesz /\ s.data_addr = Slide + ph.vaddr
      /\ s.data_fileoff = at + delta
  <2>1. s = [vmaddr |-> start, vmsize |-> Align(delta + ph.memsz),
             fileoff |-> at, filesize |-> delta + ph.filesz, prot |-> MachProt(ph.flags),
             elf_vaddr |-> ph.vaddr, elf_offset |-> ph.offset,
             elf_filesz |-> ph.filesz, data_addr |-> Slide + ph.vaddr,
             data_fileoff |-> at + delta]
    BY Zenon DEF LaterSegment
  <2> HIDE DEF s, start, delta
  <2> QED BY <2>1
<1>2. /\ Slide \in Nat /\ Slide % PageSize = 0 /\ HeaderReserve \in Nat
      /\ PageSize \in Nat \ {0}
  BY SlideAligned, LayoutAssumption
<1>3. /\ start \in Int /\ start <= Slide + ph.vaddr /\ start % PageSize = 0
      /\ start = Slide + Floor(ph.vaddr)
  <2>1. Slide + ph.vaddr \in Int
    BY <1>2
  <2>2. Floor(Slide + ph.vaddr) = Slide + Floor(ph.vaddr)
    BY <1>2, FloorShift
  <2> QED BY <2>1, <2>2, FloorFacts
<1>4. start \in Nat
  <2>1. Floor(ph.vaddr) \in Nat
    BY <1>2 DEF Floor
  <2> QED BY <1>2, <1>3, <2>1
<1>5. delta \in Nat
  BY <1>2, <1>3, <1>4
<1>6. start + Align(delta + ph.memsz) = Slide + Align(ph.vaddr + ph.memsz)
  <2>1. delta + ph.memsz \in Int /\ ph.vaddr + ph.memsz \in Int
    BY <1>5
  <2>2. start + (delta + ph.memsz) = Slide + (ph.vaddr + ph.memsz)
    BY <1>2, <1>4
  <2>3. Align(start + (delta + ph.memsz)) = start + Align(delta + ph.memsz)
    <3> HIDE DEF start, delta
    <3> QED BY <1>3, <2>1, AlignShift
  <2>4. Align(Slide + (ph.vaddr + ph.memsz)) = Slide + Align(ph.vaddr + ph.memsz)
    BY <1>2, <2>1, AlignShift
  <2> QED BY <2>2, <2>3, <2>4
<1> HIDE DEF start, delta
<1>7. Align(delta + ph.memsz) \in Nat
  <2>1. delta + ph.memsz \in Nat
    BY <1>5
  <2> QED BY <2>1, AlignFacts
<1>8. s \in Segment
  <2>1. /\ s.vmaddr \in Nat /\ s.vmsize \in Nat /\ s.fileoff \in Nat
        /\ s.filesize \in Nat /\ s.data_addr \in Nat /\ s.data_fileoff \in Nat
    BY <1>1, <1>2, <1>4, <1>5, <1>7
  <2>2. MachProt(ph.flags) \in SUBSET {"r", "w", "x"}
    BY DEF MachProt
  <2> QED BY <2>1, <2>2 DEF LaterSegment, Segment
<1>9. s.vmaddr % PageSize = 0 /\ s.fileoff % PageSize = 0
  BY <1>1, <1>3
<1>10. s.data_addr = Slide + ph.vaddr /\ s.vmaddr <= s.data_addr
  BY <1>1, <1>3
<1>11. s.data_addr - s.vmaddr = s.data_fileoff - s.fileoff
  <2>1. (at + delta) - at = delta
    BY <1>5
  <2>2. (Slide + ph.vaddr) - start = delta
    BY DEF delta
  <2> QED BY <1>1, <2>1, <2>2
<1>12. s.data_fileoff + ph.filesz = FileEnd(s) /\ s.fileoff <= s.data_fileoff
  <2>1. (at + delta) + ph.filesz = at + (delta + ph.filesz) /\ at <= at + delta
    BY <1>5
  <2> QED BY <1>1, <2>1 DEF FileEnd
<1>13. s.vmaddr + s.vmsize = Slide + Align(ph.vaddr + ph.memsz)
  BY <1>1, <1>6
<1>14. at >= HeaderReserve => s.data_fileoff >= HeaderReserve
  BY <1>1, <1>2, <1>5
<1>15. at >= HeaderReserve => HoldsLoad(s, ph)
  <2> HIDE DEF s
  <2> QED BY <1>1, <1>9, <1>10, <1>11, <1>12, <1>13, <1>14 DEF HoldsLoad
<1> HIDE DEF s
<1> QED BY <1>1, <1>3, <1>8, <1>10, <1>11, <1>12, <1>13, <1>15 DEF s

\* Behind the header reserve the segment holds the load.
LEMMA LaterHolds ==
  ASSUME NEW ph, ph.vaddr \in Nat, ph.offset \in Nat, ph.filesz \in Nat,
         ph.memsz \in Nat, ph.flags \in 0 .. 7,
         NEW at \in Nat, at % PageSize = 0, at >= HeaderReserve
  PROVE  /\ LaterSegment(ph, at) \in Segment
         /\ HoldsLoad(LaterSegment(ph, at), ph)
         /\ LaterSegment(ph, at).vmaddr = Slide + Floor(ph.vaddr)
         /\ LaterSegment(ph, at).fileoff = at
BY LaterPlaced
-----------------------------------------------------------------------------
(* The inductive step, one lemma per action.                               *)

\* Segments that hold page-separated loads do not meet in memory.
LEMMA PagesFromPlacement ==
  TypeOK /\ SegmentsPlaced /\ LayoutProgress => PagesDisjoint
<1> SUFFICES ASSUME TypeOK, SegmentsPlaced, LayoutProgress, PageSeparated,
                    NEW i \in DOMAIN segments, NEW j \in DOMAIN segments, i < j
             PROVE  segments[i].vmaddr + segments[i].vmsize <= segments[j].vmaddr
  BY DEF PagesDisjoint
<1>1. i \in 1 .. Len(segments) /\ j \in 1 .. Len(segments) /\ j > 1
  BY SegmentFacts
<1>2. i \in DOMAIN elf.loads /\ j \in DOMAIN elf.loads
  <2>1. elf.loads \in Seq(LoadHeader) /\ Len(segments) \in Nat
    BY DEF TypeOK, WellFormed, Elf
  <2> QED BY <1>1, <2>1 DEF LayoutProgress
<1>3. Align(elf.loads[i].vaddr + elf.loads[i].memsz) <= Floor(elf.loads[j].vaddr)
  BY <1>2 DEF PageSeparated
<1>4. /\ segments[i].vmaddr + segments[i].vmsize
           = Slide + Align(elf.loads[i].vaddr + elf.loads[i].memsz)
      /\ segments[j].vmaddr = Slide + Floor(elf.loads[j].vaddr)
  BY <1>1 DEF SegmentsPlaced, SegmentPlaced, HoldsLoad
<1>5. /\ Align(elf.loads[i].vaddr + elf.loads[i].memsz) \in Int
      /\ Floor(elf.loads[j].vaddr) \in Int
  <2>1. elf.loads[i].vaddr + elf.loads[i].memsz \in Int /\ elf.loads[j].vaddr \in Int
    BY <1>2, LoadFacts
  <2> QED BY <2>1, AlignFacts, FloorFacts
<1>6. Slide \in Int
  BY SlideAligned
<1> QED BY <1>3, <1>4, <1>5, <1>6

\* A Phase3Error leaves everything as it is.
LEMMA FailStep == Phase3Inv /\ Fail => Phase3Inv'
<1> SUFFICES ASSUME Phase3Inv, Fail PROVE Phase3Inv'
  OBVIOUS
<1>1. TypeOK'
  BY DEF Phase3Inv, TypeOK, Fail
<1>2. LayoutSound'
  BY DEF Phase3Inv, LayoutSound, SegmentsPlaced, SegmentPlaced, FilesDisjoint, PagesDisjoint,
         PageSeparated, Fail
<1>3. LayoutProgress'
  BY DEF Phase3Inv, LayoutProgress, Fail
<1>4. FixupsMatchRelocs'
  BY DEF FixupsMatchRelocs, Fail
<1> QED BY <1>1, <1>2, <1>3, <1>4 DEF Phase3Inv

\* Laying out the first load keeps the invariant.
LEMMA LayoutTextStep == Phase3Inv /\ LayoutText => Phase3Inv'
<1> SUFFICES ASSUME Phase3Inv, LayoutText PROVE Phase3Inv'
  OBVIOUS
<1> DEFINE ph == elf.loads[1]
           seg == TextSegment(ph)
<1>1. /\ segments' = <<seg>> /\ cursor' = Align(seg.filesize)
      /\ pc' = "layout" /\ k' = 2 /\ elf' = elf /\ image' = image
      /\ rebases' = rebases /\ bindings' = bindings /\ patched' = patched
      /\ out' = out /\ pc = "construct"
  BY DEF LayoutText
<1>2. TypeOK /\ LayoutProgress
  BY DEF Phase3Inv
<1>3. elf.loads \in Seq(LoadHeader) /\ elf.loads # <<>> /\ ph.vaddr = 0
  BY <1>2 DEF LayoutText, AcceptsElf, TypeOK, WellFormed, Elf
<1>4. 1 \in DOMAIN elf.loads /\ 1 <= Len(elf.loads)
  BY <1>3
<1>5. seg \in Segment /\ HoldsLoad(seg, ph)
  <2>1. ph.offset \in Nat /\ ph.filesz \in Nat /\ ph.memsz \in Nat
    BY <1>2, <1>4, LoadFacts
  <2> QED BY <1>3, <2>1, TextHolds
<1>6. FileEnd(seg) = seg.filesize /\ FileEnd(seg) \in Nat
  <2>1. seg.fileoff = 0
    BY DEF TextSegment
  <2>2. seg.filesize \in Nat
    BY <1>5 DEF Segment
  <2> QED BY <2>1, <2>2 DEF FileEnd
<1> HIDE DEF seg
<1>7. segments'[1] = seg /\ DOMAIN segments' = {1} /\ Len(segments') = 1
  BY <1>1
<1>8. cursor' \in Nat
  BY <1>1, <1>6, AlignFacts
<1>9. TypeOK'
  <2>1. segments' \in Seq(Segment)
    BY <1>1, <1>5
  <2> QED BY <1>1, <1>2, <1>8, <2>1 DEF TypeOK
<1>10. SegmentsPlaced'
  BY <1>1, <1>5, <1>7 DEF SegmentsPlaced, SegmentPlaced
<1>11. LayoutProgress'
  BY <1>1, <1>2, <1>4, <1>6, <1>7 DEF LayoutProgress
<1>12. LayoutSound'
  <2>1. FilesDisjoint'
    BY <1>7 DEF FilesDisjoint
  <2>2. PagesDisjoint'
    BY <1>9, <1>10, <1>11, PagesFromPlacement, PTL
  <2> QED BY <1>10, <2>1, <2>2 DEF LayoutSound
<1>13. FixupsMatchRelocs'
  BY <1>1 DEF FixupsMatchRelocs
<1> QED BY <1>9, <1>11, <1>12, <1>13 DEF Phase3Inv

\* Laying out any later load keeps the invariant: it goes behind the others.
LEMMA LayoutLoadStep == Phase3Inv /\ LayoutLoad => Phase3Inv'
<1> SUFFICES ASSUME Phase3Inv, LayoutLoad PROVE Phase3Inv'
  OBVIOUS
<1> DEFINE ph == elf.loads[k]
           seg == LaterSegment(ph, Align(cursor))
           n == Len(segments)
<1>1. /\ segments' = Append(segments, seg) /\ cursor' = Align(FileEnd(seg))
      /\ pc' = pc /\ pc = "layout" /\ k' = k + 1 /\ elf' = elf /\ image' = image
      /\ rebases' = rebases /\ bindings' = bindings /\ patched' = patched
      /\ out' = out /\ k <= Len(elf.loads)
  BY DEF LayoutLoad
<1>2. TypeOK /\ LayoutProgress /\ LayoutSound
  BY DEF Phase3Inv
<1>3. /\ elf.loads \in Seq(LoadHeader) /\ k \in Nat \ {0} /\ cursor \in Nat
      /\ segments \in Seq(Segment)
  BY <1>2 DEF TypeOK, WellFormed, Elf
<1>4. /\ n = k - 1 /\ n \in Nat \ {0} /\ cursor = Align(FileEnd(segments[n]))
      /\ n \in DOMAIN segments /\ k \in DOMAIN elf.loads /\ DOMAIN segments = 1 .. n
      /\ k = n + 1
  BY <1>1, <1>2, <1>3 DEF LayoutProgress
<1>5. /\ FileEnd(segments[n]) \in Nat /\ HeaderReserve <= FileEnd(segments[n])
      /\ HeaderReserve \in Nat
  <2>1. /\ segments[n].data_fileoff + elf.loads[n].filesz = FileEnd(segments[n])
        /\ segments[n].data_fileoff >= HeaderReserve
    BY <1>2, <1>4 DEF LayoutSound, SegmentsPlaced, SegmentPlaced, HoldsLoad
  <2>2. n \in DOMAIN elf.loads
    BY <1>1, <1>3, <1>4
  <2>3. segments[n].data_fileoff \in Nat /\ elf.loads[n].filesz \in Nat
    BY <1>2, <1>4, <2>2, SegmentFacts, LoadFacts
  <2> QED BY <2>1, <2>3, LayoutAssumption
<1>6. FileEnd(segments[n]) <= cursor /\ cursor % PageSize = 0
  BY <1>4, <1>5, AlignFacts
<1>7. Align(cursor) = cursor
  BY <1>3, <1>6, AlignedFixed
<1>8. /\ seg \in Segment /\ HoldsLoad(seg, ph)
      /\ seg.vmaddr = Slide + Floor(ph.vaddr) /\ seg.fileoff = cursor
  <2>1. /\ ph.vaddr \in Nat /\ ph.offset \in Nat /\ ph.filesz \in Nat
        /\ ph.memsz \in Nat /\ ph.flags \in 0 .. 7
    BY <1>2, <1>4, LoadFacts
  <2>2. cursor >= HeaderReserve
    BY <1>3, <1>5, <1>6
  <2> HIDE DEF ph
  <2> QED BY <1>3, <1>6, <1>7, <2>1, <2>2, LaterHolds
<1> HIDE DEF seg
<1>9. /\ Len(segments') = n + 1 /\ DOMAIN segments' = 1 .. n + 1
      /\ segments'[n + 1] = seg
      /\ \A i \in 1 .. n : segments'[i] = segments[i]
      /\ segments' \in Seq(Segment)
  BY <1>1, <1>3, <1>8
<1>10. FileEnd(seg) \in Nat
  <2>1. seg.fileoff \in Nat /\ seg.filesize \in Nat
    BY <1>8 DEF Segment
  <2> QED BY <2>1 DEF FileEnd
<1>11. cursor' \in Nat
  BY <1>1, <1>10, AlignFacts
<1>12. TypeOK'
  BY <1>1, <1>2, <1>3, <1>9, <1>11 DEF TypeOK
<1>13. SegmentsPlaced'
  <2> SUFFICES ASSUME NEW i \in 1 .. n + 1 PROVE SegmentPlaced(i)'
    BY <1>9 DEF SegmentsPlaced
  <2>1. CASE i \in 1 .. n
    <3>1. SegmentPlaced(i)
      BY <1>2, <1>4, <2>1 DEF LayoutSound, SegmentsPlaced
    <3> QED BY <1>1, <1>9, <2>1, <3>1 DEF SegmentPlaced
  <2>2. CASE i = n + 1
    BY <1>1, <1>4, <1>8, <1>9, <2>2 DEF SegmentPlaced
  <2> QED BY <1>4, <2>1, <2>2
<1>14. LayoutProgress'
  BY <1>1, <1>2, <1>3, <1>4, <1>9 DEF LayoutProgress
<1>15. FilesDisjoint'
  <2> SUFFICES ASSUME NEW i \in 1 .. n + 1, NEW j \in 1 .. n + 1, i < j
               PROVE  FileEnd(segments'[i]) <= segments'[j].fileoff
    BY <1>9 DEF FilesDisjoint
  <2>1. i \in 1 .. n /\ segments'[i] = segments[i] /\ i \in DOMAIN segments
    BY <1>4, <1>9
  <2>2. CASE j \in 1 .. n
    BY <1>2, <1>4, <1>9, <2>1, <2>2 DEF LayoutSound, FilesDisjoint
  <2>3. CASE j = n + 1
    <3>1. FileEnd(segments[i]) <= FileEnd(segments[n])
      <4>1. CASE i = n
        BY <1>5, <4>1
      <4>2. CASE i < n
        <5>1. FileEnd(segments[i]) <= segments[n].fileoff
          BY <1>2, <1>4, <2>1, <4>2 DEF LayoutSound, FilesDisjoint
        <5>2. /\ segments[n].fileoff \in Nat /\ segments[n].filesize \in Nat
              /\ segments[i].fileoff \in Nat /\ segments[i].filesize \in Nat
          BY <1>2, <1>4, <2>1, SegmentFacts
        <5> QED BY <5>1, <5>2 DEF FileEnd
      <4> QED BY <1>4, <2>1, <4>1, <4>2
    <3>2. FileEnd(segments[i]) \in Nat
      <4>1. segments[i].fileoff \in Nat /\ segments[i].filesize \in Nat
        BY <1>2, <2>1, SegmentFacts
      <4> QED BY <4>1 DEF FileEnd
    <3> QED BY <1>3, <1>5, <1>6, <1>8, <1>9, <2>1, <2>3, <3>1, <3>2
  <2> QED BY <1>4, <2>2, <2>3
<1>16. PagesDisjoint'
  BY <1>12, <1>13, <1>14, PagesFromPlacement, PTL
<1>17. FixupsMatchRelocs'
  BY <1>1 DEF FixupsMatchRelocs
<1> QED BY <1>12, <1>13, <1>14, <1>15, <1>16, <1>17 DEF Phase3Inv, LayoutSound

\* The greatest element, where one is known.
LEMMA MaxIs ==
  ASSUME NEW S \in SUBSET Int, NEW m \in S, \A x \in S : x <= m
  PROVE  Max(S) = m
<1>1. \E x \in S : \A y \in S : x >= y
  OBVIOUS
<1>2. Max(S) \in S /\ \A y \in S : Max(S) >= y
  BY <1>1 DEF Max
<1>3. Max(S) \in Int /\ m \in Int /\ Max(S) >= m /\ Max(S) <= m
  BY <1>2
<1> QED BY <1>3

\* The image ends where the layout's cursor stopped.
LEMMA DataEndIsCursor ==
  ASSUME TypeOK, LayoutSound, LayoutProgress, pc \in {"layout", "relocate", "done"}
  PROVE  DataEnd = cursor
<1> DEFINE n == Len(segments)
           S == {Align(FileEnd(segments[i])) : i \in DOMAIN segments}
<1>1. /\ segments \in Seq(Segment) /\ segments # <<>> /\ cursor \in Nat
      /\ cursor = Align(FileEnd(segments[n]))
  BY DEF TypeOK, LayoutProgress
<1>2. n \in DOMAIN segments /\ n \in Nat \ {0} /\ DOMAIN segments = 1 .. n
  BY <1>1
<1>3. ASSUME NEW i \in DOMAIN segments PROVE FileEnd(segments[i]) \in Nat
  <2>1. segments[i].fileoff \in Nat /\ segments[i].filesize \in Nat
    BY SegmentFacts
  <2> QED BY <2>1 DEF FileEnd
<1>4. cursor % PageSize = 0 /\ FileEnd(segments[n]) <= cursor
  <2>1. FileEnd(segments[n]) \in Int
    BY <1>2, <1>3
  <2> QED BY <1>1, <2>1, AlignFacts
<1>5. ASSUME NEW i \in DOMAIN segments PROVE Align(FileEnd(segments[i])) <= cursor
  <2>1. FileEnd(segments[i]) <= cursor
    <3>1. CASE i = n
      BY <1>4, <3>1
    <3>2. CASE i < n
      <4>1. FileEnd(segments[i]) <= segments[n].fileoff
        BY <1>2, <3>2 DEF LayoutSound, FilesDisjoint
      <4>2. segments[n].fileoff \in Nat /\ segments[n].filesize \in Nat
        BY <1>2, SegmentFacts
      <4>3. FileEnd(segments[n]) >= segments[n].fileoff
        BY <4>2 DEF FileEnd
      <4> QED BY <1>1, <1>2, <1>3, <1>4, <4>1, <4>2, <4>3
    <3> QED BY <1>2, <3>1, <3>2
  <2>2. FileEnd(segments[i]) \in Int /\ cursor \in Int
    BY <1>1, <1>3
  <2> QED BY <1>4, <2>1, <2>2, AlignLeast
<1>6. S \in SUBSET Int
  BY <1>3, AlignFacts
<1>7. cursor \in S /\ \A x \in S : x <= cursor
  BY <1>1, <1>2, <1>5
<1> HIDE DEF S
<1>8. Max(S) = cursor
  BY <1>6, <1>7, MaxIs
<1> QED BY <1>8 DEF DataEnd, S

\* Every pointer copied into the image is a pointer of the ELF file or zero:
\* the segments' data are disjoint in the output and inside the input.
LEMMA CopiedWordTyped ==
  ASSUME TypeOK, LayoutSound, LayoutProgress, NEW o \in Nat
  PROVE  CopiedWord(o) \in 0 .. WordMod - 1
<1> DEFINE owners == {i \in DOMAIN segments :
                        /\ segments[i].data_fileoff <= o
                        /\ o < segments[i].data_fileoff + segments[i].elf_filesz}
<1>1. CASE owners = {}
  BY <1>1, LayoutAssumption DEF CopiedWord
<1>2. CASE owners # {}
  <2>1. PICK i \in owners : TRUE
    BY <1>2
  <2>2. ASSUME NEW h \in DOMAIN segments
        PROVE  /\ segments[h].fileoff \in Nat /\ segments[h].data_fileoff \in Nat
               /\ segments[h].elf_filesz \in Nat /\ segments[h].elf_offset \in Nat
               /\ segments[h].fileoff <= segments[h].data_fileoff
               /\ FileEnd(segments[h]) = segments[h].data_fileoff + segments[h].elf_filesz
               /\ h \in 1 .. Len(segments)
    <3>1. /\ segments[h].fileoff \in Nat /\ segments[h].data_fileoff \in Nat
          /\ segments[h].elf_filesz \in Nat /\ segments[h].elf_offset \in Nat
          /\ segments[h].data_addr \in Nat /\ segments[h].vmaddr \in Nat
          /\ h \in 1 .. Len(segments)
      BY SegmentFacts
    <3>2. /\ segments[h].vmaddr <= segments[h].data_addr
          /\ segments[h].data_addr - segments[h].vmaddr
               = segments[h].data_fileoff - segments[h].fileoff
          /\ FileEnd(segments[h]) = segments[h].data_fileoff + segments[h].elf_filesz
      BY DEF LayoutSound, SegmentsPlaced, SegmentPlaced, HoldsLoad
    <3>3. segments[h].fileoff <= segments[h].data_fileoff
      BY <3>1, <3>2
    <3> QED BY <3>1, <3>2, <3>3
  <2>3. ASSUME NEW h \in owners, NEW j \in owners PROVE ~(h < j)
    <3>1. h \in DOMAIN segments /\ j \in DOMAIN segments
      OBVIOUS
    <3>2. h < j => FileEnd(segments[h]) <= segments[j].fileoff
      BY <3>1 DEF LayoutSound, FilesDisjoint
    <3>3. FileEnd(segments[h]) > o /\ segments[j].fileoff <= o
      BY <2>2, <3>1, SMTT(30)
    <3>4. FileEnd(segments[h]) \in Nat /\ segments[j].fileoff \in Nat
      BY <2>2, <3>1, SMTT(30)
    <3> QED BY <3>2, <3>3, <3>4
  <2>4. owners \in SUBSET Int /\ i \in Int
    BY <2>2
  <2>5. Max(owners) = i
    <3>1. \A j \in owners : j <= i
      BY <2>3, <2>4
    <3> HIDE DEF owners
    <3> QED BY <2>1, <2>4, <3>1, MaxIs
  <2>6. i \in DOMAIN segments /\ i \in DOMAIN elf.loads
    <3>1. elf.loads \in Seq(LoadHeader) /\ Len(segments) <= Len(elf.loads)
      BY DEF TypeOK, WellFormed, Elf, LayoutProgress
    <3>2. segments \in Seq(Segment)
      BY DEF TypeOK
    <3> QED BY <2>1, <3>1, <3>2
  <2>7. segments[i].elf_offset + segments[i].elf_filesz <= Len(elf.data)
    BY <2>6, LoadFacts DEF LayoutSound, SegmentsPlaced, SegmentPlaced, HoldsLoad
  <2> DEFINE x == segments[i].elf_offset + (o - segments[i].data_fileoff) + 1
  <2>8. elf.data \in Seq(0 .. WordMod - 1)
    BY DEF TypeOK, WellFormed, Elf
  <2>9. x \in 1 .. Len(elf.data)
    <3>1. /\ segments[i].data_fileoff <= o
          /\ o < segments[i].data_fileoff + segments[i].elf_filesz
      BY <2>1
    <3>2. /\ segments[i].data_fileoff \in Nat /\ segments[i].elf_filesz \in Nat
          /\ segments[i].elf_offset \in Nat
      BY <2>2, <2>6
    <3>3. Len(elf.data) \in Nat
      BY <2>8
    <3> QED BY <2>7, <3>1, <3>2, <3>3
  <2>10. CopiedWord(o) = elf.data[x]
    BY <1>2, <2>5 DEF CopiedWord
  <2> HIDE DEF x
  <2>11. elf.data[x] \in 0 .. WordMod - 1
    <3> DEFINE W == 0 .. WordMod - 1
    <3> HIDE DEF W
    <3>1. elf.data \in Seq(W)
      BY <2>8 DEF W
    <3>2. elf.data[x] \in W
      BY <2>9, <3>1
    <3> QED BY <3>2 DEF W
  <2> QED BY <2>10, <2>11
<1> QED BY <1>1, <1>2

\* Copying the loads into the image keeps the invariant.
LEMMA CopyStep == Phase3Inv /\ CopyLoads => Phase3Inv'
<1> SUFFICES ASSUME Phase3Inv, CopyLoads PROVE Phase3Inv'
  OBVIOUS
<1>1. /\ pc = "layout" /\ k > Len(elf.loads) /\ pc' = "relocate" /\ k' = 1
      /\ image' = [o \in 0 .. DataEnd - 1 |-> CopiedWord(o)]
      /\ elf' = elf /\ segments' = segments /\ cursor' = cursor
      /\ rebases' = rebases /\ bindings' = bindings /\ patched' = patched
      /\ out' = out
  BY DEF CopyLoads
<1>2. TypeOK /\ LayoutProgress /\ LayoutSound
  BY DEF Phase3Inv
<1>3. DataEnd = cursor /\ cursor \in Nat
  BY <1>1, <1>2, DataEndIsCursor DEF TypeOK
<1>4. image' \in [0 .. cursor - 1 -> 0 .. WordMod - 1]
  BY <1>1, <1>2, <1>3, CopiedWordTyped
<1>5. TypeOK'
  BY <1>1, <1>2, <1>4 DEF TypeOK
<1>6. LayoutSound'
  BY <1>1, <1>2 DEF LayoutSound, SegmentsPlaced, SegmentPlaced, FilesDisjoint,
                    PagesDisjoint, PageSeparated
<1>7. LayoutProgress'
  <2>1. Len(segments) = Len(elf.loads)
    <3>1. elf.loads \in Seq(LoadHeader) /\ k \in Nat
      BY <1>2 DEF TypeOK, WellFormed, Elf
    <3> QED BY <1>1, <1>2, <3>1 DEF LayoutProgress
  <2> QED BY <1>1, <1>2, <2>1 DEF LayoutProgress
<1>8. FixupsMatchRelocs'
  <2>1. rebases = <<>> /\ bindings = <<>>
    BY <1>1, <1>2 DEF LayoutProgress
  <2>2. Len(elf.relocs) \in Nat
    BY <1>2 DEF TypeOK, WellFormed, Elf
  <2> QED BY <1>1, <2>1, <2>2 DEF FixupsMatchRelocs
<1> QED BY <1>5, <1>6, <1>7, <1>8 DEF Phase3Inv

\* What the relocation loop knows of the relocation it is at.
LEMMA RelocFacts ==
  ASSUME Phase3Inv, AtReloc, Holding(Rel.offset) # {}
  PROVE  /\ k \in 1 .. Len(elf.relocs) /\ k \in Nat
         /\ Rel.offset \in Nat /\ Rel.addend \in Int /\ Rel.symbol \in Nat
         /\ Rel.type \in RelocTypes
         /\ Loc.seg \in Nat /\ Loc.off \in Nat /\ Loc.out \in 0 .. cursor - 1
         /\ PlaceOf(Loc) = Slide + Rel.offset
         /\ Loc.seg + 1 \in DOMAIN segments
         /\ SymbolicRel => Sym \in Symbol
         /\ Existing \in Int
<1>1. TypeOK /\ LayoutSound /\ LayoutProgress /\ pc = "relocate"
  BY DEF Phase3Inv, AtReloc
<1>2. /\ elf.relocs \in Seq(Relocation) /\ elf.symbols \in Seq(Symbol)
      /\ k \in Nat \ {0} /\ cursor \in Nat
  BY <1>1 DEF TypeOK, WellFormed, Elf
<1>3. k \in 1 .. Len(elf.relocs)
  BY <1>2 DEF AtReloc
<1>4. Rel \in Relocation
  BY <1>2, <1>3 DEF Rel
<1>5. /\ Rel.offset \in Nat /\ Rel.addend \in Int /\ Rel.symbol \in Nat
      /\ Rel.type \in RelocTypes
  BY <1>4 DEF Relocation
<1>6. /\ Loc.seg \in Nat /\ Loc.off \in Nat /\ Loc.out \in Nat
      /\ PlaceOf(Loc) = Slide + Rel.offset
      /\ Loc.seg + 1 \in DOMAIN segments
      /\ Loc.out < FileEnd(segments[Loc.seg + 1])
  BY <1>1, <1>5, LocationFacts DEF Loc, PlaceOf
<1>7. FileEnd(segments[Loc.seg + 1]) <= cursor /\ FileEnd(segments[Loc.seg + 1]) \in Nat
  <2> DEFINE h == Loc.seg + 1
             n == Len(segments)
  <2>1. h \in DOMAIN segments
    BY <1>6
  <2>2. /\ n \in DOMAIN segments /\ cursor = Align(FileEnd(segments[n]))
        /\ h \in 1 .. n /\ n \in Nat
    <3>1. segments \in Seq(Segment)
      BY <1>1 DEF TypeOK
    <3>2. segments # <<>> /\ cursor = Align(FileEnd(segments[n]))
      BY <1>1 DEF LayoutProgress
    <3> QED BY <2>1, <3>1, <3>2
  <2> HIDE DEF h
  <2>3. /\ segments[n].fileoff \in Nat /\ segments[n].filesize \in Nat
        /\ segments[h].fileoff \in Nat /\ segments[h].filesize \in Nat
    BY <1>1, <2>1, <2>2, SegmentFacts
  <2>4. /\ FileEnd(segments[n]) \in Nat /\ FileEnd(segments[h]) \in Nat
        /\ segments[n].fileoff <= FileEnd(segments[n])
    <3> HIDE DEF n
    <3> QED BY <2>3 DEF FileEnd
  <2>5. FileEnd(segments[n]) <= cursor
    BY <2>2, <2>4, AlignFacts
  <2>6. CASE h = n
    BY <2>4, <2>5, <2>6 DEF h
  <2>7. CASE h < n
    <3>1. FileEnd(segments[h]) <= segments[n].fileoff
      BY <1>1, <2>1, <2>2, <2>7 DEF LayoutSound, FilesDisjoint
    <3>2. FileEnd(segments[h]) <= cursor
      BY <1>2, <2>3, <2>4, <2>5, <3>1
    <3> QED BY <2>4, <3>2 DEF h
  <2> QED BY <2>2, <2>6, <2>7
<1>8. Loc.out \in 0 .. cursor - 1
  BY <1>2, <1>6, <1>7
<1>9. SymbolicRel => Sym \in Symbol
  BY <1>2, <1>5 DEF SymbolicRel, Sym
<1>10. Existing \in Int
  <2>1. image \in [0 .. cursor - 1 -> 0 .. WordMod - 1]
    BY <1>1 DEF TypeOK
  <2>2. image[Loc.out] \in 0 .. WordMod - 1
    BY <1>8, <2>1
  <2> QED BY <2>2, LayoutAssumption DEF Existing
<1> QED BY <1>2, <1>3, <1>5, <1>6, <1>8, <1>9, <1>10

\* A relocation that is patched and rebased gets its fixup at its address,
\* and no other fixup moves.
LEMMA RebaseStep ==
  /\ Phase3Inv /\ AtReloc /\ Holding(Rel.offset) # {}
  /\ Rel.type # "other" /\ ~Binds(Rel)
  /\ \E value \in Int : PatchAndRebase(value)
  => Phase3Inv'
<1> SUFFICES ASSUME Phase3Inv, AtReloc, Holding(Rel.offset) # {},
                    Rel.type # "other", ~Binds(Rel),
                    NEW value \in Int, PatchAndRebase(value)
             PROVE  Phase3Inv'
  OBVIOUS
<1> DEFINE place == [seg |-> Loc.seg, off |-> Loc.off]
           n == Len(rebases)
<1>1. /\ TypeOK /\ LayoutSound /\ LayoutProgress /\ FixupsMatchRelocs
      /\ pc = "relocate" /\ k <= Len(elf.relocs)
  BY DEF Phase3Inv, AtReloc
<1>2. /\ image' = [image EXCEPT ![Loc.out] = Word(value)]
      /\ rebases' = Append(rebases, place)
      /\ patched' = [patched EXCEPT ![Rel.type] = @ + 1]
      /\ k' = k + 1 /\ elf' = elf /\ pc' = pc /\ segments' = segments
      /\ cursor' = cursor /\ bindings' = bindings /\ out' = out
  BY DEF PatchAndRebase
<1>3. /\ k \in 1 .. Len(elf.relocs) /\ k \in Nat
      /\ Rel.type \in RelocTypes \ {"other"}
      /\ Loc.seg \in Nat /\ Loc.off \in Nat /\ Loc.out \in 0 .. cursor - 1
      /\ PlaceOf(Loc) = Slide + Rel.offset
  BY RelocFacts
<1>4. place \in Place /\ rebases \in Seq(Place) /\ n \in Nat
  BY <1>1, <1>3 DEF Place, TypeOK
<1>5. PlaceOf(place) = Slide + Rel.offset
  BY <1>3 DEF PlaceOf
<1> HIDE DEF place
<1>6. /\ rebases' \in Seq(Place) /\ Len(rebases') = n + 1
      /\ DOMAIN rebases = 1 .. n /\ DOMAIN rebases' = 1 .. n + 1
      /\ rebases'[n + 1] = place
      /\ \A i \in 1 .. n : rebases'[i] = rebases[i]
  BY <1>2, <1>4
<1>7. image' \in [0 .. cursor - 1 -> 0 .. WordMod - 1]
  <2>1. image \in [0 .. cursor - 1 -> 0 .. WordMod - 1]
    BY <1>1 DEF TypeOK
  <2>2. Word(value) \in 0 .. WordMod - 1
    BY LayoutAssumption DEF Word
  <2> HIDE DEF Word
  <2> QED BY <1>2, <2>1, <2>2
<1>8. patched' \in [{"RELATIVE", "ABS64", "GLOB_DAT", "JUMP_SLOT"} -> Nat]
  <2>1. patched \in [{"RELATIVE", "ABS64", "GLOB_DAT", "JUMP_SLOT"} -> Nat]
    BY <1>1 DEF TypeOK
  <2>2. Rel.type \in {"RELATIVE", "ABS64", "GLOB_DAT", "JUMP_SLOT"}
    BY <1>3 DEF RelocTypes
  <2> QED BY <1>2, <2>1, <2>2
<1>9. TypeOK'
  <2>1. /\ WellFormed(elf) /\ segments \in Seq(Segment) /\ cursor \in Nat
        /\ bindings \in Seq(Binding) /\ out.written \in BOOLEAN
    BY <1>1 DEF TypeOK
  <2>2. k' \in Nat \ {0} /\ pc' = "relocate"
    BY <1>1, <1>2, <1>3
  <2> QED BY <1>2, <1>6, <1>7, <1>8, <2>1, <2>2 DEF TypeOK
<1>10. LayoutSound'
  BY <1>1, <1>2 DEF LayoutSound, SegmentsPlaced, SegmentPlaced, FilesDisjoint,
                    PagesDisjoint, PageSeparated
<1>11. LayoutProgress'
  BY <1>1, <1>2 DEF LayoutProgress
<1>12. FixupsMatchRelocs'
  <2>1. Len(rebases') + Len(bindings') = k' - 1 /\ k' - 1 <= Len(elf'.relocs)
    <3>1. n + Len(bindings) = k - 1 /\ Len(bindings) \in Nat
      BY <1>1 DEF FixupsMatchRelocs, TypeOK
    <3>2. (n + 1) + Len(bindings) = (k + 1) - 1 /\ (k + 1) - 1 = k
      BY <1>3, <1>4, <3>1, OneMore
    <3>3. Len(rebases') = n + 1 /\ bindings' = bindings /\ k' = k + 1 /\ elf' = elf
      BY <1>2, <1>6
    <3> HIDE DEF n
    <3> QED BY <1>1, <3>2, <3>3
  <2>2. ASSUME NEW j \in 1 .. k
        PROVE  IF Binds(elf.relocs[j])
               THEN \E i \in DOMAIN bindings :
                      /\ PlaceOf(bindings[i]) = Slide + elf.relocs[j].offset
                      /\ bindings[i].symbol = elf.symbols[elf.relocs[j].symbol + 1].name
               ELSE \E i \in 1 .. n + 1 :
                      PlaceOf(rebases'[i]) = Slide + elf.relocs[j].offset
    <3>1. CASE j = k
      <4>1. ~Binds(elf.relocs[j]) /\ PlaceOf(rebases'[n + 1]) = Slide + elf.relocs[j].offset
        BY <1>5, <1>6, <3>1 DEF Rel
      <4> QED BY <1>4, <4>1
    <3>2. CASE j \in 1 .. k - 1
      <4>1. IF Binds(elf.relocs[j])
            THEN \E i \in DOMAIN bindings :
                   /\ PlaceOf(bindings[i]) = Slide + elf.relocs[j].offset
                   /\ bindings[i].symbol = elf.symbols[elf.relocs[j].symbol + 1].name
            ELSE \E i \in 1 .. n : PlaceOf(rebases[i]) = Slide + elf.relocs[j].offset
        BY <1>1, <1>6, <3>2 DEF FixupsMatchRelocs, HasFixup
      <4>2. ASSUME NEW i \in 1 .. n
            PROVE  i \in 1 .. n + 1 /\ PlaceOf(rebases'[i]) = PlaceOf(rebases[i])
        BY <1>4, <1>6
      <4> QED BY <4>1, <4>2
    <3> QED BY <1>3, <3>1, <3>2
  <2>3. ASSUME NEW i \in 1 .. n + 1
        PROVE  \E j \in 1 .. k : /\ ~Binds(elf.relocs[j])
                                 /\ PlaceOf(rebases'[i]) = Slide + elf.relocs[j].offset
    <3>1. CASE i = n + 1
      <4>1. ~Binds(elf.relocs[k]) /\ PlaceOf(rebases'[i]) = Slide + elf.relocs[k].offset
        BY <1>5, <1>6, <3>1 DEF Rel
      <4> QED BY <1>3, <4>1
    <3>2. CASE i \in 1 .. n
      <4>1. \E j \in 1 .. k - 1 : /\ ~Binds(elf.relocs[j])
                                   /\ PlaceOf(rebases[i]) = Slide + elf.relocs[j].offset
        BY <1>1, <1>6, <3>2 DEF FixupsMatchRelocs, AskedFor
      <4> QED BY <1>3, <1>6, <3>2, <4>1
    <3> QED BY <1>4, <3>1, <3>2
  <2>4. k' - 1 = k /\ pc' = "relocate"
    BY <1>1, <1>2, <1>3
  <2>5. ASSUME NEW j \in 1 .. k PROVE HasFixup(j)'
    BY <1>2, <1>6, <2>2 DEF HasFixup, Binds, PlaceOf
  <2>6. ASSUME NEW i \in 1 .. n + 1 PROVE AskedFor(i, k - 1)'
    BY <1>2, <2>3, <2>4 DEF AskedFor, Binds, PlaceOf
  <2> QED
    BY <1>6, <2>1, <2>4, <2>5, <2>6 DEF FixupsMatchRelocs
<1> QED BY <1>9, <1>10, <1>11, <1>12 DEF Phase3Inv

\* R_AARCH64_RELATIVE keeps the invariant.
LEMMA PatchRelativeStep == Phase3Inv /\ PatchRelative => Phase3Inv'
<1> SUFFICES ASSUME Phase3Inv, PatchRelative PROVE Phase3Inv'
  OBVIOUS
<1>1. /\ AtReloc /\ Holding(Rel.offset) # {} /\ Rel.type = "RELATIVE"
      /\ PatchAndRebase(Slide + Rel.addend)
  BY DEF PatchRelative
<1>2. Slide + Rel.addend \in Int
  BY <1>1, RelocFacts, SlideAligned
<1>3. \E value \in Int : PatchAndRebase(value)
  BY <1>1, <1>2
<1>4. ~Binds(Rel) /\ Rel.type # "other"
  BY <1>1 DEF Binds
<1> QED BY <1>1, <1>3, <1>4, RebaseStep

\* A relocation against a symbol of the object itself keeps the invariant.
LEMMA PatchInternalStep == Phase3Inv /\ PatchInternal => Phase3Inv'
<1> SUFFICES ASSUME Phase3Inv, PatchInternal PROVE Phase3Inv'
  OBVIOUS
<1>1. /\ AtReloc /\ Holding(Rel.offset) # {} /\ SymbolicRel /\ Sym.defined
      /\ PatchAndRebase(Slide + Sym.value + Rel.addend + Existing)
  BY DEF PatchInternal
<1>2. Slide + Sym.value + Rel.addend + Existing \in Int
  <2>1. Sym.value \in Nat
    BY <1>1, RelocFacts DEF Symbol
  <2>2. Rel.addend \in Int /\ Existing \in Int /\ Slide \in Nat
    BY <1>1, RelocFacts, SlideAligned
  <2> QED BY <2>1, <2>2
<1>3. \E value \in Int : PatchAndRebase(value)
  BY <1>1, <1>2
<1>4. ~Binds(Rel) /\ Rel.type # "other"
  BY <1>1 DEF Binds, Sym, SymbolicRel
<1> QED BY <1>1, <1>3, <1>4, RebaseStep

\* A relocation against an undefined symbol is bound at its address under the
\* name of that symbol, and no other fixup moves.
LEMMA BindStep == Phase3Inv /\ BindExternal => Phase3Inv'
<1> SUFFICES ASSUME Phase3Inv, BindExternal PROVE Phase3Inv'
  OBVIOUS
<1> DEFINE b == [seg |-> Loc.seg, off |-> Loc.off, symbol |-> Sym.name,
                 addend |-> Rel.addend + Existing]
           n == Len(bindings)
<1>1. /\ TypeOK /\ LayoutSound /\ LayoutProgress /\ FixupsMatchRelocs
      /\ pc = "relocate" /\ k <= Len(elf.relocs)
      /\ AtReloc /\ Holding(Rel.offset) # {} /\ SymbolicRel /\ ~Sym.defined
  BY DEF Phase3Inv, BindExternal, AtReloc
<1>2. /\ bindings' = Append(bindings, b) /\ k' = k + 1 /\ elf' = elf /\ pc' = pc
      /\ segments' = segments /\ cursor' = cursor /\ image' = image
      /\ rebases' = rebases /\ patched' = patched /\ out' = out
  BY DEF BindExternal
<1>3. /\ k \in 1 .. Len(elf.relocs) /\ k \in Nat
      /\ Loc.seg \in Nat /\ Loc.off \in Nat /\ Sym \in Symbol
      /\ PlaceOf(Loc) = Slide + Rel.offset
      /\ Rel.addend \in Int /\ Existing \in Int
  BY <1>1, RelocFacts
<1>4. b \in Binding /\ bindings \in Seq(Binding) /\ n \in Nat
  <2>1. Sym.name \in STRING /\ Rel.addend + Existing \in Int
    BY <1>3 DEF Symbol
  <2>2. bindings \in Seq(Binding)
    BY <1>1 DEF TypeOK
  <2> QED BY <1>3, <2>1, <2>2 DEF Binding
<1>5. PlaceOf(b) = Slide + Rel.offset /\ b.symbol = Sym.name
  BY <1>3 DEF PlaceOf
<1> HIDE DEF b
<1>6. /\ bindings' \in Seq(Binding) /\ Len(bindings') = n + 1
      /\ DOMAIN bindings = 1 .. n /\ DOMAIN bindings' = 1 .. n + 1
      /\ bindings'[n + 1] = b
      /\ \A i \in 1 .. n : bindings'[i] = bindings[i]
  BY <1>2, <1>4
<1>7. TypeOK'
  <2>1. /\ WellFormed(elf) /\ segments \in Seq(Segment) /\ cursor \in Nat
        /\ rebases \in Seq(Place) /\ out.written \in BOOLEAN
        /\ image \in [0 .. cursor - 1 -> 0 .. WordMod - 1]
        /\ patched \in [{"RELATIVE", "ABS64", "GLOB_DAT", "JUMP_SLOT"} -> Nat]
    BY <1>1 DEF TypeOK
  <2>2. k' \in Nat \ {0} /\ pc' = "relocate"
    BY <1>1, <1>2, <1>3
  <2> QED BY <1>2, <1>6, <2>1, <2>2 DEF TypeOK
<1>8. LayoutSound'
  BY <1>1, <1>2 DEF LayoutSound, SegmentsPlaced, SegmentPlaced, FilesDisjoint,
                    PagesDisjoint, PageSeparated
<1>9. LayoutProgress'
  BY <1>1, <1>2 DEF LayoutProgress
<1>10. FixupsMatchRelocs'
  <2>1. Len(rebases') + Len(bindings') = k' - 1 /\ k' - 1 <= Len(elf'.relocs)
    <3>1. Len(rebases) + n = k - 1 /\ Len(rebases) \in Nat
      BY <1>1 DEF FixupsMatchRelocs, TypeOK
    <3> QED BY <1>1, <1>2, <1>3, <1>4, <1>6, <3>1
  <2>2. ASSUME NEW j \in 1 .. k
        PROVE  IF Binds(elf.relocs[j])
               THEN \E i \in 1 .. n + 1 :
                      /\ PlaceOf(bindings'[i]) = Slide + elf.relocs[j].offset
                      /\ bindings'[i].symbol = elf.symbols[elf.relocs[j].symbol + 1].name
               ELSE \E i \in DOMAIN rebases :
                      PlaceOf(rebases[i]) = Slide + elf.relocs[j].offset
    <3>1. CASE j = k
      <4>1. /\ Binds(elf.relocs[j])
            /\ PlaceOf(bindings'[n + 1]) = Slide + elf.relocs[j].offset
            /\ bindings'[n + 1].symbol = elf.symbols[elf.relocs[j].symbol + 1].name
        BY <1>1, <1>5, <1>6, <3>1 DEF Rel, Sym, Binds, SymbolicRel
      <4> QED BY <1>4, <4>1
    <3>2. CASE j \in 1 .. k - 1
      <4>1. IF Binds(elf.relocs[j])
            THEN \E i \in 1 .. n :
                   /\ PlaceOf(bindings[i]) = Slide + elf.relocs[j].offset
                   /\ bindings[i].symbol = elf.symbols[elf.relocs[j].symbol + 1].name
            ELSE \E i \in DOMAIN rebases :
                   PlaceOf(rebases[i]) = Slide + elf.relocs[j].offset
        BY <1>1, <1>6, <3>2 DEF FixupsMatchRelocs, HasFixup
      <4>2. ASSUME NEW i \in 1 .. n
            PROVE  i \in 1 .. n + 1 /\ bindings'[i] = bindings[i]
        BY <1>4, <1>6
      <4> QED BY <4>1, <4>2
    <3> QED BY <1>3, <3>1, <3>2
  <2>3. ASSUME NEW i \in DOMAIN rebases
        PROVE  \E j \in 1 .. k : /\ ~Binds(elf.relocs[j])
                                 /\ PlaceOf(rebases[i]) = Slide + elf.relocs[j].offset
    <3>1. \E j \in 1 .. k - 1 : /\ ~Binds(elf.relocs[j])
                                 /\ PlaceOf(rebases[i]) = Slide + elf.relocs[j].offset
      BY <1>1 DEF FixupsMatchRelocs, AskedFor
    <3> QED BY <1>3, <3>1
  <2>4. k' - 1 = k /\ pc' = "relocate"
    BY <1>1, <1>2, <1>3
  <2>5. ASSUME NEW j \in 1 .. k PROVE HasFixup(j)'
    BY <1>2, <1>6, <2>2 DEF HasFixup, Binds, PlaceOf
  <2>6. ASSUME NEW i \in DOMAIN rebases PROVE AskedFor(i, k - 1)'
    BY <1>2, <2>3, <2>4 DEF AskedFor, Binds, PlaceOf
  <2> QED
    BY <1>2, <2>1, <2>4, <2>5, <2>6 DEF FixupsMatchRelocs
<1> QED BY <1>7, <1>8, <1>9, <1>10 DEF Phase3Inv

\* Writing the dylib keeps the invariant: every relocation has been done.
LEMMA WriteStep == Phase3Inv /\ WriteDylib => Phase3Inv'
<1> SUFFICES ASSUME Phase3Inv, WriteDylib PROVE Phase3Inv'
  OBVIOUS
<1>1. /\ pc = "relocate" /\ k > Len(elf.relocs) /\ pc' = "done" /\ out'.written = TRUE
      /\ elf' = elf /\ k' = k /\ segments' = segments /\ cursor' = cursor
      /\ image' = image /\ rebases' = rebases /\ bindings' = bindings
      /\ patched' = patched
  BY DEF WriteDylib, AtEnd
<1>2. TypeOK /\ LayoutSound /\ LayoutProgress /\ FixupsMatchRelocs
  BY DEF Phase3Inv
<1>3. TypeOK'
  BY <1>1, <1>2 DEF TypeOK
<1>4. LayoutSound'
  BY <1>1, <1>2 DEF LayoutSound, SegmentsPlaced, SegmentPlaced, FilesDisjoint,
                    PagesDisjoint, PageSeparated
<1>5. LayoutProgress'
  BY <1>1, <1>2 DEF LayoutProgress
<1>6. FixupsMatchRelocs'
  <2>1. k - 1 = Len(elf.relocs)
    <3>1. elf.relocs \in Seq(Relocation) /\ k \in Nat
      BY <1>2 DEF TypeOK, WellFormed, Elf
    <3> QED BY <1>1, <1>2, <3>1 DEF FixupsMatchRelocs
  <2>2. ASSUME NEW j \in 1 .. k - 1 PROVE HasFixup(j)'
    BY <1>1, <1>2 DEF FixupsMatchRelocs, HasFixup, Binds, PlaceOf
  <2>3. ASSUME NEW i \in DOMAIN rebases PROVE AskedFor(i, k - 1)'
    BY <1>1, <1>2 DEF FixupsMatchRelocs, AskedFor, Binds, PlaceOf
  <2> QED BY <1>1, <1>2, <2>1, <2>2, <2>3 DEF FixupsMatchRelocs
<1> QED BY <1>3, <1>4, <1>5, <1>6 DEF Phase3Inv

\* Doing nothing keeps the invariant.
LEMMA StutterStep == Phase3Inv /\ UNCHANGED vars => Phase3Inv'
<1> SUFFICES ASSUME Phase3Inv, UNCHANGED vars PROVE Phase3Inv'
  OBVIOUS
<1>1. /\ elf' = elf /\ pc' = pc /\ k' = k /\ segments' = segments /\ cursor' = cursor
      /\ image' = image /\ rebases' = rebases /\ bindings' = bindings
      /\ patched' = patched /\ out' = out
  BY DEF vars
<1>2. TypeOK'
  BY <1>1 DEF Phase3Inv, TypeOK
<1>3. LayoutSound'
  BY <1>1 DEF Phase3Inv, LayoutSound, SegmentsPlaced, SegmentPlaced, FilesDisjoint,
              PagesDisjoint, PageSeparated
<1>4. LayoutProgress'
  BY <1>1 DEF Phase3Inv, LayoutProgress
<1>5. FixupsMatchRelocs'
  BY <1>1 DEF Phase3Inv, FixupsMatchRelocs, HasFixup, AskedFor, Binds, PlaceOf
<1> QED BY <1>2, <1>3, <1>4, <1>5 DEF Phase3Inv
\* The invariant holds before anything is read.
LEMMA Phase3Start == Init => Phase3Inv
<1> SUFFICES ASSUME Init PROVE Phase3Inv
  OBVIOUS
<1>1. WellFormed(elf)
  BY ElfsAssumption DEF Init
<1>2. TypeOK
  BY <1>1 DEF Init, TypeOK
<1>3. Len(elf.loads) \in Nat
  BY <1>1 DEF WellFormed, Elf
<1> QED
  BY <1>2, <1>3 DEF Init, Phase3Inv, LayoutSound, SegmentsPlaced, FilesDisjoint,
                    PagesDisjoint, LayoutProgress, FixupsMatchRelocs

\* Every step of __init__ and translate() keeps the invariant.
LEMMA Phase3Step == Phase3Inv /\ [Next]_vars => Phase3Inv'
BY FailStep, LayoutTextStep, LayoutLoadStep, CopyStep, PatchRelativeStep,
   PatchInternalStep, BindStep, WriteStep, StutterStep
   DEF Next, RejectElf, RejectReloc, RejectOutput

-----------------------------------------------------------------------------
(* Phase 3 alone.                                                          *)

\* The inductive invariant of Phase3Translator, for every set of ELFs.
THEOREM Phase3Invariant == Spec => []Phase3Inv
BY Phase3Start, Phase3Step, PTL DEF Spec

\* _location always names the pointer the ELF address denotes, in the file
\* and in memory alike.
LEMMA LocationsRight == Phase3Inv => LocationsAgree
<1> SUFFICES ASSUME Phase3Inv, pc = "relocate", NEW j \in DOMAIN elf.relocs,
                    Holding(elf.relocs[j].offset) # {}
             PROVE  LET v == elf.relocs[j].offset
                        l == Location(v)
                    IN /\ segments[l.seg + 1].vmaddr + l.off = Slide + v
                       /\ segments[l.seg + 1].fileoff + l.off = l.out
  BY DEF LocationsAgree
<1>1. TypeOK /\ LayoutSound /\ LayoutProgress
  BY DEF Phase3Inv
<1>2. elf.relocs \in Seq(Relocation)
  BY <1>1 DEF TypeOK, WellFormed, Elf
<1>3. elf.relocs[j] \in Relocation
  BY <1>2
<1>4. elf.relocs[j].offset \in Nat
  BY <1>3 DEF Relocation
<1> QED BY <1>1, <1>4, LocationFacts
-----------------------------------------------------------------------------
(* What FlattenSeq makes of a list of sequences.                           *)

\* f[i] is the concatenation of the first i of n sequences.
PrefixIs(seqs, n, f) ==
  f = [i \in 1 .. n |-> IF i = 1 THEN seqs[i] ELSE f[i - 1] \o seqs[i]]

\* The concatenations of a list of sequences exist.
LEMMA PrefixesExist ==
  ASSUME NEW seqs, NEW n \in Nat
  PROVE  \E f : PrefixIs(seqs, n, f)
<1> DEFINE T == {m \in Nat : ~\E f : PrefixIs(seqs, m, f)}
<1> SUFFICES ASSUME T # {} PROVE FALSE
  BY Zenon
<1>1. PICK m \in T : \A y \in T : m <= y
  <2>1. T \in SUBSET Nat
    BY Zenon
  <2> HIDE DEF T
  <2> QED BY <2>1, LeastExists, Zenon
<1>2. m \in Nat /\ ~\E f : PrefixIs(seqs, m, f)
  BY Zenon
<1>3. m # 0
  <2>1. PrefixIs(seqs, 0, [i \in 1 .. 0 |-> 0])
    BY DEF PrefixIs
  <2> QED BY <2>1, <1>2
<1>4. m - 1 \in Nat /\ m - 1 \notin T
  BY <1>1, <1>2, <1>3
<1>5. PICK g : PrefixIs(seqs, m - 1, g)
  BY <1>4
<1> DEFINE f == [i \in 1 .. m |-> IF i = 1 THEN seqs[i] ELSE g[i - 1] \o seqs[i]]
<1>6. \A i \in 1 .. m - 1 : g[i] = IF i = 1 THEN seqs[i] ELSE g[i - 1] \o seqs[i]
  BY <1>5, <1>4 DEF PrefixIs
<1>7. \A i \in 1 .. m : i # 1 => f[i - 1] = g[i - 1]
  <2> TAKE i \in 1 .. m
  <2> HAVE i # 1
  <2>1. i - 1 \in 1 .. m - 1 /\ i - 1 \in 1 .. m
    BY <1>2
  <2>2. f[i - 1] = IF i - 1 = 1 THEN seqs[i - 1] ELSE g[(i - 1) - 1] \o seqs[i - 1]
    BY <2>1
  <2> HIDE DEF f
  <2> QED BY <1>6, <2>1, <2>2
<1>8. f = [i \in 1 .. m |-> IF i = 1 THEN seqs[i] ELSE f[i - 1] \o seqs[i]]
  <2> DEFINE h == [i \in 1 .. m |-> IF i = 1 THEN seqs[i] ELSE f[i - 1] \o seqs[i]]
  <2>1. \A i \in 1 .. m : f[i] = h[i]
    <3> TAKE i \in 1 .. m
    <3>1. f[i] = IF i = 1 THEN seqs[i] ELSE g[i - 1] \o seqs[i]
      OBVIOUS
    <3>2. h[i] = IF i = 1 THEN seqs[i] ELSE f[i - 1] \o seqs[i]
      OBVIOUS
    <3> HIDE DEF f, h
    <3> QED BY <3>1, <3>2, <1>7, Zenon
  <2>2. f = [i \in 1 .. m |-> f[i]] /\ h = [i \in 1 .. m |-> h[i]]
    OBVIOUS
  <2> HIDE DEF f
  <2>3. QED BY <2>1, <2>2, Zenon
<1>9. PrefixIs(seqs, m, f)
  BY <1>8, Zenon DEF PrefixIs
<1> HIDE DEF f
<1> QED BY <1>2, <1>9, Zenon

\* FlattenSeq, which _rebase_stream and _bind_stream build their programs with,
\* is the last of the concatenations.
LEMMA FlattenIsPrefix ==
  ASSUME NEW seqs, Len(seqs) \in Nat \ {0}
  PROVE  \E f : PrefixIs(seqs, Len(seqs), f) /\ FlattenSeq(seqs) = f[Len(seqs)]
<1> DEFINE f == CHOOSE g : g = [i \in 1 .. Len(seqs) |-> IF i = 1 THEN seqs[i] ELSE g[i - 1] \o seqs[i]]
<1>1. FlattenSeq(seqs) = f[Len(seqs)]
  BY DEF FlattenSeq
<1>2. \E g : g = [i \in 1 .. Len(seqs) |-> IF i = 1 THEN seqs[i] ELSE g[i - 1] \o seqs[i]]
  BY PrefixesExist, Zenon DEF PrefixIs
<1>3. f = [i \in 1 .. Len(seqs) |-> IF i = 1 THEN seqs[i] ELSE f[i - 1] \o seqs[i]]
  BY <1>2, Zenon
<1>4. PrefixIs(seqs, Len(seqs), f)
  BY <1>3, Zenon DEF PrefixIs
<1> HIDE DEF f
<1> QED BY <1>1, <1>4

\* The elements of two sequences in one.
LEMMA Concatenation ==
  ASSUME NEW S, NEW g \in Seq(S), NEW h \in Seq(S)
  PROVE  /\ g \o h \in Seq(S) /\ Len(g \o h) = Len(g) + Len(h)
         /\ \A i \in 1 .. Len(g) : (g \o h)[i] = g[i]
         /\ \A i \in 1 .. Len(h) : (g \o h)[Len(g) + i] = h[i]
OBVIOUS

\* n pairs of elements of S, apart and as one sequence: a[i], then b.
PairsApart(seqs, S, n, a, b) ==
  /\ n \in Nat /\ b \in S /\ seqs \in [1 .. n -> Seq(S)]
  /\ \A i \in 1 .. n : seqs[i] = <<a[i], b>>

\* The same as one sequence r.
PairsInline(r, S, n, a, b) ==
  /\ r \in Seq(S) /\ Len(r) = 2 * n
  /\ \A i \in 1 .. n : r[2 * i - 1] = a[i] /\ r[2 * i] = b

\* Pairs put together are the pairs one behind the other.
LEMMA FlattenPairs ==
  ASSUME NEW S, NEW n, NEW a, NEW b, NEW seqs, PairsApart(seqs, S, n, a, b)
  PROVE  PairsInline(FlattenSeq(seqs), S, n, a, b)
<1> USE DEF PairsApart, PairsInline
<1> DEFINE P(s, m) == /\ s \in Seq(S) /\ Len(s) = 2 * m
                      /\ \A i \in 1 .. m : s[2 * i - 1] = a[i] /\ s[2 * i] = b
<1>1. Len(seqs) = n /\ \A i \in 1 .. n : seqs[i] = <<a[i], b>> /\ seqs[i] \in Seq(S)
  OBVIOUS
<1>2. CASE n = 0
  <2>1. FlattenSeq(seqs) = <<>>
    <3>1. seqs = <<>>
      BY <1>2
    <3>2. FlattenSeq(<<>>) = <<>>
      BY DEF FlattenSeq
    <3> QED BY <3>1, <3>2
  <2>2. P(FlattenSeq(seqs), n)
    BY <1>2, <2>1
  <2> QED BY <2>2
<1>3. CASE n # 0
  <2>1. PICK f : PrefixIs(seqs, n, f) /\ FlattenSeq(seqs) = f[n]
    BY <1>1, <1>3, FlattenIsPrefix
  <2>2. \A i \in 1 .. n : f[i] = IF i = 1 THEN seqs[i] ELSE f[i - 1] \o seqs[i]
    BY <2>1 DEF PrefixIs
  <2> DEFINE T == {m \in 1 .. n : ~P(f[m], m)}
  <2>3. T = {}
    <3> HIDE DEF P
    <3> SUFFICES ASSUME T # {} PROVE FALSE
      OBVIOUS
    <3>1. PICK m \in T : \A y \in T : m <= y
      <4>1. T \in SUBSET Nat
        OBVIOUS
      <4> HIDE DEF T
      <4> QED BY <4>1, LeastExists
    <3>2. m \in 1 .. n /\ ~P(f[m], m) /\ \A y \in 1 .. n : y < m => P(f[y], y)
      BY <3>1
    <3> HIDE DEF T
    <3>3. CASE m = 1
      <4>1. f[1] = <<a[1], b>> /\ f[1] \in Seq(S)
        BY <1>1, <2>2, <3>2, <3>3
      <4>2. P(f[1], 1)
        BY <4>1 DEF P
      <4> QED BY <3>2, <3>3, <4>2
    <3>4. CASE m # 1
      <4>1. m - 1 \in 1 .. n /\ m - 1 < m /\ m \in Nat
        BY <3>2, <3>4
      <4>2. P(f[m - 1], m - 1)
        BY <3>2, <4>1
      <4>3. f[m] = f[m - 1] \o seqs[m] /\ seqs[m] = <<a[m], b>> /\ seqs[m] \in Seq(S)
        BY <1>1, <2>2, <3>2, <3>4
      <4> DEFINE g == f[m - 1]
                 h == seqs[m]
      <4>4. /\ g \in Seq(S) /\ Len(g) = 2 * (m - 1) /\ f[m] = g \o h
            /\ h \in Seq(S) /\ Len(h) = 2 /\ h[1] = a[m] /\ h[2] = b
        BY <4>2, <4>3 DEF P
      <4>5. \A i \in 1 .. m - 1 : g[2 * i - 1] = a[i] /\ g[2 * i] = b
        BY <4>2 DEF P
      <4> HIDE DEF g, h
      <4>6. f[m] \in Seq(S) /\ Len(f[m]) = 2 * m
        <5>1. g \o h \in Seq(S) /\ Len(g \o h) = Len(g) + Len(h)
          BY <4>4, Concatenation
        <5> QED BY <4>1, <4>4, <5>1
      <4>7. ASSUME NEW i \in 1 .. m PROVE f[m][2 * i - 1] = a[i] /\ f[m][2 * i] = b
        <5>1. CASE i = m
          <6>1. 2 * i - 1 = Len(g) + 1 /\ 2 * i = Len(g) + 2
            BY <4>1, <4>4, <5>1
          <6>2. (g \o h)[Len(g) + 1] = h[1] /\ (g \o h)[Len(g) + 2] = h[2]
            <7>1. Len(g) \in Nat /\ 1 \in 1 .. Len(h) /\ 2 \in 1 .. Len(h)
              BY <4>4
            <7>2. \A x \in 1 .. Len(h) : (g \o h)[Len(g) + x] = h[x]
              <8>1. g \in Seq(S) /\ h \in Seq(S)
                BY <4>4
              <8> QED BY <8>1, SMTT(30)
            <7> QED BY <7>1, <7>2
          <6> QED BY <4>4, <5>1, <6>1, <6>2
        <5>2. CASE i \in 1 .. m - 1
          <6>1. 2 * i - 1 \in 1 .. Len(g) /\ 2 * i \in 1 .. Len(g)
            BY <4>1, <4>4, <5>2
          <6>2. f[m][2 * i - 1] = g[2 * i - 1] /\ f[m][2 * i] = g[2 * i]
            BY <4>1, <4>4, <6>1
          <6> QED BY <4>5, <5>2, <6>2
        <5> QED BY <4>1, <5>1, <5>2
      <4>8. P(f[m], m)
        BY <4>6, <4>7 DEF P
      <4> QED BY <3>2, <4>8
    <3> QED BY <3>3, <3>4
  <2>4. P(f[n], n)
    <3> HIDE DEF P
    <3> QED BY <1>3, <2>3
  <2> HIDE DEF T
  <2>5. P(FlattenSeq(seqs), n)
    BY <2>1, <2>4
  <2> QED BY <2>5
<1> QED BY <1>2, <1>3

\* Sequence s lies in sequence r behind position start.
BlockAt(r, start, s) ==
  /\ start \in Nat /\ start + Len(s) <= Len(r)
  /\ \A x \in 1 .. Len(s) : r[start + x] = s[x]

\* Putting something in front of or behind a sequence keeps its blocks.
LEMMA BlockShift ==
  ASSUME NEW S, NEW u \in Seq(S), NEW v \in Seq(S), NEW s \in Seq(S), NEW start
  PROVE  /\ BlockAt(u, start, s) => BlockAt(u \o v, start, s)
         /\ BlockAt(v, start, s) => BlockAt(u \o v, Len(u) + start, s)
<1>1. ASSUME BlockAt(u, start, s) PROVE BlockAt(u \o v, start, s)
  <2>1. start \in Nat /\ start + Len(s) <= Len(u)
    BY <1>1 DEF BlockAt
  <2>2. ASSUME NEW x \in 1 .. Len(s) PROVE (u \o v)[start + x] = s[x]
    <3>1. start + x \in 1 .. Len(u)
      BY <2>1
    <3>2. u[start + x] = s[x]
      BY <1>1 DEF BlockAt
    <3> QED BY <3>1, <3>2
  <2> QED BY <2>1, <2>2 DEF BlockAt
<1>2. ASSUME BlockAt(v, start, s) PROVE BlockAt(u \o v, Len(u) + start, s)
  <2>1. start \in Nat /\ start + Len(s) <= Len(v)
    BY <1>2 DEF BlockAt
  <2>2. ASSUME NEW x \in 1 .. Len(s) PROVE (u \o v)[(Len(u) + start) + x] = s[x]
    <3>1. start + x \in 1 .. Len(v)
      BY <2>1
    <3>2. v[start + x] = s[x]
      BY <1>2 DEF BlockAt
    <3>3. (Len(u) + start) + x = Len(u) + (start + x)
      BY <2>1
    <3> QED BY <3>1, <3>2, <3>3
  <2> QED BY <2>1, <2>2 DEF BlockAt
<1> QED BY <1>1, <1>2

\* A flattened sequence is its parts, each somewhere, and nothing else.
Blocks(r, seqs, m) ==
  /\ \A i \in 1 .. m : \E start : BlockAt(r, start, seqs[i])
  /\ \A p \in 1 .. Len(r) :
       \E i \in 1 .. m, start \in Nat :
         BlockAt(r, start, seqs[i]) /\ p - start \in 1 .. Len(seqs[i])

\* One more sequence behind a concatenation: the blocks so far, and its own.
LEMMA BlocksExtend ==
  ASSUME NEW S, NEW r \in Seq(S), NEW m \in Nat, NEW seqs,
         \A i \in 1 .. m + 1 : seqs[i] \in Seq(S), Blocks(r, seqs, m)
  PROVE  Blocks(r \o seqs[m + 1], seqs, m + 1)
<1> DEFINE w == r \o seqs[m + 1]
<1>1. seqs[m + 1] \in Seq(S) /\ m + 1 \in 1 .. m + 1
  OBVIOUS
<1>2. BlockAt(w, Len(r), seqs[m + 1])
  <2>1. BlockAt(seqs[m + 1], 0, seqs[m + 1])
    BY <1>1 DEF BlockAt
  <2>2. BlockAt(w, Len(r) + 0, seqs[m + 1])
    BY <1>1, <2>1, BlockShift
  <2> QED BY <2>2
<1>3. ASSUME NEW i \in 1 .. m, NEW start, BlockAt(r, start, seqs[i])
      PROVE  BlockAt(w, start, seqs[i])
  <2>1. seqs[i] \in Seq(S)
    OBVIOUS
  <2> QED BY <1>1, <1>3, <2>1, BlockShift
<1>4. Len(w) = Len(r) + Len(seqs[m + 1]) /\ Len(r) \in Nat /\ Len(seqs[m + 1]) \in Nat
  BY <1>1
<1> HIDE DEF w
<1>5. ASSUME NEW i \in 1 .. m + 1 PROVE \E start : BlockAt(w, start, seqs[i])
  <2>1. CASE i = m + 1
    BY <1>2, <2>1
  <2>2. CASE i \in 1 .. m
    <3>1. PICK start : BlockAt(r, start, seqs[i])
      BY <2>2 DEF Blocks
    <3> QED BY <1>3, <2>2, <3>1
  <2> QED BY <2>1, <2>2
<1>6. ASSUME NEW p \in 1 .. Len(w)
      PROVE  \E i \in 1 .. m + 1, start \in Nat :
               BlockAt(w, start, seqs[i]) /\ p - start \in 1 .. Len(seqs[i])
  <2>1. CASE p \in 1 .. Len(r)
    <3>1. PICK i \in 1 .. m, start \in Nat :
            BlockAt(r, start, seqs[i]) /\ p - start \in 1 .. Len(seqs[i])
      BY <2>1 DEF Blocks
    <3>2. i \in 1 .. m + 1
      OBVIOUS
    <3>3. BlockAt(w, start, seqs[i])
      BY <1>3, <3>1, Zenon
    <3> QED BY <3>1, <3>2, <3>3
  <2>2. CASE p > Len(r)
    <3>1. p - Len(r) \in 1 .. Len(seqs[m + 1])
      BY <1>4, <2>2
    <3> QED BY <1>1, <1>2, <1>4, <3>1
  <2> QED BY <1>4, <2>1, <2>2
<1>7. Blocks(w, seqs, m + 1)
  BY <1>5, <1>6 DEF Blocks
<1> QED BY <1>7 DEF w

\* Each sequence is a block of the concatenation, and each element of the
\* concatenation is in one of the blocks.
LEMMA FlattenBlocks ==
  ASSUME NEW S, NEW n \in Nat, NEW seqs \in [1 .. n -> Seq(S)]
  PROVE  FlattenSeq(seqs) \in Seq(S) /\ Blocks(FlattenSeq(seqs), seqs, n)
<1>1. Len(seqs) = n /\ \A i \in 1 .. n : seqs[i] \in Seq(S)
  OBVIOUS
<1>2. CASE n = 0
  <2>1. seqs = <<>>
    BY <1>2
  <2>2. FlattenSeq(<<>>) = <<>>
    BY DEF FlattenSeq
  <2>3. Len(<<>>) = 0 /\ <<>> \in Seq(S)
    OBVIOUS
  <2>4. Blocks(<<>>, seqs, 0)
    BY <2>3 DEF Blocks
  <2> QED BY <1>2, <2>1, <2>2, <2>3, <2>4
<1>3. CASE n # 0
  <2>1. PICK f : PrefixIs(seqs, n, f) /\ FlattenSeq(seqs) = f[n]
    BY <1>1, <1>3, FlattenIsPrefix
  <2>2. \A i \in 1 .. n : f[i] = IF i = 1 THEN seqs[i] ELSE f[i - 1] \o seqs[i]
    BY <2>1 DEF PrefixIs
  <2> DEFINE P(m) == f[m] \in Seq(S) /\ Blocks(f[m], seqs, m)
             T == {m \in 1 .. n : ~P(m)}
  <2>3. T = {}
    <3> HIDE DEF P
    <3> SUFFICES ASSUME T # {} PROVE FALSE
      OBVIOUS
    <3>1. PICK m \in T : \A y \in T : m <= y
      <4>1. T \in SUBSET Nat
        OBVIOUS
      <4> HIDE DEF T
      <4> QED BY <4>1, LeastExists
    <3>2. m \in 1 .. n /\ ~P(m) /\ \A y \in 1 .. n : y < m => P(y)
      BY <3>1
    <3> HIDE DEF T
    <3>3. CASE m = 1
      <4>1. f[1] = seqs[1] /\ seqs[1] \in Seq(S)
        BY <1>1, <2>2, <3>2, <3>3
      <4>2. Blocks(<<>>, seqs, 0)
        BY DEF Blocks
      <4>3. Blocks(<<>> \o seqs[0 + 1], seqs, 0 + 1)
        <5>1. <<>> \in Seq(S) /\ 0 \in Nat /\ \A i \in 1 .. 0 + 1 : seqs[i] \in Seq(S)
          BY <4>1
        <5> QED BY <4>2, <5>1, BlocksExtend
      <4>4. <<>> \o seqs[1] = seqs[1]
        BY <4>1
      <4>5. P(1)
        BY <4>1, <4>3, <4>4 DEF P
      <4> QED BY <3>2, <3>3, <4>5
    <3>4. CASE m # 1
      <4>1. m - 1 \in 1 .. n /\ m - 1 < m /\ m - 1 \in Nat /\ (m - 1) + 1 = m
        BY <3>2, <3>4
      <4>2. f[m - 1] \in Seq(S) /\ Blocks(f[m - 1], seqs, m - 1)
        BY <3>2, <4>1 DEF P
      <4>3. f[m] = f[m - 1] \o seqs[m] /\ seqs[m] \in Seq(S)
        BY <1>1, <2>2, <3>2, <3>4
      <4>4. \A i \in 1 .. (m - 1) + 1 : seqs[i] \in Seq(S)
        BY <1>1, <3>2, <4>1
      <4>5. Blocks(f[m - 1] \o seqs[(m - 1) + 1], seqs, (m - 1) + 1)
        BY <4>1, <4>2, <4>4, BlocksExtend
      <4>6. P(m)
        BY <4>1, <4>2, <4>3, <4>5 DEF P
      <4> QED BY <3>2, <4>6
    <3> QED BY <3>3, <3>4
  <2>4. P(n)
    <3> HIDE DEF P
    <3> QED BY <1>3, <2>3
  <2> QED BY <2>1, <2>4
<1> QED BY <1>2, <1>3

-----------------------------------------------------------------------------
(* Sorting, and the two opcode programs that Phase 3 writes.               *)

\* The elements of t are those of s, in another order.
Permuted(s, t) ==
  \E pi \in [DOMAIN s -> DOMAIN s] :
    /\ \A i, j \in DOMAIN s : pi[i] = pi[j] => i = j
    /\ \A j \in DOMAIN s : \E i \in DOMAIN s : pi[i] = j
    /\ t = [i \in DOMAIN s |-> s[pi[i]]]

\* sorted() of phase3.py loses no place and doubles none.
LEMMA SortedPermutes ==
  ASSUME NEW S, NEW s \in Seq(S), \A x \in S : x.seg \in Int /\ x.off \in Int
  PROVE  Permuted(s, Sorted(s))
<1> DEFINE D == DOMAIN s
           rank == [j \in D |-> Cardinality(UpTo(s, j))]
           pi == [i \in D |-> CHOOSE j \in D : rank[j] = i]
<1>1. D = 1 .. Len(s) /\ Len(s) \in Nat /\ IsFiniteSet(D) /\ Cardinality(D) = Len(s)
  <2>1. D = 1 .. Len(s) /\ Len(s) \in Nat
    OBVIOUS
  <2>2. IsFiniteSet(1 .. Len(s)) /\ Cardinality(1 .. Len(s)) = IF 1 > Len(s) THEN 0 ELSE Len(s) - 1 + 1
    BY <2>1, FS_Interval
  <2> QED BY <2>1, <2>2
<1>2. ASSUME NEW j \in D
      PROVE  /\ s[j].seg \in Int /\ s[j].off \in Int /\ j \in Int
  BY <1>1
<1>3. ASSUME NEW j \in D PROVE j \in UpTo(s, j) /\ UpTo(s, j) \in SUBSET D
  BY <1>2 DEF UpTo, Before
<1>4. ASSUME NEW j \in D
      PROVE  /\ IsFiniteSet(UpTo(s, j)) /\ rank[j] = Cardinality(UpTo(s, j)) /\ rank[j] \in D
  <2>1. IsFiniteSet(UpTo(s, j)) /\ Cardinality(UpTo(s, j)) <= Len(s)
    BY <1>1, <1>3, FS_Subset
  <2>2. Cardinality(UpTo(s, j)) \in Nat
    BY <2>1, FS_CardinalityType
  <2>3. Cardinality(UpTo(s, j)) # 0
    BY <2>1, <1>3, FS_EmptySet
  <2> QED BY <1>1, <2>1, <2>2, <2>3
<1>5. ASSUME NEW i \in D, NEW j \in D
      PROVE  UpTo(s, i) \subseteq UpTo(s, j) \/ UpTo(s, j) \subseteq UpTo(s, i)
  <2>1. i \in UpTo(s, j) \/ j \in UpTo(s, i)
    BY <1>2 DEF UpTo, Before
  <2>2. ASSUME NEW a \in D, NEW b \in D, NEW x \in D, x \in UpTo(s, a), a \in UpTo(s, b)
        PROVE  x \in UpTo(s, b)
    <3>1. /\ s[a].seg \in Int /\ s[a].off \in Int /\ a \in Int
          /\ s[b].seg \in Int /\ s[b].off \in Int /\ b \in Int
          /\ s[x].seg \in Int /\ s[x].off \in Int /\ x \in Int
      BY <1>2
    <3> QED BY <2>2, <3>1, SMTT(30) DEF UpTo, Before
  <2>3. UpTo(s, i) \subseteq D /\ UpTo(s, j) \subseteq D
    BY <1>3
  <2> QED BY <2>1, <2>2, <2>3
<1>6. ASSUME NEW i \in D, NEW j \in D, UpTo(s, i) = UpTo(s, j) PROVE i = j
  <2>1. i \in UpTo(s, j) /\ j \in UpTo(s, i)
    BY <1>3, <1>6
  <2> QED BY <1>2, <2>1 DEF UpTo, Before
<1>7. ASSUME NEW i \in D, NEW j \in D, rank[i] = rank[j] PROVE i = j
  <2>1. Cardinality(UpTo(s, i)) = Cardinality(UpTo(s, j))
    BY <1>4, <1>7
  <2>2. UpTo(s, i) = UpTo(s, j)
    BY <1>4, <1>5, <2>1, FS_Subset
  <2> QED BY <1>6, <2>2
<1>8. \A n \in D : \E j \in D : rank[j] = n
  <2>1. rank \in [D -> D]
    BY <1>4
  <2>2. rank \in Injection(D, D)
    <3> HIDE DEF rank
    <3> QED BY <1>7, <2>1 DEF Injection, IsInjective
  <2>3. rank \in Surjection(D, D)
    <3> HIDE DEF rank
    <3> QED BY <1>1, <2>2, FS_Injection
  <2> HIDE DEF rank
  <2> QED BY <2>3 DEF Surjection
<1>9. ASSUME NEW i \in D PROVE pi[i] \in D /\ rank[pi[i]] = i
  <2> HIDE DEF rank
  <2> QED BY <1>8
<1>10. pi \in [D -> D]
  <2>1. pi = [i \in D |-> pi[i]]
    OBVIOUS
  <2> HIDE DEF pi
  <2> QED BY <1>9, <2>1
<1>11. ASSUME NEW i \in D, NEW j \in D, pi[i] = pi[j] PROVE i = j
  <2> HIDE DEF pi, rank
  <2> QED BY <1>9, <1>11
<1>12. ASSUME NEW j \in D PROVE \E i \in D : pi[i] = j
  <2>1. rank[j] \in D
    BY <1>4
  <2>2. pi[rank[j]] \in D /\ rank[pi[rank[j]]] = rank[j]
    <3> HIDE DEF pi, rank
    <3> QED BY <1>9, <2>1
  <2>3. pi[rank[j]] = j
    <3> HIDE DEF pi, rank
    <3> QED BY <1>7, <2>2
  <2> HIDE DEF pi, rank
  <2> QED BY <2>1, <2>3
<1>13. Sorted(s) = [i \in D |-> s[pi[i]]]
  <2>1. \A i \in D : pi[i] = CHOOSE j \in D : Cardinality(UpTo(s, j)) = i
    <3> TAKE i \in D
    <3>1. \A j \in D : rank[j] = Cardinality(UpTo(s, j))
      OBVIOUS
    <3> QED BY <3>1
  <2> HIDE DEF pi
  <2>2. \A i \in D : s[pi[i]] = s[CHOOSE j \in D : Cardinality(UpTo(s, j)) = i]
    BY <2>1, Zenon
  <2> QED BY <2>2, Zenon DEF Sorted
<1> HIDE DEF pi
<1> QED BY <1>10, <1>11, <1>12, <1>13 DEF Permuted

\* _rebase_stream opcode by opcode: the type, a place and a rebase for each
\* location in order, and the end.
LEMMA RebaseOpcodes ==
  ASSUME rebases \in Seq(Place)
  PROVE  LET n == Len(rebases) locs == Sorted(rebases)
         IN /\ Len(RebaseStream) = 2 * n + 2 /\ DOMAIN RebaseStream = 1 .. 2 * n + 2
            /\ RebaseStream[1] = [op |-> "type"]
            /\ \A i \in 1 .. n : /\ RebaseStream[2 * i] = GoTo(locs[i])
                                 /\ RebaseStream[2 * i + 1] = [op |-> "rebase"]
            /\ RebaseStream[2 * n + 2] = [op |-> "done"]
<1> DEFINE n == Len(rebases)
           locs == Sorted(rebases)
           a == [i \in 1 .. n |-> GoTo(locs[i])]
           b == [op |-> "rebase"]
           r == FlattenSeq([i \in 1 .. n |-> <<a[i], b>>])
           S == {a[i] : i \in 1 .. n} \cup {b}
           U == S \cup {[op |-> "type"], [op |-> "done"]}
           t == <<[op |-> "type"]>>
           d == <<[op |-> "done"]>>
<1>1. n \in Nat /\ DOMAIN rebases = 1 .. n
  OBVIOUS
<1>2. DOMAIN locs = 1 .. n
  BY <1>1 DEF Sorted
<1>3. [i \in DOMAIN locs |-> <<GoTo(locs[i]), b>>] = [i \in 1 .. n |-> <<a[i], b>>]
  <2> HIDE DEF locs, b
  <2>1. \A i \in 1 .. n : <<GoTo(locs[i]), b>> = <<a[i], b>>
    OBVIOUS
  <2> HIDE DEF a
  <2> QED BY <1>2, <2>1, Zenon
<1>4. RebaseStream = t \o r \o d
  <2>1. RebaseStream = t \o FlattenSeq([i \in DOMAIN locs |-> <<GoTo(locs[i]), b>>]) \o d
    BY Zenon DEF RebaseStream
  <2> HIDE DEF locs, b, a, t, d
  <2> QED BY <1>3, <2>1, Zenon
<1>5. /\ r \in Seq(S) /\ Len(r) = 2 * n
      /\ \A i \in 1 .. n : r[2 * i - 1] = a[i] /\ r[2 * i] = b
  <2> DEFINE seqs == [i \in 1 .. n |-> <<a[i], b>>]
  <2> HIDE DEF a, b, n
  <2>1. seqs \in [1 .. n -> Seq(S)] /\ \A i \in 1 .. n : seqs[i] = <<a[i], b>>
    OBVIOUS
  <2>2. b \in S
    OBVIOUS
  <2>3. r = FlattenSeq(seqs)
    OBVIOUS
  <2> HIDE DEF r, seqs, S
  <2>4. /\ FlattenSeq(seqs) \in Seq(S) /\ Len(FlattenSeq(seqs)) = 2 * n
        /\ \A i \in 1 .. n : /\ FlattenSeq(seqs)[2 * i - 1] = a[i]
                             /\ FlattenSeq(seqs)[2 * i] = b
    <3>1. PairsApart(seqs, S, n, a, b)
      BY <1>1, <2>1, <2>2 DEF PairsApart
    <3>2. PairsInline(FlattenSeq(seqs), S, n, a, b)
      BY <3>1, FlattenPairs
    <3> QED BY <3>2 DEF PairsInline
  <2> QED BY <2>3, <2>4
<1>6. \A i \in 1 .. n : a[i] = GoTo(locs[i])
  <2> HIDE DEF locs
  <2> QED OBVIOUS
<1>7. r \in Seq(U) /\ t \in Seq(U) /\ d \in Seq(U)
  <2> HIDE DEF r, a, b
  <2>1. S \subseteq U
    OBVIOUS
  <2>2. t \in Seq(U) /\ d \in Seq(U)
    OBVIOUS
  <2> HIDE DEF S, U
  <2> QED BY <1>5, <2>1, <2>2
<1>8. Len(t) = 1 /\ t[1] = [op |-> "type"] /\ Len(d) = 1 /\ d[1] = [op |-> "done"]
  OBVIOUS
<1> HIDE DEF r, t, d, U, S, a
<1> DEFINE w == t \o r
<1>9. /\ w \in Seq(U) /\ Len(w) = 1 + 2 * n /\ w[1] = [op |-> "type"]
      /\ \A x \in 1 .. 2 * n : w[1 + x] = r[x]
  <2>1. /\ w \in Seq(U) /\ Len(w) = Len(t) + Len(r)
        /\ \A x \in 1 .. Len(t) : w[x] = t[x]
        /\ \A x \in 1 .. Len(r) : w[Len(t) + x] = r[x]
    BY <1>7, Concatenation
  <2> HIDE DEF w
  <2> QED BY <1>1, <1>5, <1>8, <2>1
<1> HIDE DEF w
<1>10. /\ Len(w \o d) = 2 * n + 2 /\ DOMAIN (w \o d) = 1 .. 2 * n + 2
       /\ (w \o d)[2 * n + 2] = [op |-> "done"]
       /\ \A x \in 1 .. 2 * n + 1 : (w \o d)[x] = w[x]
  <2>1. /\ Len(w \o d) = Len(w) + Len(d) /\ DOMAIN (w \o d) = 1 .. Len(w \o d)
        /\ \A x \in 1 .. Len(w) : (w \o d)[x] = w[x]
        /\ \A x \in 1 .. Len(d) : (w \o d)[Len(w) + x] = d[x]
    <3>1. w \in Seq(U) /\ d \in Seq(U)
      BY <1>7, <1>9
    <3> QED BY <3>1, Concatenation
  <2>2. (w \o d)[Len(w) + 1] = d[1]
    BY <1>8, <2>1
  <2> QED BY <1>1, <1>8, <1>9, <2>1, <2>2
<1>11. RebaseStream = w \o d
  BY <1>4 DEF w
<1>12. RebaseStream[1] = [op |-> "type"]
  BY <1>1, <1>9, <1>10, <1>11
<1>13. ASSUME NEW i \in 1 .. n
       PROVE  RebaseStream[2 * i] = GoTo(locs[i]) /\ RebaseStream[2 * i + 1] = b
  <2>1. /\ 2 * i \in 1 .. 2 * n + 1 /\ 2 * i + 1 \in 1 .. 2 * n + 1
        /\ 2 * i - 1 \in 1 .. 2 * n /\ 2 * i \in 1 .. 2 * n
        /\ 1 + (2 * i - 1) = 2 * i /\ 1 + 2 * i = 2 * i + 1
    BY <1>1
  <2>2. RebaseStream[2 * i] = w[2 * i] /\ RebaseStream[2 * i + 1] = w[2 * i + 1]
    BY <1>10, <1>11, <2>1
  <2>3. w[1 + (2 * i - 1)] = r[2 * i - 1] /\ w[1 + 2 * i] = r[2 * i]
    BY <1>9, <2>1
  <2> HIDE DEF locs, b
  <2> QED BY <1>5, <1>6, <2>1, <2>2, <2>3
<1> QED BY <1>10, <1>11, <1>12, <1>13

\* The opcodes of one binding.
OpsOf(b) == {[op |-> "symbol", symbol |-> b.symbol], [op |-> "addend", addend |-> b.addend],
             GoTo(b), [op |-> "bind"]}

\* _bind_stream's opcodes for one binding: the symbol, the addend unless it is
\* zero, the place, the bind.
LEMMA BindOpsAre ==
  ASSUME NEW b \in Binding
  PROVE  LET s == BindOps(b) n == Len(BindOps(b))
         IN /\ s \in Seq(OpsOf(b))
            /\ n = IF b.addend # 0 THEN 4 ELSE 3
            /\ s[1] = [op |-> "symbol", symbol |-> b.symbol]
            /\ b.addend # 0 => s[2] = [op |-> "addend", addend |-> b.addend]
            /\ s[n - 1] = GoTo(b) /\ s[n] = [op |-> "bind"]
<1> DEFINE h == [op |-> "symbol", symbol |-> b.symbol]
           m == [op |-> "addend", addend |-> b.addend]
           g == GoTo(b)
           e == [op |-> "bind"]
<1>1. CASE b.addend # 0
  <2> DEFINE u == <<h>> \o <<m>>
             v == <<g, e>>
             U == OpsOf(b)
  <2>1. BindOps(b) = u \o v
    BY <1>1, Zenon DEF BindOps
  <2> HIDE DEF h, m, g, e
  <2>2. /\ <<h>> \in Seq(U) /\ <<m>> \in Seq(U) /\ v \in Seq(U) /\ Len(v) = 2
        /\ v[1] = g /\ v[2] = e
    BY DEF OpsOf, h, m, g, e
  <2>3. u \in Seq(U) /\ Len(u) = 2 /\ u[1] = h /\ u[2] = m
    BY <2>2
  <2> HIDE DEF u, v, U
  <2>4. /\ Len(u \o v) = 4 /\ (u \o v)[1] = h /\ (u \o v)[2] = m
        /\ (u \o v)[3] = g /\ (u \o v)[4] = e
    <3>1. /\ Len(u \o v) = Len(u) + Len(v)
          /\ \A i \in 1 .. Len(u) : (u \o v)[i] = u[i]
          /\ \A i \in 1 .. Len(v) : (u \o v)[Len(u) + i] = v[i]
      <4>1. u \in Seq(U) /\ v \in Seq(U)
        BY <2>2, <2>3
      <4> QED BY <4>1, Concatenation
    <3>2. 1 \in 1 .. Len(u) /\ 2 \in 1 .. Len(u) /\ 1 \in 1 .. Len(v) /\ 2 \in 1 .. Len(v)
      BY <2>2, <2>3
    <3>3. (u \o v)[Len(u) + 1] = v[1] /\ (u \o v)[Len(u) + 2] = v[2]
      BY <3>1, <3>2
    <3> QED BY <2>2, <2>3, <3>1, <3>2, <3>3
  <2>5. /\ BindOps(b) \in Seq(OpsOf(b)) /\ Len(BindOps(b)) = 4 /\ BindOps(b)[1] = h /\ BindOps(b)[2] = m
        /\ BindOps(b)[4 - 1] = g /\ BindOps(b)[4] = e
    <3>1. u \o v \in Seq(U)
      BY <2>2, <2>3
    <3> QED BY <2>1, <2>4, <3>1 DEF U
  <2> QED BY <1>1, <2>5 DEF h, m, g, e
<1>2. CASE b.addend = 0
  <2> DEFINE u == <<h>> \o <<>>
             v == <<g, e>>
             U == OpsOf(b)
  <2>1. BindOps(b) = u \o v
    BY <1>2, Zenon DEF BindOps
  <2> HIDE DEF h, m, g, e
  <2>2. /\ <<h>> \in Seq(U) /\ <<>> \in Seq(U) /\ v \in Seq(U) /\ Len(v) = 2
        /\ v[1] = g /\ v[2] = e
    BY DEF OpsOf, h, m, g, e
  <2>3. u \in Seq(U) /\ Len(u) = 1 /\ u[1] = h
    BY <2>2
  <2> HIDE DEF u, v, U
  <2>4. /\ Len(u \o v) = 3 /\ (u \o v)[1] = h
        /\ (u \o v)[2] = g /\ (u \o v)[3] = e
    <3>1. /\ Len(u \o v) = Len(u) + Len(v)
          /\ \A i \in 1 .. Len(u) : (u \o v)[i] = u[i]
          /\ \A i \in 1 .. Len(v) : (u \o v)[Len(u) + i] = v[i]
      <4>1. u \in Seq(U) /\ v \in Seq(U)
        BY <2>2, <2>3
      <4> QED BY <4>1, Concatenation
    <3>2. 1 \in 1 .. Len(u) /\ 1 \in 1 .. Len(v) /\ 2 \in 1 .. Len(v)
      BY <2>2, <2>3
    <3>3. (u \o v)[Len(u) + 1] = v[1] /\ (u \o v)[Len(u) + 2] = v[2]
      BY <3>1, <3>2
    <3> QED BY <2>2, <2>3, <3>1, <3>2, <3>3
  <2>5. /\ BindOps(b) \in Seq(OpsOf(b)) /\ Len(BindOps(b)) = 3 /\ BindOps(b)[1] = h
        /\ BindOps(b)[3 - 1] = g /\ BindOps(b)[3] = e
    <3>1. u \o v \in Seq(U)
      BY <2>2, <2>3
    <3> QED BY <2>1, <2>4, <3>1 DEF U
  <2> QED BY <1>2, <2>5 DEF h, m, g, e
<1> QED BY <1>1, <1>2

\* A bind program: the bindings' opcodes, each block somewhere between the two
\* opcodes in front and the last one, and nothing else.
BindProgram(r) ==
  /\ Len(r) \in Nat /\ Len(r) >= 3
  /\ r[1] = [op |-> "ordinal"] /\ r[2] = [op |-> "type"] /\ r[Len(r)] = [op |-> "done"]
  /\ \A i \in DOMAIN bindings :
       \E start \in Nat : /\ BlockAt(r, start, BindOps(bindings[i]))
                          /\ start >= 2 /\ start + Len(BindOps(bindings[i])) < Len(r)
  /\ \A p \in 3 .. Len(r) - 1 :
       \E i \in DOMAIN bindings, start \in Nat :
         /\ BlockAt(r, start, BindOps(bindings[i]))
         /\ p - start \in 1 .. Len(BindOps(bindings[i]))

\* _bind_stream writes such a program.
LEMMA BindOpcodes ==
  ASSUME bindings \in Seq(Binding)
  PROVE  BindProgram(BindStream)
<1> DEFINE n == Len(bindings)
           items == Sorted(bindings)
           seqs == [i \in DOMAIN items |-> BindOps(items[i])]
           S == UNION {OpsOf(bindings[i]) : i \in 1 .. n}
           t == <<[op |-> "ordinal"], [op |-> "type"]>>
           d == <<[op |-> "done"]>>
           U == S \cup {[op |-> "ordinal"], [op |-> "type"], [op |-> "done"]}
           r == FlattenSeq(seqs)
<1>1. n \in Nat /\ DOMAIN bindings = 1 .. n /\ \A i \in 1 .. n : bindings[i] \in Binding
  OBVIOUS
<1>2. PICK pi \in [1 .. n -> 1 .. n] :
        /\ \A j \in 1 .. n : \E i \in 1 .. n : pi[i] = j
        /\ items = [i \in 1 .. n |-> bindings[pi[i]]]
  <2>1. \A x \in Binding : x.seg \in Int /\ x.off \in Int
    BY DEF Binding
  <2>2. Permuted(bindings, items)
    BY <2>1, SortedPermutes
  <2> HIDE DEF items
  <2>3. PICK pi \in [DOMAIN bindings -> DOMAIN bindings] :
          /\ \A j \in DOMAIN bindings : \E i \in DOMAIN bindings : pi[i] = j
          /\ items = [i \in DOMAIN bindings |-> bindings[pi[i]]]
    BY <2>2, Zenon DEF Permuted
  <2>4. DOMAIN bindings = 1 .. n
    BY <1>1
  <2> HIDE DEF n
  <2> QED BY <2>3, <2>4, Zenon
<1>3. DOMAIN items = 1 .. n /\ \A i \in 1 .. n : items[i] = bindings[pi[i]] /\ pi[i] \in 1 .. n
  <2> HIDE DEF items
  <2> QED BY <1>2
<1>4. \A i \in 1 .. n : seqs[i] = BindOps(bindings[pi[i]])
  <2> HIDE DEF items
  <2> QED BY <1>3
<1>5. ASSUME NEW i \in 1 .. n PROVE BindOps(bindings[i]) \in Seq(S)
  <2>1. bindings[i] \in Binding
    BY <1>1
  <2>2. BindOps(bindings[i]) \in Seq(OpsOf(bindings[i]))
    BY <2>1, BindOpsAre
  <2>3. OpsOf(bindings[i]) \subseteq S
    OBVIOUS
  <2> HIDE DEF S
  <2> QED BY <2>2, <2>3
<1>6. seqs \in [1 .. n -> Seq(S)]
  <2>1. seqs = [i \in 1 .. n |-> seqs[i]]
    <3> HIDE DEF items
    <3> QED BY <1>3
  <2>2. \A i \in 1 .. n : seqs[i] \in Seq(S)
    <3> HIDE DEF seqs, S
    <3> QED BY <1>3, <1>4, <1>5
  <2> HIDE DEF seqs, S
  <2> QED BY <2>1, <2>2
<1>7. r \in Seq(S) /\ Blocks(r, seqs, n)
  <2> HIDE DEF seqs, S, n
  <2> QED BY <1>1, <1>6, FlattenBlocks
<1>8. BindStream = (t \o r) \o d
  BY Zenon DEF BindStream
<1>9. /\ r \in Seq(U) /\ t \in Seq(U) /\ d \in Seq(U)
      /\ Len(t) = 2 /\ t[1] = [op |-> "ordinal"] /\ t[2] = [op |-> "type"]
      /\ Len(d) = 1 /\ d[1] = [op |-> "done"]
      /\ \A i \in 1 .. n : BindOps(bindings[i]) \in Seq(U)
  <2>1. S \subseteq U /\ t \in Seq(U) /\ d \in Seq(U)
    <3> HIDE DEF S
    <3> QED OBVIOUS
  <2>2. /\ Len(t) = 2 /\ t[1] = [op |-> "ordinal"] /\ t[2] = [op |-> "type"]
        /\ Len(d) = 1 /\ d[1] = [op |-> "done"]
    OBVIOUS
  <2> HIDE DEF S, U, r, t, d
  <2> QED BY <1>5, <1>7, <2>1, <2>2
<1> HIDE DEF S, U, r, t, d, seqs, items
<1> DEFINE w == t \o r
           z == w \o d
<1>10. /\ w \in Seq(U) /\ Len(w) = 2 + Len(r) /\ w[1] = t[1] /\ w[2] = t[2]
       /\ Len(r) \in Nat
  <2>1. r \in Seq(U) /\ t \in Seq(U)
    BY <1>9
  <2>2. /\ w \in Seq(U) /\ Len(w) = Len(t) + Len(r)
        /\ \A x \in 1 .. Len(t) : w[x] = t[x]
    BY <2>1, Concatenation
  <2> HIDE DEF w
  <2> QED BY <1>9, <2>1, <2>2
<1> HIDE DEF w
<1>11. /\ z \in Seq(U) /\ Len(z) = Len(r) + 3 /\ z[Len(r) + 3] = d[1]
       /\ z[1] = t[1] /\ z[2] = t[2]
  <2>1. w \in Seq(U) /\ d \in Seq(U)
    BY <1>9, <1>10
  <2>2. /\ z \in Seq(U) /\ Len(z) = Len(w) + Len(d)
        /\ \A x \in 1 .. Len(w) : z[x] = w[x]
        /\ \A x \in 1 .. Len(d) : z[Len(w) + x] = d[x]
    BY <2>1, Concatenation
  <2> HIDE DEF z
  <2>3. z[Len(w) + 1] = d[1]
    BY <1>9, <2>2
  <2>4. Len(w) + 1 = Len(r) + 3 /\ 1 \in 1 .. Len(w) /\ 2 \in 1 .. Len(w)
    BY <1>10
  <2> QED BY <1>9, <1>10, <2>2, <2>3, <2>4
<1>12. ASSUME NEW i \in 1 .. n, NEW start, BlockAt(r, start, BindOps(bindings[i]))
       PROVE  /\ BlockAt(z, 2 + start, BindOps(bindings[i])) /\ start \in Nat
              /\ 2 + start + Len(BindOps(bindings[i])) < Len(z)
  <2>1. /\ BindOps(bindings[i]) \in Seq(U) /\ t \in Seq(U) /\ r \in Seq(U)
        /\ w \in Seq(U) /\ d \in Seq(U)
    BY <1>9, <1>10
  <2>2. BlockAt(t \o r, Len(t) + start, BindOps(bindings[i]))
    BY <1>12, <2>1, BlockShift
  <2>3. BlockAt(w, 2 + start, BindOps(bindings[i]))
    BY <1>9, <2>2 DEF w
  <2>4. BlockAt(w \o d, 2 + start, BindOps(bindings[i]))
    BY <2>1, <2>3, BlockShift
  <2>5. start \in Nat /\ start + Len(BindOps(bindings[i])) <= Len(r)
    BY <1>12 DEF BlockAt
  <2>6. Len(BindOps(bindings[i])) \in Nat
    BY <2>1
  <2> QED BY <1>10, <1>11, <2>4, <2>5, <2>6
<1> HIDE DEF z
<1>13. ASSUME NEW j \in 1 .. n
       PROVE  \E start \in Nat : /\ BlockAt(z, start, BindOps(bindings[j]))
                                 /\ start >= 2 /\ start + Len(BindOps(bindings[j])) < Len(z)
  <2>1. PICK i \in 1 .. n : pi[i] = j
    BY <1>2
  <2>2. PICK start : BlockAt(r, start, seqs[i])
    BY <1>7 DEF Blocks
  <2>3. BlockAt(r, start, BindOps(bindings[j]))
    BY <1>4, <2>1, <2>2
  <2>4. 2 + start \in Nat /\ 2 + start >= 2
    BY <1>12, <2>3
  <2> QED BY <1>12, <2>3, <2>4
<1>14. ASSUME NEW p \in 3 .. Len(z) - 1
       PROVE  \E i \in 1 .. n, start \in Nat :
                /\ BlockAt(z, start, BindOps(bindings[i]))
                /\ p - start \in 1 .. Len(BindOps(bindings[i]))
  <2>1. p - 2 \in 1 .. Len(r)
    BY <1>10, <1>11
  <2>2. PICK i \in 1 .. n, start \in Nat :
          BlockAt(r, start, seqs[i]) /\ (p - 2) - start \in 1 .. Len(seqs[i])
    BY <1>7, <2>1 DEF Blocks
  <2>3. pi[i] \in 1 .. n /\ seqs[i] = BindOps(bindings[pi[i]])
    BY <1>3, <1>4
  <2>4. BlockAt(z, 2 + start, BindOps(bindings[pi[i]]))
    BY <1>12, <2>2, <2>3
  <2>5. 2 + start \in Nat /\ p - (2 + start) = (p - 2) - start
    OBVIOUS
  <2> QED BY <2>2, <2>3, <2>4, <2>5
<1>15. BindProgram(z)
  <2>1. /\ Len(z) \in Nat /\ Len(z) >= 3 /\ z[1] = [op |-> "ordinal"]
        /\ z[2] = [op |-> "type"] /\ z[Len(z)] = [op |-> "done"]
    BY <1>9, <1>10, <1>11
  <2> HIDE DEF n
  <2> QED BY <1>1, <1>13, <1>14, <2>1 DEF BindProgram
<1> QED BY <1>8, <1>15 DEF z, w

-----------------------------------------------------------------------------
(* The contents of the loads in the file and in memory.                    *)

\* Address v is in the memory of load i.
InLoad(i, v) == elf.loads[i].vaddr <= v /\ v < elf.loads[i].vaddr + elf.loads[i].memsz

\* Address v is in the file contents of load i.
InFile(i, v) == elf.loads[i].vaddr <= v /\ v < elf.loads[i].vaddr + elf.loads[i].filesz

\* Loads in pages of their own have addresses of their own.
LEMMA LoadUnique ==
  ASSUME TypeOK, PageSeparated, NEW i \in DOMAIN elf.loads, NEW j \in DOMAIN elf.loads,
         NEW v \in Int, InLoad(i, v), InLoad(j, v)
  PROVE  i = j
<1>1. ASSUME NEW a \in DOMAIN elf.loads, NEW b \in DOMAIN elf.loads, a < b,
             InLoad(a, v), InLoad(b, v)
      PROVE  FALSE
  <2>1. Align(elf.loads[a].vaddr + elf.loads[a].memsz) <= Floor(elf.loads[b].vaddr)
    BY <1>1 DEF PageSeparated
  <2>2. /\ elf.loads[a].vaddr \in Nat /\ elf.loads[a].memsz \in Nat
        /\ elf.loads[b].vaddr \in Nat /\ elf.loads[b].memsz \in Nat
    BY LoadFacts
  <2>3. /\ Align(elf.loads[a].vaddr + elf.loads[a].memsz) \in Int
        /\ elf.loads[a].vaddr + elf.loads[a].memsz
             <= Align(elf.loads[a].vaddr + elf.loads[a].memsz)
    <3>1. elf.loads[a].vaddr + elf.loads[a].memsz \in Int
      BY <2>2
    <3> QED BY <3>1, AlignFacts
  <2>4. Floor(elf.loads[b].vaddr) \in Int /\ Floor(elf.loads[b].vaddr) <= elf.loads[b].vaddr
    BY <2>2, FloorFacts
  <2> QED BY <1>1, <2>1, <2>2, <2>3, <2>4 DEF InLoad
<1>2. i \in Int /\ j \in Int
  BY SMTT(30) DEF TypeOK, WellFormed, Elf
<1> QED BY <1>1, <1>2

\* A load, its segment, and the words of the file they share.
LEMMA SegmentOfLoad ==
  ASSUME TypeOK, LayoutSound, LayoutProgress, NEW i \in DOMAIN segments
  PROVE  /\ i \in DOMAIN elf.loads
         /\ segments[i].elf_vaddr = elf.loads[i].vaddr
         /\ segments[i].elf_filesz = elf.loads[i].filesz
         /\ segments[i].elf_offset = elf.loads[i].offset
         /\ segments[i].data_addr = Slide + elf.loads[i].vaddr
         /\ segments[i].fileoff <= segments[i].data_fileoff
         /\ segments[i].data_fileoff + elf.loads[i].filesz = FileEnd(segments[i])
         /\ segments[i].data_addr - segments[i].vmaddr
              = segments[i].data_fileoff - segments[i].fileoff
         /\ segments[i].vmaddr + segments[i].vmsize
              = Slide + Align(elf.loads[i].vaddr + elf.loads[i].memsz)
         /\ segments[i].vmaddr <= segments[i].data_addr
         /\ HeaderReserve <= segments[i].data_fileoff
<1>1. i \in DOMAIN elf.loads
  <2>1. elf.loads \in Seq(LoadHeader) /\ segments \in Seq(Segment)
    BY DEF TypeOK, WellFormed, Elf
  <2> QED BY <2>1 DEF LayoutProgress
<1>2. HoldsLoad(segments[i], elf.loads[i])
  BY DEF LayoutSound, SegmentsPlaced, SegmentPlaced
<1>3. /\ segments[i].fileoff \in Nat /\ segments[i].data_fileoff \in Nat
      /\ segments[i].data_addr \in Nat /\ segments[i].vmaddr \in Nat
  BY SegmentFacts
<1>4. HeaderReserve \in Nat
  BY LayoutAssumption
<1> QED BY <1>1, <1>2, <1>3, <1>4 DEF HoldsLoad

\* _location: the load and the segment that hold the address.
LEMMA LocationSegment ==
  ASSUME TypeOK, LayoutSound, LayoutProgress, NEW v \in Nat, Holding(v) # {}
  PROVE  \E i \in DOMAIN segments :
           /\ i \in DOMAIN elf.loads /\ InFile(i, v) /\ InLoad(i, v)
           /\ Location(v).seg = i - 1 /\ Location(v).seg + 1 = i
           /\ Location(v).out = segments[i].data_fileoff + (v - elf.loads[i].vaddr)
<1> DEFINE i == CHOOSE i \in Holding(v) : \A j \in Holding(v) : i <= j
<1>1. Holding(v) \in SUBSET Nat
  BY SegmentFacts DEF Holding
<1>2. i \in Holding(v)
  BY <1>1, LeastExists
<1>3. Location(v) = [seg |-> i - 1,
                     out |-> segments[i].data_fileoff + (v - segments[i].elf_vaddr),
                     off |-> (Slide + v) - segments[i].vmaddr]
  BY DEF Location
<1> HIDE DEF i
<1>4. /\ i \in DOMAIN segments /\ i \in 1 .. Len(segments) /\ i \in Nat
      /\ segments[i].elf_vaddr <= v
      /\ v < segments[i].elf_vaddr + segments[i].elf_filesz
  BY <1>2, SegmentFacts DEF Holding
<1>5. /\ i \in DOMAIN elf.loads
      /\ segments[i].elf_vaddr = elf.loads[i].vaddr
      /\ segments[i].elf_filesz = elf.loads[i].filesz
  BY <1>4, SegmentOfLoad
<1>6. /\ elf.loads[i].vaddr \in Nat /\ elf.loads[i].filesz \in Nat
      /\ elf.loads[i].memsz \in Nat /\ elf.loads[i].filesz <= elf.loads[i].memsz
  BY <1>5, LoadFacts
<1>7. InFile(i, v) /\ InLoad(i, v)
  BY <1>4, <1>5, <1>6 DEF InFile, InLoad
<1>8. Location(v).seg = i - 1 /\ (i - 1) + 1 = i
  BY <1>3, <1>4
<1> QED BY <1>3, <1>4, <1>5, <1>7, <1>8

\* The file contents of two segments are apart in the output.
LEMMA OwnersApart ==
  ASSUME TypeOK, LayoutSound, LayoutProgress,
         NEW i \in DOMAIN segments, NEW j \in DOMAIN segments, NEW o \in Int,
         segments[i].data_fileoff <= o, o < segments[i].data_fileoff + segments[i].elf_filesz,
         segments[j].data_fileoff <= o, o < segments[j].data_fileoff + segments[j].elf_filesz
  PROVE  i = j
<1>1. ASSUME NEW a \in DOMAIN segments, NEW b \in DOMAIN segments, a < b,
             o < segments[a].data_fileoff + segments[a].elf_filesz,
             segments[b].data_fileoff <= o
      PROVE  FALSE
  <2>1. FileEnd(segments[a]) <= segments[b].fileoff
    BY <1>1 DEF LayoutSound, FilesDisjoint
  <2>2. /\ segments[a].data_fileoff + segments[a].elf_filesz = FileEnd(segments[a])
        /\ segments[b].fileoff <= segments[b].data_fileoff
    BY SegmentOfLoad
  <2>3. /\ segments[a].data_fileoff \in Nat /\ segments[a].elf_filesz \in Nat
        /\ segments[b].data_fileoff \in Nat /\ segments[b].fileoff \in Nat
    BY SegmentFacts
  <2> QED BY <1>1, <2>1, <2>2, <2>3
<1>2. i \in Int /\ j \in Int
  BY SegmentFacts
<1> QED BY <1>1, <1>2

\* Two addresses are never at one place of the output.
LEMMA OutInjective ==
  ASSUME TypeOK, LayoutSound, LayoutProgress, NEW v \in Nat, NEW w \in Nat,
         Holding(v) # {}, Holding(w) # {}, Location(v).out = Location(w).out
  PROVE  v = w
<1>1. PICK i \in DOMAIN segments :
        /\ i \in DOMAIN elf.loads /\ InFile(i, v)
        /\ Location(v).out = segments[i].data_fileoff + (v - elf.loads[i].vaddr)
  BY LocationSegment
<1>2. PICK j \in DOMAIN segments :
        /\ j \in DOMAIN elf.loads /\ InFile(j, w)
        /\ Location(w).out = segments[j].data_fileoff + (w - elf.loads[j].vaddr)
  BY LocationSegment
<1>3. /\ segments[i].elf_filesz = elf.loads[i].filesz
      /\ segments[j].elf_filesz = elf.loads[j].filesz
      /\ segments[i].data_fileoff \in Nat /\ segments[j].data_fileoff \in Nat
      /\ elf.loads[i].vaddr \in Nat /\ elf.loads[i].filesz \in Nat
      /\ elf.loads[j].vaddr \in Nat /\ elf.loads[j].filesz \in Nat
  BY <1>1, <1>2, SegmentOfLoad, SegmentFacts, LoadFacts
<1>4. i = j
  <2> DEFINE o == Location(v).out
  <2>1. /\ o \in Int /\ segments[i].data_fileoff <= o
        /\ o < segments[i].data_fileoff + segments[i].elf_filesz
    BY <1>1, <1>3 DEF InFile
  <2>2. /\ segments[j].data_fileoff <= o
        /\ o < segments[j].data_fileoff + segments[j].elf_filesz
    BY <1>2, <1>3 DEF InFile
  <2> HIDE DEF o
  <2> QED BY <2>1, <2>2, OwnersApart
<1>5. segments[i].data_fileoff + (v - elf.loads[i].vaddr)
        = segments[i].data_fileoff + (w - elf.loads[i].vaddr)
  BY <1>1, <1>2, <1>4
<1>6. ASSUME NEW a \in Int, NEW b \in Int, a + (v - b) = a + (w - b) PROVE v = w
  BY <1>6
<1> QED BY <1>3, <1>5, <1>6

\* The words of a load are copied to where its segment has them.
LEMMA CopiedIs ==
  ASSUME TypeOK, LayoutSound, LayoutProgress, NEW i \in DOMAIN segments,
         NEW v \in Nat, InFile(i, v)
  PROVE  CopiedWord(segments[i].data_fileoff + (v - elf.loads[i].vaddr))
           = elf.data[elf.loads[i].offset + (v - elf.loads[i].vaddr) + 1]
<1> DEFINE o == segments[i].data_fileoff + (v - elf.loads[i].vaddr)
           owners == {h \in DOMAIN segments :
                        /\ segments[h].data_fileoff <= o
                        /\ o < segments[h].data_fileoff + segments[h].elf_filesz}
<1>1. /\ i \in DOMAIN elf.loads /\ segments[i].elf_filesz = elf.loads[i].filesz
      /\ segments[i].elf_offset = elf.loads[i].offset
  BY SegmentOfLoad
<1>2. /\ segments[i].data_fileoff \in Nat /\ elf.loads[i].vaddr \in Nat
      /\ elf.loads[i].filesz \in Nat /\ elf.loads[i].offset \in Nat /\ i \in Int
  BY <1>1, SegmentFacts, LoadFacts
<1>3. o \in Int /\ i \in owners /\ o - segments[i].data_fileoff = v - elf.loads[i].vaddr
  BY <1>1, <1>2 DEF InFile
<1>4. CopiedWord(o) = IF owners = {} THEN 0
                      ELSE elf.data[segments[Max(owners)].elf_offset
                                    + (o - segments[Max(owners)].data_fileoff) + 1]
  BY DEF CopiedWord
<1> HIDE DEF o
<1>5. \A h \in owners : h = i
  BY <1>3, OwnersApart
<1>6. owners = {i}
  <2> HIDE DEF owners
  <2> QED BY <1>3, <1>5
<1>7. Max(owners) = i
  <2>1. owners \in SUBSET Int /\ \A x \in owners : x <= i
    <3> HIDE DEF owners
    <3> QED BY <1>2, <1>6
  <2> HIDE DEF owners
  <2> QED BY <1>3, <2>1, MaxIs
<1> HIDE DEF owners
<1>8. CopiedWord(o) = elf.data[segments[i].elf_offset + (o - segments[i].data_fileoff) + 1]
  BY <1>3, <1>4, <1>7
<1> QED BY <1>1, <1>3, <1>8 DEF o

\* What Bionic reads at an address is what the file has there.
LEMMA ElfWordIs ==
  ASSUME TypeOK, PageSeparated, NEW i \in DOMAIN elf.loads, NEW v \in Nat, InFile(i, v)
  PROVE  ElfWord(v) = elf.data[elf.loads[i].offset + (v - elf.loads[i].vaddr) + 1]
<1> DEFINE h == CHOOSE h \in DOMAIN elf.loads :
                  /\ elf.loads[h].vaddr <= v
                  /\ v < elf.loads[h].vaddr + elf.loads[h].filesz
<1>1. h \in DOMAIN elf.loads /\ InFile(h, v)
  BY DEF InFile
<1>2. ElfWord(v) = elf.data[elf.loads[h].offset + (v - elf.loads[h].vaddr) + 1]
  BY DEF ElfWord
<1> HIDE DEF h
<1>3. ASSUME NEW j \in DOMAIN elf.loads, InFile(j, v) PROVE InLoad(j, v)
  <2>1. /\ elf.loads[j].vaddr \in Nat /\ elf.loads[j].filesz \in Nat
        /\ elf.loads[j].memsz \in Nat /\ elf.loads[j].filesz <= elf.loads[j].memsz
    BY LoadFacts
  <2> QED BY <1>3, <2>1 DEF InFile, InLoad
<1>4. h = i
  BY <1>1, <1>3, LoadUnique
<1> QED BY <1>2, <1>4

\* What is copied to the output offset of an address is its word.
LEMMA CopiedAtOut ==
  ASSUME TypeOK, LayoutSound, LayoutProgress, PageSeparated, NEW v \in Nat, Holding(v) # {}
  PROVE  CopiedWord(Location(v).out) = ElfWord(v)
<1>1. PICK i \in DOMAIN segments :
        /\ i \in DOMAIN elf.loads /\ InFile(i, v)
        /\ Location(v).out = segments[i].data_fileoff + (v - elf.loads[i].vaddr)
  BY LocationSegment
<1>2. CopiedWord(segments[i].data_fileoff + (v - elf.loads[i].vaddr))
           = elf.data[elf.loads[i].offset + (v - elf.loads[i].vaddr) + 1]
  BY <1>1, CopiedIs
<1>3. ElfWord(v) = elf.data[elf.loads[i].offset + (v - elf.loads[i].vaddr) + 1]
  BY <1>1, ElfWordIs
<1> QED BY <1>1, <1>2, <1>3

-----------------------------------------------------------------------------
(* The relocation loop: what exactly the image and the lists hold.         *)

\* An object as linkers make them: its loads in pages of their own, and no two
\* relocations for one pointer.
Plain == PageSeparated /\ PlacesApart

\* Where relocation j is.
At(j) == Location(elf.relocs[j].offset)

\* Relocation j is one that the loop does not refuse.
Accepted(j) ==
  /\ Holding(elf.relocs[j].offset) # {}
  /\ \/ elf.relocs[j].type = "RELATIVE"
     \/ /\ elf.relocs[j].type \in {"ABS64", "GLOB_DAT", "JUMP_SLOT"}
        /\ elf.relocs[j].symbol < Len(elf.symbols)

\* The pointer of relocation j before dyld slides it.
Unslid(j) ==
  LET r == elf.relocs[j]
  IN IF r.type = "RELATIVE" THEN Slide + r.addend
     ELSE Slide + elf.symbols[r.symbol + 1].value + r.addend + Implicit(r)

\* Relocation j is for a pointer into the object itself.
Internal(j) == ~Binds(elf.relocs[j])

\* Rebase i, or binding i, is the one of relocation j.
RebaseFor(i, j) ==
  Internal(j) /\ rebases[i].seg = At(j).seg /\ rebases[i].off = At(j).off

BindFor(i, j) ==
  /\ ~Internal(j) /\ bindings[i].seg = At(j).seg /\ bindings[i].off = At(j).off
  /\ bindings[i].symbol = elf.symbols[elf.relocs[j].symbol + 1].name
  /\ Plain => bindings[i].addend = BindAddend(elf.relocs[j])

\* The words that no relocation so far has patched are as they were copied.
ImageCopied ==
  \A o \in 0 .. cursor - 1 :
    (\A j \in 1 .. k - 1 : Internal(j) => At(j).out # o) => image[o] = CopiedWord(o)

\* The words that a relocation has patched hold its pointer.
ImagePatched == \A j \in 1 .. k - 1 : Internal(j) => image[At(j).out] = Word(Unslid(j))

\* Every relocation so far was accepted and has its fixup, and there are no
\* other fixups.
FixupsExact ==
  /\ \A j \in 1 .. k - 1 : Accepted(j)
  /\ \A i \in DOMAIN rebases : \E j \in 1 .. k - 1 : RebaseFor(i, j)
  /\ \A j \in 1 .. k - 1 : Internal(j) => \E i \in DOMAIN rebases : RebaseFor(i, j)
  /\ \A i \in DOMAIN bindings : \E j \in 1 .. k - 1 : BindFor(i, j)
  /\ \A j \in 1 .. k - 1 : ~Internal(j) => \E i \in DOMAIN bindings : BindFor(i, j)

\* No pointer is slid twice.
RebasesApart ==
  \A a, b \in DOMAIN rebases : a # b => PlaceOf(rebases[a]) # PlaceOf(rebases[b])

\* What the relocation loop has done, exactly.
LoopInv ==
  pc \in {"relocate", "done"} =>
    /\ FixupsExact
    /\ PlacesApart => RebasesApart
    /\ Plain => ImageCopied /\ ImagePatched

\* Nothing of this changes while the ELF and the segments stay.
LEMMA SameObject ==
  ASSUME elf' = elf, segments' = segments
  PROVE  /\ Plain' = Plain /\ PlacesApart' = PlacesApart
         /\ \A j : /\ At(j)' = At(j) /\ Internal(j)' = Internal(j) /\ Accepted(j)' = Accepted(j)
                   /\ Unslid(j)' = Unslid(j)
                   /\ BindAddend(elf.relocs[j])' = BindAddend(elf.relocs[j])
         /\ \A o : CopiedWord(o)' = CopiedWord(o)
<1>1. Plain' = Plain /\ PlacesApart' = PlacesApart
  BY DEF Plain, PageSeparated, PlacesApart
<1>2. ASSUME NEW v PROVE Holding(v)' = Holding(v) /\ ElfWord(v)' = ElfWord(v)
  BY DEF Holding, ElfWord
<1>3. ASSUME NEW v PROVE Location(v)' = Location(v)
  BY <1>2 DEF Location, Holding
<1>4. ASSUME NEW j PROVE /\ At(j)' = At(j) /\ Internal(j)' = Internal(j)
                         /\ Accepted(j)' = Accepted(j)
  BY <1>2, <1>3 DEF At, Internal, Binds, Accepted, Location, Holding
<1>5. ASSUME NEW j PROVE /\ Unslid(j)' = Unslid(j)
                         /\ BindAddend(elf.relocs[j])' = BindAddend(elf.relocs[j])
  BY <1>2 DEF Unslid, BindAddend, Implicit, ElfWord
<1>6. ASSUME NEW o PROVE CopiedWord(o)' = CopiedWord(o)
  BY DEF CopiedWord
<1> QED BY <1>1, <1>4, <1>5, <1>6

\* The contents of every segment are inside the image.
LEMMA EndsInImage ==
  ASSUME TypeOK, LayoutSound, LayoutProgress, pc \in {"relocate", "done"},
         NEW h \in DOMAIN segments
  PROVE  FileEnd(segments[h]) <= cursor /\ FileEnd(segments[h]) \in Nat
<1> DEFINE n == Len(segments)
<1>1. /\ n \in DOMAIN segments /\ cursor = Align(FileEnd(segments[n]))
      /\ h \in 1 .. n /\ n \in Nat /\ cursor \in Nat
  <2>1. segments \in Seq(Segment) /\ cursor \in Nat
    BY DEF TypeOK
  <2>2. segments # <<>> /\ cursor = Align(FileEnd(segments[n]))
    BY DEF LayoutProgress
  <2> QED BY <2>1, <2>2
<1> HIDE DEF n
<1>2. /\ segments[n].fileoff \in Nat /\ segments[n].filesize \in Nat
      /\ segments[h].fileoff \in Nat /\ segments[h].filesize \in Nat
  BY <1>1, SegmentFacts
<1>3. /\ FileEnd(segments[n]) \in Nat /\ FileEnd(segments[h]) \in Nat
      /\ segments[n].fileoff <= FileEnd(segments[n])
  BY <1>2 DEF FileEnd
<1>4. FileEnd(segments[n]) <= cursor
  BY <1>1, <1>3, AlignFacts
<1>5. CASE h = n
  BY <1>3, <1>4, <1>5
<1>6. CASE h < n
  <2>1. FileEnd(segments[h]) <= segments[n].fileoff
    BY <1>1, <1>6 DEF LayoutSound, FilesDisjoint
  <2> QED BY <1>1, <1>2, <1>3, <1>4, <2>1
<1> QED BY <1>1, <1>5, <1>6

\* The place of an accepted relocation: in the contents of a load, in the image,
\* at the constant slide.
LEMMA AtFacts ==
  ASSUME Phase3Inv, pc \in {"relocate", "done"}, NEW j \in DOMAIN elf.relocs, Accepted(j)
  PROVE  /\ elf.relocs[j].offset \in Nat /\ j \in Nat
         /\ At(j).seg \in Nat /\ At(j).off \in Nat /\ At(j).out \in 0 .. cursor - 1
         /\ PlaceOf(At(j)) = Slide + elf.relocs[j].offset
         /\ At(j).seg + 1 \in DOMAIN segments
         /\ \E i \in DOMAIN segments :
              /\ i \in DOMAIN elf.loads /\ At(j).seg + 1 = i
              /\ InFile(i, elf.relocs[j].offset)
              /\ At(j).out = segments[i].data_fileoff
                             + (elf.relocs[j].offset - elf.loads[i].vaddr)
<1> DEFINE v == elf.relocs[j].offset
<1>1. TypeOK /\ LayoutSound /\ LayoutProgress
  BY DEF Phase3Inv
<1>2. v \in Nat /\ j \in Nat
  <2>1. elf.relocs \in Seq(Relocation)
    BY <1>1 DEF TypeOK, WellFormed, Elf
  <2>2. elf.relocs[j] \in Relocation /\ j \in Nat
    BY <2>1
  <2> QED BY <2>2 DEF Relocation
<1>3. Holding(v) # {} /\ At(j) = Location(v)
  BY DEF Accepted, At
<1> HIDE DEF v
<1>4. /\ At(j).seg \in Nat /\ At(j).off \in Nat /\ At(j).out \in Nat
      /\ At(j).seg + 1 \in DOMAIN segments
      /\ segments[At(j).seg + 1].vmaddr + At(j).off = Slide + v
      /\ At(j).out < FileEnd(segments[At(j).seg + 1])
  BY <1>1, <1>2, <1>3, LocationFacts
<1>5. PlaceOf(At(j)) = Slide + v
  BY <1>4 DEF PlaceOf
<1>6. /\ FileEnd(segments[At(j).seg + 1]) <= cursor
      /\ FileEnd(segments[At(j).seg + 1]) \in Nat
  BY <1>1, <1>4, EndsInImage
<1>7. At(j).out \in 0 .. cursor - 1
  <2>1. cursor \in Nat
    BY <1>1 DEF TypeOK
  <2> QED BY <1>4, <1>6, <2>1
<1>8. \E i \in DOMAIN segments :
              /\ i \in DOMAIN elf.loads /\ At(j).seg + 1 = i
              /\ InFile(i, v)
              /\ At(j).out = segments[i].data_fileoff + (v - elf.loads[i].vaddr)
  BY <1>1, <1>2, <1>3, LocationSegment
<1> QED BY <1>2, <1>4, <1>5, <1>7, <1>8 DEF v

\* Two relocations are never at one place of the image.
LEMMA AtApart ==
  ASSUME Phase3Inv, pc \in {"relocate", "done"}, PlacesApart,
         NEW i \in DOMAIN elf.relocs, NEW j \in DOMAIN elf.relocs,
         Accepted(i), Accepted(j), i # j
  PROVE  /\ At(i).out # At(j).out
         /\ elf.relocs[i].offset # elf.relocs[j].offset
<1>1. elf.relocs[i].offset # elf.relocs[j].offset
  BY DEF PlacesApart
<1>2. elf.relocs[i].offset \in Nat /\ elf.relocs[j].offset \in Nat
  BY AtFacts
<1>3. /\ Holding(elf.relocs[i].offset) # {} /\ Holding(elf.relocs[j].offset) # {}
      /\ At(i) = Location(elf.relocs[i].offset) /\ At(j) = Location(elf.relocs[j].offset)
  BY DEF Accepted, At
<1>4. TypeOK /\ LayoutSound /\ LayoutProgress
  BY DEF Phase3Inv
<1> QED BY <1>1, <1>2, <1>3, <1>4, OutInjective

\* A place that no earlier relocation has patched holds what the ELF has there.
LEMMA ExistingIs ==
  ASSUME Phase3Inv, LoopInv, AtReloc, Plain, Accepted(k)
  PROVE  Existing = Implicit(Rel)
<1>1. /\ TypeOK /\ LayoutSound /\ LayoutProgress /\ pc = "relocate" /\ PlacesApart
      /\ PageSeparated /\ k <= Len(elf.relocs)
  BY DEF Phase3Inv, AtReloc, Plain
<1>2. /\ elf.relocs \in Seq(Relocation) /\ k \in Nat \ {0}
      /\ k \in DOMAIN elf.relocs /\ \A j \in 1 .. k - 1 : j \in DOMAIN elf.relocs /\ j # k
  <2>1. elf.relocs \in Seq(Relocation) /\ k \in Nat \ {0}
    BY <1>1 DEF TypeOK, WellFormed, Elf
  <2> QED BY <1>1, <2>1
<1>3. /\ \A j \in 1 .. k - 1 : Accepted(j)
      /\ ImageCopied
  BY <1>1 DEF LoopInv, FixupsExact
<1>4. \A j \in 1 .. k - 1 : At(j).out # At(k).out
  BY <1>1, <1>2, <1>3, AtApart
<1>5. At(k).out \in 0 .. cursor - 1 /\ elf.relocs[k].offset \in Nat
  BY <1>1, <1>2, AtFacts
<1>6. image[At(k).out] = CopiedWord(At(k).out)
  BY <1>3, <1>4, <1>5 DEF ImageCopied
<1>7. CopiedWord(At(k).out) = ElfWord(elf.relocs[k].offset)
  <2>1. Holding(elf.relocs[k].offset) # {}
    BY DEF Accepted
  <2> QED BY <1>1, <1>5, <2>1, CopiedAtOut DEF At
<1> QED BY <1>6, <1>7 DEF Existing, Implicit, Loc, Rel, At

\* Where the loop is, with the types.
LEMMA LoopFacts ==
  ASSUME Phase3Inv, AtReloc
  PROVE  /\ pc = "relocate" /\ k \in Nat \ {0} /\ k \in DOMAIN elf.relocs
         /\ \A j \in 1 .. k - 1 : j \in DOMAIN elf.relocs /\ j # k /\ j \in 1 .. k
         /\ \A j \in 1 .. k : j = k \/ j \in 1 .. k - 1
         /\ (k + 1) - 1 = k
         /\ rebases \in Seq(Place) /\ bindings \in Seq(Binding) /\ cursor \in Nat
         /\ image \in [0 .. cursor - 1 -> 0 .. WordMod - 1]
<1>1. TypeOK /\ pc = "relocate" /\ k <= Len(elf.relocs)
  BY DEF Phase3Inv, AtReloc
<1>2. /\ elf.relocs \in Seq(Relocation) /\ k \in Nat \ {0}
      /\ rebases \in Seq(Place) /\ bindings \in Seq(Binding) /\ cursor \in Nat
      /\ image \in [0 .. cursor - 1 -> 0 .. WordMod - 1]
  BY <1>1 DEF TypeOK, WellFormed, Elf
<1> QED BY <1>1, <1>2

\* One more relocation patched and rebased.
LEMMA LoopPatchStep ==
  ASSUME Phase3Inv, LoopInv, AtReloc, Accepted(k), Internal(k),
         NEW value \in Int, PatchAndRebase(value), Plain => value = Unslid(k)
  PROVE  LoopInv'
<1> DEFINE place == [seg |-> Loc.seg, off |-> Loc.off]
<1>0. PICK c, n : c = k /\ n = Len(rebases)
  OBVIOUS
<1>1. /\ image' = [image EXCEPT ![Loc.out] = Word(value)]
      /\ rebases' = Append(rebases, place)
      /\ k' = k + 1 /\ elf' = elf /\ pc' = pc /\ segments' = segments
      /\ cursor' = cursor /\ bindings' = bindings
  BY DEF PatchAndRebase
<1>2. /\ pc = "relocate" /\ c \in Nat \ {0} /\ c \in DOMAIN elf.relocs
      /\ \A j \in 1 .. c - 1 : j \in DOMAIN elf.relocs /\ j # c /\ j \in 1 .. c
      /\ \A j \in 1 .. c : j = c \/ j \in 1 .. c - 1
      /\ k' - 1 = c /\ c \in 1 .. c
      /\ rebases \in Seq(Place) /\ bindings \in Seq(Binding) /\ cursor \in Nat
      /\ image \in [0 .. cursor - 1 -> 0 .. WordMod - 1]
  BY <1>0, <1>1, LoopFacts
<1>3. /\ Plain' = Plain /\ PlacesApart' = PlacesApart
      /\ \A j : /\ At(j)' = At(j) /\ Internal(j)' = Internal(j) /\ Accepted(j)' = Accepted(j)
                /\ Unslid(j)' = Unslid(j)
                /\ BindAddend(elf.relocs[j])' = BindAddend(elf.relocs[j])
      /\ \A o : CopiedWord(o)' = CopiedWord(o)
  BY <1>1, SameObject
<1>4. FixupsExact /\ (PlacesApart => RebasesApart) /\ (Plain => ImageCopied /\ ImagePatched)
  BY <1>2 DEF LoopInv
<1>5. Loc = At(c) /\ Accepted(c) /\ Internal(c) /\ (Plain => value = Unslid(c))
  BY <1>0 DEF Loc, At, Rel
<1>6. /\ n \in Nat /\ DOMAIN rebases = 1 .. n /\ DOMAIN rebases' = 1 .. n + 1
      /\ rebases'[n + 1] = place /\ \A i \in 1 .. n : rebases'[i] = rebases[i]
      /\ n + 1 \in 1 .. n + 1 /\ \A i \in 1 .. n : i \in 1 .. n + 1
      /\ \A i \in 1 .. n + 1 : i = n + 1 \/ i \in 1 .. n
  <2> HIDE DEF place
  <2> QED BY <1>0, <1>1, <1>2
<1>7. ASSUME NEW i \in 1 .. n, NEW j PROVE RebaseFor(i, j)' = RebaseFor(i, j)
  <2>1. rebases'[i] = rebases[i] /\ At(j)' = At(j) /\ Internal(j)' = Internal(j)
    BY <1>3, <1>6
  <2> QED BY <2>1 DEF RebaseFor
<1>8. RebaseFor(n + 1, c)'
  <2>1. rebases'[n + 1].seg = At(c).seg /\ rebases'[n + 1].off = At(c).off
    BY <1>5, <1>6
  <2>2. At(c)' = At(c) /\ Internal(c)'
    BY <1>3, <1>5
  <2> QED BY <2>1, <2>2 DEF RebaseFor
<1>9. ASSUME NEW i, NEW j PROVE BindFor(i, j)' = BindFor(i, j)
  <2>1. /\ At(j)' = At(j) /\ Internal(j)' = Internal(j) /\ Plain' = Plain
        /\ bindings' = bindings /\ elf' = elf
        /\ BindAddend(elf.relocs[j])' = BindAddend(elf.relocs[j])
    BY <1>1, <1>3
  <2> QED BY <2>1 DEF BindFor
<1>10. FixupsExact'
  <2>1. ASSUME NEW j \in 1 .. c PROVE Accepted(j)'
    BY <1>0, <1>2, <1>3, <1>4, <1>5 DEF FixupsExact
  <2>2. ASSUME NEW i \in 1 .. n + 1 PROVE \E j \in 1 .. c : RebaseFor(i, j)'
    <3>1. CASE i = n + 1
      BY <1>2, <1>8, <3>1
    <3>2. CASE i \in 1 .. n
      <4>1. \E j \in 1 .. c - 1 : RebaseFor(i, j)
        BY <1>0, <1>4, <1>6, <3>2 DEF FixupsExact
      <4> QED BY <1>2, <1>7, <3>2, <4>1
    <3> QED BY <1>6, <3>1, <3>2
  <2>3. ASSUME NEW j \in 1 .. c, Internal(j)' PROVE \E i \in 1 .. n + 1 : RebaseFor(i, j)'
    <3>1. CASE j = c
      BY <1>6, <1>8, <3>1
    <3>2. CASE j \in 1 .. c - 1
      <4>1. Internal(j)
        BY <1>3, <2>3
      <4>2. \E i \in 1 .. n : RebaseFor(i, j)
        BY <1>0, <1>4, <1>6, <3>2, <4>1 DEF FixupsExact
      <4> QED BY <1>6, <1>7, <4>2
    <3> QED BY <1>2, <3>1, <3>2
  <2>4. ASSUME NEW i \in DOMAIN bindings PROVE \E j \in 1 .. c : BindFor(i, j)'
    <3>1. \E j \in 1 .. c - 1 : BindFor(i, j)
      BY <1>0, <1>4 DEF FixupsExact
    <3> QED BY <1>2, <1>9, <3>1
  <2>5. ASSUME NEW j \in 1 .. c, ~Internal(j)' PROVE \E i \in DOMAIN bindings : BindFor(i, j)'
    <3>1. ~Internal(j) /\ j # c
      BY <1>3, <1>5, <2>5
    <3>2. \E i \in DOMAIN bindings : BindFor(i, j)
      BY <1>0, <1>2, <1>4, <3>1 DEF FixupsExact
    <3> QED BY <1>9, <3>2
  <2> QED BY <1>1, <1>2, <1>6, <2>1, <2>2, <2>3, <2>4, <2>5 DEF FixupsExact
<1>11. PlaceOf(place) = Slide + elf.relocs[c].offset
  BY <1>2, <1>5, AtFacts DEF PlaceOf
<1>12. (PlacesApart => RebasesApart)'
  <2> SUFFICES ASSUME PlacesApart,
                      NEW a \in 1 .. n + 1, NEW b \in 1 .. n + 1, a # b
               PROVE  PlaceOf(rebases'[a]) # PlaceOf(rebases'[b])
    BY <1>1, <1>3, <1>6 DEF RebasesApart, PlaceOf
  <2>1. ASSUME NEW i \in 1 .. n
        PROVE  PlaceOf(rebases'[i]) # PlaceOf(rebases'[n + 1])
    <3>1. PICK j \in 1 .. c - 1 : RebaseFor(i, j)
      BY <1>0, <1>4, <1>6 DEF FixupsExact
    <3>2. j \in DOMAIN elf.relocs /\ j # c /\ Accepted(j)
      BY <1>0, <1>2, <1>4 DEF FixupsExact
    <3>3. PlaceOf(At(j)) = Slide + elf.relocs[j].offset /\ elf.relocs[j].offset \in Nat
      BY <1>2, <3>2, AtFacts
    <3>4. PlaceOf(rebases'[i]) = Slide + elf.relocs[j].offset
      BY <1>6, <3>1, <3>3 DEF RebaseFor, PlaceOf
    <3>5. elf.relocs[j].offset # elf.relocs[c].offset
      BY <1>2, <3>2 DEF PlacesApart
    <3>6. elf.relocs[c].offset \in Nat /\ Slide \in Nat
      BY <1>2, <1>5, AtFacts, SlideAligned
    <3> HIDE DEF place
    <3>7. PlaceOf(rebases'[n + 1]) = Slide + elf.relocs[c].offset
      BY <1>6, <1>11
    <3>8. ASSUME NEW x \in Nat, NEW y \in Nat, NEW s \in Nat, x # y PROVE s + x # s + y
      BY <3>8
    <3>9. Slide + elf.relocs[j].offset # Slide + elf.relocs[c].offset
      BY <3>3, <3>5, <3>6, <3>8
    <3> QED BY <3>4, <3>7, <3>9
  <2>2. CASE a \in 1 .. n /\ b \in 1 .. n
    BY <1>4, <1>6, <2>2 DEF RebasesApart
  <2> QED BY <1>6, <2>1, <2>2
<1>13. (Plain => ImageCopied /\ ImagePatched)'
  <2> SUFFICES ASSUME Plain PROVE (ImageCopied /\ ImagePatched)'
    BY <1>3
  <2>1. At(c).out \in 0 .. cursor - 1
    BY <1>2, <1>5, AtFacts
  <2>2. /\ image'[At(c).out] = Word(Unslid(c))
        /\ \A o \in 0 .. cursor - 1 : o # At(c).out => image'[o] = image[o]
    BY <1>1, <1>2, <1>5, <2>1
  <2>3. ImageCopied'
    <3> SUFFICES ASSUME NEW o \in 0 .. cursor - 1,
                        \A j \in 1 .. c : Internal(j) => At(j).out # o
                 PROVE  image'[o] = CopiedWord(o)
      BY <1>1, <1>2, <1>3 DEF ImageCopied
    <3>1. o # At(c).out
      BY <1>2, <1>5
    <3>2. image[o] = CopiedWord(o)
      BY <1>0, <1>2, <1>4 DEF ImageCopied
    <3> QED BY <2>2, <3>1, <3>2
  <2>4. ImagePatched'
    <3> SUFFICES ASSUME NEW j \in 1 .. c, Internal(j)
                 PROVE  image'[At(j).out] = Word(Unslid(j))
      BY <1>1, <1>2, <1>3 DEF ImagePatched
    <3>1. CASE j = c
      BY <2>2, <3>1
    <3>2. CASE j \in 1 .. c - 1
      <4>1. Accepted(j) /\ j \in DOMAIN elf.relocs /\ j # c
        BY <1>0, <1>2, <1>4, <3>2 DEF FixupsExact
      <4>2. At(j).out # At(c).out /\ At(j).out \in 0 .. cursor - 1
        BY <1>2, <1>5, <4>1, AtApart, AtFacts DEF Plain
      <4>3. image[At(j).out] = Word(Unslid(j))
        BY <1>0, <1>4, <3>2 DEF ImagePatched
      <4> QED BY <2>2, <4>2, <4>3
    <3> QED BY <1>2, <3>1, <3>2
  <2> QED BY <2>3, <2>4
<1> QED BY <1>10, <1>12, <1>13 DEF LoopInv

\* One more relocation bound.
LEMMA LoopBindStep ==
  ASSUME Phase3Inv, LoopInv, BindExternal
  PROVE  LoopInv'
<1> DEFINE b == [seg |-> Loc.seg, off |-> Loc.off, symbol |-> Sym.name,
                 addend |-> Rel.addend + Existing]
<1>0. PICK c, n : c = k /\ n = Len(bindings)
  OBVIOUS
<1>1. /\ bindings' = Append(bindings, b) /\ k' = k + 1 /\ elf' = elf /\ pc' = pc
      /\ segments' = segments /\ cursor' = cursor /\ image' = image
      /\ rebases' = rebases /\ AtReloc
  BY DEF BindExternal
<1>2. /\ pc = "relocate" /\ c \in Nat \ {0} /\ c \in DOMAIN elf.relocs
      /\ \A j \in 1 .. c - 1 : j \in DOMAIN elf.relocs /\ j # c /\ j \in 1 .. c
      /\ \A j \in 1 .. c : j = c \/ j \in 1 .. c - 1
      /\ k' - 1 = c /\ c \in 1 .. c
      /\ bindings \in Seq(Binding)
  BY <1>0, <1>1, LoopFacts
<1>3. /\ Plain' = Plain /\ PlacesApart' = PlacesApart
      /\ \A j : /\ At(j)' = At(j) /\ Internal(j)' = Internal(j) /\ Accepted(j)' = Accepted(j)
                /\ Unslid(j)' = Unslid(j)
                /\ BindAddend(elf.relocs[j])' = BindAddend(elf.relocs[j])
      /\ \A o : CopiedWord(o)' = CopiedWord(o)
  BY <1>1, SameObject
<1>4. FixupsExact /\ (PlacesApart => RebasesApart) /\ (Plain => ImageCopied /\ ImagePatched)
  BY <1>2 DEF LoopInv
<1>5. /\ Loc = At(c) /\ Accepted(c) /\ ~Internal(c)
      /\ Sym.name = elf.symbols[elf.relocs[c].symbol + 1].name
  BY <1>0 DEF Loc, At, Rel, Accepted, Internal, Binds, Sym, SymbolicRel, BindExternal
<1>6. Plain => b.addend = BindAddend(elf.relocs[c])
  <2> SUFFICES ASSUME Plain PROVE b.addend = BindAddend(elf.relocs[c])
    OBVIOUS
  <2>1. Existing = Implicit(Rel)
    BY <1>0, <1>1, <1>5, ExistingIs
  <2>2. b.addend = Rel.addend + Existing
    OBVIOUS
  <2> QED BY <1>0, <2>1, <2>2 DEF BindAddend, Rel
<1>7. /\ b.seg = At(c).seg /\ b.off = At(c).off
      /\ b.symbol = elf.symbols[elf.relocs[c].symbol + 1].name
  BY <1>5
<1> HIDE DEF b
<1>8. /\ n \in Nat /\ DOMAIN bindings = 1 .. n /\ DOMAIN bindings' = 1 .. n + 1
      /\ bindings'[n + 1] = b /\ \A i \in 1 .. n : bindings'[i] = bindings[i]
      /\ n + 1 \in 1 .. n + 1 /\ \A i \in 1 .. n : i \in 1 .. n + 1
      /\ \A i \in 1 .. n + 1 : i = n + 1 \/ i \in 1 .. n
  BY <1>0, <1>1, <1>2
<1>9. ASSUME NEW i \in 1 .. n, NEW j PROVE BindFor(i, j)' = BindFor(i, j)
  <2>1. /\ At(j)' = At(j) /\ Internal(j)' = Internal(j) /\ Plain' = Plain
        /\ bindings'[i] = bindings[i] /\ elf' = elf
        /\ BindAddend(elf.relocs[j])' = BindAddend(elf.relocs[j])
    BY <1>1, <1>3, <1>8
  <2> QED BY <2>1 DEF BindFor
<1>10. BindFor(n + 1, c)'
  <2>1. /\ At(c)' = At(c) /\ ~Internal(c)' /\ Plain' = Plain
        /\ bindings'[n + 1] = b /\ elf' = elf
        /\ BindAddend(elf.relocs[c])' = BindAddend(elf.relocs[c])
    BY <1>1, <1>3, <1>5, <1>8
  <2> QED BY <1>6, <1>7, <2>1 DEF BindFor
<1>11. ASSUME NEW i, NEW j PROVE RebaseFor(i, j)' = RebaseFor(i, j)
  <2>1. rebases' = rebases /\ At(j)' = At(j) /\ Internal(j)' = Internal(j)
    BY <1>1, <1>3
  <2> QED BY <2>1 DEF RebaseFor
<1>12. FixupsExact'
  <2>1. ASSUME NEW j \in 1 .. c PROVE Accepted(j)'
    BY <1>0, <1>2, <1>3, <1>4, <1>5 DEF FixupsExact
  <2>2. ASSUME NEW i \in 1 .. n + 1 PROVE \E j \in 1 .. c : BindFor(i, j)'
    <3>1. CASE i = n + 1
      BY <1>2, <1>10, <3>1
    <3>2. CASE i \in 1 .. n
      <4>1. \E j \in 1 .. c - 1 : BindFor(i, j)
        BY <1>0, <1>4, <1>8, <3>2 DEF FixupsExact
      <4> QED BY <1>2, <1>9, <3>2, <4>1
    <3> QED BY <1>8, <3>1, <3>2
  <2>3. ASSUME NEW j \in 1 .. c, ~Internal(j)' PROVE \E i \in 1 .. n + 1 : BindFor(i, j)'
    <3>1. CASE j = c
      BY <1>8, <1>10, <3>1
    <3>2. CASE j \in 1 .. c - 1
      <4>1. ~Internal(j)
        BY <1>3, <2>3
      <4>2. \E i \in 1 .. n : BindFor(i, j)
        BY <1>0, <1>4, <1>8, <3>2, <4>1 DEF FixupsExact
      <4> QED BY <1>8, <1>9, <4>2
    <3> QED BY <1>2, <3>1, <3>2
  <2>4. ASSUME NEW i \in DOMAIN rebases PROVE \E j \in 1 .. c : RebaseFor(i, j)'
    <3>1. \E j \in 1 .. c - 1 : RebaseFor(i, j)
      BY <1>0, <1>4 DEF FixupsExact
    <3> QED BY <1>2, <1>11, <3>1
  <2>5. ASSUME NEW j \in 1 .. c, Internal(j)' PROVE \E i \in DOMAIN rebases : RebaseFor(i, j)'
    <3>1. Internal(j) /\ j # c
      BY <1>3, <1>5, <2>5
    <3>2. \E i \in DOMAIN rebases : RebaseFor(i, j)
      BY <1>0, <1>2, <1>4, <3>1 DEF FixupsExact
    <3> QED BY <1>11, <3>2
  <2> QED BY <1>1, <1>2, <1>8, <2>1, <2>2, <2>3, <2>4, <2>5 DEF FixupsExact
<1>13. (PlacesApart => RebasesApart)'
  BY <1>1, <1>3, <1>4 DEF RebasesApart, PlaceOf
<1>14. (Plain => ImageCopied /\ ImagePatched)'
  <2> SUFFICES ASSUME Plain PROVE (ImageCopied /\ ImagePatched)'
    BY <1>3
  <2>1. ImageCopied'
    <3> SUFFICES ASSUME NEW o \in 0 .. cursor - 1,
                        \A j \in 1 .. c : Internal(j) => At(j).out # o
                 PROVE  image[o] = CopiedWord(o)
      BY <1>1, <1>2, <1>3 DEF ImageCopied
    <3> QED BY <1>0, <1>2, <1>4 DEF ImageCopied
  <2>2. ImagePatched'
    <3> SUFFICES ASSUME NEW j \in 1 .. c, Internal(j)
                 PROVE  image[At(j).out] = Word(Unslid(j))
      BY <1>1, <1>2, <1>3 DEF ImagePatched
    <3>1. j \in 1 .. c - 1
      BY <1>2, <1>5
    <3> QED BY <1>0, <1>4, <3>1 DEF ImagePatched
  <2> QED BY <2>1, <2>2
<1> QED BY <1>12, <1>13, <1>14 DEF LoopInv

\* A step that leaves the loop's state alone.
LEMMA LoopSame ==
  ASSUME LoopInv, elf' = elf, segments' = segments, rebases' = rebases,
         bindings' = bindings, image' = image, cursor' = cursor, k' = k,
         pc' \in {"relocate", "done"} => pc \in {"relocate", "done"}
  PROVE  LoopInv'
<1> SUFFICES ASSUME pc \in {"relocate", "done"}
             PROVE  /\ FixupsExact'
                    /\ (PlacesApart => RebasesApart)'
                    /\ (Plain => ImageCopied /\ ImagePatched)'
  BY DEF LoopInv
<1>1. /\ Plain' = Plain /\ PlacesApart' = PlacesApart
      /\ \A j : /\ At(j)' = At(j) /\ Internal(j)' = Internal(j) /\ Accepted(j)' = Accepted(j)
                /\ Unslid(j)' = Unslid(j)
                /\ BindAddend(elf.relocs[j])' = BindAddend(elf.relocs[j])
      /\ \A o : CopiedWord(o)' = CopiedWord(o)
  BY SameObject
<1>2. FixupsExact /\ (PlacesApart => RebasesApart) /\ (Plain => ImageCopied /\ ImagePatched)
  BY DEF LoopInv
<1>3. ASSUME NEW i, NEW j PROVE /\ RebaseFor(i, j)' = RebaseFor(i, j)
                                /\ BindFor(i, j)' = BindFor(i, j)
  <2>1. /\ At(j)' = At(j) /\ Internal(j)' = Internal(j) /\ Plain' = Plain
        /\ BindAddend(elf.relocs[j])' = BindAddend(elf.relocs[j])
    BY <1>1
  <2> QED BY <2>1 DEF BindFor, RebaseFor
<1>4. FixupsExact'
  BY <1>1, <1>2, <1>3 DEF FixupsExact
<1>5. (PlacesApart => RebasesApart)'
  BY <1>1, <1>2 DEF RebasesApart, PlaceOf
<1>6. (Plain => ImageCopied /\ ImagePatched)'
  BY <1>1, <1>2 DEF ImageCopied, ImagePatched
<1> QED BY <1>4, <1>5, <1>6

\* Every step of the translator keeps the loop invariant.
LEMMA LoopStep == Phase3Inv /\ LoopInv /\ [Next]_vars => LoopInv'
<1> SUFFICES ASSUME Phase3Inv, LoopInv, [Next]_vars PROVE LoopInv'
  OBVIOUS
<1>1. CASE RejectElf \/ RejectReloc \/ RejectOutput
  BY <1>1 DEF RejectElf, RejectReloc, RejectOutput, Fail, LoopInv
<1>2. CASE LayoutText \/ LayoutLoad
  BY <1>2 DEF LayoutText, LayoutLoad, LoopInv
<1>3. CASE CopyLoads
  <2>1. /\ pc' = "relocate" /\ k' = 1 /\ rebases' = rebases /\ bindings' = bindings
        /\ elf' = elf /\ segments' = segments /\ cursor' = cursor /\ pc = "layout"
        /\ image' = [o \in 0 .. DataEnd - 1 |-> CopiedWord(o)]
    BY <1>3 DEF CopyLoads
  <2>2. rebases = <<>> /\ bindings = <<>> /\ TypeOK /\ LayoutSound /\ LayoutProgress
    BY <2>1 DEF Phase3Inv, LayoutProgress
  <2>3. DataEnd = cursor
    BY <2>1, <2>2, DataEndIsCursor
  <2>4. DOMAIN rebases' = {} /\ DOMAIN bindings' = {} /\ 1 .. k' - 1 = {}
    BY <2>1, <2>2
  <2>5. FixupsExact'
    BY <2>4 DEF FixupsExact
  <2>6. RebasesApart'
    BY <2>4 DEF RebasesApart
  <2>7. ImagePatched'
    BY <2>4 DEF ImagePatched
  <2>8. ImageCopied'
    <3>1. \A o : CopiedWord(o)' = CopiedWord(o)
      BY <2>1, SameObject
    <3>2. \A o \in 0 .. cursor' - 1 : image'[o] = CopiedWord(o)'
      BY <2>1, <2>3, <3>1
    <3> QED BY <3>2 DEF ImageCopied
  <2> QED BY <2>5, <2>6, <2>7, <2>8 DEF LoopInv
<1>4. CASE PatchRelative
  <2>1. /\ AtReloc /\ Holding(Rel.offset) # {} /\ Rel.type = "RELATIVE"
        /\ PatchAndRebase(Slide + Rel.addend)
    BY <1>4 DEF PatchRelative
  <2>2. Slide + Rel.addend \in Int
    BY <2>1, RelocFacts, SlideAligned
  <2>3. Accepted(k) /\ Internal(k) /\ Slide + Rel.addend = Unslid(k)
    BY <2>1 DEF Accepted, Internal, Binds, Unslid, Rel
  <2> QED BY <2>1, <2>2, <2>3, LoopPatchStep
<1>5. CASE PatchInternal
  <2>1. /\ AtReloc /\ Holding(Rel.offset) # {} /\ SymbolicRel /\ Sym.defined
        /\ PatchAndRebase(Slide + Sym.value + Rel.addend + Existing)
    BY <1>5 DEF PatchInternal
  <2>2. Slide + Sym.value + Rel.addend + Existing \in Int
    <3>1. Sym.value \in Nat
      BY <2>1, RelocFacts DEF Symbol
    <3>2. Rel.addend \in Int /\ Existing \in Int /\ Slide \in Nat
      BY <2>1, RelocFacts, SlideAligned
    <3> QED BY <3>1, <3>2
  <2>3. Accepted(k) /\ Internal(k)
    BY <2>1 DEF Accepted, Internal, Binds, Rel, Sym, SymbolicRel
  <2>4. Plain => Slide + Sym.value + Rel.addend + Existing = Unslid(k)
    <3> SUFFICES ASSUME Plain PROVE Slide + Sym.value + Rel.addend + Existing = Unslid(k)
      OBVIOUS
    <3>1. Existing = Implicit(Rel)
      BY <2>1, <2>3, ExistingIs
    <3>2. Rel.type # "RELATIVE"
      BY <2>1 DEF SymbolicRel
    <3>3. Unslid(k) = Slide + Sym.value + Rel.addend + Implicit(Rel)
      BY <3>2, Zenon DEF Unslid, Rel, Sym
    <3> QED BY <3>1, <3>3
  <2> QED BY <2>1, <2>2, <2>3, <2>4, LoopPatchStep
<1>6. CASE BindExternal
  BY <1>6, LoopBindStep
<1>7. CASE WriteDylib
  <2>1. /\ elf' = elf /\ segments' = segments /\ rebases' = rebases
        /\ bindings' = bindings /\ image' = image /\ cursor' = cursor /\ k' = k
        /\ pc = "relocate"
    BY <1>7 DEF WriteDylib, AtEnd
  <2> QED BY <2>1, LoopSame
<1>8. CASE UNCHANGED vars
  BY <1>8, LoopSame DEF vars
<1> QED BY <1>1, <1>2, <1>3, <1>4, <1>5, <1>6, <1>7, <1>8 DEF Next

-----------------------------------------------------------------------------
(* The dylib that Phase 3 writes.                                          *)

\* The segments' protections, and one behind the other in the file.
Placement ==
  \A i \in DOMAIN segments :
    /\ segments[i].prot = IF i = 1 THEN {"r", "x"} ELSE MachProt(elf.loads[i].flags)
    /\ i + 1 \in DOMAIN segments => segments[i + 1].fileoff = Align(FileEnd(segments[i]))

\* What has been written is what the translator's state says.
Written ==
  pc = "done" =>
    /\ HeaderFits
    /\ out.file = [o \in 0 .. Align(FileEnd(Linkedit)) - 1 |-> FinalWord(o)]
    /\ out.segments = segments \o <<Linkedit>>
    /\ out.rebase = RebaseStream /\ out.bind = BindStream

\* The streams, the last segment and the words written are functions of the
\* translator's lists.
LEMMA SameLists ==
  ASSUME segments' = segments, rebases' = rebases, bindings' = bindings, image' = image
  PROVE  /\ RebaseStream' = RebaseStream /\ BindStream' = BindStream
         /\ Linkedit' = Linkedit /\ DataEnd' = DataEnd /\ HeaderSize' = HeaderSize
         /\ \A o : FinalWord(o)' = FinalWord(o)
         /\ HeaderFits' = HeaderFits
<1>1. RebaseStream' = RebaseStream /\ BindStream' = BindStream
  BY DEF RebaseStream, BindStream, Sorted, UpTo
<1>2. DataEnd' = DataEnd /\ HeaderSize' = HeaderSize
  BY DEF DataEnd, HeaderSize
<1>3. Linkedit' = Linkedit
  BY <1>1, <1>2 DEF Linkedit
<1>4. ASSUME NEW o PROVE FinalWord(o)' = FinalWord(o)
  BY <1>2 DEF FinalWord
<1> QED BY <1>1, <1>2, <1>3, <1>4 DEF HeaderFits

\* What Append does, element by element.
LEMMA Appended ==
  ASSUME NEW S, NEW s \in Seq(S), NEW x \in S, NEW n, n = Len(s), NEW t, t = Append(s, x)
  PROVE  /\ n \in Nat /\ DOMAIN s = 1 .. n /\ DOMAIN t = 1 .. n + 1
         /\ t[n + 1] = x /\ \A i \in 1 .. n : t[i] = s[i]
OBVIOUS

\* Every step of the translator keeps the placement.
LEMMA PlacementStep == Phase3Inv /\ Placement /\ [Next]_vars => Placement'
<1> SUFFICES ASSUME Phase3Inv, Placement, [Next]_vars PROVE Placement'
  OBVIOUS
<1>1. CASE segments' = segments /\ elf' = elf
  BY <1>1 DEF Placement
<1>2. CASE LayoutText
  <2>1. segments' = <<TextSegment(elf.loads[1])>>
    BY <1>2 DEF LayoutText
  <2>2. DOMAIN segments' = {1} /\ segments'[1] = TextSegment(elf.loads[1])
    <3> DEFINE s == TextSegment(elf.loads[1])
    <3> HIDE DEF s
    <3>1. segments' = <<s>>
      BY <2>1 DEF s
    <3>2. DOMAIN segments' = {1} /\ segments'[1] = s
      BY <3>1
    <3> QED BY <3>2 DEF s
  <2>3. TextSegment(elf.loads[1]).prot = {"r", "x"}
    BY DEF TextSegment
  <2> QED BY <2>2, <2>3 DEF Placement
<1>3. CASE LayoutLoad
  <2>0. PICK c, n, seg : c = k /\ n = Len(segments) /\ seg = LaterSegment(elf.loads[k], Align(cursor))
    OBVIOUS
  <2>1. /\ segments' = Append(segments, seg) /\ elf' = elf /\ pc = "layout"
    BY <1>3, <2>0 DEF LayoutLoad
  <2>2. TypeOK /\ LayoutProgress /\ LayoutSound
    BY DEF Phase3Inv
  <2>3. /\ segments \in Seq(Segment) /\ c \in Nat /\ cursor \in Nat
        /\ n = c - 1 /\ n \in Nat \ {0} /\ cursor = Align(FileEnd(segments[n]))
    BY <2>0, <2>1, <2>2 DEF TypeOK, LayoutProgress
  <2>4. /\ DOMAIN segments = 1 .. n /\ DOMAIN segments' = 1 .. n + 1 /\ n \in 1 .. n
        /\ segments'[n + 1] = seg /\ \A i \in 1 .. n : segments'[i] = segments[i]
    <3> DEFINE S == Segment \cup {seg}
    <3>1. segments \in Seq(S) /\ seg \in S
      BY <2>3
    <3> HIDE DEF S
    <3>2. /\ DOMAIN segments = 1 .. n /\ DOMAIN segments' = 1 .. n + 1
          /\ segments'[n + 1] = seg /\ \A i \in 1 .. n : segments'[i] = segments[i]
      BY <2>0, <2>1, <3>1, Appended
    <3> QED BY <2>3, <3>2
  <2>5. seg.prot = MachProt(elf.loads[n + 1].flags) /\ seg.fileoff = Align(cursor)
    <3>1. c = n + 1
      BY <2>3
    <3>2. LaterSegment(elf.loads[k], Align(cursor)).prot = MachProt(elf.loads[k].flags)
      BY DEF LaterSegment
    <3>3. LaterSegment(elf.loads[k], Align(cursor)).fileoff = Align(cursor)
      BY DEF LaterSegment
    <3> QED BY <2>0, <3>1, <3>2, <3>3
  <2>6. Align(cursor) = cursor
    <3>1. segments[n].fileoff \in Nat /\ segments[n].filesize \in Nat
      BY <2>2, <2>4, SegmentFacts
    <3>2. FileEnd(segments[n]) \in Int
      BY <3>1 DEF FileEnd
    <3>3. cursor % PageSize = 0
      BY <2>3, <3>2, AlignFacts
    <3> QED BY <2>3, <3>3, AlignedFixed
  <2>7. ASSUME NEW i \in 1 .. n + 1
        PROVE  /\ segments'[i].prot = IF i = 1 THEN {"r", "x"} ELSE MachProt(elf.loads[i].flags)
               /\ i + 1 \in 1 .. n + 1 => segments'[i + 1].fileoff = Align(FileEnd(segments'[i]))
    <3>1. CASE i = n + 1
      BY <2>3, <2>4, <2>5, <3>1
    <3>2. CASE i = n
      BY <2>3, <2>4, <2>5, <2>6, <3>2 DEF Placement
    <3>3. CASE i \in 1 .. n - 1
      <4>1. i \in 1 .. n /\ i + 1 \in 1 .. n
        BY <2>3, <3>3
      <4> QED BY <2>4, <4>1 DEF Placement
    <3> QED BY <2>3, <3>1, <3>2, <3>3
  <2> QED BY <2>1, <2>4, <2>7 DEF Placement
<1> QED BY <1>1, <1>2, <1>3 DEF Next, RejectElf, RejectReloc, RejectOutput, Fail, CopyLoads,
           PatchRelative, PatchInternal, PatchAndRebase, BindExternal, WriteDylib, vars

\* Every step of the translator keeps what is known of the dylib written.
LEMMA WrittenStep == Written /\ [Next]_vars => Written'
<1> SUFFICES ASSUME Written, [Next]_vars PROVE Written'
  OBVIOUS
<1>1. CASE WriteDylib
  <2>1. /\ segments' = segments /\ rebases' = rebases /\ bindings' = bindings
        /\ image' = image /\ HeaderFits
        /\ out'.file = [o \in 0 .. Align(FileEnd(Linkedit)) - 1 |-> FinalWord(o)]
        /\ out'.segments = segments \o <<Linkedit>>
        /\ out'.rebase = RebaseStream /\ out'.bind = BindStream
    BY <1>1 DEF WriteDylib
  <2>2. /\ RebaseStream' = RebaseStream /\ BindStream' = BindStream
        /\ Linkedit' = Linkedit /\ \A o : FinalWord(o)' = FinalWord(o)
        /\ HeaderFits' = HeaderFits
    BY <2>1, SameLists
  <2> QED BY <2>1, <2>2 DEF Written
<1>2. CASE UNCHANGED vars
  <2>1. /\ segments' = segments /\ rebases' = rebases /\ bindings' = bindings
        /\ image' = image /\ out' = out /\ pc' = pc
    BY <1>2 DEF vars
  <2>2. /\ RebaseStream' = RebaseStream /\ BindStream' = BindStream
        /\ Linkedit' = Linkedit /\ \A o : FinalWord(o)' = FinalWord(o)
        /\ HeaderFits' = HeaderFits
    BY <2>1, SameLists
  <2> QED BY <2>1, <2>2 DEF Written
<1>3. CASE pc' # "done"
  BY <1>3 DEF Written
<1>4. Next /\ ~WriteDylib => pc' # "done"
  BY DEF Next, RejectElf, RejectReloc, RejectOutput, Fail, CopyLoads, LayoutText, LayoutLoad,
         PatchRelative, PatchInternal, PatchAndRebase, BindExternal, AtReloc
<1> QED BY <1>1, <1>2, <1>3, <1>4

\* Where a segment ends in memory.
End(s) == s.vmaddr + s.vmsize

\* One of the segments ends last in memory.
LEMMA LastEndExists ==
  ASSUME TypeOK, segments # <<>>
  PROVE  \E i \in DOMAIN segments : \A j \in DOMAIN segments : End(segments[j]) <= End(segments[i])
<1> DEFINE n == Len(segments)
           P(m) == \E i \in 1 .. m : \A j \in 1 .. m : End(segments[j]) <= End(segments[i])
           T == {m \in 1 .. n : ~P(m)}
<1>1. n \in Nat \ {0} /\ DOMAIN segments = 1 .. n
  BY DEF TypeOK
<1>2. ASSUME NEW i \in 1 .. n PROVE End(segments[i]) \in Nat
  BY <1>1, SegmentFacts DEF End
<1> HIDE DEF n
<1>3. T = {}
  <2> SUFFICES ASSUME T # {} PROVE FALSE
    OBVIOUS
  <2> HIDE DEF P
  <2>1. PICK m \in T : \A y \in T : m <= y
    <3>1. T \in SUBSET Nat
      BY <1>1
    <3> HIDE DEF T
    <3> QED BY <3>1, LeastExists
  <2>2. m \in 1 .. n /\ ~P(m) /\ \A y \in 1 .. n : y < m => P(y)
    BY <1>1, <2>1
  <2> HIDE DEF T
  <2>3. CASE m = 1
    <3>1. P(1)
      <4>1. End(segments[1]) <= End(segments[1])
        BY <1>2, <2>2, <2>3
      <4> QED BY <4>1 DEF P
    <3> QED BY <2>2, <2>3, <3>1
  <2>4. CASE m # 1
    <3>1. m - 1 \in 1 .. n /\ m - 1 < m /\ m \in 1 .. m
      BY <1>1, <2>2, <2>4
    <3>2. P(m - 1)
      BY <2>2, <3>1
    <3>3. PICK i \in 1 .. m - 1 : \A j \in 1 .. m - 1 : End(segments[j]) <= End(segments[i])
      BY <3>2 DEF P
    <3>4. \A j \in 1 .. m : j = m \/ j \in 1 .. m - 1
      BY <1>1, <2>2
    <3>5. /\ i \in 1 .. m /\ i \in 1 .. n /\ \A j \in 1 .. m : j \in 1 .. n
      BY <1>1, <2>2, <3>1
    <3>6. CASE End(segments[m]) <= End(segments[i])
      <4>1. \A j \in 1 .. m : End(segments[j]) <= End(segments[i])
        BY <3>3, <3>4, <3>6
      <4> QED BY <2>2, <3>5, <4>1 DEF P
    <3>7. CASE End(segments[i]) < End(segments[m])
      <4>1. \A j \in 1 .. m : End(segments[j]) <= End(segments[m])
        BY <1>2, <3>1, <3>3, <3>4, <3>5, <3>7, SMTT(30)
      <4> QED BY <2>2, <3>1, <4>1 DEF P
    <3> QED BY <1>2, <2>2, <3>5, <3>6, <3>7
  <2> QED BY <2>3, <2>4
<1>4. P(n)
  <2> HIDE DEF P
  <2> QED BY <1>1, <1>3
<1> QED BY <1>1, <1>4

\* __LINKEDIT goes behind everything, in the file and in memory.
LEMMA LinkeditFacts ==
  ASSUME Phase3Inv, pc = "done"
  PROVE  /\ Linkedit.vmaddr \in Nat /\ Linkedit.vmsize \in Nat /\ Linkedit.filesize \in Nat
         /\ Linkedit.fileoff = cursor /\ cursor \in Nat
         /\ \A i \in DOMAIN segments : End(segments[i]) <= Linkedit.vmaddr
         /\ Linkedit = [vmaddr |-> Linkedit.vmaddr, vmsize |-> Linkedit.vmsize,
                        fileoff |-> cursor, filesize |-> Linkedit.filesize, prot |-> {"r"}]
<1> DEFINE S == {segments[i].vmaddr + segments[i].vmsize : i \in DOMAIN segments}
           size == Len(RebaseStream) + Len(BindStream)
<1>1. /\ TypeOK /\ LayoutSound /\ LayoutProgress /\ segments # <<>> /\ cursor \in Nat
      /\ rebases \in Seq(Place) /\ bindings \in Seq(Binding) /\ segments \in Seq(Segment)
  BY DEF Phase3Inv, TypeOK, LayoutProgress
<1>2. size \in Nat
  <2>1. Len(RebaseStream) = 2 * Len(rebases) + 2 /\ Len(rebases) \in Nat
    BY <1>1, RebaseOpcodes
  <2>2. Len(BindStream) \in Nat
    BY <1>1, BindOpcodes DEF BindProgram
  <2> QED BY <2>1, <2>2
<1>3. DataEnd = cursor
  BY <1>1, DataEndIsCursor
<1>4. Align(cursor) = cursor
  <2>1. Len(segments) \in DOMAIN segments /\ cursor = Align(FileEnd(segments[Len(segments)]))
    BY <1>1 DEF LayoutProgress
  <2>2. FileEnd(segments[Len(segments)]) \in Nat
    BY <1>1, <2>1, EndsInImage
  <2>3. cursor % PageSize = 0
    BY <2>1, <2>2, AlignFacts
  <2> QED BY <1>1, <2>3, AlignedFixed
<1>5. PICK i \in DOMAIN segments : \A j \in DOMAIN segments : End(segments[j]) <= End(segments[i])
  BY <1>1, LastEndExists
<1>6. \A j \in DOMAIN segments : End(segments[j]) \in Nat
  BY <1>1, SegmentFacts DEF End
<1>7. Max(S) = End(segments[i])
  <2>1. S \in SUBSET Int
    BY <1>6 DEF End
  <2>2. End(segments[i]) \in S /\ \A x \in S : x <= End(segments[i])
    BY <1>5 DEF End
  <2> HIDE DEF S
  <2> QED BY <2>1, <2>2, MaxIs
<1>8. Align(Max(S)) \in Nat /\ Max(S) <= Align(Max(S)) /\ Max(S) \in Nat
  <2>1. Max(S) \in Nat
    BY <1>6, <1>7
  <2> HIDE DEF S
  <2> QED BY <2>1, AlignFacts
<1>9. Align(size) \in Nat
  BY <1>2, AlignFacts
<1>10. Linkedit = [vmaddr |-> Align(Max(S)), vmsize |-> Align(size), fileoff |-> Align(DataEnd),
                   filesize |-> size, prot |-> {"r"}]
  BY Zenon DEF Linkedit
<1> HIDE DEF S, size
<1>11. /\ Linkedit.vmaddr = Align(Max(S)) /\ Linkedit.vmsize = Align(size)
       /\ Linkedit.fileoff = cursor /\ Linkedit.filesize = size
  BY <1>3, <1>4, <1>10
<1>12. \A j \in DOMAIN segments : End(segments[j]) <= Linkedit.vmaddr
  BY <1>5, <1>6, <1>7, <1>8, <1>11
<1> QED BY <1>1, <1>2, <1>3, <1>4, <1>8, <1>9, <1>10, <1>11, <1>12

-----------------------------------------------------------------------------
(* A dylib as dyld needs it.                                               *)

\* A dylib of the translator's lists: the segments with __LINKEDIT behind them,
\* apart in memory, each with at least the memory and the file contents that
\* the layout gives it; the image in the file; the two opcode programs.
Suits(d) ==
  /\ d.rebase = RebaseStream /\ d.bind = BindStream
  /\ DOMAIN d.segments = 1 .. Len(segments) + 1
  /\ \A i \in 1 .. Len(segments) + 1 :
       /\ d.segments[i].vmaddr \in Nat /\ d.segments[i].vmsize \in Nat
       /\ d.segments[i].fileoff \in Nat /\ d.segments[i].filesize \in Nat
  /\ \A i, j \in 1 .. Len(segments) + 1 :
       i < j => End(d.segments[i]) <= d.segments[j].vmaddr
  /\ \A i \in DOMAIN segments :
       /\ d.segments[i].vmaddr = segments[i].vmaddr
       /\ d.segments[i].fileoff = segments[i].fileoff
       /\ d.segments[i].prot = segments[i].prot
       /\ End(segments[i]) <= End(d.segments[i])
       /\ segments[i].filesize <= d.segments[i].filesize
       /\ FileEnd(d.segments[i]) <= cursor
       /\ i + 1 \in DOMAIN segments => FileEnd(d.segments[i]) <= segments[i + 1].fileoff
  /\ \A o \in HeaderReserve .. cursor - 1 : d.file[o] = image[o]

\* The segment that dyld finds at an address of segment i is segment i.
LEMMA MapsTo ==
  ASSUME NEW d, Suits(d), TypeOK, NEW i \in DOMAIN segments, NEW a \in Int,
         segments[i].vmaddr <= a, a < End(segments[i])
  PROVE  /\ dyld!Covers(d.segments[i], a)
         /\ dyld!MappedWord(d, a)
              = IF a - segments[i].vmaddr >= d.segments[i].filesize THEN 0
                ELSE d.file[segments[i].fileoff + (a - segments[i].vmaddr)]
<1> DEFINE over == {j \in DOMAIN d.segments : dyld!Covers(d.segments[j], a)}
           n == Len(segments)
<1>1. /\ DOMAIN segments = 1 .. n /\ n \in Nat /\ i \in 1 .. n + 1
      /\ DOMAIN d.segments = 1 .. n + 1 /\ \A j \in 1 .. n + 1 : j \in Int
  <2>1. segments \in Seq(Segment)
    BY DEF TypeOK
  <2> QED BY <2>1 DEF Suits
<1> HIDE DEF n
<1>2. ASSUME NEW j \in 1 .. n + 1
      PROVE  d.segments[j].vmaddr \in Nat /\ d.segments[j].vmsize \in Nat
  BY DEF Suits, n
<1>3. dyld!Covers(d.segments[i], a)
  <2>1. /\ d.segments[i].vmaddr = segments[i].vmaddr
        /\ End(segments[i]) <= End(d.segments[i])
    BY DEF Suits
  <2>2. segments[i].vmaddr \in Nat /\ segments[i].vmsize \in Nat
    BY SegmentFacts
  <2>3. End(segments[i]) \in Nat /\ End(d.segments[i]) \in Nat
    BY <1>1, <1>2, <2>2, SMTT(30) DEF End
  <2>4. a < End(d.segments[i])
    BY <2>1, <2>3
  <2> QED BY <2>1, <2>4 DEF dyld!Covers, End
<1>4. ASSUME NEW j \in over PROVE j = i
  <2>1. /\ j \in 1 .. n + 1 /\ d.segments[j].vmaddr <= a
        /\ a < d.segments[j].vmaddr + d.segments[j].vmsize
    BY <1>1 DEF dyld!Covers
  <2>2. d.segments[i].vmaddr <= a /\ a < d.segments[i].vmaddr + d.segments[i].vmsize
    BY <1>3 DEF dyld!Covers
  <2>3. /\ i < j => d.segments[i].vmaddr + d.segments[i].vmsize <= d.segments[j].vmaddr
        /\ j < i => d.segments[j].vmaddr + d.segments[j].vmsize <= d.segments[i].vmaddr
    BY <1>1, <2>1 DEF Suits, End, n
  <2>4. /\ d.segments[i].vmaddr \in Nat /\ d.segments[i].vmsize \in Nat
        /\ d.segments[j].vmaddr \in Nat /\ d.segments[j].vmsize \in Nat
    BY <1>1, <1>2, <2>1
  <2> HIDE DEF over
  <2>5. i \in Int /\ j \in Int
    BY <1>1, <2>1
  <2>6. ~(i < j) /\ ~(j < i)
    BY <2>1, <2>2, <2>3, <2>4
  <2> QED BY <2>5, <2>6
<1>5. over = {i}
  BY <1>1, <1>3, <1>4
<1>6. dyld!MappedWord(d, a)
       = LET seg == d.segments[dyld!Max(over)] o == a - seg.vmaddr
         IN IF over = {} \/ o >= seg.filesize THEN 0 ELSE d.file[seg.fileoff + o]
  BY Zenon DEF dyld!MappedWord
<1> HIDE DEF over
<1>7. dyld!Max(over) = i
  <2>1. \E x \in {i} : \A y \in {i} : x >= y
    BY <1>1
  <2> QED BY <1>5, <2>1, Zenon DEF dyld!Max
<1>8. /\ d.segments[i].vmaddr = segments[i].vmaddr
      /\ d.segments[i].fileoff = segments[i].fileoff
  BY DEF Suits
<1> QED BY <1>3, <1>5, <1>6, <1>7, <1>8

\* Segment i begins behind the end of segment i - 1 in the file, and the cursor
\* is the end of the last.
LEMMA FilesInOrder ==
  ASSUME Phase3Inv, pc = "done", NEW i \in DOMAIN segments
  PROVE  /\ FileEnd(segments[i]) \in Nat /\ FileEnd(segments[i]) <= cursor
         /\ i + 1 \in DOMAIN segments => FileEnd(segments[i]) <= segments[i + 1].fileoff
<1>1. TypeOK /\ LayoutSound /\ LayoutProgress
  BY DEF Phase3Inv
<1>2. FileEnd(segments[i]) \in Nat /\ FileEnd(segments[i]) <= cursor
  BY <1>1, EndsInImage
<1>3. i \in Nat /\ i < i + 1
  BY <1>1 DEF TypeOK
<1>4. i + 1 \in DOMAIN segments => FileEnd(segments[i]) <= segments[i + 1].fileoff
  BY <1>1, <1>3 DEF LayoutSound, FilesDisjoint
<1> QED BY <1>2, <1>4

\* The header's length is a number.
LEMMA HeaderSizeTyped ==
  ASSUME TypeOK
  PROVE  HeaderSize \in Nat /\ HeaderReserve \in Nat
<1>1. Len(segments) \in Nat
  BY DEF TypeOK
<1>2. FixedCommandSize \in Nat /\ SegmentCommandSize \in Nat /\ HeaderReserve \in Nat
  BY LayoutAssumption
<1>3. SegmentCommandSize * Len(segments) \in Nat
  BY <1>1, <1>2
<1> QED BY <1>2, <1>3 DEF HeaderSize

\* What has been written has every word of the image at its place.
LEMMA ImageWritten ==
  ASSUME Phase3Inv, Written, pc = "done", NEW o \in HeaderReserve .. cursor - 1
  PROVE  out.file[o] = image[o]
<1>1. TypeOK /\ LayoutSound /\ LayoutProgress
  BY DEF Phase3Inv
<1>2. /\ Linkedit.filesize \in Nat /\ Linkedit.fileoff = cursor /\ cursor \in Nat
  BY LinkeditFacts
<1>3. FileEnd(Linkedit) \in Nat /\ cursor <= FileEnd(Linkedit)
  BY <1>2 DEF FileEnd
<1>4. Align(FileEnd(Linkedit)) \in Int /\ FileEnd(Linkedit) <= Align(FileEnd(Linkedit))
  BY <1>3, AlignFacts
<1>5. HeaderSize \in Nat /\ HeaderReserve \in Nat /\ HeaderSize <= HeaderReserve
  BY <1>1, HeaderSizeTyped DEF Written, HeaderFits
<1>6. DataEnd = cursor
  BY <1>1, DataEndIsCursor
<1>7. FinalWord(o) = image[o]
  BY <1>2, <1>5, <1>6 DEF FinalWord
<1>8. o \in 0 .. Align(FileEnd(Linkedit)) - 1
  BY <1>2, <1>3, <1>4, <1>5
<1>9. out.file = [x \in 0 .. Align(FileEnd(Linkedit)) - 1 |-> FinalWord(x)]
  BY DEF Written
<1> QED BY <1>7, <1>8, <1>9

\* Phase 3's dylib is one of the translator's lists.
LEMMA OutSuits ==
  ASSUME Phase3Inv, Written, pc = "done", PageSeparated
  PROVE  Suits(out)
<1> DEFINE n == Len(segments)
<1>1. /\ TypeOK /\ LayoutSound /\ LayoutProgress /\ segments \in Seq(Segment)
  BY DEF Phase3Inv, TypeOK
<1>2. /\ Linkedit.vmaddr \in Nat /\ Linkedit.vmsize \in Nat /\ Linkedit.filesize \in Nat
      /\ Linkedit.fileoff = cursor /\ cursor \in Nat
      /\ \A i \in DOMAIN segments : End(segments[i]) <= Linkedit.vmaddr
  BY LinkeditFacts
<1>3. PICK ls : ls = Linkedit
  OBVIOUS
<1>4. /\ n \in Nat /\ DOMAIN segments = 1 .. n /\ DOMAIN out.segments = 1 .. n + 1
      /\ out.segments[n + 1] = ls /\ \A i \in 1 .. n : out.segments[i] = segments[i]
      /\ \A i \in 1 .. n + 1 : i = n + 1 \/ i \in 1 .. n
  <2>1. out.segments = segments \o <<ls>>
    BY <1>3 DEF Written
  <2> QED BY <1>1, <2>1
<1>5. /\ out.rebase = RebaseStream /\ out.bind = BindStream
  BY DEF Written
<1> HIDE DEF n
<1>6. ASSUME NEW i \in 1 .. n
      PROVE  /\ segments[i].vmaddr \in Nat /\ segments[i].vmsize \in Nat
             /\ segments[i].fileoff \in Nat /\ segments[i].filesize \in Nat
             /\ End(segments[i]) \in Nat
  BY <1>1, <1>4, SegmentFacts DEF End
<1>7. ASSUME NEW i \in 1 .. n + 1
      PROVE  /\ out.segments[i].vmaddr \in Nat /\ out.segments[i].vmsize \in Nat
             /\ out.segments[i].fileoff \in Nat /\ out.segments[i].filesize \in Nat
  BY <1>2, <1>3, <1>4, <1>6
<1>8. ASSUME NEW i \in 1 .. n + 1, NEW j \in 1 .. n + 1, i < j
      PROVE  End(out.segments[i]) <= out.segments[j].vmaddr
  <2>1. i \in 1 .. n
    BY <1>4, <1>8
  <2>2. CASE j = n + 1
    BY <1>2, <1>3, <1>4, <2>1, <2>2
  <2>3. CASE j \in 1 .. n
    BY <1>1, <1>4, <1>8, <2>1, <2>3 DEF LayoutSound, PagesDisjoint, End
  <2> QED BY <1>4, <2>2, <2>3
<1>9. ASSUME NEW i \in 1 .. n
      PROVE  /\ out.segments[i].vmaddr = segments[i].vmaddr
             /\ out.segments[i].fileoff = segments[i].fileoff
             /\ out.segments[i].prot = segments[i].prot
             /\ End(segments[i]) <= End(out.segments[i])
             /\ segments[i].filesize <= out.segments[i].filesize
             /\ FileEnd(out.segments[i]) <= cursor
             /\ i + 1 \in 1 .. n => FileEnd(out.segments[i]) <= segments[i + 1].fileoff
  <2>1. out.segments[i] = segments[i] /\ i \in DOMAIN segments
    BY <1>4
  <2>2. /\ FileEnd(segments[i]) <= cursor
        /\ i + 1 \in 1 .. n => FileEnd(segments[i]) <= segments[i + 1].fileoff
    BY <1>4, <2>1, FilesInOrder
  <2> QED BY <1>6, <2>1, <2>2
<1>10. \A o \in HeaderReserve .. cursor - 1 : out.file[o] = image[o]
  BY ImageWritten
<1> QED BY <1>4, <1>5, <1>7, <1>8, <1>9, <1>10 DEF Suits, n

-----------------------------------------------------------------------------
(* The dylib that Phase 4 makes of it.                                     *)

\* The difference of two page boundaries is a number of whole pages.
LEMMA AlignedDifference ==
  ASSUME NEW a \in Int, NEW b \in Int, a % PageSize = 0, b % PageSize = 0
  PROVE  (a - b) % PageSize = 0
<1>1. /\ a = (a \div PageSize) * PageSize /\ a \div PageSize \in Int
      /\ b = (b \div PageSize) * PageSize /\ b \div PageSize \in Int
  BY Division, LayoutAssumption
<1>2. PICK p \in Int, q \in Int : a = p * PageSize /\ b = q * PageSize
  BY <1>1
<1>3. a - b = (p - q) * PageSize /\ p - q \in Int
  BY <1>2, LayoutAssumption
<1> QED BY <1>3, MultipleAligned

\* The segment that segment i is stretched to, behind it in the file and, when
\* the loads share no page, in memory.
NextTo(i) == IF i < Len(segments) THEN segments[i + 1] ELSE Linkedit

\* The segment behind segment i, or __LINKEDIT, starts behind it.
LEMMA NextFacts ==
  ASSUME Phase3Inv, Placement, pc = "done", NEW i \in DOMAIN segments
  PROVE  /\ NextTo(i).fileoff = Align(FileEnd(segments[i]))
         /\ NextTo(i).fileoff \in Nat /\ NextTo(i).vmaddr \in Nat
         /\ segments[i].fileoff <= FileEnd(segments[i])
         /\ FileEnd(segments[i]) <= NextTo(i).fileoff
         /\ NextTo(i).fileoff <= cursor
         /\ PageSeparated => End(segments[i]) <= NextTo(i).vmaddr
<1> DEFINE n == Len(segments)
<1>1. /\ TypeOK /\ LayoutSound /\ LayoutProgress /\ segments \in Seq(Segment)
      /\ cursor = Align(FileEnd(segments[n])) /\ cursor \in Nat
  BY DEF Phase3Inv, TypeOK, LayoutProgress
<1>2. DOMAIN segments = 1 .. n /\ n \in Nat /\ i \in 1 .. n
  BY <1>1
<1>3. /\ segments[i].fileoff \in Nat /\ segments[i].filesize \in Nat
      /\ FileEnd(segments[i]) \in Nat /\ segments[i].fileoff <= FileEnd(segments[i])
  BY <1>1, SegmentFacts DEF FileEnd
<1>4. FileEnd(segments[i]) <= Align(FileEnd(segments[i]))
  BY <1>3, AlignFacts
<1>5. CASE i < n
  <2>1. NextTo(i) = segments[i + 1] /\ i + 1 \in DOMAIN segments
    BY <1>2, <1>5 DEF NextTo
  <2>2. segments[i + 1].fileoff = Align(FileEnd(segments[i]))
    BY <2>1 DEF Placement
  <2>3. /\ segments[i + 1].fileoff \in Nat /\ segments[i + 1].vmaddr \in Nat
        /\ segments[i + 1].filesize \in Nat
    BY <1>1, <2>1, SegmentFacts
  <2>4. segments[i + 1].fileoff <= cursor
    <3>1. FileEnd(segments[i + 1]) <= cursor
      BY <1>1, <2>1, EndsInImage
    <3> QED BY <1>1, <2>3, <3>1 DEF FileEnd
  <2>5. PageSeparated => End(segments[i]) <= segments[i + 1].vmaddr
    BY <1>1, <1>2, <2>1 DEF LayoutSound, PagesDisjoint, End
  <2> QED BY <1>3, <1>4, <2>1, <2>2, <2>3, <2>4, <2>5
<1>6. CASE i = n
  <2>1. NextTo(i) = Linkedit
    BY <1>2, <1>6 DEF NextTo
  <2>2. /\ Linkedit.vmaddr \in Nat /\ Linkedit.fileoff = cursor
        /\ End(segments[i]) <= Linkedit.vmaddr
    BY LinkeditFacts
  <2> QED BY <1>1, <1>3, <1>4, <1>6, <2>1, <2>2
<1> QED BY <1>2, <1>5, <1>6

\* command_segments: segment i reaches up to the next in the file and in memory,
\* and has no more in the file than in memory.
LEMMA StretchedFacts ==
  ASSUME Phase3Inv, Placement, pc = "done", NEW i \in DOMAIN segments
  PROVE  /\ Stretched(i).vmaddr = segments[i].vmaddr
         /\ Stretched(i).fileoff = segments[i].fileoff
         /\ Stretched(i).prot = segments[i].prot
         /\ Stretched(i).filesize \in Nat /\ segments[i].filesize <= Stretched(i).filesize
         /\ FileEnd(Stretched(i)) = NextTo(i).fileoff
         /\ Stretched(i).vmsize \in Int /\ End(Stretched(i)) = NextTo(i).vmaddr
         /\ PageSeparated => Stretched(i).filesize <= Stretched(i).vmsize
<1>1. TypeOK /\ LayoutSound /\ LayoutProgress
  BY DEF Phase3Inv
<1> DEFINE s == segments[i]
           t == NextTo(i)
<1>2. Stretched(i) = [s EXCEPT !.filesize = t.fileoff - s.fileoff, !.vmsize = t.vmaddr - s.vmaddr]
  BY Zenon DEF Stretched, NextTo
<1>3. s \in Segment
  BY <1>1 DEF TypeOK
<1>4. /\ s.vmaddr \in Nat /\ s.vmsize \in Nat /\ s.fileoff \in Nat /\ s.filesize \in Nat
  BY <1>1, SegmentFacts
<1>5. /\ t.fileoff = Align(FileEnd(s)) /\ t.fileoff \in Nat /\ t.vmaddr \in Nat
      /\ FileEnd(s) <= t.fileoff
      /\ PageSeparated => End(s) <= t.vmaddr
  BY NextFacts
<1>6. HoldsLoad(s, elf.loads[i]) /\ i \in DOMAIN elf.loads
  BY <1>1, SegmentOfLoad DEF LayoutSound, SegmentsPlaced, SegmentPlaced
<1> HIDE DEF s, t
<1>7. /\ Stretched(i).vmaddr = s.vmaddr /\ Stretched(i).fileoff = s.fileoff
      /\ Stretched(i).prot = s.prot
      /\ Stretched(i).filesize = t.fileoff - s.fileoff
      /\ Stretched(i).vmsize = t.vmaddr - s.vmaddr
  BY <1>2, <1>3 DEF Segment
<1>8. /\ Stretched(i).filesize \in Nat /\ s.filesize <= Stretched(i).filesize
      /\ FileEnd(Stretched(i)) = t.fileoff
      /\ Stretched(i).vmsize \in Int /\ End(Stretched(i)) = t.vmaddr
  BY <1>4, <1>5, <1>7 DEF FileEnd, End
<1>9. PageSeparated => t.fileoff - s.fileoff <= t.vmaddr - s.vmaddr
  <2> SUFFICES ASSUME PageSeparated PROVE t.fileoff - s.fileoff <= t.vmaddr - s.vmaddr
    OBVIOUS
  <2> DEFINE ph == elf.loads[i]
             v == ph.vaddr + ph.memsz
  <2>1. ph.vaddr \in Nat /\ ph.filesz \in Nat /\ ph.memsz \in Nat /\ ph.filesz <= ph.memsz
    BY <1>1, <1>6, LoadFacts
  <2>2. /\ s.vmaddr % PageSize = 0 /\ s.fileoff % PageSize = 0
        /\ s.data_addr = Slide + ph.vaddr
        /\ s.data_addr - s.vmaddr = s.data_fileoff - s.fileoff
        /\ s.data_fileoff + ph.filesz = FileEnd(s)
        /\ End(s) = Slide + Align(v)
    BY <1>6 DEF HoldsLoad, End
  <2>3. s.data_addr \in Nat /\ s.data_fileoff \in Nat /\ FileEnd(s) \in Nat
    BY <1>3, <1>4 DEF Segment, FileEnd
  <2>4. v \in Int /\ v <= Align(v) /\ Align(v) \in Int /\ Align(v) % PageSize = 0
    BY <2>1, AlignFacts
  <2>5. Slide \in Nat /\ Align(Slide) = Slide /\ Align(Slide + v) = Slide + Align(v)
    BY <2>4, SlideAligned, AlignedFixed, AlignShift
  <2>6. (Slide + Align(v)) % PageSize = 0
    <3>1. Slide + v \in Int
      BY <2>4, <2>5
    <3> QED BY <2>5, <3>1, AlignFacts
  <2> DEFINE e == Slide + Align(v)
             x == FileEnd(s) - s.fileoff
  <2>7. (e - s.vmaddr) % PageSize = 0 /\ e \in Int
    <3>1. e \in Int /\ e % PageSize = 0
      BY <2>4, <2>5, <2>6
    <3> HIDE DEF e
    <3>2. s.vmaddr \in Int /\ s.vmaddr % PageSize = 0
      BY <1>4, <2>2
    <3> QED BY <3>1, <3>2, AlignedDifference
  <2>8. x \in Int /\ x <= e - s.vmaddr
    BY <1>4, <2>1, <2>2, <2>3, <2>4, <2>5
  <2>9. Align(s.fileoff + x) = s.fileoff + Align(x)
    BY <1>4, <2>2, <2>8, AlignShift
  <2>10. s.fileoff + x = FileEnd(s)
    BY <1>4, <2>3
  <2> HIDE DEF e, x, v
  <2>11. Align(x) <= e - s.vmaddr
    BY <1>4, <2>7, <2>8, AlignLeast
  <2>12. Align(x) \in Int
    BY <2>8, AlignFacts
  <2>13. e <= t.vmaddr
    BY <1>5, <2>2 DEF e
  <2> QED BY <1>4, <1>5, <2>7, <2>9, <2>10, <2>11, <2>12, <2>13
<1> QED BY <1>5, <1>7, <1>8, <1>9 DEF s, t

\* The exports are finitely many.
LEMMA ExportTableTyped ==
  ASSUME TypeOK
  PROVE  ExportTableSize \in Nat
<1> DEFINE E == ExportedIn(elf)
           f == [i \in E |-> elf.symbols[i].name]
           T == {elf.symbols[i].name : i \in E}
<1>1. DOMAIN elf.symbols = 1 .. Len(elf.symbols) /\ Len(elf.symbols) \in Nat
  BY DEF TypeOK, WellFormed, Elf
<1>2. IsFiniteSet(DOMAIN elf.symbols)
  BY <1>1, FS_Interval
<1>3. E \in SUBSET DOMAIN elf.symbols
  BY DEF ExportedIn
<1>4. IsFiniteSet(E)
  BY <1>2, <1>3, FS_Subset
<1>5. f \in Surjection(E, T)
  <2> HIDE DEF E
  <2> QED BY DEF Surjection
<1>6. IsFiniteSet(T)
  <2> HIDE DEF E, f, T
  <2> QED BY <1>4, <1>5, FS_Surjection
<1>7. DOMAIN Exports = T
  BY DEF Exports, ExportsOf
<1> HIDE DEF T
<1> QED BY <1>6, <1>7, FS_CardinalityType DEF ExportTableSize

\* __LINKEDIT of Phase 4: at the same place, and longer.
LEMMA Linkedit4Facts ==
  ASSUME Phase3Inv, pc = "done"
  PROVE  /\ Linkedit4.vmaddr = Linkedit.vmaddr /\ Linkedit4.fileoff = cursor
         /\ Linkedit4.vmsize \in Nat /\ Linkedit4.filesize \in Nat
         /\ Linkedit4.filesize <= Linkedit4.vmsize
<1> DEFINE size == Linkedit.filesize + ExportTableSize + 1
<1>1. /\ Linkedit.filesize \in Nat /\ Linkedit.fileoff = cursor
      /\ Linkedit = [vmaddr |-> Linkedit.vmaddr, vmsize |-> Linkedit.vmsize,
                     fileoff |-> cursor, filesize |-> Linkedit.filesize, prot |-> {"r"}]
  BY LinkeditFacts
<1>2. ExportTableSize \in Nat
  BY ExportTableTyped DEF Phase3Inv
<1>3. size \in Nat
  BY <1>1, <1>2
<1>4. Linkedit4 = [Linkedit EXCEPT !.filesize = size, !.vmsize = Align(size)]
  BY Zenon DEF Linkedit4
<1> HIDE DEF size
<1>5. Align(size) \in Nat /\ size <= Align(size)
  BY <1>3, AlignFacts
<1>6. /\ Linkedit4.vmaddr = Linkedit.vmaddr /\ Linkedit4.fileoff = Linkedit.fileoff
      /\ Linkedit4.filesize = size /\ Linkedit4.vmsize = Align(size)
  BY <1>1, <1>4
<1> QED BY <1>1, <1>3, <1>5, <1>6

\* What Phase 4 has written is what the translators' state says.
Rewritten ==
  step4 = "done" =>
    /\ pc = "done" /\ TrieBuilds(elf) /\ HeaderSize4 <= HeaderReserve
    /\ final.file = [o \in 0 .. FileEnd(Linkedit4) - 1 |-> FinalWord4(o)]
    /\ final.segments = [i \in DOMAIN segments |-> Stretched(i)] \o <<Linkedit4>>
    /\ final.rebase = out.rebase /\ final.bind = out.bind /\ final.exports = Exports

\* The segments written, one by one.
LEMMA FinalSegments ==
  ASSUME Phase3Inv, Placement, Rewritten, step4 = "done"
  PROVE  /\ Len(segments) \in Nat \ {0} /\ DOMAIN segments = 1 .. Len(segments)
         /\ DOMAIN final.segments = 1 .. Len(segments) + 1
         /\ Len(final.segments) = Len(segments) + 1
         /\ final.segments[Len(segments) + 1] = Linkedit4
         /\ \A i \in 1 .. Len(segments) : final.segments[i] = Stretched(i)
         /\ \A i \in 1 .. Len(segments) + 1 : i = Len(segments) + 1 \/ i \in 1 .. Len(segments)
<1> DEFINE n == Len(segments)
           g == [i \in DOMAIN segments |-> Stretched(i)]
           S == {Stretched(i) : i \in DOMAIN segments} \cup {Linkedit4}
<1>1. pc = "done" /\ segments \in Seq(Segment) /\ segments # <<>>
  BY DEF Rewritten, Phase3Inv, TypeOK, LayoutProgress
<1>2. n \in Nat \ {0} /\ DOMAIN segments = 1 .. n
  BY <1>1
<1>3. PICK ls : ls = Linkedit4
  OBVIOUS
<1>4. final.segments = g \o <<ls>>
  BY <1>3 DEF Rewritten
<1>5. g \in Seq(S) /\ Len(g) = n /\ ls \in S /\ \A i \in 1 .. n : g[i] = Stretched(i)
  BY <1>2, <1>3
<1> HIDE DEF g, S, n
<1>6. /\ DOMAIN (g \o <<ls>>) = 1 .. n + 1 /\ (g \o <<ls>>)[n + 1] = ls
      /\ Len(g \o <<ls>>) = n + 1
      /\ \A i \in 1 .. n : (g \o <<ls>>)[i] = g[i]
  BY <1>2, <1>5
<1>7. \A i \in 1 .. n + 1 : i = n + 1 \/ i \in 1 .. n
  BY <1>2
<1> QED BY <1>2, <1>3, <1>4, <1>5, <1>6, <1>7 DEF n

\* Each segment ends where the next begins, and __LINKEDIT with the file.
LEMMA ContiguousWhenWritten ==
  Phase3Inv /\ Placement /\ Rewritten => SegmentsContiguous
<1> SUFFICES ASSUME Phase3Inv, Placement, Rewritten, step4 = "done"
             PROVE  SegmentsContiguous
  BY DEF SegmentsContiguous
<1> DEFINE n == Len(segments)
<1>1. pc = "done"
  BY DEF Rewritten
<1>2. /\ n \in Nat \ {0} /\ DOMAIN segments = 1 .. n
      /\ Len(final.segments) = n + 1 /\ DOMAIN final.segments = 1 .. n + 1
      /\ final.segments[n + 1] = Linkedit4
      /\ \A i \in 1 .. n : final.segments[i] = Stretched(i)
      /\ \A i \in 1 .. n + 1 : i = n + 1 \/ i \in 1 .. n
  BY FinalSegments
<1>3. /\ Linkedit4.vmaddr = Linkedit.vmaddr /\ Linkedit4.fileoff = cursor
      /\ Linkedit4.filesize \in Nat /\ Linkedit4.vmsize \in Nat
      /\ Linkedit4.filesize <= Linkedit4.vmsize /\ Linkedit.fileoff = cursor
  BY <1>1, Linkedit4Facts, LinkeditFacts
<1>4. ASSUME NEW i \in 1 .. n
      PROVE  /\ FileEnd(Stretched(i)) = NextTo(i).fileoff
             /\ End(Stretched(i)) = NextTo(i).vmaddr
             /\ PageSeparated => Stretched(i).filesize <= Stretched(i).vmsize
  BY <1>1, <1>2, StretchedFacts
<1>5. ASSUME NEW i \in 1 .. n
      PROVE  /\ NextTo(i).fileoff = final.segments[i + 1].fileoff
             /\ NextTo(i).vmaddr = final.segments[i + 1].vmaddr
  <2>1. CASE i = n
    <3>1. NextTo(i) = Linkedit
      BY <1>2, <2>1 DEF NextTo
    <3> QED BY <1>2, <1>3, <2>1, <3>1
  <2>2. CASE i < n
    <3>1. NextTo(i) = segments[i + 1] /\ i + 1 \in 1 .. n
      BY <1>2, <2>2 DEF NextTo
    <3>2. /\ Stretched(i + 1).fileoff = segments[i + 1].fileoff
          /\ Stretched(i + 1).vmaddr = segments[i + 1].vmaddr
      BY <1>1, <1>2, <3>1, StretchedFacts
    <3> QED BY <1>2, <3>1, <3>2
  <2> QED BY <1>2, <2>1, <2>2
<1> HIDE DEF n
<1>6. ASSUME NEW i \in 1 .. n
      PROVE  /\ FileEnd(final.segments[i]) = final.segments[i + 1].fileoff
             /\ final.segments[i].vmaddr + final.segments[i].vmsize
                  = final.segments[i + 1].vmaddr
  BY <1>2, <1>4, <1>5 DEF End
<1>7. DOMAIN final.file = 0 .. FileEnd(final.segments[n + 1]) - 1
  BY <1>2 DEF Rewritten
<1>8. ASSUME PageSeparated, NEW i \in 1 .. n + 1
      PROVE  final.segments[i].filesize <= final.segments[i].vmsize
  BY <1>2, <1>3, <1>4, <1>8
<1>9. 1 .. (n + 1) - 1 = 1 .. n
  BY <1>2
<1> QED BY <1>2, <1>6, <1>7, <1>8, <1>9 DEF SegmentsContiguous

\* Phase 4's dylib is one of the translator's lists, too.
LEMMA FinalSuits ==
  ASSUME Phase3Inv, Placement, Written, Rewritten, step4 = "done", PageSeparated
  PROVE  Suits(final)
<1> DEFINE n == Len(segments)
<1>1. pc = "done" /\ TypeOK /\ LayoutSound /\ LayoutProgress
  BY DEF Rewritten, Phase3Inv
<1>2. /\ n \in Nat \ {0} /\ DOMAIN segments = 1 .. n
      /\ DOMAIN final.segments = 1 .. n + 1
      /\ final.segments[n + 1] = Linkedit4
      /\ \A i \in 1 .. n : final.segments[i] = Stretched(i)
      /\ \A i \in 1 .. n + 1 : i = n + 1 \/ i \in 1 .. n
  BY FinalSegments
<1>3. /\ Linkedit4.vmaddr = Linkedit.vmaddr /\ Linkedit4.fileoff = cursor
      /\ Linkedit4.filesize \in Nat /\ Linkedit4.vmsize \in Nat
      /\ Linkedit.fileoff = cursor /\ Linkedit.vmaddr \in Nat /\ cursor \in Nat
      /\ \A i \in DOMAIN segments : End(segments[i]) <= Linkedit.vmaddr
  BY <1>1, Linkedit4Facts, LinkeditFacts
<1>4. ASSUME NEW i \in 1 .. n
      PROVE  /\ Stretched(i).vmaddr = segments[i].vmaddr
             /\ Stretched(i).fileoff = segments[i].fileoff
             /\ Stretched(i).prot = segments[i].prot
             /\ Stretched(i).filesize \in Nat /\ segments[i].filesize <= Stretched(i).filesize
             /\ FileEnd(Stretched(i)) = NextTo(i).fileoff
             /\ Stretched(i).vmsize \in Nat /\ End(Stretched(i)) = NextTo(i).vmaddr
  BY <1>1, <1>2, StretchedFacts
<1>5. ASSUME NEW i \in 1 .. n
      PROVE  /\ segments[i].vmaddr \in Nat /\ segments[i].vmsize \in Nat
             /\ segments[i].fileoff \in Nat /\ End(segments[i]) \in Nat
             /\ segments[i].vmaddr <= End(segments[i])
  BY <1>1, <1>2, SegmentFacts DEF End
<1>6. ASSUME NEW i \in 1 .. n
      PROVE  /\ NextTo(i).fileoff <= cursor
             /\ End(segments[i]) <= NextTo(i).vmaddr /\ NextTo(i).vmaddr \in Nat
             /\ i + 1 \in 1 .. n => NextTo(i) = segments[i + 1]
             /\ ~(i + 1 \in 1 .. n) => NextTo(i) = Linkedit /\ i = n
  <2>1. /\ NextTo(i).fileoff <= cursor /\ NextTo(i).vmaddr \in Nat
        /\ End(segments[i]) <= NextTo(i).vmaddr
    BY <1>1, <1>2, NextFacts
  <2>2. (i + 1 \in 1 .. n <=> i < n) /\ (~(i < n) => i = n)
    <3>1. n \in Nat
      BY <1>2
    <3> HIDE DEF n
    <3> QED BY <3>1
  <2>3. (i < n => NextTo(i) = segments[i + 1]) /\ (~(i < n) => NextTo(i) = Linkedit)
    BY Zenon DEF NextTo
  <2> HIDE DEF n
  <2> QED BY <2>1, <2>2, <2>3
<1> HIDE DEF n
<1>7. ASSUME NEW i \in 1 .. n + 1
      PROVE  /\ final.segments[i].vmaddr \in Nat /\ final.segments[i].vmsize \in Nat
             /\ final.segments[i].fileoff \in Nat /\ final.segments[i].filesize \in Nat
  <2>1. CASE i = n + 1
    BY <1>2, <1>3, <2>1
  <2>2. CASE i \in 1 .. n
    BY <1>2, <1>4, <1>5, <2>2
  <2> QED BY <1>2, <2>1, <2>2
<1>8. ASSUME NEW i \in 1 .. n + 1, NEW j \in 1 .. n + 1, i < j
      PROVE  End(final.segments[i]) <= final.segments[j].vmaddr
  <2>1. i \in 1 .. n /\ End(final.segments[i]) = NextTo(i).vmaddr
    BY <1>2, <1>4, <1>8
  <2>2. CASE j = n + 1
    <3>1. final.segments[j].vmaddr = Linkedit.vmaddr
      BY <1>2, <1>3, <2>2
    <3>2. CASE i = n
      BY <1>2, <1>3, <1>6, <2>1, <3>1, <3>2
    <3>3. CASE i < n
      <4>1. i + 1 \in 1 .. n
        BY <1>2, <2>1, <3>3
      <4>2. NextTo(i) = segments[i + 1] /\ End(segments[i + 1]) <= Linkedit.vmaddr
        BY <1>2, <1>3, <1>6, <2>1, <4>1
      <4> QED BY <1>3, <1>5, <2>1, <3>1, <4>1, <4>2
    <3> QED BY <1>2, <2>1, <3>2, <3>3
  <2>3. CASE j \in 1 .. n
    <3>1. /\ i + 1 \in 1 .. n /\ NextTo(i) = segments[i + 1]
          /\ final.segments[j].vmaddr = segments[j].vmaddr
      BY <1>2, <1>4, <1>6, <1>8, <2>1, <2>3
    <3>2. CASE j = i + 1
      BY <1>5, <2>1, <3>1, <3>2
    <3>3. CASE i + 1 < j
      <4>1. End(segments[i + 1]) <= segments[j].vmaddr
        BY <1>1, <1>2, <2>3, <3>1, <3>3 DEF LayoutSound, PagesDisjoint, End
      <4> QED BY <1>5, <2>1, <2>3, <3>1, <4>1
    <3> QED BY <1>2, <1>8, <2>1, <2>3, <3>2, <3>3
  <2> QED BY <1>2, <2>2, <2>3
<1>9. ASSUME NEW i \in 1 .. n
      PROVE  /\ final.segments[i].vmaddr = segments[i].vmaddr
             /\ final.segments[i].fileoff = segments[i].fileoff
             /\ final.segments[i].prot = segments[i].prot
             /\ End(segments[i]) <= End(final.segments[i])
             /\ segments[i].filesize <= final.segments[i].filesize
             /\ FileEnd(final.segments[i]) <= cursor
             /\ i + 1 \in 1 .. n => FileEnd(final.segments[i]) <= segments[i + 1].fileoff
  <2>1. final.segments[i] = Stretched(i)
    BY <1>2
  <2>2. i + 1 \in 1 .. n => segments[i + 1].fileoff \in Nat
    BY <1>5
  <2> QED BY <1>4, <1>6, <2>1, <2>2
<1>10. ASSUME NEW o \in HeaderReserve .. cursor - 1
       PROVE  final.file[o] = image[o]
  <2>1. HeaderSize \in Nat /\ HeaderReserve \in Nat /\ SymtabCommandSize \in Nat
    BY <1>1, HeaderSizeTyped, Phase4Assumption
  <2>2. HeaderSize4 \in Nat /\ HeaderSize4 <= HeaderReserve
    BY <2>1 DEF Rewritten, HeaderSize4
  <2>3. FinalWord4(o) = out.file[o]
    BY <1>3, <2>1, <2>2 DEF FinalWord4
  <2>4. out.file[o] = image[o]
    BY <1>1, ImageWritten
  <2>5. o \in 0 .. FileEnd(Linkedit4) - 1
    BY <1>3, <2>1 DEF FileEnd
  <2>6. final.file = [x \in 0 .. FileEnd(Linkedit4) - 1 |-> FinalWord4(x)]
    BY DEF Rewritten
  <2> QED BY <2>3, <2>4, <2>5, <2>6
<1>11. final.rebase = RebaseStream /\ final.bind = BindStream
  BY <1>1 DEF Rewritten, Written
<1> QED BY <1>2, <1>7, <1>8, <1>9, <1>10, <1>11 DEF Suits, n

-----------------------------------------------------------------------------
(* The translators with dyld at work.                                      *)

\* All that the translator's state satisfies.
TranslatorInv == Phase3Inv /\ LoopInv /\ Placement /\ Written

\* It holds at the start.
LEMMA TranslatorInit == Init => TranslatorInv
<1> SUFFICES ASSUME Init PROVE TranslatorInv
  OBVIOUS
<1>1. Phase3Inv
  BY Phase3Start
<1>2. LoopInv /\ Written
  BY DEF Init, LoopInv, Written
<1>3. Placement
  <2>1. DOMAIN segments = {}
    BY DEF Init
  <2> QED BY <2>1 DEF Placement
<1> QED BY <1>1, <1>2, <1>3 DEF TranslatorInv

\* Every step of Phase 3 keeps it.
LEMMA TranslatorStep == TranslatorInv /\ [Next]_vars => TranslatorInv'
BY Phase3Step, LoopStep, PlacementStep, WrittenStep DEF TranslatorInv

\* With Phase 4 and dyld running, the translator still takes its own steps or none.
LEMMA TranslatorOnly == [Next4]_vars4 => [Next]_vars
<1> SUFFICES ASSUME [Next4]_vars4 PROVE [Next]_vars
  OBVIOUS
<1>1. CASE Translate
  BY <1>1 DEF Translate
<1>2. CASE UNCHANGED loadVars
  BY <1>2 DEF loadVars, vars
<1>3. CASE UNCHANGED vars
  BY <1>3
<1>4. CASE UNCHANGED vars4
  BY <1>4 DEF vars4, vars
<1> QED BY <1>1, <1>2, <1>3, <1>4 DEF Next4

\* The translator has nothing to do once it has written its dylib.
LEMMA DoneIsFinal == pc = "done" /\ [Next]_vars => UNCHANGED vars
BY DEF Next, RejectElf, RejectReloc, RejectOutput, CopyLoads, LayoutText, LayoutLoad,
       PatchRelative, PatchInternal, BindExternal, AtReloc, WriteDylib, AtEnd

\* Whether the export trie can be built depends on the ELF alone.
LEMMA SameTrie ==
  ASSUME elf' = elf
  PROVE  TrieBuilds(elf)' = TrieBuilds(elf)
OBVIOUS

\* Phase 4's formulas are functions of the translator's state.
LEMMA SameRewrite ==
  ASSUME UNCHANGED vars
  PROVE  /\ Linkedit4' = Linkedit4 /\ HeaderSize4' = HeaderSize4 /\ Exports' = Exports
         /\ \A i : Stretched(i)' = Stretched(i)
         /\ \A o : FinalWord4(o)' = FinalWord4(o)
<1>1. /\ elf' = elf /\ segments' = segments /\ rebases' = rebases /\ bindings' = bindings
      /\ image' = image /\ out' = out
  BY DEF vars
<1>2. Linkedit' = Linkedit /\ HeaderSize' = HeaderSize
  BY <1>1, SameLists
<1>3. Exports' = Exports
  BY <1>1 DEF Exports, ExportsOf, ExportedIn, Exported
<1>4. Linkedit4' = Linkedit4
  BY <1>2, <1>3 DEF Linkedit4, ExportTableSize
<1>5. HeaderSize4' = HeaderSize4
  BY <1>2 DEF HeaderSize4
<1>6. ASSUME NEW i PROVE Stretched(i)' = Stretched(i)
  BY <1>1, <1>2 DEF Stretched
<1>7. ASSUME NEW o PROVE FinalWord4(o)' = FinalWord4(o)
  BY <1>1, <1>2, <1>5 DEF FinalWord4
<1> QED BY <1>3, <1>4, <1>5, <1>6, <1>7

\* Every step of the translators and dyld keeps what is known of Phase 4's dylib.
LEMMA RewrittenStep == Rewritten /\ [Next4]_vars4 => Rewritten'
<1> SUFFICES ASSUME Rewritten, [Next4]_vars4 PROVE Rewritten'
  OBVIOUS
<1>1. CASE Rewrite /\ UNCHANGED loadVars
  <2>1. UNCHANGED vars
    BY <1>1 DEF loadVars, vars
  <2>2. /\ pc = "done" /\ TrieBuilds(elf) /\ HeaderSize4 <= HeaderReserve
        /\ final'.file = [o \in 0 .. FileEnd(Linkedit4) - 1 |-> FinalWord4(o)]
        /\ final'.segments = [i \in DOMAIN segments |-> Stretched(i)] \o <<Linkedit4>>
        /\ final'.rebase = out.rebase /\ final'.bind = out.bind /\ final'.exports = Exports
    BY <1>1 DEF Rewrite
  <2>3. pc' = pc /\ elf' = elf /\ segments' = segments /\ out' = out
    BY <2>1 DEF vars
  <2> QED BY <2>1, <2>2, <2>3, SameRewrite, SameTrie DEF Rewritten
<1>2. CASE step4' = step4 /\ final' = final
  <2> SUFFICES ASSUME step4 = "done" PROVE Rewritten'
    BY <1>2 DEF Rewritten
  <2>1. pc = "done"
    BY DEF Rewritten
  <2>2. UNCHANGED vars
    BY <2>1, TranslatorOnly, DoneIsFinal
  <2>3. pc' = pc /\ elf' = elf /\ segments' = segments /\ out' = out
    BY <2>2 DEF vars
  <2> QED BY <1>2, <2>2, <2>3, SameRewrite, SameTrie DEF Rewritten
<1>3. CASE Reject4
  BY <1>3 DEF Reject4, Rewritten
<1>4. CASE UNCHANGED vars4
  BY <1>2, <1>4 DEF vars4
<1> QED BY <1>1, <1>2, <1>3, <1>4 DEF Next4

\* What dyld has opened is a finished dylib of the translators.
LibInv == stage # "closed" => pc = "done" /\ (PageSeparated => Suits(lib))

\* Suits speaks of the translator's state only.
LEMMA SuitsSame ==
  ASSUME UNCHANGED vars, NEW d, Suits(d)
  PROVE  Suits(d)'
<1>1. /\ segments' = segments /\ rebases' = rebases /\ bindings' = bindings
      /\ image' = image /\ cursor' = cursor
  BY DEF vars
<1>2. RebaseStream' = RebaseStream /\ BindStream' = BindStream
  BY <1>1, SameLists
<1> QED BY <1>1, <1>2 DEF Suits

\* A step as dyld sees it: not its own, the opening of a finished dylib, or one
\* of its opcodes.
LEMMA DyldSteps ==
  ASSUME TranslatorInv, Rewritten, LibInv, [Next4]_vars4
  PROVE  \/ UNCHANGED dyldVars /\ (stage # "closed" => UNCHANGED vars)
         \/ /\ UNCHANGED vars /\ pc = "done"
            /\ \E d : dyld!Open(d) /\ (PageSeparated => Suits(d))
         \/ UNCHANGED vars /\ dyld!Next
<1>1. CASE Translate
  <2>1. UNCHANGED dyldVars /\ Next
    BY <1>1 DEF Translate
  <2>2. stage # "closed" => UNCHANGED vars
    BY <2>1, DoneIsFinal DEF LibInv
  <2> QED BY <2>1, <2>2
<1>2. CASE UNCHANGED loadVars
  BY <1>2 DEF loadVars, vars, dyldVars
<1>3. CASE UNCHANGED vars4
  BY <1>3 DEF vars4, vars, dyldVars
<1>4. CASE Load4 /\ UNCHANGED vars
  <2>1. CASE pc = "done" /\ dyld!Open(out)
    <3>1. PageSeparated => Suits(out)
      BY <2>1, OutSuits DEF TranslatorInv
    <3> QED BY <1>4, <2>1, <3>1
  <2>2. CASE step4 = "done" /\ dyld!Open(final)
    <3>1. PageSeparated => Suits(final)
      BY <2>2, FinalSuits DEF TranslatorInv
    <3>2. pc = "done"
      BY <2>2 DEF Rewritten
    <3> QED BY <1>4, <2>2, <3>1, <3>2
  <2>3. CASE dyld!Next
    BY <1>4, <2>3
  <2> QED BY <1>4, <2>1, <2>2, <2>3 DEF Load4
<1> QED BY <1>1, <1>2, <1>3, <1>4 DEF Next4

\* Every step keeps it.
LEMMA LibStep ==
  ASSUME TranslatorInv, Rewritten, LibInv, [Next4]_vars4
  PROVE  LibInv'
<1>1. ASSUME UNCHANGED vars PROVE pc' = pc /\ PageSeparated' = PageSeparated
  BY <1>1 DEF vars, PageSeparated
<1>2. CASE UNCHANGED dyldVars /\ (stage # "closed" => UNCHANGED vars)
  <2>1. stage' = stage /\ lib' = lib
    BY <1>2 DEF dyldVars
  <2> SUFFICES ASSUME stage # "closed" PROVE LibInv'
    BY <2>1 DEF LibInv
  <2>2. PICK d : d = lib
    OBVIOUS
  <2>3. pc = "done" /\ (PageSeparated => Suits(d)) /\ UNCHANGED vars
    BY <1>2, <2>2 DEF LibInv
  <2>4. PageSeparated => Suits(d)'
    BY <2>3, SuitsSame
  <2>5. Suits(d)' => Suits(lib)'
    BY <2>1, <2>2
  <2> QED BY <1>1, <2>3, <2>4, <2>5 DEF LibInv
<1>3. CASE /\ UNCHANGED vars /\ pc = "done"
           /\ \E d : dyld!Open(d) /\ (PageSeparated => Suits(d))
  <2>1. PICK d : dyld!Open(d) /\ (PageSeparated => Suits(d))
    BY <1>3
  <2>2. lib' = d
    BY <2>1 DEF dyld!Open
  <2>3. PageSeparated => Suits(d)'
    BY <1>3, <2>1, SuitsSame
  <2>4. Suits(d)' => Suits(lib)'
    BY <2>2
  <2> QED BY <1>1, <1>3, <2>3, <2>4 DEF LibInv
<1>4. CASE UNCHANGED vars /\ dyld!Next
  <2>1. lib' = lib /\ stage # "closed"
    BY <1>4 DEF dyld!Next, dyld!Rebase, dyld!Bind
  <2>2. PICK d : d = lib
    OBVIOUS
  <2>3. pc = "done" /\ (PageSeparated => Suits(d)) /\ UNCHANGED vars
    BY <1>4, <2>1, <2>2 DEF LibInv
  <2>4. PageSeparated => Suits(d)'
    BY <2>3, SuitsSame
  <2>5. Suits(d)' => Suits(lib)'
    BY <2>1, <2>2
  <2> QED BY <1>1, <2>3, <2>4, <2>5 DEF LibInv
<1> QED BY <1>2, <1>3, <1>4, DyldSteps

-----------------------------------------------------------------------------
(* dyld's opcodes, one by one.                                             *)

\* One opcode of each kind.
LEMMA SkipOpcode ==
  ASSUME NEW p, NEW s, dyld!Step(p, s), p[ip].op \in {"type", "ordinal"}
  PROVE  ip' = ip + 1 /\ stage' = stage /\ mem' = mem /\ reg' = reg
BY DEF dyld!Step

\* SET_SEGMENT_AND_OFFSET_ULEB sets the place.
LEMMA SegmentOpcode ==
  ASSUME NEW p, NEW s, dyld!Step(p, s), p[ip].op = "segment"
  PROVE  /\ ip' = ip + 1 /\ stage' = stage /\ mem' = mem
         /\ reg' = [reg EXCEPT !.seg = p[ip].seg, !.off = p[ip].off]
BY DEF dyld!Step

\* SET_SYMBOL_TRAILING_FLAGS_IMM sets the symbol.
LEMMA SymbolOpcode ==
  ASSUME NEW p, NEW s, dyld!Step(p, s), p[ip].op = "symbol"
  PROVE  /\ ip' = ip + 1 /\ stage' = stage /\ mem' = mem
         /\ reg' = [reg EXCEPT !.symbol = p[ip].symbol]
BY DEF dyld!Step

\* SET_ADDEND_SLEB sets the addend.
LEMMA AddendOpcode ==
  ASSUME NEW p, NEW s, dyld!Step(p, s), p[ip].op = "addend"
  PROVE  /\ ip' = ip + 1 /\ stage' = stage /\ mem' = mem
         /\ reg' = [reg EXCEPT !.addend = p[ip].addend]
BY DEF dyld!Step

\* DO_REBASE slides the pointer at the place, or is fatal.
LEMMA RebaseOpcode ==
  ASSUME NEW p, NEW s, dyld!Step(p, s), p[ip].op = "rebase"
  PROVE  \/ stage' = "fault" /\ ~dyld!Fixable /\ mem' = mem /\ ip' = ip /\ reg' = reg
         \/ /\ ip' = ip + 1 /\ stage' = stage /\ reg' = [reg EXCEPT !.off = @ + 1]
            /\ mem' = [mem EXCEPT ![dyld!Address] = Word(@ + base)]
BY DEF dyld!Step, Word

\* DO_BIND writes the pointer at the place, or is fatal.
LEMMA BindOpcode ==
  ASSUME NEW p, NEW s, dyld!Step(p, s), p[ip].op = "bind"
  PROVE  \/ stage' = "fault" /\ ~dyld!Fixable /\ mem' = mem /\ ip' = ip /\ reg' = reg
         \/ /\ ip' = ip + 1 /\ stage' = stage /\ reg' = [reg EXCEPT !.off = @ + 1]
            /\ mem' = [mem EXCEPT ![dyld!Address] =
                         Word(SymbolAddress[reg.symbol] + reg.addend)]
BY DEF dyld!Step, Word

\* DONE ends the program and clears the registers.
LEMMA DoneOpcode ==
  ASSUME NEW p, NEW s, dyld!Step(p, s), p[ip].op = "done"
  PROVE  stage' = s /\ ip' = 1 /\ reg' = dyld!ClearRegisters /\ mem' = mem
BY DEF dyld!Step

\* The names in the registers, which dyld clears to none.
Names == STRING \cup {dyld!ClearRegisters.symbol}

\* The values of dyld's registers.
Registers == [seg : Nat, off : Nat, symbol : Names, addend : Int]

\* The places to rebase in the order of the opcodes: the list, each place once.
Locs == Sorted(rebases)

\* The places in order are the places of the list, each as often.
LEMMA LocsFacts ==
  ASSUME rebases \in Seq(Place)
  PROVE  /\ DOMAIN rebases = 1 .. Len(rebases) /\ Len(rebases) \in Nat
         /\ \A i \in DOMAIN rebases : /\ Locs[i].seg \in Nat /\ Locs[i].off \in Nat
                                      /\ \E j \in DOMAIN rebases : Locs[i] = rebases[j]
         /\ \A j \in DOMAIN rebases : \E i \in DOMAIN rebases : Locs[i] = rebases[j]
         /\ RebasesApart => \A i, j \in DOMAIN rebases :
                              i # j => PlaceOf(Locs[i]) # PlaceOf(Locs[j])
<1>1. DOMAIN rebases = 1 .. Len(rebases) /\ Len(rebases) \in Nat
  OBVIOUS
<1>2. Permuted(rebases, Locs)
  <2>1. \A x \in Place : x.seg \in Int /\ x.off \in Int
    BY DEF Place
  <2> QED BY <2>1, SortedPermutes DEF Locs
<1>3. PICK pi \in [DOMAIN rebases -> DOMAIN rebases] :
        /\ \A i, j \in DOMAIN rebases : pi[i] = pi[j] => i = j
        /\ \A j \in DOMAIN rebases : \E i \in DOMAIN rebases : pi[i] = j
        /\ Locs = [i \in DOMAIN rebases |-> rebases[pi[i]]]
  BY <1>2 DEF Permuted
<1>4. \A i \in DOMAIN rebases : Locs[i] = rebases[pi[i]] /\ pi[i] \in DOMAIN rebases
  BY <1>3
<1>5. \A j \in DOMAIN rebases : rebases[j].seg \in Nat /\ rebases[j].off \in Nat
  <2>1. \A j \in DOMAIN rebases : rebases[j] \in Place
    OBVIOUS
  <2> QED BY <2>1 DEF Place
<1> HIDE DEF Locs
<1>6. \A i \in DOMAIN rebases : /\ Locs[i].seg \in Nat /\ Locs[i].off \in Nat
                                /\ \E j \in DOMAIN rebases : Locs[i] = rebases[j]
  BY <1>4, <1>5
<1>7. \A j \in DOMAIN rebases : \E i \in DOMAIN rebases : Locs[i] = rebases[j]
  BY <1>3, <1>4
<1>8. RebasesApart => \A i, j \in DOMAIN rebases : i # j => PlaceOf(Locs[i]) # PlaceOf(Locs[j])
  BY <1>3, <1>4 DEF RebasesApart
<1> QED BY <1>1, <1>6, <1>7, <1>8

\* A position of the rebase program is its first, its last, a place or a rebase.
LEMMA RebasePositions ==
  ASSUME NEW n \in Nat, NEW p \in 1 .. 2 * n + 2
  PROVE  \/ p = 1 \/ p = 2 * n + 2
         \/ \E i \in 1 .. n : p = 2 * i \/ p = 2 * i + 1
<1>1. CASE p % 2 = 0
  <2>1. p = 2 * (p \div 2) /\ p \div 2 \in Int
    BY <1>1
  <2> QED BY <2>1
<1>2. CASE p % 2 = 1
  <2>1. p = 2 * (p \div 2) + 1 /\ p \div 2 \in Int
    BY <1>2
  <2> QED BY <2>1
<1> QED BY <1>1, <1>2

\* What dyld does at each opcode of the rebase program.
LEMMA RebaseCases ==
  ASSUME rebases \in Seq(Place), dyld!Rebase, lib.rebase = RebaseStream,
         ip \in 1 .. 2 * Len(rebases) + 2
  PROVE  \/ ip = 1 /\ ip' = 2 /\ stage' = "rebase" /\ mem' = mem /\ reg' = reg
         \/ \E i \in DOMAIN rebases :
              /\ ip = 2 * i /\ ip' = 2 * i + 1 /\ stage' = "rebase" /\ mem' = mem
              /\ reg' = [reg EXCEPT !.seg = Locs[i].seg, !.off = Locs[i].off]
         \/ \E i \in DOMAIN rebases :
              /\ ip = 2 * i + 1 /\ stage' = "fault" /\ ~dyld!Fixable
              /\ mem' = mem /\ ip' = ip /\ reg' = reg
         \/ \E i \in DOMAIN rebases :
              /\ ip = 2 * i + 1 /\ ip' = 2 * i + 2 /\ stage' = "rebase"
              /\ reg' = [reg EXCEPT !.off = @ + 1]
              /\ mem' = [mem EXCEPT ![dyld!Address] = Word(@ + base)]
         \/ /\ ip = 2 * Len(rebases) + 2 /\ ip' = 1 /\ stage' = "bind"
            /\ reg' = dyld!ClearRegisters /\ mem' = mem
<1> DEFINE n == Len(rebases)
<1>1. n \in Nat /\ DOMAIN rebases = 1 .. n
  OBVIOUS
<1>2. /\ RebaseStream[1] = [op |-> "type"]
      /\ \A i \in 1 .. n : /\ RebaseStream[2 * i] = GoTo(Locs[i])
                           /\ RebaseStream[2 * i + 1] = [op |-> "rebase"]
      /\ RebaseStream[2 * n + 2] = [op |-> "done"]
  BY RebaseOpcodes DEF Locs
<1>3. PICK p : p = RebaseStream
  OBVIOUS
<1>4. dyld!Step(p, "bind") /\ stage = "rebase"
  BY <1>3 DEF dyld!Rebase
<1> HIDE DEF n
<1>5. CASE ip = 1
  <2>1. p[ip].op = "type"
    BY <1>2, <1>3, <1>5
  <2>2. ip' = ip + 1 /\ stage' = stage /\ mem' = mem /\ reg' = reg
    BY <1>4, <2>1, SkipOpcode
  <2>3. ip' = 2 /\ stage' = "rebase"
    BY <1>4, <1>5, <2>2
  <2> QED BY <1>5, <2>2, <2>3
<1>6. ASSUME NEW i \in 1 .. n, ip = 2 * i
      PROVE  /\ ip' = 2 * i + 1 /\ stage' = "rebase" /\ mem' = mem
             /\ reg' = [reg EXCEPT !.seg = Locs[i].seg, !.off = Locs[i].off]
  <2>1. p[ip].op = "segment" /\ p[ip].seg = Locs[i].seg /\ p[ip].off = Locs[i].off
    <3>1. p[ip] = GoTo(Locs[i])
      BY <1>2, <1>3, <1>6
    <3> QED BY <3>1 DEF GoTo
  <2> QED BY <1>4, <1>6, <2>1, SegmentOpcode
<1>7. ASSUME NEW i \in 1 .. n, ip = 2 * i + 1
      PROVE  \/ stage' = "fault" /\ ~dyld!Fixable /\ mem' = mem /\ ip' = ip /\ reg' = reg
             \/ /\ ip' = 2 * i + 2 /\ stage' = "rebase"
                /\ reg' = [reg EXCEPT !.off = @ + 1]
                /\ mem' = [mem EXCEPT ![dyld!Address] = Word(@ + base)]
  <2>1. p[ip].op = "rebase"
    BY <1>2, <1>3, <1>7
  <2>2. ip + 1 = 2 * i + 2
    BY <1>1, <1>7
  <2> QED BY <1>4, <2>1, <2>2, RebaseOpcode
<1>8. CASE ip = 2 * n + 2
  <2>1. p[ip].op = "done"
    BY <1>2, <1>3, <1>8
  <2> QED BY <1>4, <1>8, <2>1, DoneOpcode DEF n
<1>9. \/ ip = 1 \/ ip = 2 * n + 2
      \/ \E i \in 1 .. n : ip = 2 * i \/ ip = 2 * i + 1
  BY <1>1, RebasePositions DEF n
<1> QED BY <1>1, <1>5, <1>6, <1>7, <1>8, <1>9

\* What an opcode o of a bind program makes of the registers g.
Effect(o, g, h) ==
  /\ h.symbol = IF o.op = "symbol" THEN o.symbol ELSE g.symbol
  /\ h.addend = IF o.op = "addend" THEN o.addend ELSE g.addend
  /\ o.op = "segment" => h.seg = o.seg /\ h.off = o.off

\* The registers g in front of opcode x of the opcodes of binding b.
RegsAt(b, x, g) ==
  /\ x \in 2 .. Len(BindOps(b)) => g.symbol = b.symbol
  /\ x \in 3 .. Len(BindOps(b)) /\ b.addend # 0 => g.addend = b.addend
  /\ x = Len(BindOps(b)) => g.seg = b.seg /\ g.off = b.off

\* The kinds of the opcodes of a binding.
LEMMA OpKinds ==
  ASSUME NEW b \in Binding, NEW x \in 1 .. Len(BindOps(b))
  PROVE  LET o == BindOps(b)[x] n == Len(BindOps(b))
         IN /\ n \in {3, 4} /\ (b.addend # 0 => n = 4)
            /\ \/ x = 1 /\ o.op = "symbol" /\ o.symbol = b.symbol
               \/ x = 2 /\ b.addend # 0 /\ o.op = "addend" /\ o.addend = b.addend
               \/ x = n - 1 /\ o.op = "segment" /\ o.seg = b.seg /\ o.off = b.off
               \/ x = n /\ o.op = "bind"
<1> DEFINE s == BindOps(b)
           n == Len(BindOps(b))
<1>1. /\ n = IF b.addend # 0 THEN 4 ELSE 3
      /\ s[1] = [op |-> "symbol", symbol |-> b.symbol]
      /\ b.addend # 0 => s[2] = [op |-> "addend", addend |-> b.addend]
      /\ s[n - 1] = GoTo(b) /\ s[n] = [op |-> "bind"]
  BY BindOpsAre
<1> HIDE DEF s, n
<1>2. x \in 1 .. n
  BY DEF n
<1>3. CASE b.addend # 0
  <2>1. n = 4 /\ (x = 1 \/ x = 2 \/ x = n - 1 \/ x = n)
    BY <1>1, <1>2, <1>3
  <2> QED BY <1>1, <1>3, <2>1 DEF GoTo, s, n
<1>4. CASE b.addend = 0
  <2>1. n = 3 /\ (x = 1 \/ x = n - 1 \/ x = n)
    BY <1>1, <1>2, <1>4
  <2> QED BY <1>1, <1>4, <2>1 DEF GoTo, s, n
<1> QED BY <1>3, <1>4

\* Going on by one opcode in or outside the opcodes of a binding.
LEMMA RegsGoOn ==
  ASSUME NEW b \in Binding, NEW x \in Int, NEW g, NEW h, NEW o, RegsAt(b, x, g), Effect(o, g, h),
         x \in 1 .. Len(BindOps(b)) => o = BindOps(b)[x]
  PROVE  RegsAt(b, x + 1, h)
<1> DEFINE n == Len(BindOps(b))
<1>1. CASE x \in 1 .. n
  <2>1. /\ n \in {3, 4} /\ (b.addend # 0 => n = 4)
        /\ \/ x = 1 /\ o.op = "symbol" /\ o.symbol = b.symbol
           \/ x = 2 /\ b.addend # 0 /\ o.op = "addend" /\ o.addend = b.addend
           \/ x = n - 1 /\ o.op = "segment" /\ o.seg = b.seg /\ o.off = b.off
           \/ x = n /\ o.op = "bind"
    BY <1>1, OpKinds
  <2> HIDE DEF n
  <2>2. /\ x \in 2 .. n => g.symbol = b.symbol
        /\ x \in 3 .. n /\ b.addend # 0 => g.addend = b.addend
        /\ x = n => g.seg = b.seg /\ g.off = b.off
    BY DEF RegsAt, n
  <2>3. x + 1 \in 2 .. n => h.symbol = b.symbol
    BY <2>1, <2>2 DEF Effect
  <2>4. x + 1 \in 3 .. n /\ b.addend # 0 => h.addend = b.addend
    BY <2>1, <2>2 DEF Effect
  <2>5. x + 1 = n => h.seg = b.seg /\ h.off = b.off
    BY <2>1 DEF Effect
  <2> QED BY <2>3, <2>4, <2>5 DEF RegsAt, n
<1>2. CASE x \notin 1 .. n
  <2>1. n \in Nat /\ n > 2
    <3>1. n = IF b.addend # 0 THEN 4 ELSE 3
      BY BindOpsAre
    <3> HIDE DEF n
    <3> QED BY <3>1
  <2> HIDE DEF n
  <2>2. x + 1 \notin 2 .. n /\ x + 1 \notin 3 .. n /\ x + 1 # n
    BY <1>2, <2>1
  <2> QED BY <2>2 DEF RegsAt, n
<1> QED BY <1>1, <1>2

\* Some binding's opcodes end at position p of the bind program.
EndsBlock(i, p) ==
  \E start \in Nat : /\ BlockAt(BindStream, start, BindOps(bindings[i]))
                     /\ p - start = Len(BindOps(bindings[i]))

\* None of the bindings has an addend.
NoAddends == \A i \in DOMAIN bindings : bindings[i].addend = 0

\* What dyld does at each opcode of the bind program.
LEMMA BindCases ==
  ASSUME bindings \in Seq(Binding), dyld!Bind, lib.bind = BindStream,
         ip \in 1 .. Len(BindStream), reg \in Registers
  PROVE  \/ /\ ip = Len(BindStream) /\ ip' = 1 /\ stage' = "loaded" /\ mem' = mem
            /\ reg' = dyld!ClearRegisters
         \/ /\ stage' = "fault" /\ ~dyld!Fixable /\ reg' = reg
            /\ \E i \in DOMAIN bindings : EndsBlock(i, ip)
         \/ /\ ip' = ip + 1 /\ ip + 1 \in 1 .. Len(BindStream) /\ stage' = "bind"
            /\ reg' \in Registers /\ Effect(BindStream[ip], reg, reg')
            /\ NoAddends => reg'.addend = reg.addend
            /\ \/ mem' = mem /\ BindStream[ip].op # "bind"
               \/ /\ BindStream[ip].op = "bind"
                  /\ mem' = [mem EXCEPT ![dyld!Address] =
                               Word(SymbolAddress[reg.symbol] + reg.addend)]
                  /\ \E i \in DOMAIN bindings : EndsBlock(i, ip)
<1>0. PICK r : r = BindStream
  OBVIOUS
<1>1. BindProgram(BindStream)
  BY BindOpcodes
<1>2. /\ Len(r) \in Nat /\ Len(r) >= 3
      /\ r[1] = [op |-> "ordinal"] /\ r[2] = [op |-> "type"] /\ r[Len(r)] = [op |-> "done"]
      /\ \A p \in 3 .. Len(r) - 1 :
           \E i \in DOMAIN bindings, start \in Nat :
             /\ BlockAt(r, start, BindOps(bindings[i]))
             /\ p - start \in 1 .. Len(BindOps(bindings[i]))
  BY <1>0, <1>1 DEF BindProgram
<1>3. dyld!Step(r, "loaded") /\ stage = "bind" /\ ip \in 1 .. Len(r)
  BY <1>0 DEF dyld!Bind
<1>4. reg.seg \in Nat /\ reg.off \in Nat /\ reg.addend \in Int
  BY DEF Registers
<1>5. CASE ip = 1 \/ ip = 2
  <2>1. r[ip].op \in {"type", "ordinal"}
    BY <1>2, <1>5
  <2>2. ip' = ip + 1 /\ stage' = "bind" /\ mem' = mem /\ reg' = reg
    BY <1>3, <2>1, SkipOpcode
  <2>3. ip + 1 \in 1 .. Len(r)
    BY <1>2, <1>5
  <2>4. Effect(r[ip], reg, reg')
    BY <2>1, <2>2 DEF Effect
  <2> QED BY <1>0, <2>1, <2>2, <2>3, <2>4
<1>6. CASE ip = Len(r)
  <2>1. r[ip].op = "done"
    BY <1>2, <1>6
  <2>2. stage' = "loaded" /\ ip' = 1 /\ reg' = dyld!ClearRegisters /\ mem' = mem
    BY <1>3, <2>1, DoneOpcode
  <2> QED BY <1>0, <1>6, <2>2
<1>7. CASE ip \in 3 .. Len(r) - 1
  <2>1. PICK i \in DOMAIN bindings, start \in Nat :
          /\ BlockAt(r, start, BindOps(bindings[i]))
          /\ ip - start \in 1 .. Len(BindOps(bindings[i]))
    BY <1>2, <1>7
  <2>2. PICK b, x : b = bindings[i] /\ x = ip - start
    OBVIOUS
  <2>3. b \in Binding
    BY <2>2
  <2>4. b.seg \in Nat /\ b.off \in Nat /\ b.symbol \in STRING /\ b.addend \in Int
    BY <2>3 DEF Binding
  <2>5. r[ip] = BindOps(b)[x] /\ x \in 1 .. Len(BindOps(b))
    <3>1. ip = start + x /\ x \in 1 .. Len(BindOps(b))
      BY <1>3, <2>1, <2>2
    <3> QED BY <2>1, <2>2, <3>1 DEF BlockAt
  <2>6. PICK o : o = r[ip]
    OBVIOUS
  <2>7. \/ x = 1 /\ o.op = "symbol" /\ o.symbol = b.symbol
        \/ x = 2 /\ b.addend # 0 /\ o.op = "addend" /\ o.addend = b.addend
        \/ o.op = "segment" /\ o.seg = b.seg /\ o.off = b.off
        \/ x = Len(BindOps(b)) /\ o.op = "bind"
    BY <2>3, <2>5, <2>6, OpKinds
  <2>8. ip + 1 \in 1 .. Len(r)
    BY <1>2, <1>7, SMTT(30)
  <2>9. CASE o.op = "symbol"
    <3>1. o.symbol \in Names
      BY <2>4, <2>7, <2>9 DEF Names
    <3>2. /\ ip' = ip + 1 /\ stage' = "bind" /\ mem' = mem
          /\ reg' = [reg EXCEPT !.symbol = o.symbol]
      BY <1>3, <2>6, <2>9, SymbolOpcode
    <3>3. reg' \in Registers
      BY <3>1, <3>2 DEF Registers
    <3>4. reg'.symbol = o.symbol /\ reg'.addend = reg.addend
      BY <3>2 DEF Registers
    <3>5. Effect(o, reg, reg')
      BY <2>9, <3>4 DEF Effect
    <3> QED BY <1>0, <2>6, <2>8, <2>9, <3>2, <3>3, <3>4, <3>5
  <2>10. CASE o.op = "addend"
    <3>1. o.addend \in Int /\ b.addend # 0
      BY <2>4, <2>7, <2>10
    <3>2. /\ ip' = ip + 1 /\ stage' = "bind" /\ mem' = mem
          /\ reg' = [reg EXCEPT !.addend = o.addend]
      BY <1>3, <2>6, <2>10, AddendOpcode
    <3>3. reg' \in Registers
      BY <3>1, <3>2 DEF Registers
    <3>4. reg'.symbol = reg.symbol /\ reg'.addend = o.addend
      BY <3>2 DEF Registers
    <3>5. Effect(o, reg, reg')
      BY <2>10, <3>4 DEF Effect
    <3>6. ~NoAddends
      BY <2>2, <3>1 DEF NoAddends
    <3> QED BY <1>0, <2>6, <2>8, <2>10, <3>2, <3>3, <3>5, <3>6
  <2>11. CASE o.op = "segment"
    <3>1. o.seg \in Nat /\ o.off \in Nat
      BY <2>4, <2>7, <2>11
    <3>2. /\ ip' = ip + 1 /\ stage' = "bind" /\ mem' = mem
          /\ reg' = [reg EXCEPT !.seg = o.seg, !.off = o.off]
      BY <1>3, <2>6, <2>11, SegmentOpcode
    <3>3. reg' \in Registers
      BY <3>1, <3>2 DEF Registers
    <3>4. /\ reg'.symbol = reg.symbol /\ reg'.addend = reg.addend
          /\ reg'.seg = o.seg /\ reg'.off = o.off
      BY <3>2 DEF Registers
    <3>5. Effect(o, reg, reg')
      BY <2>11, <3>4 DEF Effect
    <3> QED BY <1>0, <2>6, <2>8, <2>11, <3>2, <3>3, <3>4, <3>5
  <2>12. CASE o.op = "bind"
    <3>1. EndsBlock(i, ip)
      BY <1>0, <2>1, <2>2, <2>7, <2>12 DEF EndsBlock
    <3>2. CASE stage' = "fault" /\ ~dyld!Fixable /\ reg' = reg
      BY <3>1, <3>2
    <3>3. CASE /\ ip' = ip + 1 /\ stage' = stage /\ reg' = [reg EXCEPT !.off = @ + 1]
               /\ mem' = [mem EXCEPT ![dyld!Address] =
                            Word(SymbolAddress[reg.symbol] + reg.addend)]
      <4>1. reg' \in Registers
        BY <1>4, <3>3 DEF Registers
      <4>2. reg'.symbol = reg.symbol /\ reg'.addend = reg.addend
        BY <3>3 DEF Registers
      <4>3. Effect(o, reg, reg')
        BY <2>12, <4>2 DEF Effect
      <4> QED BY <1>0, <1>3, <2>6, <2>8, <2>12, <3>1, <3>3, <4>1, <4>2, <4>3
    <3>4. \/ stage' = "fault" /\ ~dyld!Fixable /\ mem' = mem /\ ip' = ip /\ reg' = reg
          \/ /\ ip' = ip + 1 /\ stage' = stage /\ reg' = [reg EXCEPT !.off = @ + 1]
             /\ mem' = [mem EXCEPT ![dyld!Address] =
                          Word(SymbolAddress[reg.symbol] + reg.addend)]
      BY <1>3, <2>6, <2>12, BindOpcode
    <3> QED BY <3>2, <3>3, <3>4
  <2> QED BY <2>7, <2>9, <2>10, <2>11, <2>12
<1> QED BY <1>2, <1>3, <1>5, <1>6, <1>7

\* An address of a load lies in the load's segment.
LEMMA InSegment ==
  ASSUME Phase3Inv, pc = "done", NEW i \in DOMAIN segments, NEW v \in Int, InLoad(i, v)
  PROVE  /\ segments[i].vmaddr <= Slide + v /\ Slide + v < End(segments[i])
         /\ Slide + v \in Nat
<1>1. TypeOK /\ LayoutSound /\ LayoutProgress
  BY DEF Phase3Inv
<1>2. /\ i \in DOMAIN elf.loads /\ segments[i].data_addr = Slide + elf.loads[i].vaddr
      /\ segments[i].vmaddr <= segments[i].data_addr
      /\ segments[i].vmaddr + segments[i].vmsize
           = Slide + Align(elf.loads[i].vaddr + elf.loads[i].memsz)
  BY <1>1, SegmentOfLoad
<1>3. elf.loads[i].vaddr \in Nat /\ elf.loads[i].memsz \in Nat
  BY <1>1, <1>2, LoadFacts
<1>4. segments[i].vmaddr \in Nat /\ Slide \in Nat
  BY <1>1, SegmentFacts, SlideAligned
<1> DEFINE e == elf.loads[i].vaddr + elf.loads[i].memsz
<1>5. e \in Int
  BY <1>3
<1>6. e <= Align(e) /\ Align(e) \in Int
  BY <1>5, AlignFacts
<1>7. elf.loads[i].vaddr <= v /\ v < e
  BY DEF InLoad
<1> HIDE DEF e
<1>8. segments[i].vmaddr <= Slide + v /\ Slide + v \in Nat
  BY <1>2, <1>3, <1>4, <1>7
<1>9. End(segments[i]) = Slide + Align(e)
  BY <1>2 DEF End, e
<1>10. Slide + v < Slide + Align(e)
  BY <1>4, <1>5, <1>6, <1>7
<1> QED BY <1>8, <1>9, <1>10

\* A fixup that dyld refuses at the place of relocation j is outside the
\* writable loads.
TextReloc(j) ==
  \E i \in DOMAIN elf.loads :
    elf.relocs[j].offset \in FileWords(i) /\ (i = 1 \/ ~Flag(elf.loads[i].flags, 2))

\* The place of relocation j in the registers is its address in memory, and dyld
\* refuses it only outside the writable loads.
LEMMA AtPlace ==
  ASSUME TranslatorInv, pc = "done", Suits(lib), NEW j \in 1 .. k - 1,
         reg.seg = At(j).seg, reg.off = At(j).off
  PROVE  /\ dyld!Address = Slide + elf.relocs[j].offset
         /\ ~dyld!Fixable => TextReloc(j)
<1>1. /\ Phase3Inv /\ Placement /\ TypeOK /\ LayoutSound /\ LayoutProgress
      /\ FixupsExact /\ FixupsMatchRelocs
  BY DEF TranslatorInv, Phase3Inv, LoopInv
<1>2. j \in DOMAIN elf.relocs /\ Accepted(j)
  <2>1. elf.relocs \in Seq(Relocation) /\ k \in Nat /\ k - 1 <= Len(elf.relocs)
    BY <1>1 DEF TypeOK, WellFormed, Elf, FixupsMatchRelocs
  <2> QED BY <1>1, <2>1 DEF FixupsExact
<1> DEFINE v == elf.relocs[j].offset
<1>3. /\ v \in Nat /\ PlaceOf(At(j)) = Slide + v
  BY <1>1, <1>2, AtFacts
<1>4. PICK i \in DOMAIN segments : /\ i \in DOMAIN elf.loads /\ At(j).seg + 1 = i /\ InFile(i, v)
  BY <1>1, <1>2, AtFacts
<1> HIDE DEF v
<1>5. /\ elf.loads[i].vaddr \in Nat /\ elf.loads[i].filesz \in Nat /\ elf.loads[i].memsz \in Nat
      /\ elf.loads[i].filesz <= elf.loads[i].memsz
  BY <1>1, <1>4, LoadFacts
<1>6. InLoad(i, v) /\ v \in FileWords(i)
  BY <1>3, <1>4, <1>5 DEF InFile, InLoad, FileWords
<1>7. /\ lib.segments[i].vmaddr = segments[i].vmaddr
      /\ lib.segments[i].prot = segments[i].prot
  BY DEF Suits
<1>8. dyld!Seg = lib.segments[i]
  BY <1>4 DEF dyld!Seg
<1>9. dyld!Address = Slide + v
  BY <1>3, <1>4, <1>7, <1>8 DEF dyld!Address, PlaceOf
<1>10. /\ segments[i].vmaddr <= Slide + v /\ Slide + v < End(segments[i])
       /\ Slide + v \in Int
  BY <1>1, <1>3, <1>6, InSegment
<1>11. dyld!Covers(lib.segments[i], Slide + v)
  BY <1>1, <1>10, MapsTo
<1>12. ASSUME ~dyld!Fixable PROVE TextReloc(j)
  <2>1. "w" \notin segments[i].prot
    BY <1>7, <1>8, <1>9, <1>11, <1>12 DEF dyld!Fixable
  <2>2. segments[i].prot = IF i = 1 THEN {"r", "x"} ELSE MachProt(elf.loads[i].flags)
    BY <1>1 DEF Placement
  <2>3. i = 1 \/ ~Flag(elf.loads[i].flags, 2)
    BY <2>1, <2>2 DEF MachProt
  <2> QED BY <1>4, <1>6, <2>3 DEF TextReloc, v
<1> QED BY <1>9, <1>12 DEF v

-----------------------------------------------------------------------------
(* dyld's registers in the two programs.                                   *)

\* The registers while dyld runs the rebase program, and the bind program.
RebaseRegs ==
  /\ ip \in 1 .. 2 * Len(rebases) + 2
  /\ \A i \in DOMAIN rebases :
       ip = 2 * i + 1 => reg.seg = Locs[i].seg /\ reg.off = Locs[i].off

\* The registers while dyld runs the bind program.
BindRegs ==
  /\ ip \in 1 .. Len(BindStream)
  /\ NoAddends => reg.addend = 0
  /\ \A i \in DOMAIN bindings, start \in Nat :
       BlockAt(BindStream, start, BindOps(bindings[i])) => RegsAt(bindings[i], ip - start, reg)

\* dyld's registers at every opcode of the two programs.
RegInv ==
  /\ stage = "closed" => ip = 1 /\ reg = dyld!ClearRegisters
  /\ PageSeparated /\ stage # "closed" =>
       /\ reg \in Registers
       /\ stage = "rebase" => RebaseRegs
       /\ stage = "bind" => BindRegs
       /\ stage = "fault" => \E j \in DOMAIN elf.relocs : TextReloc(j)

\* The programs are functions of the translator's state.
LEMMA SameProgram ==
  ASSUME UNCHANGED vars
  PROVE  /\ Locs' = Locs /\ BindStream' = BindStream /\ NoAddends' = NoAddends
         /\ PageSeparated' = PageSeparated /\ \A j : TextReloc(j)' = TextReloc(j)
<1>1. /\ elf' = elf /\ segments' = segments /\ rebases' = rebases /\ bindings' = bindings
      /\ image' = image
  BY DEF vars
<1>2. BindStream' = BindStream
  BY <1>1, SameLists
<1>3. Locs' = Locs
  BY <1>1 DEF Locs, Sorted, UpTo
<1> QED BY <1>1, <1>2, <1>3 DEF NoAddends, PageSeparated, TextReloc, FileWords

\* dyld starts a program with clear registers.
LEMMA ProgramStart ==
  ASSUME Phase3Inv
  PROVE  /\ dyld!ClearRegisters \in Registers /\ dyld!ClearRegisters.addend = 0
         /\ 1 \in 1 .. 2 * Len(rebases) + 2 /\ 1 \in 1 .. Len(BindStream)
         /\ \A i \in DOMAIN rebases : 1 # 2 * i + 1
         /\ \A i \in DOMAIN bindings, start \in Nat :
              RegsAt(bindings[i], 1 - start, dyld!ClearRegisters)
<1>1. rebases \in Seq(Place) /\ bindings \in Seq(Binding)
  BY DEF Phase3Inv, TypeOK
<1>2. dyld!ClearRegisters \in Registers /\ dyld!ClearRegisters.addend = 0
  <2>1. dyld!ClearRegisters = [seg |-> 0, off |-> 0, symbol |-> "", addend |-> 0]
    BY DEF dyld!ClearRegisters
  <2>2. dyld!ClearRegisters \in Registers
    <3>1. PICK e : e = dyld!ClearRegisters.symbol
      OBVIOUS
    <3>2. e \in Names
      BY <3>1 DEF Names
    <3>3. dyld!ClearRegisters = [seg |-> 0, off |-> 0, symbol |-> e, addend |-> 0]
      BY <2>1, <3>1
    <3> QED BY <3>2, <3>3 DEF Registers
  <2>3. dyld!ClearRegisters.addend = 0
    BY <2>1
  <2> QED BY <2>2, <2>3
<1>3. 1 \in 1 .. 2 * Len(rebases) + 2 /\ \A i \in DOMAIN rebases : 1 # 2 * i + 1
  BY <1>1
<1>4. 1 \in 1 .. Len(BindStream)
  BY <1>1, BindOpcodes DEF BindProgram
<1>5. ASSUME NEW i \in DOMAIN bindings, NEW start \in Nat
      PROVE  RegsAt(bindings[i], 1 - start, dyld!ClearRegisters)
  <2>1. PICK n : n = Len(BindOps(bindings[i]))
    OBVIOUS
  <2>2. n = 3 \/ n = 4
    <3>1. bindings[i] \in Binding
      BY <1>1
    <3>2. n = IF bindings[i].addend # 0 THEN 4 ELSE 3
      BY <2>1, <3>1, BindOpsAre
    <3> QED BY <3>2
  <2>3. 1 - start \notin 2 .. n /\ 1 - start \notin 3 .. n /\ 1 - start # n
    BY <2>2
  <2> QED BY <2>1, <2>3 DEF RegsAt
<1> QED BY <1>2, <1>3, <1>4, <1>5

\* The place in the registers is that of a relocation.
LEMMA RebasePlace ==
  ASSUME TranslatorInv, pc = "done", NEW i \in DOMAIN rebases,
         reg.seg = Locs[i].seg, reg.off = Locs[i].off
  PROVE  \E j \in 1 .. k - 1 : /\ reg.seg = At(j).seg /\ reg.off = At(j).off /\ Internal(j)
                               /\ j \in DOMAIN elf.relocs
<1>1. Phase3Inv /\ FixupsExact /\ FixupsMatchRelocs /\ rebases \in Seq(Place)
  BY DEF TranslatorInv, Phase3Inv, LoopInv, TypeOK
<1>2. PICK m \in DOMAIN rebases : Locs[i] = rebases[m]
  BY <1>1, LocsFacts
<1>3. PICK j \in 1 .. k - 1 : RebaseFor(m, j)
  BY <1>1 DEF FixupsExact
<1>4. j \in DOMAIN elf.relocs
  <2>1. elf.relocs \in Seq(Relocation) /\ k \in Nat /\ k - 1 <= Len(elf.relocs)
    BY <1>1 DEF Phase3Inv, TypeOK, WellFormed, Elf, FixupsMatchRelocs
  <2> QED BY <2>1
<1> QED BY <1>2, <1>3, <1>4 DEF RebaseFor

\* At the bind of a binding's opcodes the registers hold the binding, but for an
\* addend left over.
LEMMA BindPlace ==
  ASSUME TranslatorInv, pc = "done", NEW i \in DOMAIN bindings, BindRegs, EndsBlock(i, ip)
  PROVE  /\ reg.seg = bindings[i].seg /\ reg.off = bindings[i].off
         /\ reg.symbol = bindings[i].symbol
         /\ bindings[i].addend # 0 \/ NoAddends => reg.addend = bindings[i].addend
         /\ \E j \in 1 .. k - 1 : /\ reg.seg = At(j).seg /\ reg.off = At(j).off
                                  /\ BindFor(i, j) /\ j \in DOMAIN elf.relocs
<1>1. Phase3Inv /\ FixupsExact /\ FixupsMatchRelocs /\ bindings \in Seq(Binding)
  BY DEF TranslatorInv, Phase3Inv, LoopInv, TypeOK
<1>2. PICK start \in Nat : /\ BlockAt(BindStream, start, BindOps(bindings[i]))
                           /\ ip - start = Len(BindOps(bindings[i]))
  BY DEF EndsBlock
<1>3. RegsAt(bindings[i], ip - start, reg)
  BY <1>2 DEF BindRegs
<1>4. PICK n : n = Len(BindOps(bindings[i]))
  OBVIOUS
<1>5. n = IF bindings[i].addend # 0 THEN 4 ELSE 3
  <2>1. bindings[i] \in Binding
    BY <1>1
  <2> QED BY <1>4, <2>1, BindOpsAre
<1>6. n \in 2 .. n /\ n \in 3 .. n
  BY <1>5
<1>7. /\ reg.seg = bindings[i].seg /\ reg.off = bindings[i].off
      /\ reg.symbol = bindings[i].symbol
      /\ bindings[i].addend # 0 => reg.addend = bindings[i].addend
  BY <1>2, <1>3, <1>4, <1>6 DEF RegsAt
<1>8. NoAddends => reg.addend = bindings[i].addend
  BY DEF BindRegs, NoAddends
<1>9. PICK j \in 1 .. k - 1 : BindFor(i, j)
  BY <1>1 DEF FixupsExact
<1>10. j \in DOMAIN elf.relocs
  <2>1. elf.relocs \in Seq(Relocation) /\ k \in Nat /\ k - 1 <= Len(elf.relocs)
    BY <1>1 DEF Phase3Inv, TypeOK, WellFormed, Elf, FixupsMatchRelocs
  <2> QED BY <2>1
<1> QED BY <1>7, <1>8, <1>9, <1>10 DEF BindFor

\* An opcode of the rebase program keeps the registers as they should be.
LEMMA RegRebaseStep ==
  ASSUME TranslatorInv, pc = "done", Suits(lib), UNCHANGED vars, dyld!Rebase, PageSeparated,
         reg \in Registers, RebaseRegs
  PROVE  RegInv'
<1>1. Phase3Inv /\ rebases \in Seq(Place) /\ DOMAIN rebases = 1 .. Len(rebases)
      /\ Len(rebases) \in Nat /\ lib.rebase = RebaseStream
  BY DEF TranslatorInv, Phase3Inv, TypeOK, Suits
<1>2. PICK n : n = Len(rebases)
  OBVIOUS
<1>3. /\ elf' = elf /\ rebases' = rebases /\ bindings' = bindings /\ Locs' = Locs
      /\ BindStream' = BindStream /\ NoAddends' = NoAddends
      /\ PageSeparated' = PageSeparated /\ \A j : TextReloc(j)' = TextReloc(j)
  BY SameProgram DEF vars
<1>4. \A i \in DOMAIN rebases : Locs[i].seg \in Nat /\ Locs[i].off \in Nat
  BY <1>1, LocsFacts
<1>5. /\ ip \in 1 .. 2 * n + 2
      /\ \A i \in DOMAIN rebases :
           ip = 2 * i + 1 => reg.seg = Locs[i].seg /\ reg.off = Locs[i].off
  BY <1>2 DEF RebaseRegs
<1>6. CASE ip = 1 /\ ip' = 2 /\ stage' = "rebase" /\ mem' = mem /\ reg' = reg
  <2>1. ip' \in 1 .. 2 * n + 2 /\ \A i \in DOMAIN rebases : ip' # 2 * i + 1
    BY <1>1, <1>2, <1>6
  <2>2. RebaseRegs'
    BY <1>2, <1>3, <2>1 DEF RebaseRegs
  <2> QED BY <1>6, <2>2 DEF RegInv
<1>7. CASE \E i \in DOMAIN rebases :
              /\ ip = 2 * i /\ ip' = 2 * i + 1 /\ stage' = "rebase" /\ mem' = mem
              /\ reg' = [reg EXCEPT !.seg = Locs[i].seg, !.off = Locs[i].off]
  <2>1. PICK i \in DOMAIN rebases :
              /\ ip = 2 * i /\ ip' = 2 * i + 1 /\ stage' = "rebase" /\ mem' = mem
              /\ reg' = [reg EXCEPT !.seg = Locs[i].seg, !.off = Locs[i].off]
    BY <1>7
  <2>2. reg' \in Registers /\ reg'.seg = Locs[i].seg /\ reg'.off = Locs[i].off
    BY <1>4, <2>1 DEF Registers
  <2>3. ip' \in 1 .. 2 * n + 2 /\ \A j \in DOMAIN rebases : ip' = 2 * j + 1 => j = i
    BY <1>1, <1>2, <2>1
  <2>4. RebaseRegs'
    BY <1>2, <1>3, <2>2, <2>3 DEF RebaseRegs
  <2> QED BY <2>1, <2>2, <2>4 DEF RegInv
<1>8. CASE \E i \in DOMAIN rebases :
              /\ ip = 2 * i + 1 /\ stage' = "fault" /\ ~dyld!Fixable
              /\ mem' = mem /\ ip' = ip /\ reg' = reg
  <2>1. PICK i \in DOMAIN rebases :
              /\ ip = 2 * i + 1 /\ stage' = "fault" /\ ~dyld!Fixable
              /\ mem' = mem /\ ip' = ip /\ reg' = reg
    BY <1>8
  <2>2. reg.seg = Locs[i].seg /\ reg.off = Locs[i].off
    BY <1>5, <2>1
  <2>3. PICK j \in 1 .. k - 1 : /\ reg.seg = At(j).seg /\ reg.off = At(j).off
                                /\ j \in DOMAIN elf.relocs
    BY <2>2, RebasePlace
  <2>4. TextReloc(j)
    BY <2>1, <2>3, AtPlace
  <2> QED BY <1>3, <2>1, <2>3, <2>4 DEF RegInv
<1>9. CASE \E i \in DOMAIN rebases :
              /\ ip = 2 * i + 1 /\ ip' = 2 * i + 2 /\ stage' = "rebase"
              /\ reg' = [reg EXCEPT !.off = @ + 1]
              /\ mem' = [mem EXCEPT ![dyld!Address] = Word(@ + base)]
  <2>1. PICK i \in DOMAIN rebases :
              /\ ip = 2 * i + 1 /\ ip' = 2 * i + 2 /\ stage' = "rebase"
              /\ reg' = [reg EXCEPT !.off = @ + 1]
    BY <1>9
  <2>2. reg' \in Registers
    BY <2>1 DEF Registers
  <2>3. ip' \in 1 .. 2 * n + 2 /\ \A j \in DOMAIN rebases : ip' # 2 * j + 1
    BY <1>1, <1>2, <2>1
  <2>4. RebaseRegs'
    BY <1>2, <1>3, <2>3 DEF RebaseRegs
  <2> QED BY <2>1, <2>2, <2>4 DEF RegInv
<1>10. CASE /\ ip = 2 * Len(rebases) + 2 /\ ip' = 1 /\ stage' = "bind"
            /\ reg' = dyld!ClearRegisters /\ mem' = mem
  <2>1. PICK g : g = dyld!ClearRegisters
    OBVIOUS
  <2>2. /\ g \in Registers /\ g.addend = 0 /\ 1 \in 1 .. Len(BindStream)
        /\ \A i \in DOMAIN bindings, start \in Nat : RegsAt(bindings[i], 1 - start, g)
    BY <1>1, <2>1, ProgramStart
  <2>3. reg' = g /\ ip' = 1
    BY <1>10, <2>1
  <2>4. BindRegs'
    BY <1>3, <2>2, <2>3 DEF BindRegs, RegsAt
  <2> QED BY <1>10, <2>2, <2>3, <2>4 DEF RegInv
<1> QED BY <1>1, <1>2, <1>5, <1>6, <1>7, <1>8, <1>9, <1>10, RebaseCases

\* An opcode of the bind program keeps the registers as they should be.
LEMMA RegBindStep ==
  ASSUME TranslatorInv, pc = "done", Suits(lib), UNCHANGED vars, dyld!Bind, PageSeparated,
         reg \in Registers, BindRegs
  PROVE  RegInv'
<1>1. /\ Phase3Inv /\ bindings \in Seq(Binding) /\ lib.bind = BindStream
      /\ ip \in 1 .. Len(BindStream)
  BY DEF TranslatorInv, Phase3Inv, TypeOK, Suits, BindRegs
<1>3. /\ elf' = elf /\ rebases' = rebases /\ bindings' = bindings
      /\ BindStream' = BindStream /\ NoAddends' = NoAddends
      /\ PageSeparated' = PageSeparated /\ \A j : TextReloc(j)' = TextReloc(j)
  BY SameProgram DEF vars
<1>4. CASE /\ ip = Len(BindStream) /\ ip' = 1 /\ stage' = "loaded" /\ mem' = mem
           /\ reg' = dyld!ClearRegisters
  <2>1. dyld!ClearRegisters \in Registers
    BY <1>1, ProgramStart
  <2> QED BY <1>4, <2>1 DEF RegInv
<1>5. CASE /\ stage' = "fault" /\ ~dyld!Fixable /\ reg' = reg
           /\ \E i \in DOMAIN bindings : EndsBlock(i, ip)
  <2>1. PICK i \in DOMAIN bindings : EndsBlock(i, ip)
    BY <1>5
  <2>2. PICK j \in 1 .. k - 1 : /\ reg.seg = At(j).seg /\ reg.off = At(j).off
                                /\ j \in DOMAIN elf.relocs
    BY <2>1, BindPlace
  <2>3. TextReloc(j)
    BY <1>5, <2>2, AtPlace
  <2> QED BY <1>3, <1>5, <2>2, <2>3 DEF RegInv
<1>6. CASE /\ ip' = ip + 1 /\ ip + 1 \in 1 .. Len(BindStream) /\ stage' = "bind"
           /\ reg' \in Registers /\ Effect(BindStream[ip], reg, reg')
           /\ NoAddends => reg'.addend = reg.addend
  <2>1. PICK r, g, p : r = BindStream /\ g = reg' /\ p = ip
    OBVIOUS
  <2>2. p \in Int /\ ip' = p + 1 /\ p + 1 \in 1 .. Len(r)
    BY <1>1, <1>6, <2>1
  <2>3. NoAddends => g.addend = 0
    BY <1>6, <2>1 DEF BindRegs
  <2>4. ASSUME NEW i \in DOMAIN bindings, NEW start \in Nat,
               BlockAt(r, start, BindOps(bindings[i]))
        PROVE  RegsAt(bindings[i], (p + 1) - start, g)
    <3>1. PICK b, x : b = bindings[i] /\ x = p - start
      OBVIOUS
    <3>2. b \in Binding /\ x \in Int /\ RegsAt(b, x, reg)
      BY <1>1, <2>1, <2>2, <2>4, <3>1 DEF BindRegs
    <3>3. x \in 1 .. Len(BindOps(b)) => r[p] = BindOps(b)[x]
      <4> SUFFICES ASSUME x \in 1 .. Len(BindOps(b)) PROVE r[p] = BindOps(b)[x]
        OBVIOUS
      <4>1. p = start + x
        BY <2>2, <3>1
      <4> QED BY <2>4, <3>1, <4>1 DEF BlockAt
    <3>4. PICK o, f : o = r[p] /\ f = reg
      OBVIOUS
    <3>5. Effect(o, f, g) /\ RegsAt(b, x, f)
      BY <1>6, <2>1, <3>2, <3>4
    <3>6. RegsAt(b, x + 1, g)
      BY <3>2, <3>3, <3>4, <3>5, RegsGoOn
    <3>7. x + 1 = (p + 1) - start
      BY <2>2, <3>1
    <3> QED BY <3>1, <3>6, <3>7
  <2>5. BindRegs'
    BY <1>3, <2>1, <2>2, <2>3, <2>4 DEF BindRegs, RegsAt
  <2> QED BY <1>6, <2>5 DEF RegInv
<1> QED BY <1>1, <1>4, <1>5, <1>6, BindCases

\* Every step keeps the registers as they should be.
LEMMA RegStep ==
  ASSUME TranslatorInv, Rewritten, LibInv, RegInv, [Next4]_vars4
  PROVE  RegInv'
<1>1. CASE UNCHANGED dyldVars /\ (stage # "closed" => UNCHANGED vars)
  <2>1. stage' = stage /\ ip' = ip /\ reg' = reg
    BY <1>1 DEF dyldVars
  <2>2. CASE stage = "closed"
    BY <2>1, <2>2 DEF RegInv
  <2>3. CASE stage # "closed"
    <3>1. /\ elf' = elf /\ rebases' = rebases /\ bindings' = bindings /\ Locs' = Locs
          /\ BindStream' = BindStream /\ NoAddends' = NoAddends
          /\ PageSeparated' = PageSeparated /\ \A j : TextReloc(j)' = TextReloc(j)
      BY <1>1, <2>3, SameProgram DEF vars
    <3>2. RebaseRegs' = RebaseRegs
      BY <2>1, <3>1 DEF RebaseRegs
    <3>3. BindRegs' = BindRegs
      BY <2>1, <3>1 DEF BindRegs, RegsAt
    <3> QED BY <2>1, <2>3, <3>1, <3>2, <3>3 DEF RegInv
  <2> QED BY <2>2, <2>3
<1>2. CASE /\ UNCHANGED vars /\ pc = "done"
           /\ \E d : dyld!Open(d) /\ (PageSeparated => Suits(d))
  <2>1. stage = "closed" /\ stage' = "rebase" /\ ip' = ip /\ reg' = reg
    BY <1>2 DEF dyld!Open
  <2>2. ip' = 1 /\ reg' = dyld!ClearRegisters
    BY <2>1 DEF RegInv
  <2>3. /\ dyld!ClearRegisters \in Registers
        /\ 1 \in 1 .. 2 * Len(rebases) + 2
        /\ \A i \in DOMAIN rebases : 1 # 2 * i + 1
    BY ProgramStart DEF TranslatorInv
  <2>4. rebases' = rebases
    BY <1>2 DEF vars
  <2>5. RebaseRegs'
    BY <2>2, <2>3, <2>4 DEF RebaseRegs
  <2> QED BY <2>1, <2>2, <2>3, <2>5 DEF RegInv
<1>3. CASE UNCHANGED vars /\ dyld!Next
  <2>1. stage # "closed"
    BY <1>3 DEF dyld!Next, dyld!Rebase, dyld!Bind
  <2>2. CASE ~PageSeparated
    <3>1. ~PageSeparated'
      BY <1>3, <2>2, SameProgram
    <3>2. stage' # "closed"
      BY <1>3 DEF dyld!Next, dyld!Rebase, dyld!Bind, dyld!Step
    <3> QED BY <3>1, <3>2 DEF RegInv
  <2>3. CASE PageSeparated
    <3>1. pc = "done" /\ Suits(lib) /\ reg \in Registers
      BY <2>1, <2>3 DEF LibInv, RegInv
    <3>2. CASE dyld!Rebase
      <4>1. RebaseRegs
        BY <2>3, <3>2 DEF RegInv, dyld!Rebase
      <4> QED BY <1>3, <2>3, <3>1, <3>2, <4>1, RegRebaseStep
    <3>3. CASE dyld!Bind
      <4>1. BindRegs
        BY <2>3, <3>3 DEF RegInv, dyld!Bind
      <4> QED BY <1>3, <2>3, <3>1, <3>3, <4>1, RegBindStep
    <3> QED BY <1>3, <3>2, <3>3 DEF dyld!Next
  <2> QED BY <2>2, <2>3
<1> QED BY <1>1, <1>2, <1>3, DyldSteps

-----------------------------------------------------------------------------
(* The memory that dyld leaves.                                            *)

\* The pointer dyld maps at an address, and what it has slid before opcode p of
\* the rebase program and in the end.
Mapped(a)     == dyld!MappedWord(lib, a)
Rebased(a, p) == \E i \in DOMAIN rebases : 2 * i + 1 < p /\ PlaceOf(Locs[i]) = a
Slid(a)       == \E i \in DOMAIN rebases : PlaceOf(rebases[i]) = a
SlidWord(a)   == IF Slid(a) THEN Word(Mapped(a) + base) ELSE Mapped(a)

\* Binding i is done, unless an addend of another one is left in the registers.
Bound(i) ==
  bindings[i].addend # 0 \/ NoAddends =>
    mem[PlaceOf(bindings[i])] = Word(SymbolAddress[bindings[i].symbol] + bindings[i].addend)

\* Every word that no binding is for is as the rebase program left it.
Elsewhere ==
  \A a \in DOMAIN mem :
    (\A i \in DOMAIN bindings : PlaceOf(bindings[i]) # a) => mem[a] = SlidWord(a)

\* The memory while dyld runs the rebase program: the places passed are slid,
\* once.
MemRebase ==
  \A a \in DOMAIN mem :
    mem[a] = IF Rebased(a, ip) THEN Word(Mapped(a) + base) ELSE Mapped(a)

\* The memory while dyld runs the bind program: the bindings passed are done.
MemBind ==
  /\ Elsewhere
  /\ \A i \in DOMAIN bindings, start \in Nat :
       /\ BlockAt(BindStream, start, BindOps(bindings[i]))
       /\ ip - start > Len(BindOps(bindings[i]))
       => Bound(i)

\* The memory at the end.
MemLoaded == Elsewhere /\ \A i \in DOMAIN bindings : Bound(i)

\* The loaded memory, opcode by opcode.
MemInv ==
  Plain /\ stage # "closed" =>
    /\ DOMAIN mem = 0 .. End(lib.segments[Len(segments) + 1]) - 1 /\ base \in Nat
    /\ stage = "rebase" => MemRebase
    /\ stage = "bind" => MemBind
    /\ stage = "loaded" => MemLoaded

\* What the memory should be is a function of the dylib and the load address.
LEMMA SameMemory ==
  ASSUME UNCHANGED vars, lib' = lib, base' = base
  PROVE  /\ \A a : Mapped(a)' = Mapped(a) /\ Slid(a)' = Slid(a) /\ SlidWord(a)' = SlidWord(a)
         /\ \A a, p : Rebased(a, p)' = Rebased(a, p)
         /\ \A i : PlaceOf(bindings[i])' = PlaceOf(bindings[i])
         /\ Plain' = Plain
<1>1. elf' = elf /\ segments' = segments /\ rebases' = rebases /\ bindings' = bindings /\ Locs' = Locs
  BY SameProgram DEF vars
<1>2. ASSUME NEW a PROVE Mapped(a)' = Mapped(a)
  BY DEF Mapped
<1>3. ASSUME NEW a PROVE Slid(a)' = Slid(a)
  BY <1>1 DEF Slid, PlaceOf
<1>4. ASSUME NEW a PROVE SlidWord(a)' = SlidWord(a)
  BY <1>2, <1>3 DEF SlidWord
<1>5. ASSUME NEW a, NEW p PROVE Rebased(a, p)' = Rebased(a, p)
  BY <1>1 DEF Rebased, PlaceOf
<1>6. \A i : PlaceOf(bindings[i])' = PlaceOf(bindings[i])
  BY <1>1 DEF PlaceOf
<1>7. Plain' = Plain
  BY <1>1 DEF Plain, PageSeparated, PlacesApart
<1> QED BY <1>2, <1>3, <1>4, <1>5, <1>6, <1>7

\* The memory holds every load.
LEMMA LoadInMemory ==
  ASSUME TranslatorInv, pc = "done", Suits(lib), NEW i \in DOMAIN segments, NEW v \in Int,
         InLoad(i, v)
  PROVE  Slide + v \in 0 .. End(lib.segments[Len(segments) + 1]) - 1
<1> DEFINE n == Len(segments)
<1>1. Phase3Inv /\ TypeOK /\ segments \in Seq(Segment)
  BY DEF TranslatorInv, Phase3Inv, TypeOK
<1>2. n \in Nat /\ i \in 1 .. n + 1 /\ n + 1 \in 1 .. n + 1 /\ i < n + 1
  BY <1>1
<1>3. Slide + v < End(segments[i]) /\ Slide + v \in Nat
  BY <1>1, InSegment
<1>4. /\ End(segments[i]) <= End(lib.segments[i])
      /\ End(lib.segments[i]) <= lib.segments[n + 1].vmaddr
      /\ lib.segments[n + 1].vmaddr \in Nat /\ lib.segments[n + 1].vmsize \in Nat
      /\ lib.segments[i].vmaddr \in Nat /\ lib.segments[i].vmsize \in Nat
  BY <1>2 DEF Suits
<1>5. segments[i].vmaddr \in Nat /\ segments[i].vmsize \in Nat
  BY <1>1, SegmentFacts
<1>6. End(segments[i]) \in Nat /\ End(lib.segments[i]) \in Nat
  <2>1. End(segments[i]) \in Nat
    BY <1>5 DEF End
  <2>2. End(lib.segments[i]) \in Nat
    BY <1>4 DEF End
  <2> QED BY <2>1, <2>2
<1>7. End(lib.segments[n + 1]) = lib.segments[n + 1].vmaddr + lib.segments[n + 1].vmsize
  BY DEF End
<1> HIDE DEF n
<1>8. Slide + v < End(lib.segments[n + 1]) /\ End(lib.segments[n + 1]) \in Nat
  BY <1>3, <1>4, <1>6, <1>7
<1> QED BY <1>3, <1>8 DEF n

\* Bindings of one place are bindings of one relocation.
LEMMA SamePlaceSameBinding ==
  ASSUME TranslatorInv, pc = "done", Plain, NEW a \in DOMAIN bindings, NEW b \in DOMAIN bindings,
         PlaceOf(bindings[a]) = PlaceOf(bindings[b])
  PROVE  bindings[a].symbol = bindings[b].symbol /\ bindings[a].addend = bindings[b].addend
<1>1. /\ Phase3Inv /\ FixupsExact /\ FixupsMatchRelocs /\ PlacesApart
  BY DEF TranslatorInv, Phase3Inv, LoopInv, Plain
<1>2. \A j \in 1 .. k - 1 : j \in DOMAIN elf.relocs /\ Accepted(j)
  <2>1. elf.relocs \in Seq(Relocation) /\ k \in Nat /\ k - 1 <= Len(elf.relocs)
    BY <1>1 DEF Phase3Inv, TypeOK, WellFormed, Elf, FixupsMatchRelocs
  <2> QED BY <1>1, <2>1 DEF FixupsExact
<1>3. PICK i \in 1 .. k - 1 : BindFor(a, i)
  BY <1>1 DEF FixupsExact
<1>4. PICK j \in 1 .. k - 1 : BindFor(b, j)
  BY <1>1 DEF FixupsExact
<1>5. /\ PlaceOf(At(i)) = Slide + elf.relocs[i].offset /\ elf.relocs[i].offset \in Nat
      /\ PlaceOf(At(j)) = Slide + elf.relocs[j].offset /\ elf.relocs[j].offset \in Nat
  BY <1>1, <1>2, AtFacts
<1>6. PlaceOf(bindings[a]) = PlaceOf(At(i)) /\ PlaceOf(bindings[b]) = PlaceOf(At(j))
  BY <1>3, <1>4 DEF BindFor, PlaceOf
<1>7. elf.relocs[i].offset = elf.relocs[j].offset
  <2>1. Slide + elf.relocs[i].offset = Slide + elf.relocs[j].offset
    BY <1>5, <1>6
  <2>2. ASSUME NEW x \in Nat, NEW y \in Nat, NEW s \in Nat, s + x = s + y PROVE x = y
    BY <2>2
  <2> QED BY <1>5, <2>1, <2>2, SlideAligned
<1>8. i = j
  BY <1>1, <1>2, <1>7 DEF PlacesApart
<1> QED BY <1>3, <1>4, <1>8 DEF BindFor

\* The last segment of a dylib is the end of its memory.
LEMMA TopIsLast ==
  ASSUME Phase3Inv, NEW d, Suits(d)
  PROVE  dyld!Max({s.vmaddr + s.vmsize : s \in dyld!Range(d.segments)})
           = End(d.segments[Len(segments) + 1])
<1> DEFINE n == Len(segments)
           T == {s.vmaddr + s.vmsize : s \in dyld!Range(d.segments)}
           m == End(d.segments[n + 1])
<1>1. n \in Nat
  BY DEF Phase3Inv, TypeOK
<1>2. /\ DOMAIN d.segments = 1 .. n + 1
      /\ \A i \in 1 .. n + 1 : d.segments[i].vmaddr \in Nat /\ d.segments[i].vmsize \in Nat
      /\ \A i, j \in 1 .. n + 1 : i < j => End(d.segments[i]) <= d.segments[j].vmaddr
  BY DEF Suits
<1> HIDE DEF n
<1>3. \A i \in 1 .. n + 1 : End(d.segments[i]) \in Nat
  BY <1>2 DEF End
<1>4. dyld!Range(d.segments) = {d.segments[i] : i \in 1 .. n + 1}
  BY <1>2 DEF dyld!Range
<1>5. T = {End(d.segments[i]) : i \in 1 .. n + 1}
  BY <1>4 DEF End
<1>6. n + 1 \in 1 .. n + 1 /\ \A i \in 1 .. n + 1 : i = n + 1 \/ i < n + 1
  BY <1>1
<1>7. \A i \in 1 .. n + 1 : End(d.segments[i]) <= m
  <2> TAKE i \in 1 .. n + 1
  <2>1. CASE i = n + 1
    BY <1>3, <2>1
  <2>2. CASE i < n + 1
    <3>1. End(d.segments[i]) <= d.segments[n + 1].vmaddr
      BY <1>2, <1>6, <2>2
    <3>2. d.segments[n + 1].vmaddr \in Nat /\ d.segments[n + 1].vmsize \in Nat
      BY <1>2, <1>6
    <3>3. d.segments[n + 1].vmaddr <= m
      BY <3>2 DEF End
    <3> QED BY <1>3, <1>6, <3>1, <3>2, <3>3
  <2> QED BY <1>6, <2>1, <2>2
<1>8. T \in SUBSET Int /\ m \in T /\ \A x \in T : x <= m
  BY <1>3, <1>5, <1>6, <1>7
<1> HIDE DEF T, m
<1>9. Max(T) = m
  BY <1>8, MaxIs
<1>10. dyld!Max(T) = Max(T)
  BY DEF dyld!Max, Max
<1> QED BY <1>9, <1>10 DEF T, m, n

\* Opening a dylib maps it.
LEMMA MemOpen ==
  ASSUME Phase3Inv, UNCHANGED vars, NEW d, dyld!Open(d), Plain => Suits(d), ip = 1
  PROVE  MemInv'
<1>1. /\ stage' = "rebase" /\ base' \in Bases /\ lib' = d /\ ip' = 1
      /\ mem' = [a \in 0 .. dyld!Max({s.vmaddr + s.vmsize : s \in dyld!Range(d.segments)}) - 1
                   |-> dyld!MappedWord(d, a)]
  BY DEF dyld!Open
<1>2. /\ segments' = segments /\ rebases' = rebases /\ elf' = elf
  BY DEF vars
<1>3. Plain' = Plain
  BY <1>2 DEF Plain, PageSeparated, PlacesApart
<1> SUFFICES ASSUME Plain PROVE MemInv'
  BY <1>3 DEF MemInv
<1>4. PICK e : e = End(d.segments[Len(segments) + 1])
  OBVIOUS
<1>5. dyld!Max({s.vmaddr + s.vmsize : s \in dyld!Range(d.segments)}) = e
  BY <1>4, TopIsLast
<1>6. DOMAIN mem' = 0 .. e - 1 /\ \A a \in 0 .. e - 1 : mem'[a] = dyld!MappedWord(d, a)
  BY <1>1, <1>5
<1>7. End(lib.segments[Len(segments) + 1])' = e
  BY <1>1, <1>2, <1>4 DEF End
<1>8. ASSUME NEW a PROVE ~Rebased(a, 1)' /\ Mapped(a)' = dyld!MappedWord(d, a)
  <2>1. rebases \in Seq(Place)
    BY DEF Phase3Inv, TypeOK
  <2>2. \A i \in DOMAIN rebases : ~(2 * i + 1 < 1)
    BY <2>1
  <2> QED BY <1>1, <1>2, <2>2 DEF Rebased, Mapped
<1>9. MemRebase'
  BY <1>1, <1>6, <1>8 DEF MemRebase
<1>10. base' \in Nat
  BY <1>1, BasesAssumption
<1> QED BY <1>1, <1>6, <1>7, <1>9, <1>10 DEF MemInv

\* The positions in front of which a place has been rebased.
LEMMA RebasedNext ==
  ASSUME rebases \in Seq(Place), NEW a, NEW i \in DOMAIN rebases
  PROVE  /\ Rebased(a, 2 * i + 1) = Rebased(a, 2 * i)
         /\ Rebased(a, 2 * i + 2) <=> Rebased(a, 2 * i + 1) \/ PlaceOf(Locs[i]) = a
         /\ RebasesApart => ~Rebased(PlaceOf(Locs[i]), 2 * i + 1)
<1>1. DOMAIN rebases = 1 .. Len(rebases) /\ Len(rebases) \in Nat
  OBVIOUS
<1>2. \A j \in DOMAIN rebases : 2 * j + 1 < 2 * i + 1 <=> 2 * j + 1 < 2 * i
  BY <1>1
<1>3. \A j \in DOMAIN rebases : 2 * j + 1 < 2 * i + 2 <=> (2 * j + 1 < 2 * i + 1 \/ j = i)
  BY <1>1
<1>4. Rebased(a, 2 * i + 1) = Rebased(a, 2 * i)
  BY <1>2 DEF Rebased
<1>5. Rebased(a, 2 * i + 2) <=> Rebased(a, 2 * i + 1) \/ PlaceOf(Locs[i]) = a
  BY <1>3 DEF Rebased
<1>6. RebasesApart => ~Rebased(PlaceOf(Locs[i]), 2 * i + 1)
  <2> SUFFICES ASSUME RebasesApart, NEW j \in DOMAIN rebases, 2 * j + 1 < 2 * i + 1,
                      PlaceOf(Locs[j]) = PlaceOf(Locs[i])
               PROVE  FALSE
    BY DEF Rebased
  <2>1. j # i
    BY <1>1
  <2> QED BY <2>1, LocsFacts
<1> QED BY <1>4, <1>5, <1>6

\* Before the first place none has been rebased, behind the last one all have.
LEMMA RebasedEnds ==
  ASSUME rebases \in Seq(Place), NEW a
  PROVE  /\ ~Rebased(a, 1) /\ ~Rebased(a, 2)
         /\ Rebased(a, 2 * Len(rebases) + 2) = Slid(a)
<1>1. DOMAIN rebases = 1 .. Len(rebases) /\ Len(rebases) \in Nat
  OBVIOUS
<1>2. \A j \in DOMAIN rebases : /\ ~(2 * j + 1 < 1) /\ ~(2 * j + 1 < 2)
                                /\ 2 * j + 1 < 2 * Len(rebases) + 2
  BY <1>1
<1>3. /\ \A i \in DOMAIN rebases : \E j \in DOMAIN rebases : Locs[i] = rebases[j]
      /\ \A j \in DOMAIN rebases : \E i \in DOMAIN rebases : Locs[i] = rebases[j]
  BY LocsFacts
<1>4. Rebased(a, 2 * Len(rebases) + 2) => Slid(a)
  BY <1>3 DEF Rebased, Slid
<1>5. Slid(a) => Rebased(a, 2 * Len(rebases) + 2)
  BY <1>2, <1>3 DEF Rebased, Slid
<1>6. ~Rebased(a, 1) /\ ~Rebased(a, 2)
  BY <1>2 DEF Rebased
<1>7. Rebased(a, 2 * Len(rebases) + 2) \in BOOLEAN /\ Slid(a) \in BOOLEAN
  BY DEF Rebased, Slid
<1> QED BY <1>4, <1>5, <1>6, <1>7

\* An opcode of the rebase program.
LEMMA MemRebaseStep ==
  ASSUME TranslatorInv, pc = "done", Suits(lib), UNCHANGED vars, dyld!Rebase, Plain,
         RebaseRegs, MemRebase,
         DOMAIN mem = 0 .. End(lib.segments[Len(segments) + 1]) - 1, base \in Nat
  PROVE  MemInv'
<1>0. PICK n, e : n = Len(rebases) /\ e = End(lib.segments[Len(segments) + 1])
  OBVIOUS
<1>1. /\ Phase3Inv /\ rebases \in Seq(Place) /\ lib.rebase = RebaseStream
      /\ ip \in 1 .. 2 * n + 2 /\ RebasesApart /\ DOMAIN mem = 0 .. e - 1
  BY <1>0 DEF TranslatorInv, Phase3Inv, TypeOK, Suits, RebaseRegs, LoopInv, Plain
<1>2. lib' = lib /\ base' = base /\ stage = "rebase"
  BY DEF dyld!Rebase
<1>3. /\ \A a : Mapped(a)' = Mapped(a) /\ Slid(a)' = Slid(a) /\ SlidWord(a)' = SlidWord(a)
      /\ \A a, p : Rebased(a, p)' = Rebased(a, p)
  BY <1>2, SameMemory
<1>4. /\ segments' = segments /\ bindings' = bindings
      /\ End(lib.segments[Len(segments) + 1])' = e
  BY <1>0, <1>2 DEF vars, End
<1>5. \A a \in 0 .. e - 1 : mem[a] = IF Rebased(a, ip) THEN Word(Mapped(a) + base) ELSE Mapped(a)
  BY <1>1 DEF MemRebase
<1>6. CASE ip = 1 /\ ip' = 2 /\ stage' = "rebase" /\ mem' = mem /\ reg' = reg
  <2>1. \A a : ~Rebased(a, 1) /\ ~Rebased(a, 2)
    BY <1>1, RebasedEnds
  <2>2. MemRebase'
    BY <1>1, <1>2, <1>3, <1>5, <1>6, <2>1 DEF MemRebase
  <2> QED BY <1>1, <1>2, <1>4, <1>6, <2>2 DEF MemInv
<1>7. CASE \E i \in DOMAIN rebases :
              /\ ip = 2 * i /\ ip' = 2 * i + 1 /\ stage' = "rebase" /\ mem' = mem
              /\ reg' = [reg EXCEPT !.seg = Locs[i].seg, !.off = Locs[i].off]
  <2>1. PICK i \in DOMAIN rebases :
          ip = 2 * i /\ ip' = 2 * i + 1 /\ stage' = "rebase" /\ mem' = mem
    BY <1>7
  <2>2. \A a : Rebased(a, 2 * i + 1) = Rebased(a, 2 * i)
    BY <1>1, RebasedNext
  <2>3. MemRebase'
    BY <1>1, <1>2, <1>3, <1>5, <2>1, <2>2 DEF MemRebase
  <2> QED BY <1>1, <1>2, <1>4, <2>1, <2>3 DEF MemInv
<1>8. CASE \E i \in DOMAIN rebases :
              /\ ip = 2 * i + 1 /\ stage' = "fault" /\ ~dyld!Fixable
              /\ mem' = mem /\ ip' = ip /\ reg' = reg
  BY <1>1, <1>2, <1>4, <1>8 DEF MemInv
<1>9. CASE \E i \in DOMAIN rebases :
              /\ ip = 2 * i + 1 /\ ip' = 2 * i + 2 /\ stage' = "rebase"
              /\ reg' = [reg EXCEPT !.off = @ + 1]
              /\ mem' = [mem EXCEPT ![dyld!Address] = Word(@ + base)]
  <2>1. PICK i \in DOMAIN rebases :
              /\ ip = 2 * i + 1 /\ ip' = 2 * i + 2 /\ stage' = "rebase"
              /\ mem' = [mem EXCEPT ![dyld!Address] = Word(@ + base)]
    BY <1>9
  <2>2. reg.seg = Locs[i].seg /\ reg.off = Locs[i].off
    BY <2>1 DEF RebaseRegs
  <2>3. PICK at : at = dyld!Address
    OBVIOUS
  <2>4. at = PlaceOf(Locs[i])
    <3>1. PICK j \in 1 .. k - 1 : /\ reg.seg = At(j).seg /\ reg.off = At(j).off
                                  /\ j \in DOMAIN elf.relocs
      BY <2>2, RebasePlace
    <3>2. at = Slide + elf.relocs[j].offset
      BY <2>3, <3>1, AtPlace
    <3>3. Accepted(j)
      BY DEF TranslatorInv, LoopInv, FixupsExact
    <3>4. PlaceOf(At(j)) = Slide + elf.relocs[j].offset
      BY <1>1, <3>1, <3>3, AtFacts
    <3>5. PlaceOf(At(j)) = PlaceOf(Locs[i])
      BY <2>2, <3>1 DEF PlaceOf
    <3> QED BY <3>2, <3>4, <3>5
  <2>5. DOMAIN mem' = 0 .. e - 1
    BY <1>1, <2>1
  <2>6. ASSUME NEW a \in 0 .. e - 1
        PROVE  mem'[a] = IF Rebased(a, 2 * i + 2) THEN Word(Mapped(a) + base) ELSE Mapped(a)
    <3>1. CASE a = at
      <4>1. ~Rebased(a, 2 * i + 1) /\ Rebased(a, 2 * i + 2)
        BY <1>1, <2>4, <3>1, RebasedNext
      <4>2. mem[a] = Mapped(a)
        BY <1>5, <2>1, <4>1
      <4>3. mem'[a] = Word(mem[a] + base)
        BY <1>1, <2>1, <2>3, <3>1
      <4> QED BY <4>1, <4>2, <4>3
    <3>2. CASE a # at
      <4>1. Rebased(a, 2 * i + 2) <=> Rebased(a, 2 * i + 1)
        BY <1>1, <2>4, <3>2, RebasedNext
      <4>2. mem'[a] = mem[a]
        BY <1>1, <2>1, <2>3, <3>2
      <4> QED BY <1>5, <2>1, <4>1, <4>2
    <3> QED BY <3>1, <3>2
  <2>7. MemRebase'
    BY <1>2, <1>3, <2>1, <2>5, <2>6 DEF MemRebase
  <2> QED BY <1>2, <1>4, <2>1, <2>5, <2>7 DEF MemInv
<1>10. CASE /\ ip = 2 * Len(rebases) + 2 /\ ip' = 1 /\ stage' = "bind"
            /\ reg' = dyld!ClearRegisters /\ mem' = mem
  <2>1. \A a : Rebased(a, ip) = Slid(a)
    BY <1>1, <1>10, RebasedEnds
  <2>2. \A a \in 0 .. e - 1 : mem[a] = SlidWord(a)
    BY <1>5, <2>1 DEF SlidWord
  <2>3. Elsewhere'
    BY <1>1, <1>3, <1>10, <2>2 DEF Elsewhere
  <2>4. ASSUME NEW i \in DOMAIN bindings, NEW start \in Nat
        PROVE  ~(1 - start > Len(BindOps(bindings[i])))
    <3>1. PICK m : m = Len(BindOps(bindings[i]))
      OBVIOUS
    <3>2. m = IF bindings[i].addend # 0 THEN 4 ELSE 3
      <4>1. bindings \in Seq(Binding)
        BY <1>1 DEF Phase3Inv, TypeOK
      <4>2. bindings[i] \in Binding
        BY <4>1
      <4> QED BY <3>1, <4>2, BindOpsAre
    <3> QED BY <3>1, <3>2
  <2>5. MemBind'
    BY <1>4, <1>10, <2>3, <2>4 DEF MemBind
  <2> QED BY <1>1, <1>2, <1>4, <1>10, <2>5 DEF MemInv
<1> QED BY <1>0, <1>1, <1>6, <1>7, <1>8, <1>9, <1>10, RebaseCases

\* A binding whose opcodes the program has passed was bound before this opcode,
\* or this opcode is its bind.
LEMMA BlockPassed ==
  ASSUME bindings \in Seq(Binding), NEW i \in DOMAIN bindings, NEW start \in Nat, NEW p \in Int,
         BlockAt(BindStream, start, BindOps(bindings[i])),
         p + 1 - start > Len(BindOps(bindings[i]))
  PROVE  \/ p - start > Len(BindOps(bindings[i]))
         \/ EndsBlock(i, p) /\ BindStream[p].op = "bind"
<1>1. PICK n, s : s = BindOps(bindings[i]) /\ n = Len(s)
  OBVIOUS
<1>2. bindings[i] \in Binding
  OBVIOUS
<1>3. n \in Nat /\ n >= 3 /\ s[n] = [op |-> "bind"]
  <2>1. n = (IF bindings[i].addend # 0 THEN 4 ELSE 3) /\ s[n] = [op |-> "bind"]
    BY <1>1, <1>2, BindOpsAre
  <2> QED BY <2>1
<1>4. p - start > n \/ p - start = n
  BY <1>1, <1>3
<1>5. ASSUME p - start = n PROVE EndsBlock(i, p) /\ BindStream[p].op = "bind"
  <2>1. EndsBlock(i, p)
    BY <1>1, <1>5 DEF EndsBlock
  <2>2. p = start + n /\ n \in 1 .. n
    BY <1>3, <1>5
  <2>3. BindStream[p] = s[n]
    BY <1>1, <2>2 DEF BlockAt
  <2> QED BY <1>3, <2>1, <2>3
<1> QED BY <1>1, <1>4, <1>5

\* Where the bind opcode at the end of a binding's opcodes writes, and what.
LEMMA BindTarget ==
  ASSUME TranslatorInv, pc = "done", Suits(lib), BindRegs, NEW i \in DOMAIN bindings,
         EndsBlock(i, ip)
  PROVE  /\ dyld!Address = PlaceOf(bindings[i])
         /\ dyld!Address \in 0 .. End(lib.segments[Len(segments) + 1]) - 1
         /\ reg.symbol = bindings[i].symbol
         /\ bindings[i].addend # 0 \/ NoAddends => reg.addend = bindings[i].addend
<1>1. Phase3Inv /\ TypeOK /\ LayoutSound /\ LayoutProgress
  BY DEF TranslatorInv, Phase3Inv
<1>2. /\ reg.seg = bindings[i].seg /\ reg.off = bindings[i].off
      /\ reg.symbol = bindings[i].symbol
      /\ bindings[i].addend # 0 \/ NoAddends => reg.addend = bindings[i].addend
  BY BindPlace
<1>3. PICK j \in 1 .. k - 1 : /\ reg.seg = At(j).seg /\ reg.off = At(j).off
                              /\ j \in DOMAIN elf.relocs
  BY BindPlace
<1>4. dyld!Address = Slide + elf.relocs[j].offset
  BY <1>3, AtPlace
<1>5. Accepted(j)
  BY DEF TranslatorInv, LoopInv, FixupsExact
<1>6. PlaceOf(At(j)) = Slide + elf.relocs[j].offset /\ elf.relocs[j].offset \in Nat
  BY <1>1, <1>3, <1>5, AtFacts
<1>7. PlaceOf(At(j)) = PlaceOf(bindings[i])
  BY <1>2, <1>3 DEF PlaceOf
<1>8. PICK h \in DOMAIN segments : h \in DOMAIN elf.loads /\ InFile(h, elf.relocs[j].offset)
  BY <1>1, <1>3, <1>5, AtFacts
<1>9. InLoad(h, elf.relocs[j].offset)
  <2>1. /\ elf.loads[h].vaddr \in Nat /\ elf.loads[h].filesz \in Nat
        /\ elf.loads[h].memsz \in Nat /\ elf.loads[h].filesz <= elf.loads[h].memsz
    BY <1>1, <1>8, LoadFacts
  <2> QED BY <1>6, <1>8, <2>1 DEF InFile, InLoad
<1>10. Slide + elf.relocs[j].offset \in 0 .. End(lib.segments[Len(segments) + 1]) - 1
  BY <1>6, <1>9, LoadInMemory
<1> QED BY <1>2, <1>4, <1>6, <1>7, <1>10

\* An opcode of the bind program.
LEMMA MemBindStep ==
  ASSUME TranslatorInv, pc = "done", Suits(lib), UNCHANGED vars, dyld!Bind, Plain,
         reg \in Registers, BindRegs, MemBind,
         DOMAIN mem = 0 .. End(lib.segments[Len(segments) + 1]) - 1, base \in Nat
  PROVE  MemInv'
<1>0. PICK e, r : e = End(lib.segments[Len(segments) + 1]) /\ r = BindStream
  OBVIOUS
<1>1. /\ Phase3Inv /\ bindings \in Seq(Binding) /\ lib.bind = BindStream
      /\ ip \in 1 .. Len(BindStream) /\ DOMAIN mem = 0 .. e - 1
  BY <1>0 DEF TranslatorInv, Phase3Inv, TypeOK, Suits, BindRegs
<1>2. lib' = lib /\ base' = base /\ stage = "bind"
  BY DEF dyld!Bind
<1>3. /\ \A a : SlidWord(a)' = SlidWord(a)
      /\ \A i : PlaceOf(bindings[i])' = PlaceOf(bindings[i])
      /\ bindings' = bindings /\ BindStream' = BindStream /\ NoAddends' = NoAddends
  BY <1>2, SameMemory, SameProgram DEF vars
<1>4. End(lib.segments[Len(segments) + 1])' = e
  BY <1>0, <1>2 DEF vars, End
<1>5. CASE /\ ip = Len(BindStream) /\ ip' = 1 /\ stage' = "loaded" /\ mem' = mem
  <2>1. ASSUME NEW i \in DOMAIN bindings PROVE Bound(i)
    <3>1. PICK start \in Nat : /\ BlockAt(BindStream, start, BindOps(bindings[i]))
                               /\ start + Len(BindOps(bindings[i])) < Len(BindStream)
      BY <1>1, BindOpcodes DEF BindProgram
    <3>2. PICK n : n = Len(BindOps(bindings[i]))
      OBVIOUS
    <3>3. n = IF bindings[i].addend # 0 THEN 4 ELSE 3
      <4>1. bindings[i] \in Binding
        BY <1>1
      <4> QED BY <3>2, <4>1, BindOpsAre
    <3>4. ip - start > n
      <4>1. n \in Nat /\ ip \in Int /\ start + n < ip
        BY <1>1, <1>5, <3>1, <3>2, <3>3
      <4> QED BY <4>1
    <3> QED BY <3>1, <3>2, <3>4 DEF MemBind
  <2>2. Elsewhere
    BY DEF MemBind
  <2>3. Elsewhere'
    BY <1>3, <1>5, <2>2 DEF Elsewhere
  <2>4. ASSUME NEW i \in DOMAIN bindings PROVE Bound(i)'
    BY <1>3, <1>5, <2>1 DEF Bound
  <2>5. MemLoaded'
    BY <1>3, <2>3, <2>4 DEF MemLoaded
  <2> QED BY <1>1, <1>2, <1>4, <1>5, <2>5 DEF MemInv
<1>6. CASE stage' = "fault" /\ mem' = mem
  BY <1>1, <1>2, <1>4, <1>6 DEF MemInv
<1>7. CASE /\ ip' = ip + 1 /\ stage' = "bind"
           /\ mem' = mem /\ BindStream[ip].op # "bind"
  <2>1. PICK p : p = ip
    OBVIOUS
  <2>2. p \in Int /\ ip' = p + 1
    BY <1>1, <1>7, <2>1
  <2>3. ASSUME NEW i \in DOMAIN bindings, NEW start \in Nat,
               BlockAt(r, start, BindOps(bindings[i])),
               p + 1 - start > Len(BindOps(bindings[i]))
        PROVE  Bound(i)
    <3>1. p - start > Len(BindOps(bindings[i]))
      BY <1>0, <1>1, <1>7, <2>1, <2>2, <2>3, BlockPassed
    <3> QED BY <1>0, <2>1, <2>3, <3>1 DEF MemBind
  <2>4. \A i : Bound(i)' = Bound(i)
    BY <1>3, <1>7 DEF Bound
  <2>5. Elsewhere'
    BY <1>3, <1>7 DEF Elsewhere, MemBind
  <2>6. MemBind'
    BY <1>0, <1>3, <2>2, <2>3, <2>4, <2>5 DEF MemBind
  <2> QED BY <1>1, <1>2, <1>4, <1>7, <2>6 DEF MemInv
<1>8. CASE /\ ip' = ip + 1 /\ stage' = "bind"
           /\ mem' = [mem EXCEPT ![dyld!Address] = Word(SymbolAddress[reg.symbol] + reg.addend)]
           /\ \E i \in DOMAIN bindings : EndsBlock(i, ip)
  <2>1. PICK p, at, w : /\ p = ip /\ at = dyld!Address
                        /\ w = Word(SymbolAddress[reg.symbol] + reg.addend)
    OBVIOUS
  <2>2. p \in Int /\ ip' = p + 1 /\ mem' = [mem EXCEPT ![at] = w]
    BY <1>1, <1>8, <2>1
  <2>3. ASSUME NEW i \in DOMAIN bindings, EndsBlock(i, p)
        PROVE  /\ at = PlaceOf(bindings[i]) /\ at \in 0 .. e - 1
               /\ bindings[i].addend # 0 \/ NoAddends =>
                    w = Word(SymbolAddress[bindings[i].symbol] + bindings[i].addend)
    <3>1. /\ at = PlaceOf(bindings[i]) /\ at \in 0 .. e - 1
          /\ reg.symbol = bindings[i].symbol
          /\ bindings[i].addend # 0 \/ NoAddends => reg.addend = bindings[i].addend
      BY <1>0, <2>1, <2>3, BindTarget
    <3> QED BY <2>1, <3>1
  <2>4. PICK h \in DOMAIN bindings : EndsBlock(h, p)
    BY <1>8, <2>1
  <2>5. at = PlaceOf(bindings[h]) /\ at \in DOMAIN mem
    BY <1>1, <2>3, <2>4
  <2>6. /\ DOMAIN mem' = 0 .. e - 1 /\ mem'[at] = w
        /\ \A a \in 0 .. e - 1 : a # at => mem'[a] = mem[a]
    BY <1>1, <2>2, <2>5
  <2>7. ASSUME NEW i \in DOMAIN bindings, NEW start \in Nat,
               BlockAt(r, start, BindOps(bindings[i])),
               p + 1 - start > Len(BindOps(bindings[i])),
               bindings[i].addend # 0 \/ NoAddends
        PROVE  mem'[PlaceOf(bindings[i])]
                 = Word(SymbolAddress[bindings[i].symbol] + bindings[i].addend)
    <3>1. CASE PlaceOf(bindings[i]) = at
      <4>1. bindings[i].symbol = bindings[h].symbol /\ bindings[i].addend = bindings[h].addend
        BY <2>5, <3>1, SamePlaceSameBinding
      <4>2. w = Word(SymbolAddress[bindings[h].symbol] + bindings[h].addend)
        BY <2>3, <2>4, <2>7, <4>1
      <4> QED BY <2>6, <3>1, <4>1, <4>2
    <3>2. CASE PlaceOf(bindings[i]) # at
      <4>1. ~EndsBlock(i, p)
        BY <2>3, <3>2
      <4>2. p - start > Len(BindOps(bindings[i]))
        BY <1>0, <1>1, <2>2, <2>7, <4>1, BlockPassed
      <4>3. Bound(i)
        BY <1>0, <2>1, <2>7, <4>2 DEF MemBind
      <4>4. mem'[PlaceOf(bindings[i])] = mem[PlaceOf(bindings[i])]
        BY <2>2, <3>2
      <4> QED BY <2>7, <4>3, <4>4 DEF Bound
    <3> QED BY <3>1, <3>2
  <2>8. ASSUME NEW i \in DOMAIN bindings, NEW start \in Nat,
               BlockAt(r, start, BindOps(bindings[i])),
               p + 1 - start > Len(BindOps(bindings[i]))
        PROVE  Bound(i)'
    BY <1>3, <2>7, <2>8 DEF Bound
  <2>9. ASSUME NEW a \in 0 .. e - 1, \A i \in DOMAIN bindings : PlaceOf(bindings[i]) # a
        PROVE  mem'[a] = SlidWord(a)
    <3>1. a # at
      BY <2>5, <2>9
    <3>2. mem[a] = SlidWord(a)
      BY <1>1, <2>9 DEF MemBind, Elsewhere
    <3> QED BY <2>6, <3>1, <3>2
  <2>10. Elsewhere'
    BY <1>3, <2>6, <2>9 DEF Elsewhere
  <2>11. MemBind'
    BY <1>0, <1>3, <2>2, <2>8, <2>10 DEF MemBind
  <2> QED BY <1>2, <1>4, <1>8, <2>6, <2>11 DEF MemInv
<1>9. mem' = mem \/ stage' # "fault"
  <2>1. stage' = "fault" => mem' = mem
    BY DEF dyld!Bind, dyld!Step
  <2> QED BY <2>1
<1> QED BY <1>1, <1>5, <1>6, <1>7, <1>8, <1>9, BindCases

\* The invariant of the loaded memory is kept by every step.
LEMMA MemStep ==
  ASSUME TranslatorInv, Rewritten, LibInv, RegInv, MemInv, [Next4]_vars4
  PROVE  MemInv'
<1>1. CASE UNCHANGED dyldVars /\ (stage # "closed" => UNCHANGED vars)
  <2>1. stage' = stage /\ ip' = ip /\ mem' = mem /\ lib' = lib /\ base' = base
    BY <1>1 DEF dyldVars
  <2> SUFFICES ASSUME stage # "closed" PROVE MemInv'
    BY <2>1 DEF MemInv
  <2>2. /\ \A a : Mapped(a)' = Mapped(a) /\ SlidWord(a)' = SlidWord(a)
        /\ \A a, p : Rebased(a, p)' = Rebased(a, p)
        /\ \A i : PlaceOf(bindings[i])' = PlaceOf(bindings[i])
        /\ Plain' = Plain
    BY <1>1, <2>1, SameMemory
  <2>3. /\ segments' = segments /\ bindings' = bindings
        /\ BindStream' = BindStream /\ NoAddends' = NoAddends
    BY <1>1, SameProgram DEF vars
  <2>4. End(lib.segments[Len(segments) + 1])' = End(lib.segments[Len(segments) + 1])
    BY <2>1, <2>3 DEF End
  <2>5. \A i : Bound(i)' = Bound(i)
    BY <2>1, <2>2, <2>3 DEF Bound
  <2>6. Elsewhere' = Elsewhere
    BY <2>1, <2>2, <2>3 DEF Elsewhere
  <2>7. MemRebase' = MemRebase
    <3>1. PICK p : p = ip
      OBVIOUS
    <3>2. \A a : Rebased(a, ip)' = Rebased(a, p)
      <4> TAKE a
      <4>1. Rebased(a, p)' = Rebased(a, p)
        BY <2>2
      <4>2. Rebased(a, ip)' = Rebased(a, p)'
        BY <2>1, <3>1
      <4> QED BY <4>1, <4>2
    <3> QED BY <2>1, <2>2, <3>1, <3>2 DEF MemRebase
  <2>8. MemBind' = MemBind
    BY <2>1, <2>3, <2>5, <2>6 DEF MemBind
  <2>9. MemLoaded' = MemLoaded
    BY <2>3, <2>5, <2>6 DEF MemLoaded
  <2> QED BY <2>1, <2>2, <2>4, <2>7, <2>8, <2>9 DEF MemInv
<1>2. CASE /\ UNCHANGED vars /\ pc = "done"
           /\ \E d : dyld!Open(d) /\ (PageSeparated => Suits(d))
  <2>1. PICK d : dyld!Open(d) /\ (PageSeparated => Suits(d))
    BY <1>2
  <2>2. ip = 1
    BY <2>1 DEF RegInv, dyld!Open
  <2>3. Phase3Inv /\ (Plain => Suits(d))
    BY <2>1 DEF TranslatorInv, Plain
  <2> QED BY <1>2, <2>1, <2>2, <2>3, MemOpen
<1>3. CASE UNCHANGED vars /\ dyld!Next
  <2>1. stage # "closed" /\ lib' = lib /\ base' = base
    BY <1>3 DEF dyld!Next, dyld!Rebase, dyld!Bind
  <2>2. Plain' = Plain
    BY <1>3, <2>1, SameMemory
  <2> SUFFICES ASSUME Plain PROVE MemInv'
    BY <2>2 DEF MemInv
  <2>3. PageSeparated
    BY DEF Plain
  <2>4. /\ pc = "done" /\ Suits(lib) /\ reg \in Registers
        /\ DOMAIN mem = 0 .. End(lib.segments[Len(segments) + 1]) - 1 /\ base \in Nat
    BY <2>1, <2>3 DEF LibInv, RegInv, MemInv
  <2>5. CASE dyld!Rebase
    <3>1. RebaseRegs /\ MemRebase
      BY <2>1, <2>3, <2>5 DEF RegInv, MemInv, dyld!Rebase
    <3> QED BY <1>3, <2>4, <2>5, <3>1, MemRebaseStep
  <2>6. CASE dyld!Bind
    <3>1. BindRegs /\ MemBind
      BY <2>1, <2>3, <2>6 DEF RegInv, MemInv, dyld!Bind
    <3> QED BY <1>3, <2>4, <2>6, <3>1, MemBindStep
  <2> QED BY <1>3, <2>5, <2>6 DEF dyld!Next
<1> QED BY <1>1, <1>2, <1>3, DyldSteps

\* The inductive invariant of the translators and dyld together.
EndToEndInv == TranslatorInv /\ Rewritten /\ LibInv /\ RegInv /\ MemInv

\* Every state of the translators and dyld satisfies the invariant.
THEOREM EndToEndInvariant == Spec4 => []EndToEndInv
<1>1. Init4 => EndToEndInv
  <2> SUFFICES ASSUME Init4 PROVE EndToEndInv
    OBVIOUS
  <2>1. Init /\ stage = "closed" /\ ip = 1 /\ reg = dyld!ClearRegisters /\ step4 = "phase3"
    BY DEF Init4, LoadInit, dyld!Init
  <2>2. TranslatorInv
    BY <2>1, TranslatorInit
  <2> QED BY <2>1, <2>2 DEF EndToEndInv, Rewritten, LibInv, RegInv, MemInv
<1>2. EndToEndInv /\ [Next4]_vars4 => EndToEndInv'
  <2> SUFFICES ASSUME EndToEndInv, [Next4]_vars4 PROVE EndToEndInv'
    OBVIOUS
  <2>1. TranslatorInv /\ Rewritten /\ LibInv /\ RegInv /\ MemInv
    BY DEF EndToEndInv
  <2>2. TranslatorInv'
    BY <2>1, TranslatorOnly, TranslatorStep
  <2>3. Rewritten'
    BY <2>1, RewrittenStep
  <2>4. LibInv'
    BY <2>1, LibStep
  <2>5. RegInv'
    BY <2>1, RegStep
  <2>6. MemInv'
    BY <2>1, MemStep
  <2> QED BY <2>2, <2>3, <2>4, <2>5, <2>6 DEF EndToEndInv
<1> QED BY <1>1, <1>2, PTL DEF Spec4

-----------------------------------------------------------------------------
(* What the words of the loaded object are.                                *)

\* What is left of a number behind a multiple of the pointers' range is its
\* pointer.
LEMMA Remainder ==
  ASSUME NEW v \in Int, NEW q \in Int, NEW r \in 0 .. WordMod - 1, v = q * WordMod + r
  PROVE  Word(v) = r
<1> DEFINE d == v \div WordMod
           m == v % WordMod
<1>1. d \in Int /\ m \in 0 .. WordMod - 1 /\ v = d * WordMod + m /\ Word(v) = m
  BY LayoutAssumption DEF Word
<1> HIDE DEF d, m
<1>2. ASSUME NEW a \in Int, NEW b \in Int, a < b
      PROVE  a * WordMod + WordMod <= b * WordMod
  <2>1. (b - (a + 1)) * WordMod >= 0
    BY <1>2, LayoutAssumption
  <2>2. (b - (a + 1)) * WordMod = b * WordMod - (a * WordMod + WordMod)
    BY LayoutAssumption
  <2>3. a * WordMod \in Int /\ b * WordMod \in Int
    BY LayoutAssumption
  <2> QED BY <2>1, <2>2, <2>3, LayoutAssumption
<1>3. q * WordMod \in Int /\ d * WordMod \in Int
  BY <1>1, LayoutAssumption
<1>4. ~(q < d)
  BY <1>1, <1>2, <1>3, LayoutAssumption
<1>5. ~(d < q)
  BY <1>1, <1>2, <1>3, LayoutAssumption
<1>6. q = d
  BY <1>1, <1>4, <1>5
<1> QED BY <1>1, <1>3, <1>6, LayoutAssumption

\* Reducing a pointer to its width before adding to it does not matter.
LEMMA WordOfSum ==
  ASSUME NEW x \in Int, NEW y \in Int
  PROVE  Word(Word(x) + y) = Word(x + y)
<1> DEFINE q == x \div WordMod
           z == Word(x) + y
           d == z \div WordMod
           m == z % WordMod
<1>1. q \in Int /\ Word(x) \in Int /\ x = q * WordMod + Word(x)
  BY LayoutAssumption DEF Word
<1>2. z \in Int
  BY <1>1
<1>3. d \in Int /\ m \in 0 .. WordMod - 1 /\ z = d * WordMod + m /\ Word(z) = m
  <2> HIDE DEF z
  <2> QED BY <1>2, LayoutAssumption DEF Word
<1> HIDE DEF q, d, m
<1>4. q * WordMod \in Int /\ d * WordMod \in Int /\ q + d \in Int
      /\ (q + d) * WordMod = q * WordMod + d * WordMod
  BY <1>1, <1>3, LayoutAssumption
<1>5. x + y = (q + d) * WordMod + m
  <2>1. PICK w, a, b, c : /\ w = Word(x) /\ a = q * WordMod /\ b = d * WordMod
                          /\ c = (q + d) * WordMod
    OBVIOUS
  <2>2. w \in Int /\ a \in Int /\ b \in Int /\ m \in Int /\ x = a + w /\ w + y = b + m /\ c = a + b
    BY <1>1, <1>3, <1>4, <2>1, LayoutAssumption
  <2>3. x + y = c + m
    BY <2>2
  <2> QED BY <2>1, <2>3
<1>6. x + y \in Int
  OBVIOUS
<1>7. Word(x + y) = m
  <2> HIDE DEF z
  <2> QED BY <1>3, <1>4, <1>5, <1>6, Remainder
<1> QED BY <1>3, <1>7 DEF z

\* dyld maps a word of a load's contents from where the translator put it.
LEMMA MappedIs ==
  ASSUME TranslatorInv, pc = "done", Suits(lib), NEW i \in DOMAIN segments,
         NEW v \in Nat, InFile(i, v)
  PROVE  /\ Mapped(Slide + v) = image[segments[i].data_fileoff + (v - elf.loads[i].vaddr)]
         /\ segments[i].data_fileoff + (v - elf.loads[i].vaddr) \in 0 .. cursor - 1
<1>1. Phase3Inv /\ TypeOK /\ LayoutSound /\ LayoutProgress
  BY DEF TranslatorInv, Phase3Inv
<1>2. /\ i \in DOMAIN elf.loads
      /\ segments[i].data_addr = Slide + elf.loads[i].vaddr
      /\ segments[i].fileoff <= segments[i].data_fileoff
      /\ segments[i].data_fileoff + elf.loads[i].filesz = FileEnd(segments[i])
      /\ segments[i].data_addr - segments[i].vmaddr
           = segments[i].data_fileoff - segments[i].fileoff
      /\ HeaderReserve <= segments[i].data_fileoff
  BY <1>1, SegmentOfLoad
<1>3. /\ elf.loads[i].vaddr \in Nat /\ elf.loads[i].filesz \in Nat /\ elf.loads[i].memsz \in Nat
      /\ elf.loads[i].filesz <= elf.loads[i].memsz
  BY <1>1, <1>2, LoadFacts
<1>4. /\ segments[i].vmaddr \in Nat /\ segments[i].fileoff \in Nat
      /\ segments[i].filesize \in Nat /\ segments[i].data_fileoff \in Nat
      /\ Slide \in Nat /\ HeaderReserve \in Nat
  BY <1>1, SegmentFacts, SlideAligned, LayoutAssumption
<1>5. elf.loads[i].vaddr <= v /\ v < elf.loads[i].vaddr + elf.loads[i].filesz
  BY DEF InFile
<1>6. InLoad(i, v)
  BY <1>3, <1>5 DEF InLoad
<1>7. /\ segments[i].vmaddr <= Slide + v /\ Slide + v < End(segments[i]) /\ Slide + v \in Int
  BY <1>1, <1>4, <1>6, InSegment
<1>8. /\ segments[i].filesize <= lib.segments[i].filesize
      /\ FileEnd(lib.segments[i]) <= cursor /\ lib.segments[i].fileoff = segments[i].fileoff
      /\ lib.segments[i].filesize \in Nat /\ cursor \in Nat
  <2>1. i \in 1 .. Len(segments) + 1
    BY <1>1, SegmentFacts
  <2> QED BY <1>1, <2>1 DEF Suits, TypeOK
<1> DEFINE o == segments[i].data_fileoff + (v - elf.loads[i].vaddr)
<1>9. segments[i].fileoff + ((Slide + v) - segments[i].vmaddr) = o
  <2> DEFINE f == segments[i].fileoff
             a == segments[i].vmaddr
             d == segments[i].data_fileoff
             w == elf.loads[i].vaddr
  <2>1. /\ f \in Nat /\ a \in Nat /\ d \in Nat /\ w \in Nat /\ Slide \in Nat
    BY <1>3, <1>4
  <2>2. (Slide + w) - a = d - f
    BY <1>2
  <2> HIDE DEF f, a, d, w
  <2>3. f + ((Slide + v) - a) = d + (v - w)
    BY <2>1, <2>2
  <2> QED BY <2>3, Zenon DEF f, a, d, w
<1>10. (Slide + v) - segments[i].vmaddr < segments[i].filesize
  BY <1>2, <1>3, <1>4, <1>5 DEF FileEnd
<1>11. ~((Slide + v) - segments[i].vmaddr >= lib.segments[i].filesize)
  BY <1>4, <1>7, <1>8, <1>10
<1>12. Mapped(Slide + v) = lib.file[o]
  <2>1. PICK a : a = Slide + v
    OBVIOUS
  <2>2. dyld!MappedWord(lib, a)
              = IF a - segments[i].vmaddr >= lib.segments[i].filesize THEN 0
                ELSE lib.file[segments[i].fileoff + (a - segments[i].vmaddr)]
    BY <1>1, <1>7, <2>1, MapsTo
  <2> QED BY <1>9, <1>11, <2>1, <2>2 DEF Mapped
<1>13. o \in HeaderReserve .. cursor - 1
  <2>1. segments[i].fileoff + lib.segments[i].filesize <= cursor
    BY <1>8 DEF FileEnd
  <2>2. o \in Int /\ HeaderReserve <= o
    BY <1>2, <1>3, <1>4, <1>5
  <2>3. o < cursor
    <3> HIDE DEF o
    <3> QED BY <1>4, <1>7, <1>8, <1>9, <1>11, <2>1, <2>2
  <2> QED BY <1>4, <1>8, <2>2, <2>3
<1>14. lib.file[o] = image[o]
  BY <1>13 DEF Suits
<1>15. o \in 0 .. cursor - 1
  <2> HIDE DEF o
  <2> QED BY <1>4, <1>8, <1>13
<1> QED BY <1>12, <1>14, <1>15

\* The file holds nothing of any load behind the contents of segment i and in
\* front of the end of what is mapped for it.
LEMMA NobodysWord ==
  ASSUME TranslatorInv, pc = "done", Suits(lib), NEW i \in DOMAIN segments, NEW o \in Nat,
         FileEnd(segments[i]) <= o, o < FileEnd(lib.segments[i]),
         NEW h \in DOMAIN segments, segments[h].data_fileoff <= o,
         o < segments[h].data_fileoff + segments[h].elf_filesz
  PROVE  FALSE
<1>1. TypeOK /\ LayoutSound /\ LayoutProgress /\ segments \in Seq(Segment)
  BY DEF TranslatorInv, Phase3Inv, TypeOK
<1>2. /\ segments[h].data_fileoff + segments[h].elf_filesz = FileEnd(segments[h])
      /\ segments[h].fileoff <= segments[h].data_fileoff
  BY <1>1, SegmentOfLoad
<1>3. \A g \in DOMAIN segments : /\ segments[g].fileoff \in Nat /\ segments[g].filesize \in Nat
                                 /\ segments[g].data_fileoff \in Nat /\ g \in 1 .. Len(segments)
                                 /\ FileEnd(segments[g]) \in Nat
                                 /\ segments[g].fileoff <= FileEnd(segments[g])
  <2> TAKE g \in DOMAIN segments
  <2>1. /\ segments[g].fileoff \in Nat /\ segments[g].filesize \in Nat
        /\ segments[g].data_fileoff \in Nat /\ g \in 1 .. Len(segments)
    BY <1>1, SegmentFacts
  <2> QED BY <2>1 DEF FileEnd
<1>4. CASE h = i
  BY <1>2, <1>3, <1>4
<1>5. CASE h < i
  <2>1. FileEnd(segments[h]) <= segments[i].fileoff
    BY <1>1, <1>5 DEF LayoutSound, FilesDisjoint
  <2> QED BY <1>2, <1>3, <2>1
<1>6. CASE i < h
  <2>1. i + 1 \in DOMAIN segments /\ (i + 1 = h \/ i + 1 < h)
    BY <1>1, <1>3, <1>6
  <2>2. FileEnd(lib.segments[i]) <= segments[i + 1].fileoff
    BY <2>1 DEF Suits
  <2>3. segments[i + 1].fileoff <= segments[h].fileoff
    <3>1. CASE i + 1 = h
      BY <1>3, <3>1
    <3>2. CASE i + 1 < h
      <4>1. FileEnd(segments[i + 1]) <= segments[h].fileoff
        BY <1>1, <2>1, <3>2 DEF LayoutSound, FilesDisjoint
      <4> QED BY <1>3, <2>1, <4>1
    <3> QED BY <2>1, <3>1, <3>2
  <2>4. FileEnd(lib.segments[i]) \in Int
    <3>1. i \in 1 .. Len(segments) + 1
      BY <1>3
    <3>2. lib.segments[i].fileoff \in Nat /\ lib.segments[i].filesize \in Nat
      BY <3>1 DEF Suits
    <3> QED BY <3>2 DEF FileEnd
  <2>5. segments[i + 1].fileoff <= o
    BY <1>2, <1>3, <2>1, <2>3
  <2> QED BY <1>3, <2>1, <2>2, <2>4, <2>5
<1> QED BY <1>3, <1>4, <1>5, <1>6

\* dyld maps zeros behind the contents of a load, whether the file has padding
\* there or nothing.
LEMMA MappedZero ==
  ASSUME TranslatorInv, pc = "done", Plain, Suits(lib), NEW i \in DOMAIN segments,
         NEW v \in Nat, InLoad(i, v), ~InFile(i, v)
  PROVE  Mapped(Slide + v) = 0
<1>1. Phase3Inv /\ TypeOK /\ LayoutSound /\ LayoutProgress
  BY DEF TranslatorInv, Phase3Inv
<1>2. /\ i \in DOMAIN elf.loads
      /\ segments[i].data_addr = Slide + elf.loads[i].vaddr
      /\ segments[i].data_fileoff + elf.loads[i].filesz = FileEnd(segments[i])
      /\ segments[i].data_addr - segments[i].vmaddr
           = segments[i].data_fileoff - segments[i].fileoff
      /\ HeaderReserve <= segments[i].data_fileoff
  BY <1>1, SegmentOfLoad
<1>3. /\ elf.loads[i].vaddr \in Nat /\ elf.loads[i].filesz \in Nat
  BY <1>1, <1>2, LoadFacts
<1>4. /\ segments[i].vmaddr \in Nat /\ segments[i].fileoff \in Nat
      /\ segments[i].filesize \in Nat /\ segments[i].data_fileoff \in Nat
      /\ Slide \in Nat /\ HeaderReserve \in Nat /\ i \in 1 .. Len(segments) + 1
  BY <1>1, SegmentFacts, SlideAligned, LayoutAssumption
<1>5. elf.loads[i].vaddr <= v /\ elf.loads[i].vaddr + elf.loads[i].filesz <= v
  BY <1>3 DEF InFile, InLoad
<1>7. /\ segments[i].vmaddr <= Slide + v /\ Slide + v < End(segments[i]) /\ Slide + v \in Int
  BY <1>1, <1>4, InSegment
<1>8. /\ FileEnd(lib.segments[i]) <= cursor /\ lib.segments[i].fileoff = segments[i].fileoff
      /\ lib.segments[i].filesize \in Nat /\ cursor \in Nat
  BY <1>1, <1>4 DEF Suits, TypeOK
<1> DEFINE a == Slide + v
           o == segments[i].data_fileoff + (v - elf.loads[i].vaddr)
<1>0. PICK x, m, f, d, z, l :
        /\ x = elf.loads[i].vaddr /\ m = segments[i].vmaddr /\ f = segments[i].fileoff
        /\ d = segments[i].data_fileoff /\ z = elf.loads[i].filesz /\ l = lib.segments[i].filesize
  OBVIOUS
<1>6. /\ x \in Nat /\ m \in Nat /\ f \in Nat /\ d \in Nat /\ z \in Nat /\ l \in Nat
      /\ (Slide + x) - m = d - f /\ x + z <= v /\ x <= v /\ HeaderReserve <= d
      /\ d + z = FileEnd(segments[i]) /\ FileEnd(lib.segments[i]) = f + l
      /\ o = d + (v - x) /\ Slide \in Nat /\ HeaderReserve \in Nat
  BY <1>0, <1>2, <1>3, <1>4, <1>5, <1>8 DEF FileEnd
<1>9. segments[i].fileoff + (a - segments[i].vmaddr) = o
  <2>1. f + ((Slide + v) - m) = d + (v - x)
    BY <1>6
  <2> QED BY <1>0, <2>1
<1>10. Mapped(a) = IF a - segments[i].vmaddr >= lib.segments[i].filesize THEN 0
                   ELSE lib.file[o]
  <2>1. PICK b : b = a
    OBVIOUS
  <2>2. dyld!MappedWord(lib, b)
              = IF b - segments[i].vmaddr >= lib.segments[i].filesize THEN 0
                ELSE lib.file[segments[i].fileoff + (b - segments[i].vmaddr)]
    BY <1>1, <1>7, <2>1, MapsTo
  <2> HIDE DEF o
  <2> QED BY <1>9, <2>1, <2>2 DEF Mapped
<1> SUFFICES ASSUME ~(a - segments[i].vmaddr >= lib.segments[i].filesize)
             PROVE  lib.file[o] = 0
  BY <1>10
<1>11. o \in Nat /\ HeaderReserve <= o /\ FileEnd(segments[i]) <= o
  BY <1>6
<1>12. o < FileEnd(lib.segments[i])
  <2>1. ~((Slide + v) - m >= l)
    BY <1>0
  <2>2. d + (v - x) < f + l
    BY <1>6, <2>1
  <2> QED BY <1>6, <2>2
<1>13. o \in HeaderReserve .. cursor - 1 /\ o \in 0 .. cursor - 1
  <2>1. FileEnd(lib.segments[i]) \in Int
    BY <1>4, <1>8 DEF FileEnd
  <2> HIDE DEF o
  <2> QED BY <1>4, <1>8, <1>11, <1>12, <2>1
<1> HIDE DEF o
<1>14. lib.file[o] = image[o]
  BY <1>13 DEF Suits
<1>15. \A h \in DOMAIN segments :
         ~(/\ segments[h].data_fileoff <= o
           /\ o < segments[h].data_fileoff + segments[h].elf_filesz)
  BY <1>11, <1>12, NobodysWord
<1>16. CopiedWord(o) = 0
  <2> DEFINE owners == {h \in DOMAIN segments :
                          /\ segments[h].data_fileoff <= o
                          /\ o < segments[h].data_fileoff + segments[h].elf_filesz}
  <2>1. owners = {}
    BY <1>15
  <2>2. CopiedWord(o) = IF owners = {} THEN 0
                        ELSE LET seg == segments[Max(owners)]
                             IN elf.data[seg.elf_offset + (o - seg.data_fileoff) + 1]
    BY DEF CopiedWord
  <2> HIDE DEF owners
  <2> QED BY <2>1, <2>2
<1>17. ASSUME NEW j \in 1 .. k - 1 PROVE At(j).out # o
  <2>1. j \in DOMAIN elf.relocs /\ Accepted(j)
    <3>1. elf.relocs \in Seq(Relocation) /\ k \in Nat /\ k - 1 <= Len(elf.relocs)
      BY <1>1 DEF Phase3Inv, TypeOK, WellFormed, Elf, FixupsMatchRelocs
    <3> QED BY <3>1 DEF TranslatorInv, LoopInv, FixupsExact
  <2>2. PICK h \in DOMAIN segments :
              /\ h \in DOMAIN elf.loads /\ InFile(h, elf.relocs[j].offset)
              /\ At(j).out = segments[h].data_fileoff
                             + (elf.relocs[j].offset - elf.loads[h].vaddr)
    BY <1>1, <2>1, AtFacts
  <2>3. elf.relocs[j].offset \in Nat
    BY <1>1, <2>1, AtFacts
  <2>4. /\ elf.loads[h].vaddr \in Nat /\ elf.loads[h].filesz \in Nat
        /\ segments[h].data_fileoff \in Nat
        /\ segments[h].elf_filesz = elf.loads[h].filesz
    BY <1>1, <2>2, LoadFacts, SegmentFacts, SegmentOfLoad
  <2>5. /\ segments[h].data_fileoff <= At(j).out
        /\ At(j).out < segments[h].data_fileoff + segments[h].elf_filesz
    BY <2>2, <2>3, <2>4 DEF InFile
  <2> QED BY <1>15, <2>5
<1>18. image[o] = CopiedWord(o)
  BY <1>13, <1>17 DEF TranslatorInv, LoopInv, ImageCopied
<1> QED BY <1>14, <1>16, <1>18

\* A finished translation has accepted every relocation, and each one is for a
\* word of the contents of a load.
LEMMA RelocsDone ==
  ASSUME TranslatorInv, pc = "done", NEW j \in DOMAIN elf.relocs
  PROVE  /\ j \in 1 .. k - 1 /\ Accepted(j) /\ elf.relocs[j].offset \in Nat
         /\ elf.relocs[j].addend \in Int /\ elf.relocs[j].symbol \in Nat
         /\ PlaceOf(At(j)) = Slide + elf.relocs[j].offset
         /\ \E i \in DOMAIN segments :
              /\ InFile(i, elf.relocs[j].offset)
              /\ At(j).out = segments[i].data_fileoff
                             + (elf.relocs[j].offset - elf.loads[i].vaddr)
         /\ elf.relocs[j].type # "RELATIVE" =>
              /\ elf.relocs[j].symbol + 1 \in DOMAIN elf.symbols
              /\ elf.symbols[elf.relocs[j].symbol + 1].value \in Nat
<1>1. Phase3Inv /\ FixupsExact
  BY DEF TranslatorInv, LoopInv
<1>2. /\ elf.relocs \in Seq(Relocation) /\ k \in Nat /\ k - 1 = Len(elf.relocs)
      /\ elf.symbols \in Seq(Symbol)
  BY <1>1 DEF Phase3Inv, TypeOK, WellFormed, Elf, FixupsMatchRelocs
<1>3. j \in 1 .. k - 1
  BY <1>2
<1>4. Accepted(j)
  BY <1>1, <1>3 DEF FixupsExact
<1>5. elf.relocs[j] \in Relocation
  BY <1>2
<1>6. elf.relocs[j].addend \in Int /\ elf.relocs[j].symbol \in Nat
  BY <1>5 DEF Relocation
<1>7. ASSUME elf.relocs[j].type # "RELATIVE"
      PROVE  /\ elf.relocs[j].symbol + 1 \in DOMAIN elf.symbols
             /\ elf.symbols[elf.relocs[j].symbol + 1].value \in Nat
  <2>1. elf.relocs[j].symbol < Len(elf.symbols)
    BY <1>4, <1>7 DEF Accepted
  <2>2. elf.relocs[j].symbol + 1 \in DOMAIN elf.symbols
    BY <1>2, <1>6, <2>1
  <2>3. elf.symbols[elf.relocs[j].symbol + 1] \in Symbol
    BY <1>2, <2>2
  <2> QED BY <2>2, <2>3 DEF Symbol
<1> QED BY <1>1, <1>3, <1>4, <1>6, <1>7, AtFacts

\* The words of the file are numbers.
LEMMA ElfWordTyped ==
  ASSUME TypeOK, PageSeparated, NEW i \in DOMAIN elf.loads, NEW v \in Nat, InFile(i, v)
  PROVE  ElfWord(v) \in Nat
<1>1. ElfWord(v) = elf.data[elf.loads[i].offset + (v - elf.loads[i].vaddr) + 1]
  BY ElfWordIs
<1>2. /\ elf.loads[i].vaddr \in Nat /\ elf.loads[i].offset \in Nat /\ elf.loads[i].filesz \in Nat
      /\ elf.loads[i].offset + elf.loads[i].filesz <= Len(elf.data)
  BY LoadFacts
<1>3. elf.data \in Seq(0 .. WordMod - 1)
  BY DEF TypeOK, WellFormed, Elf
<1>4. PICK x, f, z, y : /\ x = elf.loads[i].vaddr /\ f = elf.loads[i].offset
                        /\ z = elf.loads[i].filesz /\ y = f + (v - x) + 1
  OBVIOUS
<1>5. x \in Nat /\ f \in Nat /\ z \in Nat /\ f + z <= Len(elf.data) /\ x <= v /\ v < x + z
  BY <1>2, <1>4 DEF InFile
<1>6. PICK s, l, S : s = elf.data /\ l = Len(s) /\ S = 0 .. WordMod - 1
  OBVIOUS
<1>7. s \in Seq(S) /\ l \in Nat /\ f + z <= l
  BY <1>3, <1>5, <1>6
<1>8. f + (v - x) + 1 \in 1 .. l
  BY <1>5, <1>7
<1>9. s[y] \in S
  <2>1. y \in 1 .. Len(s)
    BY <1>4, <1>6, <1>8
  <2>2. \A h \in 1 .. Len(s) : s[h] \in S
    BY <1>7
  <2> QED BY <2>1, <2>2
<1>10. elf.data[y] \in Nat
  BY <1>6, <1>9, LayoutAssumption
<1> QED BY <1>1, <1>4, <1>10

\* What the translator relies on in an object that dyld has loaded.
LEMMA LoadedFacts ==
  ASSUME EndToEndInv, stage = "loaded", Plain
  PROVE  /\ TranslatorInv /\ pc = "done" /\ Suits(lib) /\ MemLoaded /\ base \in Nat
         /\ DOMAIN mem = 0 .. End(lib.segments[Len(segments) + 1]) - 1
         /\ Phase3Inv /\ TypeOK /\ LayoutSound /\ LayoutProgress /\ PageSeparated /\ PlacesApart
         /\ FixupsExact /\ ImageCopied /\ ImagePatched
<1>1. PageSeparated /\ PlacesApart
  BY DEF Plain
<1> QED BY <1>1 DEF EndToEndInv, LibInv, MemInv, TranslatorInv, LoopInv, Phase3Inv

\* A word that no import is for: what was mapped there, slid if a relocation
\* asked for it.
LEMMA LoadedElsewhere ==
  ASSUME EndToEndInv, stage = "loaded", Plain, NEW i \in DOMAIN segments, NEW v \in Nat,
         InLoad(i, v), \A j \in DOMAIN elf.relocs : elf.relocs[j].offset = v => Internal(j)
  PROVE  /\ Loaded(v) = SlidWord(Slide + v)
         /\ Slid(Slide + v) <=> \E j \in DOMAIN elf.relocs : elf.relocs[j].offset = v
<1>1. /\ TranslatorInv /\ pc = "done" /\ Suits(lib) /\ MemLoaded /\ FixupsExact
      /\ DOMAIN mem = 0 .. End(lib.segments[Len(segments) + 1]) - 1
      /\ elf.relocs \in Seq(Relocation) /\ k - 1 = Len(elf.relocs)
  BY LoadedFacts DEF Phase3Inv, TypeOK, WellFormed, Elf, FixupsMatchRelocs
<1>2. Slide + v \in DOMAIN mem
  BY <1>1, LoadInMemory
<1>3. \A j \in 1 .. k - 1 : j \in DOMAIN elf.relocs
  BY <1>1
<1>4. ASSUME NEW j \in DOMAIN elf.relocs, PlaceOf(At(j)) = Slide + v
      PROVE  elf.relocs[j].offset = v
  <2>1. elf.relocs[j].offset \in Nat /\ Slide + elf.relocs[j].offset = Slide + v
    BY <1>1, <1>4, RelocsDone
  <2> QED BY <2>1, SlideAligned
<1>5. ASSUME NEW b \in DOMAIN bindings PROVE PlaceOf(bindings[b]) # Slide + v
  <2>1. PICK j \in 1 .. k - 1 : BindFor(b, j)
    BY <1>1 DEF FixupsExact
  <2>2. PlaceOf(bindings[b]) = PlaceOf(At(j)) /\ ~Internal(j)
    BY <2>1 DEF BindFor, PlaceOf
  <2> QED BY <1>3, <1>4, <2>2
<1>6. mem[Slide + v] = SlidWord(Slide + v)
  <2>1. PICK a : a = Slide + v
    OBVIOUS
  <2>2. mem[a] = SlidWord(a)
    BY <1>1, <1>2, <1>5, <2>1 DEF MemLoaded, Elsewhere
  <2> QED BY <2>1, <2>2
<1>7. ASSUME Slid(Slide + v) PROVE \E j \in DOMAIN elf.relocs : elf.relocs[j].offset = v
  <2>1. PICK b \in DOMAIN rebases : PlaceOf(rebases[b]) = Slide + v
    BY <1>7 DEF Slid
  <2>2. PICK j \in 1 .. k - 1 : RebaseFor(b, j)
    BY <1>1 DEF FixupsExact
  <2>3. PlaceOf(rebases[b]) = PlaceOf(At(j))
    BY <2>2 DEF RebaseFor, PlaceOf
  <2> QED BY <1>3, <1>4, <2>1, <2>3
<1>8. ASSUME NEW j \in DOMAIN elf.relocs, elf.relocs[j].offset = v PROVE Slid(Slide + v)
  <2>1. j \in 1 .. k - 1 /\ PlaceOf(At(j)) = Slide + v
    BY <1>1, <1>8, RelocsDone
  <2>2. PICK b \in DOMAIN rebases : RebaseFor(b, j)
    BY <1>1, <1>8, <2>1 DEF FixupsExact
  <2>3. PlaceOf(rebases[b]) = PlaceOf(At(j))
    BY <2>2 DEF RebaseFor, PlaceOf
  <2> QED BY <2>1, <2>3 DEF Slid
<1> QED BY <1>6, <1>7, <1>8 DEF Loaded

\* A word of the contents of a load is in a load.
LEMMA FileIsInLoad ==
  ASSUME TypeOK, NEW i \in DOMAIN elf.loads, NEW v \in Nat, InFile(i, v)
  PROVE  InLoad(i, v)
<1>1. /\ elf.loads[i].vaddr \in Nat /\ elf.loads[i].filesz \in Nat /\ elf.loads[i].memsz \in Nat
      /\ elf.loads[i].filesz <= elf.loads[i].memsz
  BY LoadFacts
<1> QED BY <1>1 DEF InFile, InLoad

\* Output offset o holds the word of address v, of the contents of load i.
Owns(i, o, v) ==
  i \in DOMAIN segments /\ InFile(i, v) /\ o = segments[i].data_fileoff + (v - elf.loads[i].vaddr)

\* An output offset holds the word of one address.
LEMMA OwnerUnique ==
  ASSUME TypeOK, LayoutSound, LayoutProgress, NEW i \in DOMAIN segments, NEW h \in DOMAIN segments,
         NEW o, NEW v \in Nat, NEW w \in Nat, Owns(i, o, v), Owns(h, o, w)
  PROVE  v = w
<1>1. ASSUME NEW g \in DOMAIN segments, NEW u \in Nat, Owns(g, o, u)
      PROVE  /\ o \in Int /\ segments[g].data_fileoff <= o
             /\ o < segments[g].data_fileoff + segments[g].elf_filesz
             /\ segments[g].data_fileoff \in Nat /\ elf.loads[g].vaddr \in Nat
  <2>1. /\ g \in DOMAIN elf.loads /\ segments[g].elf_filesz = elf.loads[g].filesz
    BY SegmentOfLoad
  <2>2. /\ segments[g].data_fileoff \in Nat /\ elf.loads[g].vaddr \in Nat
        /\ elf.loads[g].filesz \in Nat
    BY <2>1, SegmentFacts, LoadFacts
  <2> QED BY <1>1, <2>1, <2>2 DEF Owns, InFile
<1>2. i = h
  BY <1>1, OwnersApart
<1>3. PICK d, x : d = segments[i].data_fileoff /\ x = elf.loads[i].vaddr
  OBVIOUS
<1>4. d \in Nat /\ x \in Nat /\ d + (v - x) = d + (w - x)
  BY <1>1, <1>2, <1>3 DEF Owns
<1> QED BY <1>4

-----------------------------------------------------------------------------
(* The loaded object is the one that Bionic would have made.               *)

\* The pointers of the relocations that name no symbol of the shim.
LEMMA InternalRight == EndToEndInv /\ Plain => InternalPointersRight
<1> SUFFICES ASSUME EndToEndInv, Plain, stage = "loaded", NEW j \in DOMAIN elf.relocs,
                    Internal(j)
             PROVE  Loaded(elf.relocs[j].offset) = BionicPointer(elf.relocs[j])
  <2>1. \A r \in Relocs : \E j \in DOMAIN elf.relocs : r = elf.relocs[j]
    BY DEF Relocs, Range
  <2> QED BY <2>1 DEF InternalPointersRight, Internal
<1>1. /\ TranslatorInv /\ pc = "done" /\ Suits(lib) /\ TypeOK /\ PageSeparated
      /\ LayoutSound /\ LayoutProgress /\ ImagePatched /\ PlacesApart /\ base \in Nat
  BY LoadedFacts
<1>2. PICK v, r : v = elf.relocs[j].offset /\ r = elf.relocs[j]
  OBVIOUS
<1>3. j \in 1 .. k - 1 /\ v \in Nat /\ r.addend \in Int
  BY <1>1, <1>2, RelocsDone
<1>4. PICK i \in DOMAIN segments : /\ InFile(i, v)
                                   /\ At(j).out = segments[i].data_fileoff + (v - elf.loads[i].vaddr)
  BY <1>1, <1>2, RelocsDone
<1>5. i \in DOMAIN elf.loads
  BY <1>1, SegmentOfLoad
<1>6. InLoad(i, v)
  BY <1>1, <1>3, <1>4, <1>5, FileIsInLoad
<1>7. \A h \in DOMAIN elf.relocs : elf.relocs[h].offset = v => h = j
  BY <1>1, <1>2 DEF PlacesApart
<1>8. Loaded(v) = SlidWord(Slide + v) /\ Slid(Slide + v)
  BY <1>2, <1>3, <1>6, <1>7, LoadedElsewhere
<1>9. Mapped(Slide + v) = Word(Unslid(j))
  <2>1. Mapped(Slide + v) = image[At(j).out]
    BY <1>1, <1>3, <1>4, MappedIs
  <2>2. image[At(j).out] = Word(Unslid(j))
    BY <1>1, <1>3 DEF ImagePatched
  <2> QED BY <2>1, <2>2
<1>10. Loaded(v) = Word(Word(Unslid(j)) + base)
  BY <1>8, <1>9 DEF SlidWord
<1>11. Unslid(j) \in Int /\ BionicPointer(r) = Word(Unslid(j) + base)
  <2>1. CASE r.type = "RELATIVE"
    <3>1. Unslid(j) = Slide + r.addend /\ BionicPointer(r) = Word(Bias + r.addend)
      BY <1>2, <2>1 DEF Unslid, BionicPointer
    <3>2. Bias + r.addend = (Slide + r.addend) + base /\ Slide + r.addend \in Int
      BY <1>1, <1>3, SlideAligned DEF Bias
    <3> QED BY <3>1, <3>2
  <2>2. CASE r.type # "RELATIVE"
    <3>1. PICK x, y : x = elf.symbols[r.symbol + 1].value /\ y = Implicit(r)
      OBVIOUS
    <3>2. Unslid(j) = Slide + x + r.addend + y
      BY <1>2, <2>2, <3>1 DEF Unslid
    <3>3. BionicPointer(r) = Word(Bias + x + r.addend + y)
      BY <1>2, <2>2, <3>1 DEF BionicPointer, Internal
    <3>4. x \in Nat
      BY <1>1, <1>2, <2>2, <3>1, RelocsDone
    <3>5. y \in Nat
      <4>1. ElfWord(v) \in Nat
        BY <1>1, <1>3, <1>4, <1>5, ElfWordTyped
      <4> QED BY <1>2, <3>1, <4>1 DEF Implicit
    <3>6. /\ Slide + x + r.addend + y \in Int
          /\ Bias + x + r.addend + y = (Slide + x + r.addend + y) + base
      BY <1>1, <1>3, <3>4, <3>5, SlideAligned DEF Bias
    <3> QED BY <3>2, <3>3, <3>6
  <2> QED BY <2>1, <2>2
<1>12. Word(Word(Unslid(j)) + base) = Word(Unslid(j) + base)
  BY <1>1, <1>11, WordOfSum
<1> QED BY <1>2, <1>10, <1>11, <1>12

\* The pointers of the imports.
LEMMA ImportsRight == EndToEndInv /\ Plain => ImportsRightUpToAddend
<1> SUFFICES ASSUME EndToEndInv, Plain, stage = "loaded", NEW j \in DOMAIN elf.relocs,
                    ~Internal(j),
                    \/ BindAddend(elf.relocs[j]) # 0
                    \/ \A h \in DOMAIN elf.relocs : ~Internal(h) => BindAddend(elf.relocs[h]) = 0
             PROVE  Loaded(elf.relocs[j].offset) = BionicPointer(elf.relocs[j])
  <2>1. Relocs = {elf.relocs[j] : j \in DOMAIN elf.relocs}
    BY DEF Relocs, Range
  <2> QED BY <2>1 DEF ImportsRightUpToAddend, Internal
<1>1. TranslatorInv /\ pc = "done" /\ MemLoaded /\ FixupsExact
  BY LoadedFacts
<1>2. PICK v, r : v = elf.relocs[j].offset /\ r = elf.relocs[j]
  OBVIOUS
<1>3. j \in 1 .. k - 1 /\ PlaceOf(At(j)) = Slide + v
  BY <1>1, <1>2, RelocsDone
<1>4. PICK i \in DOMAIN bindings : BindFor(i, j)
  BY <1>1, <1>3 DEF FixupsExact
<1>5. /\ PlaceOf(bindings[i]) = Slide + v
      /\ bindings[i].symbol = elf.symbols[r.symbol + 1].name
      /\ bindings[i].addend = BindAddend(r)
  <2>1. PlaceOf(bindings[i]) = PlaceOf(At(j))
    BY <1>4 DEF BindFor, PlaceOf
  <2> QED BY <1>2, <1>3, <1>4, <2>1 DEF BindFor
<1>6. bindings[i].addend # 0 \/ NoAddends
  <2> SUFFICES ASSUME BindAddend(r) = 0 PROVE NoAddends
    BY <1>5
  <2>1. \A h \in DOMAIN elf.relocs : ~Internal(h) => BindAddend(elf.relocs[h]) = 0
    BY <1>2
  <2>2. ASSUME NEW b \in DOMAIN bindings PROVE bindings[b].addend = 0
    <3>1. PICK h \in 1 .. k - 1 : BindFor(b, h)
      BY <1>1 DEF FixupsExact
    <3>2. h \in DOMAIN elf.relocs
      <4>1. elf.relocs \in Seq(Relocation) /\ k - 1 = Len(elf.relocs)
        BY <1>1 DEF TranslatorInv, Phase3Inv, TypeOK, WellFormed, Elf, FixupsMatchRelocs
      <4> QED BY <4>1
    <3> QED BY <2>1, <3>1, <3>2 DEF BindFor
  <2> QED BY <2>2 DEF NoAddends
<1>7. Bound(i)
  BY <1>1 DEF MemLoaded
<1>8. mem[Slide + v] = Word(SymbolAddress[bindings[i].symbol] + bindings[i].addend)
  BY <1>5, <1>6, <1>7 DEF Bound
<1>9. Binds(r) /\ r.type # "RELATIVE"
  BY <1>2 DEF Internal, Binds
<1>10. BionicPointer(r) = Word(SymbolAddress[elf.symbols[r.symbol + 1].name] + BindAddend(r))
  BY <1>9 DEF BionicPointer
<1> QED BY <1>2, <1>5, <1>8, <1>10 DEF Loaded

\* The words that no relocation is for.
LEMMA ContentsKept == EndToEndInv /\ Plain => ContentsPreserved
<1> SUFFICES ASSUME EndToEndInv, Plain, stage = "loaded", NEW i \in DOMAIN elf.loads
             PROVE  /\ \A a \in FileWords(i) :
                         (\A r \in Relocs : r.offset # a) => Loaded(a) = ElfWord(a)
                    /\ \A a \in ZeroWords(i) : Loaded(a) = 0
  BY DEF ContentsPreserved
<1>1. /\ TranslatorInv /\ pc = "done" /\ Suits(lib) /\ TypeOK /\ PageSeparated
      /\ LayoutSound /\ LayoutProgress /\ ImageCopied /\ PlacesApart
  BY LoadedFacts
<1>2. i \in DOMAIN segments
  <2>1. segments \in Seq(Segment) /\ elf.loads \in Seq(LoadHeader)
        /\ Len(segments) = Len(elf.loads)
    BY <1>1 DEF TypeOK, WellFormed, Elf, LayoutProgress
  <2> QED BY <2>1
<1>3. /\ elf.loads[i].vaddr \in Nat /\ elf.loads[i].filesz \in Nat /\ elf.loads[i].memsz \in Nat
      /\ elf.loads[i].filesz <= elf.loads[i].memsz
  BY <1>1, LoadFacts
<1>4. \A j \in DOMAIN elf.relocs : elf.relocs[j] \in Relocs
  BY DEF Relocs, Range
<1>5. ASSUME NEW a \in FileWords(i), \A r \in Relocs : r.offset # a
      PROVE  Loaded(a) = ElfWord(a)
  <2>1. a \in Nat /\ InFile(i, a)
    BY <1>3 DEF FileWords, InFile
  <2>2. InLoad(i, a)
    BY <1>1, <2>1, FileIsInLoad
  <2>3. \A j \in DOMAIN elf.relocs : elf.relocs[j].offset # a
    BY <1>4, <1>5
  <2>4. Loaded(a) = SlidWord(Slide + a) /\ ~Slid(Slide + a)
    BY <1>2, <2>1, <2>2, <2>3, LoadedElsewhere
  <2>5. PICK o : o = segments[i].data_fileoff + (a - elf.loads[i].vaddr)
    OBVIOUS
  <2>6. Mapped(Slide + a) = image[o] /\ o \in 0 .. cursor - 1
    BY <1>1, <1>2, <2>1, <2>5, MappedIs
  <2>7. ASSUME NEW j \in 1 .. k - 1, At(j).out = o PROVE FALSE
    <3>1. /\ j \in DOMAIN elf.relocs /\ Holding(elf.relocs[j].offset) # {}
      <4>1. elf.relocs \in Seq(Relocation) /\ k - 1 = Len(elf.relocs)
        BY <1>1 DEF TranslatorInv, Phase3Inv, TypeOK, WellFormed, Elf, FixupsMatchRelocs
      <4>2. j \in DOMAIN elf.relocs
        BY <4>1
      <4> QED BY <1>1, <4>2, RelocsDone DEF Accepted
    <3>2. elf.relocs[j].offset \in Nat
      BY <1>1, <3>1, RelocsDone
    <3>3. PICK h \in DOMAIN segments : 
            /\ InFile(h, elf.relocs[j].offset)
            /\ At(j).out = segments[h].data_fileoff + (elf.relocs[j].offset - elf.loads[h].vaddr)
      BY <1>1, <3>1, RelocsDone
    <3>4. Owns(i, o, a) /\ Owns(h, o, elf.relocs[j].offset)
      BY <1>2, <2>1, <2>5, <2>7, <3>3 DEF Owns
    <3>5. a = elf.relocs[j].offset
      BY <1>1, <1>2, <2>1, <3>2, <3>4, OwnerUnique
    <3> QED BY <2>3, <3>1, <3>5
  <2>8. image[o] = CopiedWord(o)
    BY <1>1, <2>6, <2>7 DEF ImageCopied
  <2>9. CopiedWord(o) = ElfWord(a)
    <3>1. CopiedWord(segments[i].data_fileoff + (a - elf.loads[i].vaddr))
            = elf.data[elf.loads[i].offset + (a - elf.loads[i].vaddr) + 1]
      BY <1>1, <1>2, <2>1, CopiedIs
    <3>2. ElfWord(a) = elf.data[elf.loads[i].offset + (a - elf.loads[i].vaddr) + 1]
      BY <1>1, <2>1, ElfWordIs
    <3> QED BY <2>5, <3>1, <3>2
  <2> QED BY <2>4, <2>6, <2>8, <2>9 DEF SlidWord
<1>6. ASSUME NEW a \in ZeroWords(i) PROVE Loaded(a) = 0
  <2>1. a \in Nat /\ ~InFile(i, a) /\ InLoad(i, a)
    BY <1>3 DEF ZeroWords, InFile, InLoad
  <2>2. \A j \in DOMAIN elf.relocs : elf.relocs[j].offset # a
    <3> SUFFICES ASSUME NEW j \in DOMAIN elf.relocs, elf.relocs[j].offset = a PROVE FALSE
      OBVIOUS
    <3>1. PICK h \in DOMAIN segments : InFile(h, a)
      BY <1>1, RelocsDone
    <3>2. h \in DOMAIN elf.loads
      BY <1>1, SegmentOfLoad
    <3>3. InLoad(h, a)
      BY <1>1, <2>1, <3>1, <3>2, FileIsInLoad
    <3>4. h = i
      BY <1>1, <2>1, <3>2, <3>3, LoadUnique
    <3> QED BY <2>1, <3>1, <3>4
  <2>3. Loaded(a) = SlidWord(Slide + a) /\ ~Slid(Slide + a)
    BY <1>2, <2>1, <2>2, LoadedElsewhere
  <2>4. Mapped(Slide + a) = 0
    BY <1>1, <1>2, <2>1, MappedZero
  <2> QED BY <2>3, <2>4 DEF SlidWord
<1> QED BY <1>5, <1>6

\* A fixup that dyld refuses is for a relocation outside the writable loads.
LEMMA FaultsExplained == EndToEndInv /\ PageSeparated => FaultsOnlyOnTextRelocs
<1> SUFFICES ASSUME EndToEndInv, PageSeparated, stage = "fault"
             PROVE  \E r \in Relocs, i \in DOMAIN elf.loads :
                      r.offset \in FileWords(i) /\ (i = 1 \/ ~Flag(elf.loads[i].flags, 2))
  BY DEF FaultsOnlyOnTextRelocs
<1>1. PICK j \in DOMAIN elf.relocs : TextReloc(j)
  BY DEF EndToEndInv, RegInv
<1>2. elf.relocs[j] \in Relocs
  BY DEF Relocs, Range
<1> QED BY <1>1, <1>2 DEF TextReloc

\* No two symbols that the object exports have one name.
NamesApart ==
  \A i, j \in ExportedIn(elf) : elf.symbols[i].name = elf.symbols[j].name => i = j

\* The export table gives a name the address that its symbol has.
LEMMA ExportIs ==
  ASSUME TypeOK, NamesApart, NEW i \in ExportedIn(elf)
  PROVE  Exports[elf.symbols[i].name] = HeaderReserve + elf.symbols[i].value
<1> DEFINE n == elf.symbols[i].name
           same == {h \in ExportedIn(elf) : elf.symbols[h].name = n}
<1>1. i \in Int
  BY DEF TypeOK, WellFormed, Elf, ExportedIn
<1>2. same = {i}
  BY DEF NamesApart
<1>3. Exports[n] = HeaderReserve + elf.symbols[Max(same)].value
  <2>1. n \in {elf.symbols[h].name : h \in ExportedIn(elf)}
    OBVIOUS
  <2> QED BY <2>1 DEF Exports, ExportsOf
<1> HIDE DEF same
<1>4. same \in SUBSET Int /\ i \in same /\ \A x \in same : x <= i
  BY <1>1, <1>2
<1>5. Max(same) = i
  BY <1>1, <1>4, MaxIs
<1> QED BY <1>3, <1>5

\* The export table and the rebased pointers agree.
LEMMA ExportsRight == EndToEndInv /\ Plain /\ NamesApart => ExportsAgree
<1> SUFFICES ASSUME EndToEndInv, Plain, NamesApart, step4 = "done", stage = "loaded",
                    NEW j \in DOMAIN elf.relocs,
                    elf.relocs[j].type \in {"GLOB_DAT", "JUMP_SLOT"},
                    elf.relocs[j].addend = 0,
                    Exported(elf.symbols[elf.relocs[j].symbol + 1])
             PROVE  Loaded(elf.relocs[j].offset)
                      = Word(base + ImageBase
                             + final.exports[elf.symbols[elf.relocs[j].symbol + 1].name])
  <2>1. Relocs = {elf.relocs[j] : j \in DOMAIN elf.relocs}
    BY DEF Relocs, Range
  <2> QED BY <2>1 DEF ExportsAgree
<1>1. PICK r, i : r = elf.relocs[j] /\ i = r.symbol + 1
  OBVIOUS
<1>2. /\ TypeOK /\ base \in Nat /\ TranslatorInv /\ pc = "done" /\ Rewritten
  BY LoadedFacts DEF EndToEndInv
<1>3. i \in DOMAIN elf.symbols /\ elf.symbols[i].value \in Nat /\ r.type # "RELATIVE"
  BY <1>1, <1>2, RelocsDone
<1>4. i \in ExportedIn(elf)
  BY <1>1, <1>3 DEF ExportedIn
<1>5. Exports[elf.symbols[i].name] = HeaderReserve + elf.symbols[i].value
  BY <1>2, <1>4, ExportIs
<1>6. final.exports = Exports
  BY <1>2 DEF Rewritten
<1>7. ~Binds(r) /\ r \in Relocs
  BY <1>1 DEF Binds, Exported, Relocs, Range
<1>8. Loaded(r.offset) = BionicPointer(r)
  BY <1>7, InternalRight DEF InternalPointersRight
<1>9. PICK x : x = elf.symbols[i].value
  OBVIOUS
<1>10. BionicPointer(r) = Word(Bias + x + 0 + 0)
  BY <1>1, <1>3, <1>7, <1>9 DEF BionicPointer, Implicit
<1>11. Bias + x + 0 + 0 = base + ImageBase + (HeaderReserve + x)
  BY <1>2, <1>3, <1>9, LayoutAssumption DEF Bias, Slide
<1> QED BY <1>1, <1>5, <1>6, <1>8, <1>9, <1>10, <1>11
=============================================================================
