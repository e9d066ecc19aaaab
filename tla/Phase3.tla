------------------------------- MODULE Phase3 -------------------------------
(***************************************************************************)
(* Phase3Translator of phase3.py: an AArch64 ELF shared object becomes a   *)
(* Mach-O dylib.  The PT_LOADs are laid out as Mach-O segments with one    *)
(* constant slide, the ELF relocations become words patched in the image   *)
(* plus dyld rebase and bind opcodes, and everything is written out behind *)
(* a header that has a fixed reserve.                                      *)
(*                                                                         *)
(* Addresses, sizes and file offsets are counted in pointers (8 bytes).    *)
(***************************************************************************)
EXTENDS Integers, Sequences, FiniteSetsExt, SequencesExt

CONSTANTS PageSize,            \* IOS_PAGE, in pointers
          HeaderReserve,       \* HEADER_RESERVE, in pointers
          ImageBase,           \* IMAGE_BASE
          WordMod,             \* the number of values of one pointer (2^64)
          MaxOpcodeSegments,   \* segments a dyld opcode can name (16)
          FixedCommandSize,    \* mach_header and the segment-independent commands
          SegmentCommandSize,  \* one LC_SEGMENT_64 with its section
          Elfs                 \* the ELF objects given to the translator

RelocTypes == {"RELATIVE", "ABS64", "GLOB_DAT", "JUMP_SLOT", "other"}

LoadHeader == [vaddr : Nat, offset : Nat, filesz : Nat, memsz : Nat,
               flags : 0 .. 7]
Relocation == [offset : Nat, type : RelocTypes, symbol : Nat, addend : Int]
Symbol     == [name : STRING, defined : BOOLEAN, value : Nat,
               binding : {"local", "global", "weak"},
               type : {"notype", "object", "func"}]
Section    == [name : STRING, addr : Nat, size : Nat]

\* What the translator reads of an Elf64: whether it is an AArch64 ET_DYN,
\* the PT_LOADs in table order, the SHT_RELA entries of all the sections, the
\* dynamic symbols (index 0 first), the sections in memory and the file itself.
Elf == [supported : BOOLEAN, loads : Seq(LoadHeader), relocs : Seq(Relocation),
        symbols : Seq(Symbol), sections : Seq(Section),
        data : Seq(0 .. WordMod - 1)]

ASSUME LayoutAssumption ==
  /\ PageSize \in Nat \ {0}
  /\ HeaderReserve \in Nat /\ HeaderReserve % PageSize = 0
  /\ ImageBase \in Nat /\ ImageBase % PageSize = 0
  /\ WordMod \in Nat \ {0}
  /\ MaxOpcodeSegments \in Nat
  /\ FixedCommandSize \in Nat /\ SegmentCommandSize \in Nat

\* An ELF file holds what its program headers say it holds.
WellFormed(e) ==
  /\ e \in Elf
  /\ \A i \in DOMAIN e.loads :
       /\ e.loads[i].filesz <= e.loads[i].memsz
       /\ e.loads[i].offset + e.loads[i].filesz <= Len(e.data)

ASSUME ElfsAssumption == \A e \in Elfs : WellFormed(e)

VARIABLES elf,        \* self.elf
          pc,         \* how far __init__ and translate() have come
          k,          \* the load or the relocation the loop is at
          segments,   \* self.segments
          cursor,     \* the layout's file cursor
          image,      \* the bytearray, one entry per pointer
          rebases, bindings, patched,
          out         \* the dylib written, and the shim imports reported

vars == <<elf, pc, k, segments, cursor, image, rebases, bindings, patched, out>>
-----------------------------------------------------------------------------
Slide == ImageBase + HeaderReserve

Floor(v) == (v \div PageSize) * PageSize

Align(v) == ((v + PageSize - 1) \div PageSize) * PageSize

Word(v) == v % WordMod

\* Bit b of a program header's flags: PF_X, PF_W and PF_R are 1, 2 and 4.
Flag(flags, b) == (flags \div b) % 2 = 1

\* Mutant of MachProt: the masks of write and execute are exchanged.
MachProtSwapped(flags) == {p \in {"r", "w", "x"} :
  Flag(flags, IF p = "r" THEN 4 ELSE IF p = "w" THEN 1 ELSE 2)}

MachProt(flags) == {p \in {"r", "w", "x"} :
  Flag(flags, IF p = "r" THEN 4 ELSE IF p = "w" THEN 2 ELSE 1)}

\* The __TEXT segment: the header reserve, then the first PT_LOAD.
TextSegment(ph) ==
  [vmaddr |-> ImageBase, vmsize |-> Align(HeaderReserve + ph.memsz),
   fileoff |-> 0, filesize |-> HeaderReserve + ph.filesz,
   prot |-> {"r", "x"},
   elf_vaddr |-> ph.vaddr, elf_offset |-> ph.offset, elf_filesz |-> ph.filesz,
   data_addr |-> Slide, data_fileoff |-> HeaderReserve]

\* Mutant of LaterSegment: the part of the page in front of the data is
\* forgotten in the file.
LaterSegmentNoDelta(ph, at) ==
  [vmaddr |-> Floor(Slide + ph.vaddr),
   vmsize |-> Align(Slide + ph.vaddr - Floor(Slide + ph.vaddr) + ph.memsz),
   fileoff |-> at, filesize |-> ph.filesz, prot |-> MachProt(ph.flags),
   elf_vaddr |-> ph.vaddr, elf_offset |-> ph.offset, elf_filesz |-> ph.filesz,
   data_addr |-> Slide + ph.vaddr, data_fileoff |-> at]

\* Any later PT_LOAD, from file offset at.
LaterSegment(ph, at) ==
  LET new_vm == Slide + ph.vaddr
      delta  == new_vm - Floor(new_vm)
  IN [vmaddr |-> Floor(new_vm), vmsize |-> Align(delta + ph.memsz),
      fileoff |-> at, filesize |-> delta + ph.filesz, prot |-> MachProt(ph.flags),
      elf_vaddr |-> ph.vaddr, elf_offset |-> ph.offset, elf_filesz |-> ph.filesz,
      data_addr |-> new_vm, data_fileoff |-> at + delta]

FileEnd(seg) == seg.fileoff + seg.filesize

\* The file-backed segments that hold an ELF address, and _location: the
\* first of them, with the offsets into the output file and the segment.
Holding(vaddr) ==
  {i \in DOMAIN segments : /\ segments[i].elf_vaddr <= vaddr
                           /\ vaddr < segments[i].elf_vaddr + segments[i].elf_filesz}

\* Mutant of Location: the offset into the segment is taken from the data.
LocationFromData(vaddr) ==
  LET i == CHOOSE i \in Holding(vaddr) : \A j \in Holding(vaddr) : i <= j
  IN [seg |-> i - 1,
      out |-> segments[i].data_fileoff + (vaddr - segments[i].elf_vaddr),
      off |-> vaddr - segments[i].elf_vaddr]

Location(vaddr) ==
  LET i == CHOOSE i \in Holding(vaddr) : \A j \in Holding(vaddr) : i <= j
  IN [seg |-> i - 1,
      out |-> segments[i].data_fileoff + (vaddr - segments[i].elf_vaddr),
      off |-> (Slide + vaddr) - segments[i].vmaddr]
-----------------------------------------------------------------------------
Init == /\ elf \in Elfs
        /\ pc = "construct" /\ k = 1
        /\ segments = <<>> /\ cursor = 0
        /\ image = <<>> /\ rebases = <<>> /\ bindings = <<>>
        /\ patched = [t \in {"RELATIVE", "ABS64", "GLOB_DAT", "JUMP_SLOT"} |-> 0]
        /\ out = [written |-> FALSE]

\* Phase3Error: nothing is written.
Fail == pc' = "error" /\ UNCHANGED <<elf, k, segments, cursor, image, rebases,
                                     bindings, patched, out>>

AcceptsElf == /\ elf.supported
              /\ elf.loads # <<>>
              /\ elf.loads[1].vaddr = 0 /\ Flag(elf.loads[1].flags, 1)

RejectElf == pc = "construct" /\ ~AcceptsElf /\ Fail

LayoutText ==
  /\ pc = "construct" /\ AcceptsElf
  /\ segments' = <<TextSegment(elf.loads[1])>>
  /\ cursor' = Align(TextSegment(elf.loads[1]).filesize)
  /\ pc' = "layout" /\ k' = 2
  /\ UNCHANGED <<elf, image, rebases, bindings, patched, out>>

\* Mutant of LayoutLoad: the cursor is left where the last segment began.
LayoutLoadSameCursor ==
  /\ pc = "layout" /\ k <= Len(elf.loads)
  /\ segments' = Append(segments, LaterSegment(elf.loads[k], Align(cursor)))
  /\ k' = k + 1
  /\ UNCHANGED <<elf, pc, cursor, image, rebases, bindings, patched, out>>

LayoutLoad ==
  /\ pc = "layout" /\ k <= Len(elf.loads)
  /\ LET seg == LaterSegment(elf.loads[k], Align(cursor))
     IN /\ segments' = Append(segments, seg)
        /\ cursor' = Align(FileEnd(seg))
  /\ k' = k + 1
  /\ UNCHANGED <<elf, pc, image, rebases, bindings, patched, out>>

DataEnd == Max({Align(FileEnd(segments[i])) : i \in DOMAIN segments})

\* The pointer at output offset o once every segment's data is copied.
CopiedWord(o) ==
  LET owners == {i \in DOMAIN segments :
                   /\ segments[i].data_fileoff <= o
                   /\ o < segments[i].data_fileoff + segments[i].elf_filesz}
  IN IF owners = {} THEN 0
     ELSE LET seg == segments[Max(owners)]
          IN elf.data[seg.elf_offset + (o - seg.data_fileoff) + 1]

CopyLoads ==
  /\ pc = "layout" /\ k > Len(elf.loads)
  /\ image' = [o \in 0 .. DataEnd - 1 |-> CopiedWord(o)]
  /\ pc' = "relocate" /\ k' = 1
  /\ UNCHANGED <<elf, segments, cursor, rebases, bindings, patched, out>>
-----------------------------------------------------------------------------
\* One round of the relocation loop: where the relocation points and what it
\* names.
AtReloc == pc = "relocate" /\ k <= Len(elf.relocs)
Rel     == elf.relocs[k]
Loc     == Location(Rel.offset)
Sym     == elf.symbols[Rel.symbol + 1]

\* The pointer already at the place counts for ABS64 only.
Existing == IF Rel.type = "ABS64" THEN image[Loc.out] ELSE 0

SymbolicRel == /\ Rel.type \in {"ABS64", "GLOB_DAT", "JUMP_SLOT"}
               /\ Rel.symbol < Len(elf.symbols)

\* Outside every file-backed PT_LOAD, an unsupported type, or a bad index.
RejectReloc == /\ AtReloc
               /\ \/ Holding(Rel.offset) = {}
                  \/ Rel.type # "RELATIVE" /\ ~SymbolicRel
               /\ Fail

\* The image gets the unslid pointer and dyld is told to rebase it.
PatchAndRebase(value) ==
  /\ image' = [image EXCEPT ![Loc.out] = Word(value)]
  /\ rebases' = Append(rebases, [seg |-> Loc.seg, off |-> Loc.off])
  /\ patched' = [patched EXCEPT ![Rel.type] = @ + 1]
  /\ k' = k + 1
  /\ UNCHANGED <<elf, pc, segments, cursor, bindings, out>>

\* Mutant of PatchRelative: the addend is taken as the new address.
PatchRelativeUnslid ==
  /\ AtReloc /\ Holding(Rel.offset) # {} /\ Rel.type = "RELATIVE"
  /\ PatchAndRebase(Rel.addend)

PatchRelative ==
  /\ AtReloc /\ Holding(Rel.offset) # {} /\ Rel.type = "RELATIVE"
  /\ PatchAndRebase(Slide + Rel.addend)

PatchInternal ==
  /\ AtReloc /\ Holding(Rel.offset) # {} /\ SymbolicRel /\ Sym.defined
  /\ PatchAndRebase(Slide + Sym.value + Rel.addend + Existing)

\* Mutant of BindExternal: the place is rebased as well as bound.
BindExternalRebased ==
  /\ AtReloc /\ Holding(Rel.offset) # {} /\ SymbolicRel /\ ~Sym.defined
  /\ bindings' = Append(bindings, [seg |-> Loc.seg, off |-> Loc.off,
                                   symbol |-> Sym.name,
                                   addend |-> Rel.addend + Existing])
  /\ rebases' = Append(rebases, [seg |-> Loc.seg, off |-> Loc.off])
  /\ k' = k + 1
  /\ UNCHANGED <<elf, pc, segments, cursor, image, patched, out>>

\* An undefined symbol is bound to the shim's _a2i_ name by dyld.
BindExternal ==
  /\ AtReloc /\ Holding(Rel.offset) # {} /\ SymbolicRel /\ ~Sym.defined
  /\ bindings' = Append(bindings, [seg |-> Loc.seg, off |-> Loc.off,
                                   symbol |-> Sym.name,
                                   addend |-> Rel.addend + Existing])
  /\ k' = k + 1
  /\ UNCHANGED <<elf, pc, segments, cursor, image, rebases, patched, out>>
-----------------------------------------------------------------------------
Before(a, b) == a.seg < b.seg \/ (a.seg = b.seg /\ a.off < b.off)

\* sorted(), which is stable: element j goes behind those that are before it and
\* those of its place that it came behind.  (SortSeq is opaque to the provers.)
UpTo(s, j) == {i \in DOMAIN s : Before(s[i], s[j]) \/ (~Before(s[j], s[i]) /\ i <= j)}

Sorted(s) ==
  [n \in DOMAIN s |-> s[CHOOSE j \in DOMAIN s : Cardinality(UpTo(s, j)) = n]]

GoTo(l) == [op |-> "segment", seg |-> l.seg, off |-> l.off]

\* _rebase_stream and _bind_stream: one record per opcode.
RebaseStream ==
  LET locations == Sorted(rebases)
  IN <<[op |-> "type"]>>
     \o FlattenSeq([i \in DOMAIN locations |->
                      <<GoTo(locations[i]), [op |-> "rebase"]>>])
     \o <<[op |-> "done"]>>

\* Mutant of BindOps: no addend is ever set.
BindOpsNoAddend(b) ==
  <<[op |-> "symbol", symbol |-> b.symbol], GoTo(b), [op |-> "bind"]>>

BindOps(b) ==
  <<[op |-> "symbol", symbol |-> b.symbol]>>
  \o (IF b.addend # 0 THEN <<[op |-> "addend", addend |-> b.addend]>> ELSE <<>>)
  \o <<GoTo(b), [op |-> "bind"]>>

BindStream ==
  LET items == Sorted(bindings)
  IN <<[op |-> "ordinal"], [op |-> "type"]>>
     \o FlattenSeq([i \in DOMAIN items |-> BindOps(items[i])])
     \o <<[op |-> "done"]>>

\* __LINKEDIT, behind the image in the file and behind the segments in memory;
\* an opcode counts as one word.
Linkedit ==
  LET size == Len(RebaseStream) + Len(BindStream)
  IN [vmaddr |-> Align(Max({segments[i].vmaddr + segments[i].vmsize :
                              i \in DOMAIN segments})),
      vmsize |-> Align(size), fileoff |-> Align(DataEnd), filesize |-> size,
      prot |-> {"r"}]

HeaderSize == FixedCommandSize + SegmentCommandSize * Len(segments)

SegmentsEncodable ==
  /\ \A i \in DOMAIN rebases  : rebases[i].seg < MaxOpcodeSegments
  /\ \A i \in DOMAIN bindings : bindings[i].seg < MaxOpcodeSegments

\* Mutant of HeaderFits: the load commands may run past the reserve.
HeaderFitsAlways == TRUE

HeaderFits == HeaderSize <= HeaderReserve

AtEnd == pc = "relocate" /\ k > Len(elf.relocs)

RejectOutput == AtEnd /\ ~(SegmentsEncodable /\ HeaderFits) /\ Fail

\* The words of the final file that the header and the load commands, or the
\* opcodes in __LINKEDIT with their padding, occupy are not pointers: -1.
FinalWord(o) == IF o < HeaderSize \/ o >= DataEnd THEN -1 ELSE image[o]

\* The dylib as written, and shim_imports: how many bindings each undefined
\* symbol has.
WriteDylib ==
  /\ AtEnd /\ SegmentsEncodable /\ HeaderFits
  /\ out' = [written  |-> TRUE,
             file     |-> [o \in 0 .. Align(FileEnd(Linkedit)) - 1 |-> FinalWord(o)],
             segments |-> segments \o <<Linkedit>>,
             rebase   |-> RebaseStream, bind |-> BindStream,
             imports  |-> [s \in {bindings[i].symbol : i \in DOMAIN bindings} |->
                             Cardinality({i \in DOMAIN bindings :
                                            bindings[i].symbol = s})]]
  /\ pc' = "done"
  /\ UNCHANGED <<elf, k, segments, cursor, image, rebases, bindings, patched>>

Next == \/ RejectElf \/ LayoutText \/ LayoutLoad \/ CopyLoads
        \/ RejectReloc \/ PatchRelative \/ PatchInternal \/ BindExternal
        \/ RejectOutput \/ WriteDylib

Spec == Init /\ [][Next]_vars
-----------------------------------------------------------------------------
Segment == [vmaddr : Nat, vmsize : Nat, fileoff : Nat, filesize : Nat,
            prot : SUBSET {"r", "w", "x"}, elf_vaddr : Nat, elf_offset : Nat,
            elf_filesz : Nat, data_addr : Nat, data_fileoff : Nat]
Place   == [seg : Nat, off : Nat]
Binding == [seg : Nat, off : Nat, symbol : STRING, addend : Int]

\* The types of the translator's lists, and of the image once it is made: one
\* pointer for every offset below the file cursor.
TypeOK ==
  /\ WellFormed(elf)
  /\ pc \in {"construct", "layout", "relocate", "done", "error"}
  /\ k \in Nat \ {0}
  /\ segments \in Seq(Segment) /\ cursor \in Nat
  /\ pc \in {"relocate", "done"} => image \in [0 .. cursor - 1 -> 0 .. WordMod - 1]
  /\ rebases \in Seq(Place) /\ bindings \in Seq(Binding)
  /\ patched \in [{"RELATIVE", "ABS64", "GLOB_DAT", "JUMP_SLOT"} -> Nat]
  /\ out.written \in BOOLEAN

\* A segment that holds a load: page-aligned in memory and in the file, the
\* load's contents at its address plus the slide, and at the same distance
\* from the segment's start in the file as in memory, with room for memsz.
HoldsLoad(s, ph) ==
  /\ s.vmaddr % PageSize = 0 /\ s.fileoff % PageSize = 0
  /\ s.elf_vaddr = ph.vaddr /\ s.elf_offset = ph.offset
  /\ s.elf_filesz = ph.filesz
  /\ s.data_addr = Slide + ph.vaddr /\ s.vmaddr <= s.data_addr
  /\ s.data_addr - s.vmaddr = s.data_fileoff - s.fileoff
  /\ s.data_fileoff + ph.filesz = FileEnd(s)
  /\ s.data_fileoff >= HeaderReserve
  /\ s.vmaddr + s.vmsize = Slide + Align(ph.vaddr + ph.memsz)

SegmentPlaced(i) ==
  /\ HoldsLoad(segments[i], elf.loads[i])
  /\ i > 1 => segments[i].vmaddr = Slide + Floor(elf.loads[i].vaddr)

SegmentsPlaced == \A i \in DOMAIN segments : SegmentPlaced(i)

\* Two segments never share a byte of the file.
FilesDisjoint ==
  \A i, j \in DOMAIN segments : i < j => FileEnd(segments[i]) <= segments[j].fileoff

\* No two loads of the ELF meet in one page of the target.
PageSeparated ==
  \A i, j \in DOMAIN elf.loads :
    i < j => Align(elf.loads[i].vaddr + elf.loads[i].memsz) <= Floor(elf.loads[j].vaddr)

\* Two segments of page-separated loads never share a byte of memory.
PagesDisjoint ==
  PageSeparated =>
    \A i, j \in DOMAIN segments :
      i < j => segments[i].vmaddr + segments[i].vmsize <= segments[j].vmaddr

\* _layout_segments: however many loads there are, wherever they begin in
\* their page, the segments hold them at one constant slide and do not
\* overlap in the file, nor in memory when their pages do not.
LayoutSound == SegmentsPlaced /\ FilesDisjoint /\ PagesDisjoint

\* _location: the word patched in the file is the word dyld will fix up, and
\* it is the one the ELF address denotes.
LocationsAgree ==
  pc = "relocate" =>
    \A j \in DOMAIN elf.relocs :
      LET v == elf.relocs[j].offset
          l == Location(v)
      IN Holding(v) # {} =>
           /\ segments[l.seg + 1].vmaddr + l.off = Slide + v
           /\ segments[l.seg + 1].fileoff + l.off = l.out

Binds(r) == r.type # "RELATIVE" /\ ~elf.symbols[r.symbol + 1].defined

\* The unslid address an opcode's segment and offset denote.
PlaceOf(l) == segments[l.seg + 1].vmaddr + l.off

\* Relocation j has a fixup of its kind at its address.
HasFixup(j) ==
  LET r == elf.relocs[j]
  IN IF Binds(r)
     THEN \E i \in DOMAIN bindings :
            /\ PlaceOf(bindings[i]) = Slide + r.offset
            /\ bindings[i].symbol = elf.symbols[r.symbol + 1].name
     ELSE \E i \in DOMAIN rebases : PlaceOf(rebases[i]) = Slide + r.offset

\* One of the first n relocations asks for rebase i.
AskedFor(i, n) ==
  \E j \in 1 .. n : /\ ~Binds(elf.relocs[j])
                    /\ PlaceOf(rebases[i]) = Slide + elf.relocs[j].offset

\* The relocation loop drops nothing and invents nothing: after k - 1 rounds
\* there are k - 1 fixups, each relocation has one of its kind at its address,
\* and each rebase is at the address of a relocation that asks for one.
FixupsMatchRelocs ==
  /\ pc \in {"relocate", "done"} =>
       /\ Len(rebases) + Len(bindings) = k - 1
       /\ k - 1 <= Len(elf.relocs)
       /\ \A j \in 1 .. k - 1 : HasFixup(j)
       /\ \A i \in DOMAIN rebases : AskedFor(i, k - 1)
  /\ pc = "done" => k - 1 = Len(elf.relocs)

\* What the layout loop keeps besides, so that the next segment goes behind
\* the ones that are there.
LayoutProgress ==
  /\ Len(segments) <= Len(elf.loads)
  /\ pc = "construct" => segments = <<>>
  /\ pc \in {"construct", "layout"} => rebases = <<>> /\ bindings = <<>>
  /\ pc = "layout" => Len(segments) = k - 1
  /\ pc \in {"relocate", "done"} => Len(segments) = Len(elf.loads)
  /\ pc \in {"layout", "relocate", "done"} =>
       /\ segments # <<>>
       /\ cursor = Align(FileEnd(segments[Len(segments)]))

\* The inductive invariant of the translator.
Phase3Inv == TypeOK /\ LayoutSound /\ LayoutProgress /\ FixupsMatchRelocs
=============================================================================
