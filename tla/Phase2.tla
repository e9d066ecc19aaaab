------------------------------- MODULE Phase2 -------------------------------
(***************************************************************************)
(* Phase2Translator of translate.py: the static translation.  The PT_LOADs *)
(* are laid out as in Phase 3 but behind a __HEADER segment of one page,   *)
(* the relocations against the object itself are written into the image,   *)
(* and the others are left as they are and reported.  There are no dyld    *)
(* opcodes, so the image is right only where it was linked to be.          *)
(*                                                                         *)
(* An ELF is given to Phase 2, or to Phase 3 and perhaps on to Phase 4;    *)
(* the three keep the same promise, TranslatorContract.                    *)
(***************************************************************************)
EXTENDS Phase4, ElfFile

CONSTANTS FixedCommandSize2,    \* mach_header, LC_ID_DYLIB and LC_BUILD_VERSION
          SegmentCommandSize2   \* one LC_SEGMENT_64 without sections

ASSUME Phase2Assumption == FixedCommandSize2 \in Nat /\ SegmentCommandSize2 \in Nat

VARIABLES pc2,          \* "idle", "relocate", "done" or "error"
          k2,           \* the relocation the loop is at
          loads,        \* self.loads
          image2,       \* the bytearray
          patched2, unresolved,
          dylib2        \* the dylib written

vars2 == <<pc2, k2, loads, image2, patched2, unresolved, dylib2>>
-----------------------------------------------------------------------------
\* The cursor of _map_loads: behind the header page, then in front of the page
\* of the file that the load before ends in.
FileStart[i \in DOMAIN elf.loads] ==
  IF i = 1 THEN PageSize
  ELSE Align(FileEnd(LaterSegment(elf.loads[i - 1], FileStart[i - 1])))

\* MappedLoad: every load at its address plus the slide.
MapLoads == [i \in DOMAIN elf.loads |-> LaterSegment(elf.loads[i], FileStart[i])]

DataEnd2(ls) == Max({Align(FileEnd(ls[i])) : i \in DOMAIN ls})

\* The pointer at output offset o once every load is copied.
CopiedWord2(ls, o) ==
  LET owners == {i \in DOMAIN ls : o - ls[i].data_fileoff \in 0 .. ls[i].elf_filesz - 1}
      seg    == ls[Max(owners)]
  IN IF owners = {} THEN 0 ELSE elf.data[seg.elf_offset + (o - seg.data_fileoff) + 1]

Init2 == /\ pc2 = "idle" /\ k2 = 1 /\ loads = <<>> /\ image2 = <<>>
         /\ patched2 = [t \in {"RELATIVE", "ABS64", "GLOB_DAT", "JUMP_SLOT"} |-> 0]
         /\ unresolved = <<>> /\ dylib2 = <<>>

\* TranslateError: nothing is written.
Fail2 == pc2' = "error" /\ UNCHANGED <<k2, loads, image2, patched2, unresolved, dylib2>>

RejectElf2 == /\ pc2 = "idle" /\ pc = "construct"
              /\ ~elf.supported \/ elf.loads = <<>>
              /\ Fail2

\* The constructor, and translate up to the loop.
MapAndCopy ==
  /\ pc2 = "idle" /\ pc = "construct" /\ elf.supported /\ elf.loads # <<>>
  /\ loads' = MapLoads
  /\ image2' = [o \in 0 .. DataEnd2(MapLoads) - 1 |-> CopiedWord2(MapLoads, o)]
  /\ pc2' = "relocate"
  /\ UNCHANGED <<k2, patched2, unresolved, dylib2>>
-----------------------------------------------------------------------------
AtReloc2 == pc2 = "relocate" /\ k2 <= Len(elf.relocs)
Rel2     == elf.relocs[k2]
Sym2     == elf.symbols[Rel2.symbol + 1]

Holding2 == {i \in DOMAIN loads :
               Rel2.offset - loads[i].elf_vaddr \in 0 .. loads[i].elf_filesz - 1}

\* _vaddr_to_output_offset: the first load that holds the address.
Dst == LET seg == loads[Min(Holding2)]
       IN seg.data_fileoff + (Rel2.offset - seg.elf_vaddr)

SymbolicRel2 == /\ Rel2.type \in {"ABS64", "GLOB_DAT", "JUMP_SLOT"}
                /\ Rel2.symbol < Len(elf.symbols)

RejectReloc2 == /\ AtReloc2
                /\ Holding2 = {} \/ (Rel2.type # "RELATIVE" /\ ~SymbolicRel2)
                /\ Fail2

Patch2(value) == /\ image2' = [image2 EXCEPT ![Dst] = Word(value)]
                 /\ patched2' = [patched2 EXCEPT ![Rel2.type] = @ + 1]
                 /\ k2' = k2 + 1
                 /\ UNCHANGED <<pc2, loads, unresolved, dylib2>>

PatchRelative2 == /\ AtReloc2 /\ Holding2 # {} /\ Rel2.type = "RELATIVE"
                  /\ Patch2(Slide + Rel2.addend)

\* ABS64 adds to the pointer at the place, as Bionic does.
PatchInternal2 ==
  /\ AtReloc2 /\ Holding2 # {} /\ SymbolicRel2 /\ Sym2.defined
  /\ Patch2(Slide + Sym2.value + Rel2.addend
            + (IF Rel2.type = "ABS64" THEN image2[Dst] ELSE 0))

\* Mutant of LeaveUnresolved: the place is cleared for a later phase to fill.
LeaveUnresolvedCleared ==
  /\ AtReloc2 /\ Holding2 # {} /\ SymbolicRel2 /\ ~Sym2.defined
  /\ unresolved' = Append(unresolved, Sym2.name)
  /\ image2' = [image2 EXCEPT ![Dst] = 0]
  /\ k2' = k2 + 1
  /\ UNCHANGED <<pc2, loads, patched2, dylib2>>

LeaveUnresolved ==
  /\ AtReloc2 /\ Holding2 # {} /\ SymbolicRel2 /\ ~Sym2.defined
  /\ unresolved' = Append(unresolved, Sym2.name)
  /\ k2' = k2 + 1
  /\ UNCHANGED <<pc2, loads, image2, patched2, dylib2>>
-----------------------------------------------------------------------------
HeaderSize2 == FixedCommandSize2 + SegmentCommandSize2 * (Len(loads) + 1)

\* __HEADER: one page of the file, up to the first address of the ELF.
HeaderSegment == [vmaddr |-> ImageBase, vmsize |-> HeaderReserve,
                  fileoff |-> 0, filesize |-> PageSize, prot |-> {"r"}]

AtEnd2 == pc2 = "relocate" /\ k2 > Len(elf.relocs)

RejectHeader2 == AtEnd2 /\ HeaderSize2 > PageSize /\ Fail2

\* The header goes over the front of the image; there is nothing for dyld to run.
WriteDylib2 ==
  /\ AtEnd2 /\ HeaderSize2 <= PageSize
  /\ dylib2' = [file     |-> [o \in DOMAIN image2 |->
                                IF o < HeaderSize2 THEN -1 ELSE image2[o]],
                segments |-> <<HeaderSegment>> \o loads,
                rebase   |-> <<[op |-> "done"]>>, bind |-> <<[op |-> "done"]>>]
  /\ pc2' = "done"
  /\ UNCHANGED <<k2, loads, image2, patched2, unresolved>>

Translate2 == \/ RejectElf2 \/ MapAndCopy \/ RejectReloc2 \/ PatchRelative2
              \/ PatchInternal2 \/ LeaveUnresolved \/ RejectHeader2 \/ WriteDylib2

\* Only the address it was linked for suits a dylib without rebases.
Load2 == /\ pc2 = "done"
         /\ (dyld!Open(dylib2) /\ base' = 0) \/ dyld!Next

InitAll == Init4 /\ Init2

NextAll == \/ Translate2 /\ UNCHANGED vars4
           \/ Load2 /\ UNCHANGED <<vars, step4, final, vars2>>
           \/ pc2 = "idle" /\ Next4 /\ UNCHANGED vars2

SpecAll == InitAll /\ [][NextAll]_<<vars4, vars2>>
-----------------------------------------------------------------------------
\* The imports that Phase 2 leaves to a later phase are in its image what they
\* are in the ELF: the implicit addend of an ABS64 that the later phase will
\* read is not lost, and no neighbouring patch has run into it.
UnresolvedKept ==
  pc2 = "done" /\ stage = "loaded" =>
    \A r \in Relocs : Binds(r) => Loaded(r.offset) = ElfWord(r.offset)

Sum(p) == p["RELATIVE"] + p["ABS64"] + p["GLOB_DAT"] + p["JUMP_SLOT"]
Count(names) == [n \in Range(names) |-> Cardinality({i \in DOMAIN names : names[i] = n})]

\* What the opcodes of a dylib say, and what the report says.
InStreams(dylib) ==
  [internal |-> Cardinality({i \in DOMAIN dylib.rebase : dylib.rebase[i].op = "rebase"}),
   imports  |-> LET named == {i \in DOMAIN dylib.bind : dylib.bind[i].op = "symbol"}
                IN Count([i \in named |-> dylib.bind[i].symbol])]

Reported == [internal |-> Sum(patched), imports |-> out.imports]

\* What has become of a translation: written as reported, or refused.
Result(done, error, claims, dylib) ==
  IF done THEN IF InStreams(dylib) = claims THEN [status |-> "done", tally |-> claims]
               ELSE [status |-> "misreported"]
  ELSE [status |-> IF error THEN "refused" ELSE "pending"]

Result2 == IF pc2 = "done"
           THEN [status |-> "done",
                 tally |-> [internal |-> Sum(patched2), imports |-> Count(unresolved)]]
           ELSE [status |-> IF pc2 = "error" THEN "refused" ELSE "pending"]
Result3 == Result(pc = "done", pc = "error", Reported, out)
Result4 == Result(step4 = "done", step4 = "error", Reported, final)

\* What each phase can translate, said in terms of the ELF alone.
Accepts2(e) == /\ e.supported /\ e.loads # <<>> /\ Relocatable(e)
               /\ FixedCommandSize2 + SegmentCommandSize2 * (Len(e.loads) + 1) <= PageSize
Accepts3(e) == /\ e.supported /\ e.loads # <<>> /\ TextFirst(e) /\ Relocatable(e)
               /\ \A r \in Range(e.relocs) : Min(LoadsOf(e, r)) <= MaxOpcodeSegments
               /\ FixedCommandSize + SegmentCommandSize * Len(e.loads) <= HeaderReserve
Accepts4(e) ==
  /\ Accepts3(e) /\ TrieBuilds(e)
  /\ FixedCommandSize + SymtabCommandSize + SegmentCommandSize * Len(e.loads) <= HeaderReserve

C2 == INSTANCE TranslatorContract WITH Accepts <- Accepts2, result <- Result2
C3 == INSTANCE TranslatorContract WITH Accepts <- Accepts3, result <- Result3
C4 == INSTANCE TranslatorContract WITH Accepts <- Accepts4, result <- Result4

\* Each phase implements the contract: it translates exactly the objects it can,
\* once, with every relocation accounted for in the report and, from Phase 3 on,
\* in dyld's opcodes, so that the phases agree on what is resolved and on what is
\* left to the shim; it refuses any other as a whole.
KeepContract == C2!Spec /\ C3!Spec /\ C4!Spec
=============================================================================
