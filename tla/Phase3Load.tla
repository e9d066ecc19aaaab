----------------------------- MODULE Phase3Load -----------------------------
(***************************************************************************)
(* End to end: an ELF is translated by Phase 3 and the dylib is loaded by  *)
(* dyld.  Every pointer of the loaded image must be the one the Android    *)
(* linker would have left there.                                           *)
(***************************************************************************)
EXTENDS Phase3

CONSTANTS Bases, SymbolAddress

ASSUME BasesAssumption == Bases \subseteq Nat

VARIABLES lib, stage, base, mem, ip, reg

dyld == INSTANCE Dyld WITH WordMod <- WordMod

dyldVars == <<lib, stage, base, mem, ip, reg>>
loadVars == <<elf, pc, k, segments, cursor, image, rebases, bindings, patched,
              out, lib, stage, base, mem, ip, reg>>

LoadInit == Init /\ dyld!Init

Translate == Next /\ UNCHANGED dyldVars
Load      == /\ pc = "done"
             /\ dyld!Open(out) \/ dyld!Next
             /\ UNCHANGED vars

LoadNext == Translate \/ Load

LoadSpec == LoadInit /\ [][LoadNext]_loadVars
-----------------------------------------------------------------------------
\* The reference: what Bionic's linker writes for relocation j when it loads
\* the ELF at address base + Slide (external).
Bias == base + Slide

ElfWord(vaddr) ==
  LET i == CHOOSE i \in DOMAIN elf.loads :
             /\ elf.loads[i].vaddr <= vaddr
             /\ vaddr < elf.loads[i].vaddr + elf.loads[i].filesz
  IN elf.data[elf.loads[i].offset + (vaddr - elf.loads[i].vaddr) + 1]

Implicit(r) == IF r.type = "ABS64" THEN ElfWord(r.offset) ELSE 0

\* The addend of an import, which Phase 3 has to give to dyld.
BindAddend(r) == r.addend + Implicit(r)

BionicPointer(r) ==
  LET s == elf.symbols[r.symbol + 1]
  IN Word(IF r.type = "RELATIVE" THEN Bias + r.addend
          ELSE IF Binds(r) THEN SymbolAddress[s.name] + BindAddend(r)
          ELSE Bias + s.value + r.addend + Implicit(r))

\* The loaded pointer at an ELF address.
Loaded(vaddr) == mem[Slide + vaddr]

Relocs   == Range(elf.relocs)
FileWords(i) == elf.loads[i].vaddr .. elf.loads[i].vaddr + elf.loads[i].filesz - 1
ZeroWords(i) == elf.loads[i].vaddr + elf.loads[i].filesz
                  .. elf.loads[i].vaddr + elf.loads[i].memsz - 1

\* No two relocations of the ELF are for one pointer.
PlacesApart ==
  \A i, j \in DOMAIN elf.relocs : i # j => elf.relocs[i].offset # elf.relocs[j].offset

\* Every RELATIVE relocation and every relocation against a symbol of the
\* object itself ends, rebased by dyld, as the pointer Bionic would write:
\* patched once, at the right word of the file, slid once.
InternalPointersRight ==
  stage = "loaded" =>
    \A r \in Relocs : ~Binds(r) => Loaded(r.offset) = BionicPointer(r)

\* Every relocation against an undefined symbol ends as the address of the
\* shim's symbol plus its addend.
ImportedPointersRight ==
  stage = "loaded" =>
    \A r \in Relocs : Binds(r) => Loaded(r.offset) = BionicPointer(r)

\* An imported pointer can only be wrong by an addend left over from another
\* import: it is right when its own addend is not zero, and when no import of
\* the object has one.
ImportsRightUpToAddend ==
  pc = "done" /\ stage = "loaded" =>
    \A r \in Relocs :
      /\ Binds(r)
      /\ \/ BindAddend(r) # 0
         \/ \A q \in Relocs : Binds(q) => BindAddend(q) = 0
      => Loaded(r.offset) = BionicPointer(r)

\* Whatever no relocation touches is in memory as it was in the ELF, at its
\* address plus the one slide: the machine code, the data and the zero-filled
\* rest of every PT_LOAD.
ContentsPreserved ==
  stage = "loaded" =>
    \A i \in DOMAIN elf.loads :
      /\ \A a \in FileWords(i) :
           (\A r \in Relocs : r.offset # a) => Loaded(a) = ElfWord(a)
      /\ \A a \in ZeroWords(i) : Loaded(a) = 0

\* dyld only fails on a fixup outside the writable segments, which takes a
\* relocation outside the writable loads of the ELF.
FaultsOnlyOnTextRelocs ==
  stage = "fault" =>
    \E r \in Relocs, i \in DOMAIN elf.loads :
      r.offset \in FileWords(i) /\ (i = 1 \/ ~Flag(elf.loads[i].flags, 2))
=============================================================================
