------------------------------ MODULE ElfFile ------------------------------
(***************************************************************************)
(* What the rest of the system sees of an ELF object: Elf64 of elf.py      *)
(* walks the section table of a file, and what the translators make of     *)
(* the relocations it finds is said in terms of the object alone.          *)
(*                                                                         *)
(* A file is a record: whether Elf64 can read it at all, whether it is an  *)
(* AArch64 ET_DYN, its PT_LOADs, and its sections, each with the entries   *)
(* that its offset, size and entry size denote and the number of them that *)
(* lie inside the file.                                                    *)
(***************************************************************************)
EXTENDS Integers, FiniteSetsExt, SequencesExt

\* The loops over a table stop at the first entry that ends behind the file.
EntriesRead(sec) == SubSeq(sec.entries, 1, sec.inFile)

\* Mutant of IterRelocations: only the first relocation section is walked.
FirstRelocations(file) ==
  LET rela == {i \in DOMAIN file.sections : file.sections[i].type = "RELA"}
  IN IF rela = {} THEN <<>> ELSE EntriesRead(file.sections[Min(rela)])

\* _iter_relocations of the translators: the SHT_RELA sections in table order,
\* whatever they relocate; packed sections (SHT_ANDROID_RELA, SHT_RELR) are
\* passed over.
IterRelocations(file) ==
  FlattenSeq([i \in DOMAIN file.sections |->
                IF file.sections[i].type = "RELA" THEN EntriesRead(file.sections[i])
                ELSE <<>>])

\* dynamic_symbols: the first SHT_DYNSYM, if it has a string table.
DynamicSymbols(file) ==
  LET dyn == {i \in DOMAIN file.sections : file.sections[i].type = "DYNSYM"}
      sec == file.sections[Min(dyn)]
  IN IF dyn = {} \/ sec.link >= Len(file.sections) THEN <<>> ELSE EntriesRead(sec)

\* Elf64, with its tables read.
Elf64(file) == [supported |-> file.supported, loads |-> file.loads,
                relocs |-> IterRelocations(file), symbols |-> DynamicSymbols(file)]

\* The name of symbol 0.
Nameless == ""

Undefined(e) == {i \in DOMAIN e.symbols : ~e.symbols[i].defined /\ e.symbols[i].name # Nameless}

\* undefined_symbols.
UndefinedSymbols(e) == {e.symbols[i].name : i \in Undefined(e)}

\* phase1_candidate of elf-report.
Phase1Candidate(e) == e.supported /\ \A r \in Range(e.relocs) : r.type # "other"
-----------------------------------------------------------------------------
\* The loads whose file contents hold a relocation's address.
LoadsOf(e, r) == {i \in DOMAIN e.loads :
                    r.offset - e.loads[i].vaddr \in 0 .. e.loads[i].filesz - 1}

\* Every relocation is of a known type, names an existing symbol, and is inside
\* the file contents of a load.
Relocatable(e) ==
  \A r \in Range(e.relocs) :
    /\ r.type # "other"
    /\ r.type # "RELATIVE" => r.symbol + 1 \in DOMAIN e.symbols
    /\ LoadsOf(e, r) # {}

\* The first load is executable and at address 0.
TextFirst(e) == e.loads[1].vaddr = 0 /\ e.loads[1].flags % 2 = 1

IsImport(e, r) == r.type # "RELATIVE" /\ ~e.symbols[r.symbol + 1].defined

ImportsOf(e) == {e.symbols[r.symbol + 1].name : r \in {q \in Range(e.relocs) : IsImport(e, q)}}

\* How many relocations a translation has resolved, and how many it leaves to
\* each imported symbol.
Tally(e) ==
  [internal |-> Cardinality({j \in DOMAIN e.relocs : ~IsImport(e, e.relocs[j])}),
   imports  |-> [n \in ImportsOf(e) |->
                   Cardinality({j \in DOMAIN e.relocs :
                                  /\ IsImport(e, e.relocs[j])
                                  /\ e.symbols[e.relocs[j].symbol + 1].name = n})]]
=============================================================================
