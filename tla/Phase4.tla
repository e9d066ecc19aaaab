------------------------------- MODULE Phase4 -------------------------------
(***************************************************************************)
(* Phase4Translator of phase4.py: the dylib that Phase 3 has written is    *)
(* read back and rewritten.  An export trie and a string table are added   *)
(* behind the opcodes, __LINKEDIT becomes the end of the file, every       *)
(* segment is stretched to where the next begins, and the header is made   *)
(* anew.  dyld then loads the result, or Phase 3's own where that is what  *)
(* was asked for.                                                          *)
(*                                                                         *)
(* The trie is modelled by the map it encodes; its bytes are in module     *)
(* ExportTrie, and when it cannot be built in TrieLayout.                  *)
(***************************************************************************)
EXTENDS Phase3Load

CONSTANTS SymtabCommandSize,  \* LC_SYMTAB, which Phase 3 does not have
          Spelling,           \* the characters of a symbol's name, "_" in front
          Radix, MaxDepth, MaxChildren, MaxRounds   \* of _build_export_trie

ASSUME Phase4Assumption == SymtabCommandSize \in Nat

Trie == INSTANCE TrieLayout

VARIABLES step4,   \* how far translate() has come: "phase3", "done" or "error"
          final    \* the dylib written

vars4 == <<elf, pc, k, segments, cursor, image, rebases, bindings, patched, out,
           lib, stage, base, mem, ip, reg, step4, final>>

-----------------------------------------------------------------------------
\* _exports: the defined functions and objects that are not local, at their
\* offsets from the Mach-O header.  The last of two symbols of a name counts.
Exported(s) == /\ s.defined /\ s.name # ""
               /\ s.binding \in {"global", "weak"} /\ s.type \in {"func", "object"}

ExportedIn(e) == {i \in DOMAIN e.symbols : Exported(e.symbols[i])}

ExportsOf(e) ==
  [n \in {e.symbols[i].name : i \in ExportedIn(e)} |->
     HeaderReserve + e.symbols[Max({i \in ExportedIn(e) : e.symbols[i].name = n})].value]

\* Mutant of Exports: the header reserve in front of the code is forgotten.
ExportsUnslid ==
  [n \in DOMAIN ExportsOf(elf) |-> ExportsOf(elf)[n] - HeaderReserve]

Exports == ExportsOf(elf)

\* Every exported name has characters, and no two names the same ones.
ASSUME SpellingAssumption ==
  /\ \A e \in Elfs : DOMAIN ExportsOf(e) \subseteq DOMAIN Spelling
  /\ \A m, n \in DOMAIN Spelling : /\ Spelling[n] \in Seq(Nat \ {0}) /\ Spelling[n] # <<>>
                                  /\ Spelling[m] = Spelling[n] => m = n

\* The map that _build_export_trie is given, by the characters of the names; and
\* whether it returns: it raises for names too long for its recursion, for a node
\* with too many children, and when the layout does not settle.
Spelled(exports) ==
  [s \in {Spelling[n] : n \in DOMAIN exports} |->
     exports[CHOOSE n \in DOMAIN exports : Spelling[n] = s]]

TrieBuilds(e) == Trie!Builds(Spelled(ExportsOf(e)))

\* __LINKEDIT with the exports and the string table of one NUL; an export
\* counts as one word, as an opcode does.
ExportTableSize == Cardinality(DOMAIN Exports)

Linkedit4 == LET size == Linkedit.filesize + ExportTableSize + 1
             IN [Linkedit EXCEPT !.filesize = size, !.vmsize = Align(size)]

\* Mutant of Stretched: a segment is stretched to the next one's contents, over
\* the page prefix that the next one starts with.
StretchedToData(i) ==
  LET file == IF i < Len(segments) THEN segments[i + 1].data_fileoff ELSE Linkedit.fileoff
      addr == IF i < Len(segments) THEN segments[i + 1].data_addr ELSE Linkedit.vmaddr
  IN [segments[i] EXCEPT !.filesize = file - segments[i].fileoff,
                         !.vmsize = addr - segments[i].vmaddr]

\* command_segments: segment i up to the next one, in the file and in memory.
Stretched(i) ==
  LET next == IF i < Len(segments) THEN segments[i + 1] ELSE Linkedit
  IN [segments[i] EXCEPT !.filesize = next.fileoff - segments[i].fileoff,
                         !.vmsize = next.vmaddr - segments[i].vmaddr]

\* The sections of a segment's load command: a sentinel and the load's contents
\* (__elf_rx, __elf_rw or __elf_<index> in the code).
DataSection(seg) == [name |-> "__elf", addr |-> seg.data_addr, size |-> seg.elf_filesz]
Sections(seg)    == {[name |-> "__segstart", addr |-> seg.vmaddr, size |-> 0],
                     DataSection(seg)}

HeaderSize4 == HeaderSize + SymtabCommandSize

\* Mutant of FinalWord4: the clearing goes one word too far.
FinalWord4PastReserve(o) ==
  IF o < HeaderSize4 \/ o >= Linkedit.fileoff THEN -1
  ELSE IF o <= HeaderReserve THEN 0 ELSE out.file[o]

\* The reserve is cleared and gets the new header; __LINKEDIT has no pointers.
FinalWord4(o) ==
  IF o < HeaderSize4 \/ o >= Linkedit.fileoff THEN -1
  ELSE IF o < HeaderReserve THEN 0 ELSE out.file[o]

\* Phase 3 has raised, the export trie cannot be built, or the longer load
\* commands do not fit.
Reject4 == /\ step4 = "phase3" /\ stage = "closed"
           /\ \/ pc = "error"
              \/ pc = "done" /\ ~TrieBuilds(elf)
              \/ pc = "done" /\ HeaderSize4 > HeaderReserve
           /\ step4' = "error" /\ UNCHANGED final

Rewrite ==
  /\ step4 = "phase3" /\ stage = "closed" /\ pc = "done"
  /\ TrieBuilds(elf) /\ HeaderSize4 <= HeaderReserve
  /\ step4' = "done"
  /\ final' = [file     |-> [o \in 0 .. FileEnd(Linkedit4) - 1 |-> FinalWord4(o)],
               segments |-> [i \in DOMAIN segments |-> Stretched(i)] \o <<Linkedit4>>,
               sections |-> [i \in DOMAIN segments |-> Sections(segments[i])],
               rebase   |-> out.rebase, bind |-> out.bind, exports |-> Exports]

Init4 == LoadInit /\ step4 = "phase3" /\ final = <<>>

\* The dylib of translate_phase3, or that of translate_phase4, is loaded.
Load4 == \/ step4 = "phase3" /\ pc = "done" /\ dyld!Open(out)
         \/ step4 = "done" /\ dyld!Open(final)
         \/ dyld!Next

Next4 == \/ Translate /\ UNCHANGED <<step4, final>>
         \/ (Reject4 \/ Rewrite) /\ UNCHANGED loadVars
         \/ Load4 /\ UNCHANGED vars /\ UNCHANGED <<step4, final>>

Spec4 == Init4 /\ [][Next4]_vars4
-----------------------------------------------------------------------------
\* What codesign asks of a dylib (the comments in translate): each segment ends
\* where the next begins, in the file and in memory, __LINKEDIT ends with the
\* file, and no segment has more in the file than in memory.
SegmentsContiguous ==
  step4 = "done" =>
    LET n == Len(final.segments) IN
    /\ \A i \in 1 .. n - 1 :
         LET s == final.segments[i] t == final.segments[i + 1] IN
         /\ FileEnd(s) = t.fileoff /\ s.vmaddr + s.vmsize = t.vmaddr
    /\ DOMAIN final.file = 0 .. FileEnd(final.segments[n]) - 1
    /\ PageSeparated =>
         \A i \in 1 .. n : final.segments[i].filesize <= final.segments[i].vmsize

\* What dlsym returns for a name is the pointer that the object itself, once
\* rebased, holds for the symbol: the export table's addresses and the rebased
\* words, computed apart, agree.
ExportsAgree ==
  step4 = "done" /\ stage = "loaded" =>
    \A r \in Relocs :
      LET s == elf.symbols[r.symbol + 1] IN
      /\ r.type \in {"GLOB_DAT", "JUMP_SLOT"} /\ r.addend = 0 /\ Exported(s)
      => Loaded(r.offset) = Word(base + ImageBase + final.exports[s.name])
=============================================================================
