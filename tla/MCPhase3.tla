------------------------------ MODULE MCPhase3 ------------------------------
(***************************************************************************)
(* Small ELF objects for Phase3Load.  A page is four pointers, the header  *)
(* reserve two pages.                                                      *)
(***************************************************************************)
EXTENDS Phase3Load

PH(vaddr, offset, filesz, memsz, flags) ==
  [vaddr |-> vaddr, offset |-> offset, filesz |-> filesz, memsz |-> memsz,
   flags |-> flags]

RX == 5
RW == 6
RO == 4

\* Loads whose 16 KiB pages are disjoint.  The writable one starts inside a
\* page, and has a zero-filled tail that may reach into the next page.
TwoLoads   == <<PH(0, 0, 3, 3, RX), PH(6, 3, 3, 4, RW)>>
ThreeLoads == <<PH(0, 0, 2, 2, RX), PH(4, 2, 1, 2, RO), PH(9, 3, 3, 6, RW)>>

\* The relocatable pointers of the writable load.
Slots(loads) == LET ph == loads[Len(loads)]
                IN ph.vaddr .. ph.vaddr + ph.filesz - 1

SymbolEntry(name, defined, value, binding, type) ==
  [name |-> name, defined |-> defined, value |-> value, binding |-> binding, type |-> type]
MCSymbols == <<SymbolEntry("", FALSE, 0, "local", "notype"),
               SymbolEntry("inside", TRUE, 2, "global", "func"),
               SymbolEntry("malloc", FALSE, 0, "global", "func"),
               SymbolEntry("free", FALSE, 0, "weak", "func")>>

MCSymbolAddress == [s \in {"", "malloc", "free"} |->
                      IF s = "malloc" THEN 200 ELSE IF s = "free" THEN 220 ELSE 0]

ElfWith(loads, relocs) ==
  [supported |-> TRUE, loads |-> loads, relocs |-> relocs,
   symbols |-> MCSymbols, sections |-> <<>>, data |-> <<11, 12, 13, 14, 0, 16, 17, 18, 19>>]

R(offset, type, symbol, addend) ==
  [offset |-> offset, type |-> type, symbol |-> symbol, addend |-> addend]

Relative(slots, addends) == {R(o, "RELATIVE", 0, a) : o \in slots, a \in addends}
Symbolic(slots, types, symbols, addends) ==
  {R(o, t, s, a) : o \in slots, t \in types, s \in symbols, a \in addends}

DistinctPlaces(rs) == \A i, j \in DOMAIN rs : i # j => rs[i].offset # rs[j].offset

\* Two relocations of every kind, in both orders, and three of the kinds the
\* order of the streams matters for.
Pairs(loads) ==
  LET one == Relative(Slots(loads), {-1, 1})
             \cup Symbolic(Slots(loads), {"ABS64", "JUMP_SLOT"}, {1, 2}, {-1, 0, 1})
  IN {rs \in one \X one : DistinctPlaces(rs)}
Triples(loads) ==
  LET one == Relative(Slots(loads), {2})
             \cup Symbolic(Slots(loads), {"GLOB_DAT"}, {1, 2, 3}, {0, 1})
  IN {rs \in one \X one \X one : DistinctPlaces(rs)}

\* ELFs the translator must refuse: at the header, at a relocation, at the
\* end; and one it must not refuse, with no relocation in its fourth load.
ManyLoads(n) == <<PH(0, 0, 1, 1, RX)>>
                \o [i \in 1 .. n - 1 |-> PH(4 * i, i, 1, 1, RW)]

OddElfs ==
  {[ElfWith(TwoLoads, <<>>) EXCEPT !.supported = FALSE],
   ElfWith(<<>>, <<>>),
   ElfWith(<<PH(4, 0, 3, 3, RX)>>, <<>>),
   ElfWith(<<PH(0, 0, 3, 3, RW)>>, <<>>),
   ElfWith(TwoLoads, <<>>),
   ElfWith(TwoLoads, <<R(6, "RELATIVE", 0, 1), R(9, "RELATIVE", 0, 1)>>),
   ElfWith(TwoLoads, <<R(6, "other", 1, 0)>>),
   ElfWith(TwoLoads, <<R(1, "RELATIVE", 0, 1)>>),
   ElfWith(ThreeLoads, <<R(4, "GLOB_DAT", 2, 0)>>),
   ElfWith(TwoLoads, <<R(6, "GLOB_DAT", 4, 0)>>),
   ElfWith(TwoLoads, <<R(6, "GLOB_DAT", 3, 0), R(7, "other", 4, 0)>>)}
  \cup {ElfWith(ManyLoads(n), <<R(4 * i, t, 2, 1)>>) :
          n \in 3 .. 5, i \in {2, 3}, t \in {"RELATIVE", "GLOB_DAT"}}

MCElfs == {ElfWith(TwoLoads, rs)   : rs \in Pairs(TwoLoads)}
          \cup {ElfWith(ThreeLoads, rs) : rs \in Triples(ThreeLoads)}
          \cup OddElfs

\* The shape of the object tests/test_phase3.py translates: the writable load
\* begins in the 16 KiB page the executable one ends in.
TestElfs == {ElfWith(<<PH(0, 0, 1, 1, RX), PH(2, 3, 2, 2, RW)>>, rs) :
               rs \in {<<>>, <<R(2, "RELATIVE", 0, 1)>>}}
=============================================================================
