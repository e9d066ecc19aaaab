---------------------------- MODULE MCTranslate ----------------------------
(***************************************************************************)
(* The small ELF objects of MCPhase3, for all the phases and dyld, and     *)
(* objects whose names are at and beyond the limits of the export trie.    *)
(***************************************************************************)
EXTENDS MCPhase3, Phase2

\* MCElfs, and one internal pointer of every type with one import, for the
\* types that MCElfs does not mix.
Mixed(phs) ==
  {rs \in Symbolic(Slots(phs), {"GLOB_DAT", "JUMP_SLOT"}, {1}, {0})
          \X Symbolic(Slots(phs), {"GLOB_DAT"}, {2}, {0}) : DistinctPlaces(rs)}

\* The characters of the exported names; "_" is 1.
MCSpelling == [inside |-> <<1, 2>>, b |-> <<1, 3>>, c |-> <<1, 4>>, d |-> <<1, 5>>,
               long3 |-> <<1, 3, 3, 3, 3>>, long4 |-> <<1, 4, 4, 4, 4>>,
               longer |-> <<1, 4, 4, 4, 4, 4>>]

\* With inside: as many names under one node as can be counted, and one more; a
\* name of the greatest depth, and one character more; and a trie that does not
\* settle.
MCExports == {<<"b", "c">>, <<"b", "c", "d">>, <<"long4">>, <<"longer">>,
              <<"long3", "long4">>}

ElfExporting(names) ==
  [ElfWith(TwoLoads, <<R(6, "GLOB_DAT", Len(MCSymbols), 0)>>) EXCEPT
     !.symbols = MCSymbols \o [i \in DOMAIN names |->
                                 SymbolEntry(names[i], TRUE, i - 1, "global", "func")]]

MCElfs4 == MCElfs \cup {ElfWith(TwoLoads, rs) : rs \in Mixed(TwoLoads)}
           \cup {ElfExporting(names) : names \in MCExports}
=============================================================================
