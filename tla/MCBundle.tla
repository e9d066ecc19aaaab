------------------------------ MODULE MCBundle ------------------------------
(***************************************************************************)
(* Four libraries and the APKs that carry them.                            *)
(***************************************************************************)
EXTENDS Bundle

Import(name, type) == [name |-> name, defined |-> FALSE, type |-> type]
Own(name)          == [name |-> name, defined |-> TRUE, type |-> "func"]

R(offset, type, symbol) == [offset |-> offset, type |-> type, symbol |-> symbol]
Section(type, entries, inFile) ==
  [type |-> type, entries |-> entries, inFile |-> inFile, link |-> 0]
Rela(entries) == Section("RELA", entries, Len(entries))

\* One text and one data load; a word of the data load for every symbol.
MCLoads == <<[vaddr |-> 0, filesz |-> 8, memsz |-> 8, flags |-> 5],
             [vaddr |-> 16, filesz |-> 12, memsz |-> 16, flags |-> 6]>>
Dynsym(symbols) == Section("DYNSYM", <<Import("", "notype")>> \o symbols, Len(symbols) + 1)
File(sections) == [supported |-> TRUE, loads |-> MCLoads, sections |-> sections]

\* A game with imports of every table, in .rela.dyn and .rela.plt, and a later
\* version of it: one import has gone from a call to an indirect function, one
\* is a data object that no template has, one is nameless, a name is imported
\* with two types, and there is one program header less.
Game == File(<<Dynsym(<<Own("il2cpp_init"), Import("malloc", "func"), Import("fclose", "func"),
                        Import("clock_gettime", "func"), Import("ALooper", "func"),
                        Import("__sF", "object"), Import("pthread_once", "notype"),
                        Import("sem_wait", "func"), Import("dl_iterate_phdr", "func"),
                        Import("connect", "func"), Import("syscall", "func"),
                        Import("sigaction", "func")>>),
               Rela(<<R(16, "RELATIVE", 0), R(17, "ABS64", 6), R(18, "GLOB_DAT", 1)>>),
               Rela([i \in 1 .. 9 |-> R(18 + i, "JUMP_SLOT",
                                        IF i <= 4 THEN i + 1 ELSE i + 2)])>>)
Update == [File(<<Dynsym(<<Own("il2cpp_init"), Import("malloc", "other"),
                           Import("environ", "object"), Import("fclose", "object"),
                           Import("fclose", "func")>>),
                  Rela(<<R(16, "GLOB_DAT", 0), R(17, "GLOB_DAT", 3), R(18, "JUMP_SLOT", 2)>>),
                  Section("ANDROID_RELA", <<R(19, "RELATIVE", 0)>>, 1)>>)
             EXCEPT !.loads = [MCLoads EXCEPT ![2].memsz = 12]]

\* One whose relocations are cut short by the end of the file and that exports no
\* il2cpp_init, and one with a relocation that no phase supports.
Cut   == File(<<Dynsym(<<Import("malloc", "func")>>),
                Section("RELA", <<R(16, "JUMP_SLOT", 1), R(17, "other", 0)>>, 1)>>)
Alien == File(<<Dynsym(<<Own("il2cpp_init")>>), Rela(<<R(16, "other", 0)>>)>>)

MCFileOf == [game |-> Game, update |-> Update, cut |-> Cut, alien |-> Alien]

Apk(lib, metadata) == [lib |-> lib, metadata |-> metadata]
MCApks == {Apk("game", <<"g1">>), Apk("game", <<>>), Apk("update", <<"u1", "u2">>),
           Apk("cut", <<"c1">>), Apk("alien", <<>>), Apk("", <<"n1">>)}
=============================================================================
