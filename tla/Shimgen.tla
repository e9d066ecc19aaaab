------------------------------ MODULE Shimgen ------------------------------
(***************************************************************************)
(* generate_shim_scaffold of shimgen.py: every undefined symbol of an ELF  *)
(* is put in a category by tables of names.  A category has a template     *)
(* that defines the names of its table, whatever the ELF imports; the      *)
(* direct and the trap imports get an entry each in a generated assembly   *)
(* file.  build.sh links all of them into the shim library.                *)
(*                                                                         *)
(* A table is represented by a name or two.  fclose stands for the names   *)
(* that two tables have.                                                   *)
(***************************************************************************)
EXTENDS ElfFile

\* OBJECT_SYMBOLS, STDIO_SYMBOLS and so on, in the order they are asked.
Tables == <<
  [category |-> "object",      names |-> {"__sF", "_ctype_"}],
  [category |-> "stdio",       names |-> {"fclose"}],
  [category |-> "special",     names |-> {"clock_gettime"}],
  [category |-> "pthread",     names |-> {"pthread_once"}],
  [category |-> "posix",       names |-> {"sem_wait"}],
  [category |-> "elf-runtime", names |-> {"dl_iterate_phdr"}],
  [category |-> "network",     names |-> {"connect"}],
  [category |-> "runtime",     names |-> {"syscall"}],
  [category |-> "signal",      names |-> {"sigaction"}],
  [category |-> "direct",      names |-> {"malloc", "fclose"}]>>

\* The imports dictionary: the type of the last undefined symbol of a name.
ElfType(e, name) ==
  e.symbols[Max({i \in Undefined(e) : e.symbols[i].name = name})].type

\* The tables that have a name; only a function can be a direct call.
Hits(e, name) ==
  {i \in DOMAIN Tables :
     /\ name \in Tables[i].names
     /\ Tables[i].category = "direct" => ElfType(e, name) \in {"func", "notype"}}

\* Mutant of Category: the direct table is asked first.
CategoryDirectFirst(e, name) ==
  IF ElfType(e, name) = "object" THEN "object"
  ELSE IF Hits(e, name) = {} THEN "trap" ELSE Tables[Max(Hits(e, name))].category

\* The first table that has the name; a data object is one whatever its name.
Category(e, name) ==
  IF ElfType(e, name) = "object" THEN "object"
  ELSE IF Hits(e, name) = {} THEN "trap" ELSE Tables[Min(Hits(e, name))].category

InCategory(e, c) == {n \in UndefinedSymbols(e) : Category(e, n) = c}
-----------------------------------------------------------------------------
\* The sources, in the order they are written.
SourceFiles == <<"direct", "trap", "object", "stdio", "special", "pthread", "posix",
                 "elf-runtime", "network", "runtime", "signal">>

\* The a2i_ names that a source defines: a call or a trap for each import of the
\* category, or the names of the template's table.
Defines(e, source) ==
  CASE source \in {"direct", "trap"} -> InCategory(e, source)
    [] OTHER -> UNION {t.names : t \in {u \in Range(Tables) : u.category = source}}

\* The names of other sources that it refers to: a trap calls a2i_unimplemented
\* of special.c, the stdio adapters compare with __sF.
RefersTo(e, source) ==
  CASE source = "trap" /\ InCategory(e, "trap") # {} -> {"special"}
    [] source = "stdio" -> {"object"}
    [] OTHER -> {}

HEADER_RESERVE == 65536

\* Mutant of PhdrView: the addresses are counted from the Mach-O header.
PhdrViewFromHeader(e) ==
  [i \in DOMAIN e.loads |-> [addr |-> e.loads[i].vaddr, memsz |-> e.loads[i].memsz]]

\* _elf_phdr_compat_source: what a2i_dl_iterate_phdr reports, with addresses
\* relative to the Mach-O header that dladdr finds; the bias is a literal.  Of the
\* program headers the PT_LOADs are kept.
PhdrView(e) ==
  [i \in DOMAIN e.loads |-> [addr |-> 65536 + e.loads[i].vaddr, memsz |-> e.loads[i].memsz]]

\* Where the translators put the loads.
ImageView(e) ==
  [i \in DOMAIN e.loads |->
     [addr |-> HEADER_RESERVE + e.loads[i].vaddr, memsz |-> e.loads[i].memsz]]
-----------------------------------------------------------------------------
\* The imports that the generator knows to have no definition: a data object
\* other than the two it has tables for ("object and trap entries remain
\* blockers"), and a relocation against the nameless symbol 0.
Blockers(e) == (InCategory(e, "object") \ {"__sF", "_ctype_"}) \cup {Nameless}
=============================================================================
