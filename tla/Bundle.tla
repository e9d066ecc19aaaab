------------------------------- MODULE Bundle -------------------------------
(***************************************************************************)
(* From an APK to the app on the device: extract, translate-phase4,        *)
(* generate-shim and build.sh, run by hand in any order or one after the   *)
(* other by build_real_ios_bundle.sh, which then assembles the app that    *)
(* the probe of ios_host/main.m loads.  The commands meet only in the      *)
(* files of the output directory.  A command can fail at any write: the    *)
(* files before it are new, the one it was at is old or empty, the others  *)
(* are old.                                                                *)
(*                                                                         *)
(* A file's content is the name of the library or of the metadata it was   *)
(* made from, "template" where it is always the same, "" where a write was *)
(* cut short.                                                              *)
(***************************************************************************)
EXTENDS Shimgen

CONSTANTS Apks,          \* each with its libil2cpp.so ("" if none) and metadata entries
          FileOf,        \* the file of each library, as ElfFile describes it
          MaxCommands,   \* commands run by hand
          MaxFaults      \* writes that fail

\* "template" is the content of no library's file.
ASSUME ApksAssumption ==
  Apks \subseteq [lib : STRING \ {"template"}, metadata : Seq(STRING)]

\* Of the entries of a table, as many are read as there are, or fewer.
ASSUME FilesAssumption ==
  \A a \in Apks : a.lib # "" =>
    LET sections == FileOf[a.lib].sections IN
    /\ sections \in Seq(Range(sections))
    /\ \A sec \in Range(sections) : /\ sec.entries \in Seq(Range(sec.entries))
                                    /\ sec.inFile \in 0 .. Len(sec.entries)

VARIABLES disk,       \* the output directory: the content of each file that exists
          shimlib,    \* libbionic_shim.dylib: the sources it was linked from
          app,        \* what was copied into A2IHost.app
          script,     \* where the build script is, and the APK it was given
          probe,      \* how far a2i_probe came
          commands, faults

bundleVars == <<disk, shimlib, app, script, probe, commands, faults>>

\* No library, no metadata, or a file with nothing in it.
Nothing == ""
NoFiles == [f \in {} |-> Nothing]

Elf(id) == Elf64(FileOf[id])

\* What a translator accepts (Phase2, KeepContract); the sizes of its output and of
\* its export trie are left to that module, for the objects here are small.
Translatable(e) == e.supported /\ e.loads # <<>> /\ TextFirst(e) /\ Relocatable(e)
-----------------------------------------------------------------------------
Write(file, content) == [file |-> file, content |-> content]

\* extract_arm64: the wanted entries that are there, in the order of their paths;
\* only the last part of a path counts in the output.
ExtractWrites(apk) ==
  [i \in DOMAIN apk.metadata |-> Write("metadata", apk.metadata[i])]
  \o (IF apk.lib = Nothing THEN <<>> ELSE <<Write("lib", apk.lib)>>)

\* The library the later commands are given; without one they raise.
HasLib == "lib" \in DOMAIN disk /\ disk["lib"] # Nothing

\* The scaffold: two assembly files and the phdr view of this ELF, the templates,
\* and build.sh last.
ShimWrites ==
  [i \in DOMAIN SourceFiles |->
     Write(SourceFiles[i], IF SourceFiles[i] \in {"direct", "trap", "elf-runtime"}
                           THEN disk["lib"] ELSE "template")]
  \o <<Write("build.sh", "template")>>

\* main of cli.py: whether a command raises before it writes, and what it writes.
Raises(cmd) == \/ cmd = "phase4" /\ ~(HasLib /\ Translatable(Elf(disk["lib"])))
               \/ cmd = "generate" /\ ~HasLib

Writes(cmd, apk) == CASE cmd = "extract"  -> ExtractWrites(apk)
                      [] cmd = "phase4"   -> <<Write("dylib", disk["lib"])>>
                      [] cmd = "generate" -> ShimWrites

\* The directory after the first n writes.
Written(ws, n) ==
  [f \in DOMAIN disk \cup {ws[i].file : i \in 1 .. n} |->
     LET at == {i \in 1 .. n : ws[i].file = f}
     IN IF at = {} THEN disk[f] ELSE ws[Max(at)].content]

Succeed(cmd, apk) == /\ ~Raises(cmd)
                     /\ disk' = LET ws == Writes(cmd, apk) IN Written(ws, Len(ws))
                     /\ UNCHANGED faults

\* The write after n fails before or after the file is truncated.
Fault(cmd, apk) ==
  /\ ~Raises(cmd) /\ faults < MaxFaults /\ faults' = faults + 1
  /\ LET ws == Writes(cmd, apk) IN
     \E n \in 0 .. Len(ws) - 1 :
       \/ disk' = Written(ws, n)
       \/ disk' = Written([ws EXCEPT ![n + 1].content = Nothing], n + 1)

Raise(cmd) == Raises(cmd) /\ UNCHANGED <<disk, faults>>
-----------------------------------------------------------------------------
\* build.sh: every source is there, no a2i_ name is defined twice, and what a
\* source refers to is defined.  A source cut short to nothing compiles.
SourceElf(s) == IF disk[s] = "template" THEN [symbols |-> <<>>] ELSE Elf(disk[s])
Defined(s)   == IF disk[s] = Nothing THEN {} ELSE Defines(SourceElf(s), s)

Linkable ==
  /\ Range(SourceFiles) \cup {"build.sh"} \subseteq DOMAIN disk /\ disk["build.sh"] # Nothing
  /\ \A i, j \in DOMAIN SourceFiles :
       i < j => Defined(SourceFiles[i]) \cap Defined(SourceFiles[j]) = {}
  /\ \A s \in Range(SourceFiles) :
       disk[s] # Nothing => \A t \in RefersTo(SourceElf(s), s) : disk[t] # Nothing

NoLibrary == [defines |-> {}, from |-> {}, phdrs |-> Nothing]

Link == [defines |-> UNION {Defined(s) : s \in Range(SourceFiles)},
         from    |-> {disk[s] : s \in {"direct", "trap", "elf-runtime"}},
         phdrs   |-> disk["elf-runtime"]]

BuildShim == Linkable /\ shimlib' = Link /\ UNCHANGED <<disk, faults>>
BuildFails == ~Linkable /\ UNCHANGED <<disk, shimlib, faults>>
-----------------------------------------------------------------------------
\* Only extract reads an APK.
ApkGiven(cmd) == IF cmd = "extract" THEN Apks ELSE {CHOOSE a \in Apks : TRUE}

NoApp   == [dylib |-> Nothing, shim |-> NoLibrary, metadata |-> Nothing]
Stopped == {"none", "failed", "done"}

Init == /\ disk = NoFiles /\ shimlib = NoLibrary /\ app = NoApp
        /\ script = [at |-> "none", apk |-> CHOOSE a \in Apks : TRUE]
        /\ probe = "none" /\ commands = 0 /\ faults = 0

\* A command typed by hand, or by one of the PowerShell scripts, which go on to
\* the next when one has failed.
ByHand ==
  /\ script.at \in Stopped /\ commands < MaxCommands /\ commands' = commands + 1
  /\ \/ /\ \E cmd \in {"extract", "phase4", "generate"} :
             \/ \E apk \in ApkGiven(cmd) : Succeed(cmd, apk) \/ Fault(cmd, apk)
             \/ Raise(cmd)
        /\ UNCHANGED shimlib
     \/ BuildShim \/ BuildFails
  /\ UNCHANGED <<app, script, probe>>

\* Mutant of ScriptStart: the output directory is reused as it is.
ScriptStartUncleared(apk) ==
  /\ script.at \in Stopped
  /\ script' = [at |-> "extract", apk |-> apk]
  /\ UNCHANGED <<disk, shimlib, app, probe, commands, faults>>

\* build_real_ios_bundle.sh: rm -rf, then step by step.
ScriptStart(apk) ==
  /\ script.at \in Stopped
  /\ script' = [at |-> "extract", apk |-> apk]
  /\ disk' = NoFiles /\ shimlib' = NoLibrary /\ app' = NoApp /\ probe' = "none"
  /\ UNCHANGED <<commands, faults>>

After(cmd) == CASE cmd = "extract" -> "phase4" [] cmd = "phase4" -> "generate"
                [] cmd = "generate" -> "build" [] cmd = "build" -> "assemble"

\* set -e: the first command that fails is the last one.
ScriptCommand ==
  /\ script.at \in {"extract", "phase4", "generate"}
  /\ \/ Succeed(script.at, script.apk) /\ script' = [script EXCEPT !.at = After(@)]
     \/ Fault(script.at, script.apk) /\ script' = [script EXCEPT !.at = "failed"]
     \/ Raise(script.at) /\ script' = [script EXCEPT !.at = "failed"]
  /\ UNCHANGED <<shimlib, app, probe, commands>>

ScriptBuild ==
  /\ script.at = "build"
  /\ \/ BuildShim /\ script' = [script EXCEPT !.at = After(@)]
     \/ BuildFails /\ script' = [script EXCEPT !.at = "failed"]
  /\ UNCHANGED <<app, probe, commands>>

\* The two dylibs are copied into the app, and the metadata if there is any.
Assemble ==
  /\ script.at = "assemble"
  /\ app' = [dylib |-> disk["dylib"], shim |-> shimlib,
             metadata |-> IF "metadata" \in DOMAIN disk THEN disk["metadata"]
                          ELSE app.metadata]
  /\ script' = [script EXCEPT !.at = "done"]
  /\ UNCHANGED <<disk, shimlib, probe, commands, faults>>

Exports(e) == {s.name : s \in {t \in Range(e.symbols) : t.defined}}

\* a2i_probe: dlopen with RTLD_NOW binds every import of the dylib or fails; then
\* il2cpp_init is looked up, and called with or without metadata.
Probe ==
  /\ script.at = "done" /\ probe = "none"
  /\ probe' = LET e == Elf(app.dylib) IN
              IF ~(ImportsOf(e) \subseteq app.shim.defines) THEN "dlopen failed"
              ELSE IF "il2cpp_init" \notin Exports(e) THEN "dlsym failed"
              ELSE IF app.metadata = Nothing THEN "called without metadata" ELSE "called"
  /\ UNCHANGED <<disk, shimlib, app, script, commands, faults>>

Next == \/ ByHand \/ (\E apk \in Apks : ScriptStart(apk))
        \/ ScriptCommand \/ ScriptBuild \/ Assemble \/ Probe

Spec == Init /\ [][Next]_bundleVars
-----------------------------------------------------------------------------
\* An app that the script has finished is made of one APK: the dylib, every
\* generated source of the shim and its program headers come from the APK's
\* libil2cpp.so, and the metadata from the same APK, whatever commands and
\* failures have left in the output directory before.
BundleCoherent ==
  script.at = "done" =>
    /\ script.apk.lib # Nothing /\ app.dylib = script.apk.lib
    /\ app.shim.from = {script.apk.lib}
    /\ IF script.apk.metadata = <<>> THEN app.metadata = Nothing
       ELSE app.metadata \in Range(script.apk.metadata)

\* A scaffold written for one ELF links, so no table claims a name that another
\* source defines; and the ELF's dylib finds every import in it except the data
\* objects that no template has and the nameless symbol.
ScaffoldServes ==
  /\ /\ Range(SourceFiles) \cup {"build.sh"} \subseteq DOMAIN disk
     /\ \A s \in DOMAIN disk : disk[s] # Nothing
     /\ disk["direct"] = disk["trap"]
     => Linkable
  /\ probe = "dlopen failed" =>
       ImportsOf(Elf(app.dylib)) \ app.shim.defines \subseteq Blockers(Elf(app.dylib))

\* A dylib that reaches il2cpp_init sees itself through dl_iterate_phdr: every
\* load of the ELF, at the address where the translation has put it.
PhdrsDescribeImage ==
  probe \in {"called", "called without metadata"} =>
    PhdrView(Elf(app.shim.phdrs)) = ImageView(Elf(app.dylib))

Relocating == {"RELA", "ANDROID_RELA", "RELR"}

\* No relocation is lost between the section table and a dylib that is written,
\* unless a table is packed or cut short by the end of the file; and the object
\* is one that elf-report calls a phase1_candidate.
TablesRead ==
  "dylib" \in DOMAIN disk /\ disk["dylib"] # Nothing =>
    LET file  == FileOf[disk["dylib"]]
        e     == Elf(disk["dylib"])
        rela  == {i \in DOMAIN file.sections : file.sections[i].type \in Relocating}
        plain == \A i \in rela : /\ file.sections[i].type = "RELA"
                                 /\ file.sections[i].inFile = Len(file.sections[i].entries)
        tally == Tally(e)
    IN /\ Phase1Candidate(e)
       /\ plain => tally.internal + MapThenSumSet(LAMBDA n : tally.imports[n], ImportsOf(e))
                     = MapThenSumSet(LAMBDA i : Len(file.sections[i].entries), rela)
=============================================================================
