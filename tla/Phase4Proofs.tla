---------------------------- MODULE Phase4Proofs ----------------------------
(***************************************************************************)
(* What Phase 4 writes.  For any APKs, commands and failing writes: an app *)
(* that the script has finished is made of one APK, its shim links and has *)
(* what the dylib imports, dl_iterate_phdr describes the image, and no     *)
(* relocation is lost between the section table and the dylib.  And for    *)
(* any exported names and addresses: dyld finds each name in the bytes of  *)
(* the export trie with its address, and no other name.                    *)
(***************************************************************************)
EXTENDS Bundle, ExportTrie, FiniteSetTheorems, WellFoundedInduction, TLAPS

Libs      == {a.lib : a \in Apks} \ {Nothing}
Generated == {"direct", "trap", "elf-runtime"}
Templates == (Range(SourceFiles) \ Generated) \cup {"build.sh"}

\* What a file of the output directory can hold, whoever wrote it.
Fits(file, content) ==
  \/ content = Nothing
  \/ file = "metadata"
  \/ file \in Generated \cup {"lib"} /\ content \in Libs
  \/ file = "dylib" /\ content \in Libs /\ Translatable(Elf(content))
  \/ file \in Templates /\ content = "template"

DiskFits == \A f \in DOMAIN disk : Fits(f, disk[f])

Holds(file, content) == file \in DOMAIN disk /\ disk[file] = content

\* The shim library of a scaffold that was generated from one library.
ShimOf(id) == [defines |-> UNION {Defines(Elf(id), s) : s \in Range(SourceFiles)},
               from |-> {id}, phdrs |-> id]

FromApk(file, apk) == IF apk.metadata = <<>> THEN file = Nothing ELSE file \in Range(apk.metadata)

\* What the directory holds of the script's APK in front of each command.
Extracted(apk) ==
  /\ IF apk.metadata = <<>> THEN "metadata" \notin DOMAIN disk
     ELSE "metadata" \in DOMAIN disk /\ disk["metadata"] \in Range(apk.metadata)
  /\ IF apk.lib = Nothing THEN "lib" \notin DOMAIN disk ELSE Holds("lib", apk.lib)
Translated(apk) == /\ Extracted(apk) /\ apk.lib # Nothing /\ Translatable(Elf(apk.lib))
                   /\ Holds("dylib", apk.lib)
Scaffolded(apk) ==
  /\ Translated(apk)
  /\ \A s \in Range(SourceFiles) : Holds(s, IF s \in Generated THEN apk.lib ELSE "template")

Progress ==
  LET apk == script.apk IN
  /\ script = [at |-> script.at, apk |-> apk]
  /\ script.at \in Stopped \cup {"extract", "phase4", "generate", "build", "assemble"}
  /\ script.at # "none" => apk \in Apks
  /\ script.at \notin Stopped => app = NoApp
  /\ script.at = "extract"  => DOMAIN disk = {}
  /\ script.at = "phase4"   => Extracted(apk)
  /\ script.at = "generate" => Translated(apk)
  /\ script.at = "build"    => Scaffolded(apk)
  /\ script.at = "assemble" => Scaffolded(apk) /\ shimlib = ShimOf(apk.lib)
  /\ script.at = "done" => /\ apk.lib # Nothing /\ Translatable(Elf(apk.lib))
                           /\ app.dylib = apk.lib /\ app.shim = ShimOf(apk.lib)
                           /\ FromApk(app.metadata, apk)
  /\ probe # "none" => script.at = "done"

BundleInv == DiskFits /\ Progress
-----------------------------------------------------------------------------
(* The directory after some writes.                                        *)

\* A set of naturals that is not empty has a least element.
LEMMA LeastExists ==
  ASSUME NEW T \in SUBSET Nat, T # {}
  PROVE  \E x \in T : \A y \in T : x <= y
<1>1. PICK x \in T : \A y \in T : ~(<<y, x>> \in OpToRel(<, Nat))
  BY WFMin, NatLessThanWellFounded, Zenon
<1>2. \A y \in T : ~(y < x)
  BY <1>1, Zenon DEF OpToRel
<1> QED BY <1>2

\* The last of some writes.
LEMMA MaxOfWrites ==
  ASSUME NEW n \in Nat, NEW S \in SUBSET (1 .. n), S # {}
  PROVE  Max(S) \in S /\ \A x \in S : x <= Max(S)
<1> DEFINE T == {n - x : x \in S}
<1>1. T \in SUBSET Nat /\ T # {}
  <2>1. \A x \in S : n - x \in Nat
    OBVIOUS
  <2> QED BY <2>1
<1>2. PICK l \in T : \A y \in T : l <= y
  BY <1>1, LeastExists
<1>3. PICK m \in S : l = n - m
  OBVIOUS
<1>4. \A x \in S : m >= x
  <2> TAKE x \in S
  <2>1. l <= n - x
    BY <1>2
  <2> QED BY <1>3, <2>1
<1> QED BY <1>4 DEF Max

\* A file that is written has the content of its last write, the others stay.
LEMMA WrittenAt ==
  ASSUME NEW ws, NEW n \in Nat, NEW f
  PROVE  /\ f \in DOMAIN Written(ws, n) <=> f \in DOMAIN disk \/ \E i \in 1 .. n : ws[i].file = f
         /\ f \in DOMAIN Written(ws, n) =>
              IF \E i \in 1 .. n : ws[i].file = f
              THEN \E i \in 1 .. n : ws[i].file = f /\ Written(ws, n)[f] = ws[i].content
              ELSE Written(ws, n)[f] = disk[f]
<1> DEFINE at == {i \in 1 .. n : ws[i].file = f}
<1>1. f \in DOMAIN Written(ws, n) <=> f \in DOMAIN disk \/ at # {}
  BY DEF Written
<1>2. ASSUME f \in DOMAIN Written(ws, n)
      PROVE  Written(ws, n)[f] = IF at = {} THEN disk[f] ELSE ws[Max(at)].content
  BY <1>2 DEF Written
<1>3. CASE at = {}
  BY <1>1, <1>2, <1>3
<1>4. CASE at # {}
  <2>1. Max(at) \in at
    BY <1>4, MaxOfWrites
  <2> HIDE DEF at
  <2>2. Max(at) \in 1 .. n /\ ws[Max(at)].file = f
    BY <2>1 DEF at
  <2>3. Written(ws, n)[f] = ws[Max(at)].content
    BY <1>1, <1>2, <1>4
  <2> QED BY <1>1, <1>4, <2>2, <2>3 DEF at
<1> QED BY <1>3, <1>4

\* Writes that fit leave a directory that fits.
LEMMA WrittenFits ==
  ASSUME DiskFits, NEW ws, NEW n \in Nat,
         \A i \in 1 .. n : Fits(ws[i].file, ws[i].content),
         disk' = Written(ws, n)
  PROVE  DiskFits'
<1> SUFFICES ASSUME NEW f \in DOMAIN disk' PROVE Fits(f, disk'[f])
  BY DEF DiskFits, Fits
<1>1. CASE \E i \in 1 .. n : ws[i].file = f
  BY <1>1, WrittenAt
<1>2. CASE ~\E i \in 1 .. n : ws[i].file = f
  BY <1>2, WrittenAt DEF DiskFits
<1> QED BY <1>1, <1>2
-----------------------------------------------------------------------------
(* What the commands write.                                                *)

\* The sources by name.
LEMMA SourceNames ==
  /\ Len(SourceFiles) = 11 /\ DOMAIN SourceFiles = 1 .. 11
  /\ Range(SourceFiles) = {"direct", "trap", "object", "stdio", "special", "pthread",
                           "posix", "elf-runtime", "network", "runtime", "signal"}
<1>1. Len(SourceFiles) = 11 /\ DOMAIN SourceFiles = 1 .. 11
  BY DEF SourceFiles
<1> QED BY <1>1 DEF SourceFiles, Range

\* A function on 1 .. n is a sequence.
LEMMA FunctionIsSeq ==
  ASSUME NEW S, NEW n \in Nat, NEW f \in [1 .. n -> S]
  PROVE  f \in Seq(S) /\ Len(f) = n
OBVIOUS

\* The elements of two sequences in one.
LEMMA Concatenation ==
  ASSUME NEW S, NEW g \in Seq(S), NEW h \in Seq(S)
  PROVE  /\ g \o h \in Seq(S) /\ Len(g \o h) = Len(g) + Len(h)
         /\ \A i \in 1 .. Len(g) : (g \o h)[i] = g[i]
         /\ \A i \in 1 .. Len(h) : (g \o h)[Len(g) + i] = h[i]
OBVIOUS

\* A list of writes.
Listed(ws) == /\ Len(ws) \in Nat /\ DOMAIN ws = 1 .. Len(ws)
              /\ \A i \in 1 .. Len(ws) : ws[i] = Write(ws[i].file, ws[i].content)

\* extract writes the metadata and the library of its APK.
LEMMA ExtractIs ==
  ASSUME NEW apk \in Apks, NEW ws, ws = ExtractWrites(apk)
  PROVE  /\ Listed(ws)
         /\ \A i \in 1 .. Len(ws) :
              \/ ws[i].file = "metadata" /\ ws[i].content \in Range(apk.metadata)
              \/ ws[i].file = "lib" /\ ws[i].content = apk.lib /\ apk.lib # Nothing
         /\ apk.metadata # <<>> => \E i \in 1 .. Len(ws) : ws[i].file = "metadata"
         /\ apk.lib # Nothing => \E i \in 1 .. Len(ws) : ws[i].file = "lib"
<1> DEFINE a == [i \in DOMAIN apk.metadata |-> Write("metadata", apk.metadata[i])]
           b == IF apk.lib = Nothing THEN <<>> ELSE <<Write("lib", apk.lib)>>
           W == Range(a) \cup Range(b)
<1>1. /\ Len(apk.metadata) \in Nat /\ DOMAIN apk.metadata = 1 .. Len(apk.metadata)
  BY ApksAssumption
<1>2. a \in Seq(W) /\ Len(a) = Len(apk.metadata)
  <2>1. DOMAIN a = 1 .. Len(apk.metadata)
    BY <1>1
  <2>2. a \in [1 .. Len(apk.metadata) -> W]
    BY <2>1 DEF Range
  <2> HIDE DEF a, W
  <2> QED BY <1>1, <2>2, FunctionIsSeq
<1>3. b \in Seq(W) /\ Len(b) = IF apk.lib = Nothing THEN 0 ELSE 1
  <2>1. CASE apk.lib = Nothing
    BY <2>1
  <2>2. CASE apk.lib # Nothing
    <3>1. b = <<Write("lib", apk.lib)>> /\ b[1] \in W
      BY <2>2 DEF Range
    <3> HIDE DEF W, b
    <3> QED BY <2>2, <3>1
  <2> QED BY <2>1, <2>2
<1>4. ws = a \o b
  BY DEF ExtractWrites
<1>5. \A i \in 1 .. Len(a) : a[i] = Write("metadata", apk.metadata[i])
  BY <1>1, <1>2
<1>6. apk.lib # Nothing => b[1] = Write("lib", apk.lib)
  OBVIOUS
<1> HIDE DEF a, b, W
<1>7. /\ ws \in Seq(W) /\ Len(ws) = Len(a) + Len(b)
      /\ \A i \in 1 .. Len(a) : ws[i] = a[i]
      /\ apk.lib # Nothing => ws[Len(a) + 1] = b[1]
  <2>1. /\ ws \in Seq(W) /\ Len(ws) = Len(a) + Len(b)
        /\ \A i \in 1 .. Len(a) : ws[i] = a[i]
        /\ \A i \in 1 .. Len(b) : ws[Len(a) + i] = b[i]
    <3>1. a \in Seq(W) /\ b \in Seq(W)
      BY <1>2, <1>3
    <3>2. /\ a \o b \in Seq(W) /\ Len(a \o b) = Len(a) + Len(b)
          /\ \A i \in 1 .. Len(a) : (a \o b)[i] = a[i]
          /\ \A i \in 1 .. Len(b) : (a \o b)[Len(a) + i] = b[i]
      BY <3>1, Concatenation
    <3> QED BY <3>2, <1>4, Zenon
  <2>2. apk.lib # Nothing => 1 \in 1 .. Len(b)
    BY <1>3
  <2> QED BY <2>1, <2>2
<1>len. Len(a) \in Nat /\ Len(b) \in 0 .. 1 /\ Len(ws) = Len(a) + Len(b)
  BY <1>1, <1>2, <1>3, <1>7
<1>8. ASSUME NEW i \in 1 .. Len(ws)
      PROVE  /\ ws[i] = Write(ws[i].file, ws[i].content)
             /\ \/ ws[i].file = "metadata" /\ ws[i].content \in Range(apk.metadata)
                \/ ws[i].file = "lib" /\ ws[i].content = apk.lib /\ apk.lib # Nothing
  <2>1. CASE i <= Len(a)
    <3>0. i \in 1 .. Len(a)
      BY <1>1, <1>2, <1>3, <1>7, <2>1
    <3>1. ws[i] = Write("metadata", apk.metadata[i]) /\ i \in DOMAIN apk.metadata
      BY <1>1, <1>2, <1>5, <1>7, <3>0
    <3> QED BY <3>1 DEF Write, Range
  <2>2. CASE ~(i <= Len(a))
    <3>0. Len(a) \in Nat /\ i > Len(a) /\ i <= Len(a) + Len(b) /\ i \in Nat
      BY <1>len, <2>2
    <3>1. i = Len(a) + 1 /\ apk.lib # Nothing
      BY <1>3, <3>0
    <3>2. ws[i] = b[1]
      BY <1>7, <3>1
    <3> QED BY <3>1, <3>2, <1>6 DEF Write
  <2> QED BY <2>1, <2>2
<1>9. ASSUME apk.metadata # <<>> PROVE \E i \in 1 .. Len(ws) : ws[i].file = "metadata"
  <2>1. Len(apk.metadata) >= 1
    BY <1>1, <1>9
  <2>2. 1 \in 1 .. Len(ws) /\ 1 \in 1 .. Len(a)
    BY <1>2, <1>len, <2>1
  <2>3. ws[1] = Write("metadata", apk.metadata[1])
    BY <1>5, <1>7, <2>2
  <2> QED BY <2>2, <2>3 DEF Write
<1>10. ASSUME apk.lib # Nothing PROVE \E i \in 1 .. Len(ws) : ws[i].file = "lib"
  <2>1. Len(ws) \in 1 .. Len(ws) /\ ws[Len(ws)] = b[1]
    BY <1>1, <1>2, <1>3, <1>7, <1>10
  <2> QED BY <2>1, <1>6, <1>10 DEF Write
<1> QED BY <1>7, <1>8, <1>9, <1>10 DEF Listed

\* generate-shim writes every source and build.sh, the generated ones from the
\* library that is there.
LEMMA ShimIs ==
  ASSUME NEW ws, ws = ShimWrites
  PROVE  /\ Listed(ws)
         /\ \A i \in 1 .. Len(ws) :
              /\ ws[i].file \in Range(SourceFiles) \cup {"build.sh"}
              /\ ws[i].content = IF ws[i].file \in Generated THEN disk["lib"] ELSE "template"
         /\ \A s \in Range(SourceFiles) : \E i \in 1 .. Len(ws) : ws[i].file = s
<1> DEFINE lib == disk["lib"]
           body(s) == IF s \in Generated THEN lib ELSE "template"
           a == [i \in DOMAIN SourceFiles |-> Write(SourceFiles[i], body(SourceFiles[i]))]
           b == <<Write("build.sh", "template")>>
           W == Range(a) \cup Range(b)
<1>1. DOMAIN SourceFiles = 1 .. 11
  BY SourceNames
<1>2. ws = a \o b
  BY DEF ShimWrites, Generated
<1> HIDE DEF lib
<1>4. a \in Seq(W) /\ Len(a) = 11
  <2>1. DOMAIN a = 1 .. 11
    BY <1>1
  <2>2. a \in [1 .. 11 -> W]
    BY <2>1 DEF Range
  <2> HIDE DEF a, W
  <2> QED BY <2>2, FunctionIsSeq
<1>5. b \in Seq(W) /\ Len(b) = 1 /\ b[1] = Write("build.sh", "template")
  <2>1. b[1] \in W
    BY DEF Range
  <2> HIDE DEF W
  <2> QED BY <2>1
<1>6. \A i \in 1 .. 11 : a[i] = Write(SourceFiles[i], body(SourceFiles[i]))
  BY <1>1
<1> HIDE DEF a, b, W
<1>7. /\ ws \in Seq(W) /\ Len(ws) = 12 /\ ws[12] = b[1]
      /\ \A i \in 1 .. 11 : ws[i] = a[i]
  <2>1. /\ ws \in Seq(W) /\ Len(ws) = Len(a) + Len(b)
        /\ \A i \in 1 .. Len(a) : ws[i] = a[i]
        /\ \A i \in 1 .. Len(b) : ws[Len(a) + i] = b[i]
    <3>1. a \in Seq(W) /\ b \in Seq(W)
      BY <1>4, <1>5
    <3>2. /\ a \o b \in Seq(W) /\ Len(a \o b) = Len(a) + Len(b)
          /\ \A i \in 1 .. Len(a) : (a \o b)[i] = a[i]
          /\ \A i \in 1 .. Len(b) : (a \o b)[Len(a) + i] = b[i]
      BY <3>1, Concatenation
    <3> QED BY <3>2, <1>2, Zenon
  <2> QED BY <1>4, <1>5, <2>1
<1>8. ASSUME NEW i \in 1 .. Len(ws)
      PROVE  /\ ws[i] = Write(ws[i].file, ws[i].content)
             /\ ws[i].file \in Range(SourceFiles) \cup {"build.sh"}
             /\ ws[i].content = body(ws[i].file)
  <2>1. CASE i \in 1 .. 11
    <3>1. ws[i] = Write(SourceFiles[i], body(SourceFiles[i])) /\ SourceFiles[i] \in Range(SourceFiles)
      BY <1>1, <1>6, <1>7, <2>1 DEF Range
    <3> QED BY <3>1 DEF Write
  <2>2. CASE i = 12
    BY <1>5, <1>7, <2>2 DEF Write, Generated
  <2> QED BY <1>7, <2>1, <2>2
<1>9. ASSUME NEW s \in Range(SourceFiles) PROVE \E i \in 1 .. Len(ws) : ws[i].file = s
  <2>1. PICK i \in 1 .. 11 : SourceFiles[i] = s
    BY <1>1 DEF Range
  <2>2. ws[i].file = s /\ i \in 1 .. Len(ws)
    BY <1>6, <1>7, <2>1, SMTT(30) DEF Write
  <2> QED BY <2>2
<1> QED BY <1>7, <1>8, <1>9 DEF Listed, lib

Commands == {"extract", "phase4", "generate"}

\* Whatever a command writes fits its file.
LEMMA WritesFit ==
  ASSUME DiskFits, NEW cmd \in Commands, NEW apk, cmd = "extract" => apk \in Apks,
         ~Raises(cmd), NEW ws, ws = Writes(cmd, apk)
  PROVE  Listed(ws) /\ \A i \in 1 .. Len(ws) : Fits(ws[i].file, ws[i].content)
<1>1. CASE cmd = "extract"
  <2>1. ws = ExtractWrites(apk) /\ apk \in Apks
    BY <1>1 DEF Writes
  <2>2. apk.lib # Nothing => apk.lib \in Libs
    BY <2>1 DEF Libs
  <2> QED BY <2>1, <2>2, ExtractIs DEF Fits
<1>2. CASE cmd # "extract"
  <2>1. "lib" \in DOMAIN disk /\ disk["lib"] \in Libs
    <3>1. HasLib
      BY <1>2 DEF Raises, Commands
    <3>2. Fits("lib", disk["lib"]) /\ disk["lib"] # Nothing
      BY <3>1 DEF HasLib, DiskFits
    <3>3. "lib" \notin Templates
      BY SourceNames DEF Templates
    <3> QED BY <3>1, <3>2, <3>3 DEF Fits, HasLib
  <2>2. CASE cmd = "phase4"
    <3>1. ws = <<Write("dylib", disk["lib"])>> /\ Translatable(Elf(disk["lib"]))
      BY <2>2 DEF Writes, Raises
    <3>2. Listed(ws) /\ Len(ws) = 1 /\ ws[1] = Write("dylib", disk["lib"])
      BY <3>1 DEF Listed, Write
    <3> QED BY <3>1, <3>2, <2>1 DEF Fits, Write
  <2>3. CASE cmd = "generate"
    <3>1. ws = ShimWrites
      BY <2>3 DEF Writes
    <3> QED BY <3>1, <2>1, ShimIs DEF Fits, Templates
  <2> QED BY <1>2, <2>2, <2>3 DEF Commands
<1> QED BY <1>1, <1>2

\* A command that succeeds, fails at a write or raises leaves a directory that
\* fits.
LEMMA CommandFits ==
  ASSUME DiskFits, NEW cmd \in Commands, NEW apk, cmd = "extract" => apk \in Apks,
         Succeed(cmd, apk) \/ Fault(cmd, apk) \/ Raise(cmd)
  PROVE  DiskFits'
<1> DEFINE ws == Writes(cmd, apk)
<1>1. CASE Raise(cmd)
  BY <1>1 DEF Raise, DiskFits, Fits
<1>2. ASSUME ~Raises(cmd)
      PROVE  Listed(ws) /\ \A i \in 1 .. Len(ws) : Fits(ws[i].file, ws[i].content)
  BY <1>2, WritesFit
<1>3. CASE Succeed(cmd, apk)
  <2>1. disk' = Written(ws, Len(ws)) /\ ~Raises(cmd)
    BY <1>3 DEF Succeed
  <2> HIDE DEF ws
  <2>2. Len(ws) \in Nat
    BY <1>2, <2>1 DEF Listed
  <2> QED BY <1>2, <2>1, <2>2, WrittenFits
<1>4. CASE Fault(cmd, apk)
  <2>1. ~Raises(cmd)
    BY <1>4 DEF Fault
  <2>2. PICK n \in 0 .. Len(ws) - 1 :
          \/ disk' = Written(ws, n)
          \/ disk' = Written([ws EXCEPT ![n + 1].content = Nothing], n + 1)
    BY <1>4 DEF Fault
  <2> HIDE DEF ws
  <2>3. Listed(ws) /\ \A i \in 1 .. Len(ws) : Fits(ws[i].file, ws[i].content)
    BY <1>2, <2>1
  <2>4. n \in Nat /\ n + 1 \in 1 .. Len(ws) /\ \A i \in 1 .. n + 1 : i \in 1 .. Len(ws)
    BY <2>3 DEF Listed
  <2>5. CASE disk' = Written(ws, n)
    <3>1. \A i \in 1 .. n : Fits(ws[i].file, ws[i].content)
      BY <2>3, <2>4
    <3> QED BY <2>4, <2>5, <3>1, WrittenFits
  <2>6. CASE disk' = Written([ws EXCEPT ![n + 1].content = Nothing], n + 1)
    <3> DEFINE cut == [ws EXCEPT ![n + 1].content = Nothing]
    <3>1. ASSUME NEW i \in 1 .. n + 1 PROVE Fits(cut[i].file, cut[i].content)
      <4>1. ws[i] = Write(ws[i].file, ws[i].content) /\ i \in DOMAIN ws
        BY <2>3, <2>4 DEF Listed
      <4>2. CASE i = n + 1
        <5>1. cut[i].content = Nothing
          BY <4>1, <4>2 DEF Write
        <5> QED BY <5>1 DEF Fits
      <4>3. CASE i # n + 1
        <5>1. cut[i] = ws[i]
          BY <4>1, <4>3, <2>4
        <5> QED BY <5>1, <2>3, <2>4
      <4> QED BY <4>2, <4>3
    <3>2. n + 1 \in Nat /\ disk' = Written(cut, n + 1)
      BY <2>4, <2>6
    <3> HIDE DEF cut
    <3> QED BY <3>1, <3>2, WrittenFits
  <2> QED BY <2>2, <2>5, <2>6
<1> QED BY <1>1, <1>3, <1>4
-----------------------------------------------------------------------------
(* The script's commands.                                                  *)

\* A template is not an empty file.
LEMMA TemplateIsSome == Nothing # "template"
BY Zenon DEF Nothing

\* A library of an APK has a name of its own.
LEMMA LibraryNames ==
  ASSUME NEW apk \in Apks
  PROVE  apk.lib # "template" /\ (apk.lib # Nothing => apk.lib \in Libs)
BY ApksAssumption DEF Libs

\* extract into an empty directory leaves the files of its APK.
LEMMA ScriptExtracts ==
  ASSUME NEW apk \in Apks, DOMAIN disk = {}, Succeed("extract", apk)
  PROVE  Extracted(apk)'
<1> DEFINE ws == ExtractWrites(apk)
<1>1. disk' = Written(ws, Len(ws))
  BY DEF Succeed, Writes
<1>2. /\ Listed(ws)
      /\ \A i \in 1 .. Len(ws) :
           \/ ws[i].file = "metadata" /\ ws[i].content \in Range(apk.metadata)
           \/ ws[i].file = "lib" /\ ws[i].content = apk.lib /\ apk.lib # Nothing
      /\ apk.metadata # <<>> => \E i \in 1 .. Len(ws) : ws[i].file = "metadata"
      /\ apk.lib # Nothing => \E i \in 1 .. Len(ws) : ws[i].file = "lib"
  BY ExtractIs
<1> HIDE DEF ws
<1>3. Len(ws) \in Nat
  BY <1>2 DEF Listed
<1>4. \A f : /\ f \in DOMAIN disk' <=> \E i \in 1 .. Len(ws) : ws[i].file = f
             /\ f \in DOMAIN disk' => \E i \in 1 .. Len(ws) : ws[i].file = f /\ disk'[f] = ws[i].content
  BY <1>1, <1>3, WrittenAt
<1>5. IF apk.metadata = <<>> THEN "metadata" \notin DOMAIN disk'
      ELSE "metadata" \in DOMAIN disk' /\ disk'["metadata"] \in Range(apk.metadata)
  <2>1. CASE apk.metadata = <<>>
    <3>1. Range(apk.metadata) = {}
      BY <2>1 DEF Range
    <3> QED BY <1>2, <1>4, <2>1, <3>1
  <2>2. CASE apk.metadata # <<>>
    BY <1>2, <1>4, <2>2
  <2> QED BY <2>1, <2>2
<1>6. IF apk.lib = Nothing THEN "lib" \notin DOMAIN disk'
      ELSE "lib" \in DOMAIN disk' /\ disk'["lib"] = apk.lib
  BY <1>2, <1>4
<1> QED BY <1>5, <1>6 DEF Extracted, Holds

\* translate-phase4 adds the dylib of the library that is there.
LEMMA ScriptTranslates ==
  ASSUME NEW apk \in Apks, Extracted(apk), NEW any, Succeed("phase4", any)
  PROVE  Translated(apk)'
<1> DEFINE ws == <<Write("dylib", disk["lib"])>>
<1>1. HasLib /\ Translatable(Elf(disk["lib"]))
  BY DEF Succeed, Raises
<1>2. apk.lib # Nothing /\ disk["lib"] = apk.lib
  BY <1>1 DEF HasLib, Extracted, Holds
<1>3. disk' = Written(ws, Len(ws))
  BY DEF Succeed, Writes
<1>4. Len(ws) = 1 /\ ws[1].file = "dylib" /\ ws[1].content = apk.lib
  BY <1>2 DEF Write
<1> HIDE DEF ws
<1>5. \A i \in 1 .. 1 : i = 1
  OBVIOUS
<1>6. \A f : /\ f \in DOMAIN disk' <=> f \in DOMAIN disk \/ f = "dylib"
             /\ f \in DOMAIN disk' => disk'[f] = IF f = "dylib" THEN apk.lib ELSE disk[f]
  BY <1>3, <1>4, <1>5, WrittenAt
<1> QED BY <1>1, <1>2, <1>6 DEF Translated, Extracted, Holds

\* generate-shim adds every source, the generated ones from the same library.
LEMMA ScriptScaffolds ==
  ASSUME NEW apk \in Apks, Translated(apk), NEW any, Succeed("generate", any)
  PROVE  Scaffolded(apk)'
<1> DEFINE ws == ShimWrites
<1>1. "lib" \in DOMAIN disk /\ disk["lib"] = apk.lib
  BY DEF Translated, Extracted, Holds
<1>2. disk' = Written(ws, Len(ws))
  BY DEF Succeed, Writes
<1>3. /\ Listed(ws)
      /\ \A i \in 1 .. Len(ws) :
           /\ ws[i].file \in Range(SourceFiles) \cup {"build.sh"}
           /\ ws[i].content = IF ws[i].file \in Generated THEN disk["lib"] ELSE "template"
      /\ \A s \in Range(SourceFiles) : \E i \in 1 .. Len(ws) : ws[i].file = s
  BY ShimIs
<1> HIDE DEF ws
<1>4. Len(ws) \in Nat
  BY <1>3 DEF Listed
<1>5. \A f \in {"lib", "dylib", "metadata"} : ~\E i \in 1 .. Len(ws) : ws[i].file = f
  <2>1. \A f \in {"lib", "dylib", "metadata"} : f \notin Range(SourceFiles) \cup {"build.sh"}
    BY SourceNames
  <2> QED BY <1>3, <2>1
<1>6. \A f \in {"lib", "dylib", "metadata"} :
        /\ f \in DOMAIN disk' <=> f \in DOMAIN disk
        /\ f \in DOMAIN disk' => disk'[f] = disk[f]
  BY <1>2, <1>4, <1>5, WrittenAt
<1>7. ASSUME NEW s \in Range(SourceFiles)
      PROVE  s \in DOMAIN disk' /\ disk'[s] = IF s \in Generated THEN apk.lib ELSE "template"
  <2>1. PICK i \in 1 .. Len(ws) : ws[i].file = s /\ disk'[s] = ws[i].content
    BY <1>2, <1>3, <1>4, WrittenAt
  <2>2. s \in DOMAIN disk'
    BY <1>2, <1>3, <1>4, WrittenAt
  <2> QED BY <1>1, <1>3, <2>1, <2>2
<1> QED BY <1>6, <1>7 DEF Scaffolded, Translated, Extracted, Holds

\* The library of such a scaffold.
LEMMA ScriptLinks ==
  ASSUME NEW apk \in Apks, Scaffolded(apk)
  PROVE  Link = ShimOf(apk.lib)
<1>1. /\ apk.lib # Nothing /\ apk.lib # "template"
      /\ \A s \in Range(SourceFiles) : disk[s] = IF s \in Generated THEN apk.lib ELSE "template"
  BY LibraryNames DEF Scaffolded, Translated, Holds
<1>2. \A s \in Generated : s \in Range(SourceFiles)
  BY SourceNames DEF Generated
<1>3. ASSUME NEW s \in Range(SourceFiles)
      PROVE  Defined(s) = Defines(Elf(apk.lib), s)
  <2>1. disk[s] # Nothing
    BY <1>1, TemplateIsSome
  <2>2. CASE s \in Generated
    BY <1>1, <2>1, <2>2 DEF Defined, SourceElf
  <2>3. CASE s \notin Generated
    BY <2>1, <2>3 DEF Defined, Defines, Generated
  <2> QED BY <2>2, <2>3
<1>4. {disk[s] : s \in {"direct", "trap", "elf-runtime"}} = {apk.lib}
  BY <1>1, <1>2 DEF Generated
<1>5. disk["elf-runtime"] = apk.lib
  BY <1>1, <1>2 DEF Generated
<1>6. {Defined(s) : s \in Range(SourceFiles)} = {Defines(Elf(apk.lib), s) : s \in Range(SourceFiles)}
  BY <1>3
<1> QED BY <1>4, <1>5, <1>6 DEF Link, ShimOf
-----------------------------------------------------------------------------
(* The inductive invariant.                                                *)

\* It holds of an empty directory.
LEMMA BundleInit == Init => BundleInv
<1> SUFFICES ASSUME Init PROVE BundleInv
  OBVIOUS
<1>1. DiskFits
  <2>1. DOMAIN disk = {}
    BY DEF Init, NoFiles
  <2> QED BY <2>1 DEF DiskFits
<1>2. script.at = "none" /\ script = [at |-> script.at, apk |-> script.apk] /\ probe = "none"
  BY DEF Init
<1>3. Progress
  BY <1>2 DEF Progress, Stopped
<1> QED BY <1>1, <1>3 DEF BundleInv

\* A command by hand leaves the app of a finished script as it is.
LEMMA ByHandStep == BundleInv /\ ByHand => BundleInv'
<1> SUFFICES ASSUME BundleInv, ByHand PROVE BundleInv'
  OBVIOUS
<1>1. DiskFits'
  <2>1. CASE BuildShim \/ BuildFails
    BY <2>1 DEF BuildShim, BuildFails, BundleInv, DiskFits, Fits
  <2>2. CASE \E cmd \in Commands : \/ \E apk \in ApkGiven(cmd) : Succeed(cmd, apk) \/ Fault(cmd, apk)
                                   \/ Raise(cmd)
    <3>1. PICK cmd \in Commands : \/ \E apk \in ApkGiven(cmd) : Succeed(cmd, apk) \/ Fault(cmd, apk)
                                  \/ Raise(cmd)
      BY <2>2
    <3>2. CASE Raise(cmd)
      BY <3>2 DEF Raise, BundleInv, DiskFits, Fits
    <3>3. CASE \E apk \in ApkGiven(cmd) : Succeed(cmd, apk) \/ Fault(cmd, apk)
      <4>1. PICK apk \in ApkGiven(cmd) : Succeed(cmd, apk) \/ Fault(cmd, apk)
        BY <3>3
      <4>2. cmd = "extract" => apk \in Apks
        BY <4>1 DEF ApkGiven
      <4> QED BY <4>1, <4>2, CommandFits DEF BundleInv
    <3> QED BY <3>1, <3>2, <3>3
  <2> QED BY <2>1, <2>2 DEF ByHand, Commands
<1>2. script.at \in Stopped /\ UNCHANGED <<app, script, probe>>
  BY DEF ByHand
<1>3. Progress'
  BY <1>2 DEF BundleInv, Progress, Stopped, FromApk, ShimOf
<1> QED BY <1>1, <1>3 DEF BundleInv

\* The script starts with an empty directory and no app.
LEMMA ScriptStartStep ==
  ASSUME BundleInv, NEW apk \in Apks, ScriptStart(apk)
  PROVE  BundleInv'
<1>1. DOMAIN disk' = {} /\ script' = [at |-> "extract", apk |-> apk] /\ app' = NoApp /\ probe' = "none"
  BY DEF ScriptStart, NoFiles
<1>2. DiskFits'
  BY <1>1 DEF DiskFits
<1>3. script'.at = "extract" /\ script'.apk = apk
  BY <1>1
<1>4. NoApp' = NoApp
  BY DEF NoApp, NoLibrary
<1>5. Progress'
  BY <1>1, <1>3, <1>4 DEF Progress, Stopped
<1> QED BY <1>2, <1>5 DEF BundleInv

\* A command of the script adds its files, or is the last one.
LEMMA ScriptCommandStep == BundleInv /\ ScriptCommand => BundleInv'
<1> SUFFICES ASSUME BundleInv, ScriptCommand PROVE BundleInv'
  OBVIOUS
<1> DEFINE apk == script.apk
<1>1. /\ script.at \in Commands /\ apk \in Apks /\ script = [at |-> script.at, apk |-> apk]
      /\ app = NoApp /\ app' = app /\ probe' = probe /\ probe = "none"
  BY DEF ScriptCommand, Commands, BundleInv, Progress, Stopped
<1>2. DiskFits'
  <2>1. Succeed(script.at, apk) \/ Fault(script.at, apk) \/ Raise(script.at)
    BY DEF ScriptCommand
  <2> QED BY <1>1, <2>1, CommandFits DEF BundleInv
<1>3. CASE script' = [script EXCEPT !.at = "failed"]
  <2>1. script'.at = "failed" /\ script'.apk = apk /\ script' = [at |-> script'.at, apk |-> script'.apk]
    BY <1>1, <1>3
  <2>2. Progress'
    BY <1>1, <2>1 DEF Progress, Stopped
  <2> QED BY <1>2, <2>2 DEF BundleInv
<1>4. CASE Succeed(script.at, apk) /\ script' = [script EXCEPT !.at = After(@)]
  <2>1. /\ script'.at = After(script.at) /\ script'.apk = apk
        /\ script' = [at |-> script'.at, apk |-> script'.apk]
    BY <1>1, <1>4
  <2>2. NoApp' = NoApp
    BY DEF NoApp, NoLibrary
  <2>3. CASE script.at = "extract"
    <3>1. Extracted(apk)'
      <4>1. DOMAIN disk = {} /\ Succeed("extract", apk)
        BY <1>4, <2>3 DEF BundleInv, Progress
      <4>2. ASSUME NEW a \in Apks, Succeed("extract", a) PROVE Extracted(a)'
        BY <4>1, <4>2, ScriptExtracts
      <4> QED BY <1>1, <2>1, <4>1, <4>2 DEF Extracted, Holds
    <3>2. script'.at = "phase4"
      BY <2>1, <2>3 DEF After
    <3>3. Progress'
      BY <1>1, <2>1, <2>2, <3>1, <3>2 DEF Progress, Stopped
    <3> QED BY <1>2, <3>3 DEF BundleInv
  <2>4. CASE script.at = "phase4"
    <3>1. Translated(apk)'
      <4>1. Extracted(apk) /\ Succeed("phase4", apk)
        BY <1>4, <2>4 DEF BundleInv, Progress
      <4>2. ASSUME NEW a \in Apks, Extracted(a), Succeed("phase4", a) PROVE Translated(a)'
        BY <4>2, ScriptTranslates
      <4> QED BY <1>1, <2>1, <4>1, <4>2 DEF Translated, Extracted, Holds
    <3>2. script'.at = "generate"
      BY <2>1, <2>4 DEF After
    <3>3. Progress'
      BY <1>1, <2>1, <2>2, <3>1, <3>2 DEF Progress, Stopped
    <3> QED BY <1>2, <3>3 DEF BundleInv
  <2>5. CASE script.at = "generate"
    <3>1. Scaffolded(apk)'
      <4>1. Translated(apk) /\ Succeed("generate", apk)
        BY <1>4, <2>5 DEF BundleInv, Progress
      <4>2. ASSUME NEW a \in Apks, Translated(a), Succeed("generate", a) PROVE Scaffolded(a)'
        BY <4>2, ScriptScaffolds
      <4> QED BY <1>1, <2>1, <4>1, <4>2 DEF Scaffolded, Translated, Extracted, Holds
    <3>2. script'.at = "build"
      BY <2>1, <2>5 DEF After
    <3>3. Progress'
      BY <1>1, <2>1, <2>2, <3>1, <3>2 DEF Progress, Stopped
    <3> QED BY <1>2, <3>3 DEF BundleInv
  <2> QED BY <1>1, <2>3, <2>4, <2>5 DEF Commands
<1> QED BY <1>3, <1>4 DEF ScriptCommand

\* build.sh links the scaffold of the script's APK.
LEMMA ScriptBuildStep == BundleInv /\ ScriptBuild => BundleInv'
<1> SUFFICES ASSUME BundleInv, ScriptBuild PROVE BundleInv'
  OBVIOUS
<1> DEFINE apk == script.apk
<1>1. /\ script.at = "build" /\ apk \in Apks /\ script = [at |-> script.at, apk |-> apk]
      /\ app = NoApp /\ app' = app /\ probe' = probe /\ probe = "none" /\ disk' = disk
      /\ Scaffolded(apk)
  BY DEF ScriptBuild, BuildShim, BuildFails, BundleInv, Progress, Stopped
<1>2. DiskFits'
  BY <1>1 DEF DiskFits, BundleInv, Fits
<1>3. CASE script' = [script EXCEPT !.at = "failed"]
  <2>1. script'.at = "failed" /\ script'.apk = apk /\ script' = [at |-> script'.at, apk |-> script'.apk]
    BY <1>1, <1>3
  <2>2. Progress'
    BY <1>1, <2>1 DEF Progress, Stopped
  <2> QED BY <1>2, <2>2 DEF BundleInv
<1>4. CASE BuildShim /\ script' = [script EXCEPT !.at = After(@)]
  <2>1. /\ script'.at = "assemble" /\ script'.apk = apk
        /\ script' = [at |-> script'.at, apk |-> script'.apk]
    BY <1>1, <1>4 DEF After
  <2>2. NoApp' = NoApp
    BY DEF NoApp, NoLibrary
  <2>3. Scaffolded(apk)'
    BY <1>1, <2>1 DEF Scaffolded, Translated, Extracted, Holds
  <2>4. shimlib' = ShimOf(apk.lib)
    BY <1>1, <1>4, ScriptLinks DEF BuildShim
  <2>5. Progress'
    BY <1>1, <2>1, <2>2, <2>3, <2>4 DEF Progress, Stopped, ShimOf
  <2> QED BY <1>2, <2>5 DEF BundleInv
<1> QED BY <1>3, <1>4 DEF ScriptBuild

\* The app is put together from the APK's files alone.
LEMMA AssembleStep == BundleInv /\ Assemble => BundleInv'
<1> SUFFICES ASSUME BundleInv, Assemble PROVE BundleInv'
  OBVIOUS
<1> DEFINE apk == script.apk
<1>1. /\ script.at = "assemble" /\ apk \in Apks /\ script = [at |-> script.at, apk |-> apk]
      /\ app = NoApp /\ probe' = probe /\ probe = "none" /\ disk' = disk
      /\ Scaffolded(apk) /\ shimlib = ShimOf(apk.lib)
  BY DEF Assemble, BundleInv, Progress, Stopped
<1>2. DiskFits'
  BY <1>1 DEF DiskFits, BundleInv, Fits
<1>3. script'.at = "done" /\ script'.apk = apk /\ script' = [at |-> script'.at, apk |-> script'.apk]
  BY <1>1 DEF Assemble
<1>4. /\ app'.dylib = disk["dylib"] /\ app'.shim = shimlib
      /\ app'.metadata = IF "metadata" \in DOMAIN disk THEN disk["metadata"] ELSE app.metadata
  BY DEF Assemble
<1>5. app.metadata = Nothing
  BY <1>1 DEF NoApp
<1>6. FromApk(app.metadata, apk)'
  BY <1>1, <1>3, <1>4, <1>5 DEF FromApk, Scaffolded, Translated, Extracted
<1>7. apk.lib # Nothing /\ Translatable(Elf(apk.lib)) /\ app'.dylib = apk.lib
  BY <1>1, <1>4 DEF Scaffolded, Translated, Holds
<1>8. app'.shim = ShimOf(apk.lib)
  BY <1>1, <1>4
<1>9. Progress'
  BY <1>1, <1>3, <1>6, <1>7, <1>8 DEF Progress, Stopped, ShimOf
<1> QED BY <1>2, <1>9 DEF BundleInv

\* The probe changes nothing but its outcome.
LEMMA ProbeStep == BundleInv /\ Probe => BundleInv'
<1> SUFFICES ASSUME BundleInv, Probe PROVE BundleInv'
  OBVIOUS
<1>1. script.at = "done" /\ UNCHANGED <<disk, shimlib, app, script>>
  BY DEF Probe
<1>2. DiskFits'
  BY <1>1 DEF DiskFits, BundleInv, Fits
<1>3. Progress'
  BY <1>1 DEF BundleInv, Progress, Stopped, FromApk, ShimOf
<1> QED BY <1>2, <1>3 DEF BundleInv

\* What the directory holds follows from where the script is, for any APKs,
\* commands and failing writes.
THEOREM BundleInvariant == Spec => []BundleInv
<1>1. BundleInv /\ [Next]_bundleVars => BundleInv'
  <2> SUFFICES ASSUME BundleInv, [Next]_bundleVars PROVE BundleInv'
    OBVIOUS
  <2>1. CASE UNCHANGED bundleVars
    BY <2>1 DEF bundleVars, BundleInv, DiskFits, Fits, Progress, Extracted, Translated, Scaffolded,
                Holds, ShimOf, FromApk, NoApp, NoLibrary
  <2>2. CASE Next
    BY <2>2, ByHandStep, ScriptStartStep, ScriptCommandStep, ScriptBuildStep, AssembleStep,
       ProbeStep DEF Next
  <2> QED BY <2>1, <2>2
<1> QED BY <1>1, BundleInit, PTL DEF Spec

\* An app that the script has finished is made of one APK, whatever commands and
\* failures have left in the output directory before.
THEOREM BundleCoherence == Spec => []BundleCoherent
<1>1. BundleInv => BundleCoherent
  BY DEF BundleInv, Progress, BundleCoherent, FromApk, ShimOf
<1> QED BY <1>1, BundleInvariant, PTL

\* A dylib that reaches il2cpp_init sees itself, where the translation has put it.
THEOREM PhdrsDescribed == Spec => []PhdrsDescribeImage
<1>1. ASSUME BundleInv, probe # "none" PROVE app.shim.phdrs = app.dylib
  BY <1>1 DEF BundleInv, Progress, ShimOf
<1>2. ASSUME NEW e PROVE PhdrView(e) = ImageView(e)
  BY SMT DEF PhdrView, ImageView, HEADER_RESERVE
<1>3. BundleInv => PhdrsDescribeImage
  <2>1. probe \in {"called", "called without metadata"} => probe # "none"
    BY Zenon
  <2> QED BY <1>1, <1>2, <2>1, Zenon DEF PhdrsDescribeImage
<1> QED BY <1>3, BundleInvariant, PTL
-----------------------------------------------------------------------------
(* What the sources of a scaffold define.                                  *)

TableNames(i) == Tables[i].names

\* The tables, one for each source that is a template, and the direct one.
LEMMA TablesAre ==
  /\ DOMAIN Tables = 1 .. 10
  /\ Tables[1]  = [category |-> "object",      names |-> {"__sF", "_ctype_"}]
  /\ Tables[2]  = [category |-> "stdio",       names |-> {"fclose"}]
  /\ Tables[3]  = [category |-> "special",     names |-> {"clock_gettime"}]
  /\ Tables[4]  = [category |-> "pthread",     names |-> {"pthread_once"}]
  /\ Tables[5]  = [category |-> "posix",       names |-> {"sem_wait"}]
  /\ Tables[6]  = [category |-> "elf-runtime", names |-> {"dl_iterate_phdr"}]
  /\ Tables[7]  = [category |-> "network",     names |-> {"connect"}]
  /\ Tables[8]  = [category |-> "runtime",     names |-> {"syscall"}]
  /\ Tables[9]  = [category |-> "signal",      names |-> {"sigaction"}]
  /\ Tables[10] = [category |-> "direct",      names |-> {"malloc", "fclose"}]
BY DEF Tables

\* The categories, which are names of sources, differ from table to table.
LEMMA TableCategories ==
  /\ \A i \in 1 .. 10 : /\ Tables[i].category \in Range(SourceFiles) \ {"trap"}
                        /\ Tables[i].category = "direct" <=> i = 10
  /\ \A s \in Range(SourceFiles) \ {"direct", "trap"} : \E i \in 1 .. 9 : Tables[i].category = s
  /\ \A i, j \in 1 .. 10 : Tables[i].category = Tables[j].category => i = j
<1>1. \A i \in 1 .. 10 : i \in {1, 2, 3, 4, 5, 6, 7, 8, 9, 10}
  OBVIOUS
<1>2. \A i \in 1 .. 10 : /\ Tables[i].category \in Range(SourceFiles) \ {"trap"}
                         /\ Tables[i].category = "direct" <=> i = 10
  BY <1>1, TablesAre, SourceNames
<1>3. \A s \in Range(SourceFiles) \ {"direct", "trap"} : \E i \in 1 .. 9 : Tables[i].category = s
  BY TablesAre, SourceNames
<1>4. \A i, j \in 1 .. 10 : Tables[i].category = Tables[j].category => i = j
  BY <1>1, TablesAre
<1> QED BY <1>2, <1>3, <1>4

\* No name is in two of the tables that have a template.
LEMMA TablesDisjoint ==
  ASSUME NEW i \in 1 .. 9, NEW j \in 1 .. 9, NEW n, n \in TableNames(i), n \in TableNames(j)
  PROVE  i = j
<1>1. \A k \in 1 .. 9 : k \in {1, 2, 3, 4, 5, 6, 7, 8, 9}
  OBVIOUS
<1>2. /\ TableNames(1) = {"__sF", "_ctype_"} /\ TableNames(2) = {"fclose"}
      /\ TableNames(3) = {"clock_gettime"}   /\ TableNames(4) = {"pthread_once"}
      /\ TableNames(5) = {"sem_wait"}        /\ TableNames(6) = {"dl_iterate_phdr"}
      /\ TableNames(7) = {"connect"}         /\ TableNames(8) = {"syscall"}
      /\ TableNames(9) = {"sigaction"}
  BY TablesAre DEF TableNames
<1> QED BY <1>1, <1>2

\* A template defines the names of its table.
LEMMA TemplateDefines ==
  ASSUME NEW e, NEW i \in 1 .. 9
  PROVE  Defines(e, Tables[i].category) = TableNames(i)
<1>1. i \in 1 .. 10 /\ i # 10
  OBVIOUS
<1>2. Tables[i].category \notin {"direct", "trap"}
  BY <1>1, TableCategories
<1>3. {u \in Range(Tables) : u.category = Tables[i].category} = {Tables[i]}
  <2>1. \A u : u \in Range(Tables) <=> \E j \in 1 .. 10 : u = Tables[j]
    BY TablesAre DEF Range
  <2> QED BY <1>1, <2>1, TableCategories
<1>4. {t.names : t \in {Tables[i]}} = {Tables[i].names}
  OBVIOUS
<1>5. UNION {Tables[i].names} = Tables[i].names
  OBVIOUS
<1> QED BY <1>2, <1>3, <1>4, <1>5 DEF Defines, TableNames

\* The first of the tables that have a name.
LEMMA FirstHit ==
  ASSUME NEW e, NEW n, Hits(e, n) # {}
  PROVE  /\ Min(Hits(e, n)) \in Hits(e, n) /\ Hits(e, n) \subseteq 1 .. 10
         /\ \A i \in Hits(e, n) : Min(Hits(e, n)) <= i
<1>1. Hits(e, n) \subseteq 1 .. 10
  BY TablesAre DEF Hits
<1>2. Hits(e, n) \in SUBSET Nat
  BY <1>1
<1>3. PICK x \in Hits(e, n) : \A y \in Hits(e, n) : x <= y
  BY <1>2, LeastExists
<1> QED BY <1>1, <1>3 DEF Min

\* A name with a call or a trap of its own is in no template's table.
LEMMA GeneratedNames ==
  ASSUME NEW e, NEW n, Category(e, n) \in {"direct", "trap"}, NEW i \in 1 .. 9
  PROVE  n \notin TableNames(i)
<1> SUFFICES ASSUME n \in TableNames(i) PROVE FALSE
  OBVIOUS
<1>1. i \in 1 .. 10 /\ i # 10
  OBVIOUS
<1>2. i \in Hits(e, n)
  BY <1>1, TablesAre, TableCategories DEF Hits, TableNames
<1>3. Category(e, n) = Tables[Min(Hits(e, n))].category
  <2>1. "object" \notin {"direct", "trap"}
    OBVIOUS
  <2> QED BY <1>2, <2>1 DEF Category
<1>4. Min(Hits(e, n)) \in 1 .. 10 /\ Min(Hits(e, n)) <= i
  BY <1>2, FirstHit
<1>5. Min(Hits(e, n)) = 10
  BY <1>3, <1>4, TableCategories
<1> QED BY <1>4, <1>5

\* Two sources of a scaffold for one ELF have no name in common.
LEMMA SourcesDisjoint ==
  ASSUME NEW e, NEW s \in Range(SourceFiles), NEW t \in Range(SourceFiles), s # t
  PROVE  Defines(e, s) \cap Defines(e, t) = {}
<1> SUFFICES ASSUME NEW n, n \in Defines(e, s), n \in Defines(e, t) PROVE FALSE
  OBVIOUS
<1>1. ASSUME NEW u \in {"direct", "trap"}, n \in Defines(e, u) PROVE Category(e, n) = u
  BY <1>1 DEF Defines, InCategory
<1>2. ASSUME NEW u \in Range(SourceFiles) \ {"direct", "trap"}, n \in Defines(e, u)
      PROVE  \E i \in 1 .. 9 : Tables[i].category = u /\ n \in TableNames(i)
  <2>1. PICK i \in 1 .. 9 : Tables[i].category = u
    BY TableCategories
  <2> QED BY <1>2, <2>1, TemplateDefines
<1>3. CASE s \in {"direct", "trap"} /\ t \in {"direct", "trap"}
  BY <1>1, <1>3
<1>4. CASE s \in {"direct", "trap"} /\ t \notin {"direct", "trap"}
  <2>1. Category(e, n) \in {"direct", "trap"}
    BY <1>1, <1>4
  <2> QED BY <1>2, <1>4, <2>1, GeneratedNames
<1>5. CASE s \notin {"direct", "trap"} /\ t \in {"direct", "trap"}
  <2>1. Category(e, n) \in {"direct", "trap"}
    BY <1>1, <1>5
  <2>2. PICK i \in 1 .. 9 : n \in TableNames(i)
    <3>1. s \in Range(SourceFiles) \ {"direct", "trap"}
      BY <1>5
    <3> QED BY <1>2, <3>1
  <2> QED BY <2>1, <2>2, GeneratedNames
<1>6. CASE s \notin {"direct", "trap"} /\ t \notin {"direct", "trap"}
  BY <1>2, <1>6, TablesDisjoint
<1> QED BY <1>3, <1>4, <1>5, <1>6

\* What a template defines does not depend on the ELF.
LEMMA TemplateFixed ==
  ASSUME NEW e, NEW f, NEW s, s \notin {"direct", "trap"}
  PROVE  Defines(e, s) = Defines(f, s)
BY DEF Defines

\* A complete scaffold whose assembly files are of one ELF links.
LEMMA ScaffoldLinks ==
  ASSUME DiskFits,
         Range(SourceFiles) \cup {"build.sh"} \subseteq DOMAIN disk,
         \A s \in DOMAIN disk : disk[s] # Nothing,
         disk["direct"] = disk["trap"]
  PROVE  Linkable
<1> DEFINE e == Elf(disk["direct"])
<1>1. \A s \in Range(SourceFiles) : s \in DOMAIN disk /\ disk[s] # Nothing
  OBVIOUS
<1>2. "direct" \in Range(SourceFiles) /\ "special" \in Range(SourceFiles)
      /\ "object" \in Range(SourceFiles)
  BY SourceNames
<1>3. disk["direct"] # "template"
  <2>1. Fits("direct", disk["direct"]) /\ disk["direct"] # Nothing
    BY <1>1, <1>2 DEF DiskFits
  <2>2. "direct" \notin Templates
    BY SourceNames DEF Templates, Generated
  <2>3. disk["direct"] \in Libs
    BY <2>1, <2>2 DEF Fits
  <2> QED BY <2>3, LibraryNames DEF Libs
<1> HIDE DEF e
<1>4. ASSUME NEW s \in Range(SourceFiles) PROVE Defined(s) = Defines(e, s)
  <2>1. Defined(s) = Defines(SourceElf(s), s)
    BY <1>1 DEF Defined
  <2>2. CASE s \in {"direct", "trap"}
    <3>1. SourceElf(s) = e
      BY <1>3, <2>2 DEF SourceElf, e
    <3> QED BY <2>1, <3>1
  <2>3. CASE s \notin {"direct", "trap"}
    BY <2>1, <2>3, TemplateFixed
  <2> QED BY <2>2, <2>3
<1>5. ASSUME NEW i \in DOMAIN SourceFiles, NEW j \in DOMAIN SourceFiles, i < j
      PROVE  Defined(SourceFiles[i]) \cap Defined(SourceFiles[j]) = {}
  <2>1. SourceFiles[i] \in Range(SourceFiles) /\ SourceFiles[j] \in Range(SourceFiles)
    BY DEF Range
  <2>2. SourceFiles[i] # SourceFiles[j]
    <3>1. /\ SourceFiles[1] = "direct" /\ SourceFiles[2] = "trap" /\ SourceFiles[3] = "object"
          /\ SourceFiles[4] = "stdio" /\ SourceFiles[5] = "special" /\ SourceFiles[6] = "pthread"
          /\ SourceFiles[7] = "posix" /\ SourceFiles[8] = "elf-runtime"
          /\ SourceFiles[9] = "network" /\ SourceFiles[10] = "runtime"
          /\ SourceFiles[11] = "signal"
      BY DEF SourceFiles
    <3>2. \A k \in 1 .. 11 : k \in {1, 2, 3, 4, 5, 6, 7, 8, 9, 10, 11}
      OBVIOUS
    <3> QED BY <1>5, <3>1, <3>2, SourceNames
  <2> QED BY <1>4, <2>1, <2>2, SourcesDisjoint
<1>6. ASSUME NEW s \in Range(SourceFiles), NEW t \in RefersTo(SourceElf(s), s)
      PROVE  disk[t] # Nothing
  <2>1. t \in {"special", "object"}
    BY <1>6 DEF RefersTo
  <2> QED BY <1>1, <1>2, <2>1
<1>7. "build.sh" \in DOMAIN disk /\ disk["build.sh"] # Nothing
  OBVIOUS
<1> QED BY <1>5, <1>6, <1>7 DEF Linkable

\* Every import of an ELF that is translated is in its scaffold or a blocker.
LEMMA ImportsServed ==
  ASSUME NEW e, Relocatable(e), NEW n \in ImportsOf(e),
         n \notin UNION {Defines(e, s) : s \in Range(SourceFiles)}
  PROVE  n \in Blockers(e)
<1>1. n # Nameless => n \in UndefinedSymbols(e)
  <2>1. PICK r \in Range(e.relocs) : IsImport(e, r) /\ n = e.symbols[r.symbol + 1].name
    BY DEF ImportsOf
  <2>2. r.symbol + 1 \in DOMAIN e.symbols /\ ~e.symbols[r.symbol + 1].defined
    BY <2>1 DEF IsImport, Relocatable
  <2> QED BY <2>1, <2>2 DEF UndefinedSymbols, Undefined
<1>2. \A s \in Range(SourceFiles) : n \notin Defines(e, s)
  OBVIOUS
<1>3. ASSUME n # Nameless PROVE n \in InCategory(e, "object") \ {"__sF", "_ctype_"}
  <2>1. n \in InCategory(e, Category(e, n))
    BY <1>1, <1>3 DEF InCategory
  <2>2. Category(e, n) \notin {"direct", "trap"}
    <3>1. {"direct", "trap"} \subseteq Range(SourceFiles)
      BY SourceNames
    <3>2. \A c \in {"direct", "trap"} : Defines(e, c) = InCategory(e, c)
      BY DEF Defines
    <3> QED BY <1>2, <2>1, <3>1, <3>2
  <2>3. \A i \in 1 .. 9 : n \notin TableNames(i)
    <3>1. \A i \in 1 .. 9 : i \in 1 .. 10
      OBVIOUS
    <3> QED BY <1>2, <3>1, TemplateDefines, TableCategories
  <2>4. Category(e, n) = "object"
    <3> SUFFICES ASSUME Category(e, n) # "object" PROVE FALSE
      OBVIOUS
    <3>1. Hits(e, n) # {} /\ Category(e, n) = Tables[Min(Hits(e, n))].category
      BY <2>2 DEF Category
    <3>2. Min(Hits(e, n)) \in 1 .. 10 /\ n \in TableNames(Min(Hits(e, n)))
      BY <3>1, FirstHit DEF Hits, TableNames
    <3>3. Min(Hits(e, n)) # 10
      BY <2>2, <3>1, <3>2, TableCategories
    <3>4. Min(Hits(e, n)) \in 1 .. 9
      BY <3>2, <3>3
    <3> QED BY <2>3, <3>2, <3>4
  <2>5. n \notin {"__sF", "_ctype_"}
    <3>1. n \notin TableNames(1)
      BY <2>3
    <3> QED BY <3>1, TablesAre DEF TableNames
  <2> QED BY <2>1, <2>4, <2>5
<1> QED BY <1>3 DEF Blockers

\* A scaffold written for one ELF links; and the app's dylib finds every import
\* in the shim except the data objects that no template has and the nameless one.
THEOREM ScaffoldServed == Spec => []ScaffoldServes
<1>1. BundleInv =>
        (/\ Range(SourceFiles) \cup {"build.sh"} \subseteq DOMAIN disk
         /\ \A s \in DOMAIN disk : disk[s] # Nothing
         /\ disk["direct"] = disk["trap"]
         => Linkable)
  BY ScaffoldLinks DEF BundleInv
<1>2. ASSUME BundleInv, probe # "none"
      PROVE  ImportsOf(Elf(app.dylib)) \ app.shim.defines \subseteq Blockers(Elf(app.dylib))
  <2>1. script.at = "done"
    BY <1>2 DEF BundleInv, Progress
  <2>2. /\ Translatable(Elf(app.dylib))
        /\ app.shim = ShimOf(app.dylib)
    BY <2>1, <1>2 DEF BundleInv, Progress
  <2>3. app.shim.defines = UNION {Defines(Elf(app.dylib), s) : s \in Range(SourceFiles)}
    BY <2>2 DEF ShimOf
  <2>4. Relocatable(Elf(app.dylib))
    BY <2>2 DEF Translatable
  <2> QED BY <2>3, <2>4, ImportsServed
<1>3. probe = "dlopen failed" => probe # "none"
  BY Zenon
<1>4. BundleInv => ScaffoldServes
  BY <1>1, <1>2, <1>3, Zenon DEF ScaffoldServes
<1> QED BY <1>4, BundleInvariant, PTL
-----------------------------------------------------------------------------
(* What MapThenSumSet computes.                                            *)

\* The element that a sum takes next, and what is left for it.
Taken(s) == CHOOSE x \in s : TRUE
Rest(s)  == s \ {Taken(s)}

\* f sums g over every set of D.
SumsIs(D, g, f) ==
  f = [s \in D |-> IF s = {} THEN 0 ELSE g[Taken(s)] + f[Rest(s)]]

\* The subsets of a finite set, and what is left of them.
LEMMA SubsetFacts ==
  ASSUME NEW S, IsFiniteSet(S), NEW s \in SUBSET S
  PROVE  /\ IsFiniteSet(s) /\ Cardinality(s) \in Nat /\ Cardinality(s) <= Cardinality(S)
         /\ s = {} <=> Cardinality(s) = 0
         /\ s # {} => /\ Taken(s) \in s /\ Rest(s) \in SUBSET S
                      /\ s = Rest(s) \cup {Taken(s)} /\ Taken(s) \notin Rest(s)
                      /\ Cardinality(Rest(s)) = Cardinality(s) - 1
<1>1. IsFiniteSet(s) /\ Cardinality(s) <= Cardinality(S)
  BY FS_Subset
<1>2. Cardinality(s) \in Nat /\ (s = {} <=> Cardinality(s) = 0)
  BY <1>1, FS_CardinalityType, FS_EmptySet
<1>3. ASSUME s # {} PROVE Taken(s) \in s
  BY <1>3, Zenon DEF Taken
<1>4. ASSUME s # {}
      PROVE  /\ Rest(s) \in SUBSET S /\ Taken(s) \notin Rest(s)
             /\ s = Rest(s) \cup {Taken(s)}
  BY <1>3, <1>4 DEF Rest
<1>5. ASSUME s # {} PROVE Cardinality(Rest(s)) = Cardinality(s) - 1
  BY <1>1, <1>3, <1>5, FS_RemoveElement DEF Rest
<1> QED BY <1>1, <1>2, <1>3, <1>4, <1>5

\* The sums over the subsets of a finite set exist.
LEMMA SumsExist ==
  ASSUME NEW S, IsFiniteSet(S), NEW g
  PROVE  \E f : SumsIs(SUBSET S, g, f)
<1> DEFINE D(n) == {s \in SUBSET S : Cardinality(s) <= n}
           T == {n \in Nat : ~\E f : SumsIs(D(n), g, f)}
<1>1. \A n \in Nat : \E f : SumsIs(D(n), g, f)
  <2> SUFFICES ASSUME T # {} PROVE FALSE
    BY Zenon
  <2>1. PICK m \in T : \A y \in T : m <= y
    <3>1. T \in SUBSET Nat
      BY Zenon
    <3> HIDE DEF T
    <3> QED BY <3>1, LeastExists, Zenon
  <2>2. m \in Nat /\ ~\E f : SumsIs(D(m), g, f)
    BY Zenon
  <2>3. \E h : \A s \in D(m) : s # {} =>
                 /\ Rest(s) \in D(m)
                 /\ h[Rest(s)] = IF Rest(s) = {} THEN 0 ELSE g[Taken(Rest(s))] + h[Rest(Rest(s))]
    <3>1. CASE m = 0
      BY <3>1, SubsetFacts
    <3>2. CASE m # 0
      <4>1. m - 1 \in Nat /\ m - 1 \notin T
        <5> HIDE DEF T
        <5> QED BY <2>1, <2>2, <3>2
      <4>2. PICK h : SumsIs(D(m - 1), g, h)
        BY <4>1, Zenon
      <4>3. \A s \in D(m) : s # {} => Rest(s) \in D(m) /\ Rest(s) \in D(m - 1)
        <5> TAKE s \in D(m)
        <5> HAVE s # {}
        <5>1. /\ Rest(s) \in SUBSET S /\ Cardinality(s) \in Nat
              /\ Cardinality(Rest(s)) = Cardinality(s) - 1
          BY SubsetFacts
        <5> QED BY <2>2, <5>1
      <4>4. \A s \in D(m - 1) : h[s] = IF s = {} THEN 0 ELSE g[Taken(s)] + h[Rest(s)]
        <5> HIDE DEF D
        <5> QED BY <4>2, Zenon DEF SumsIs
      <4> HIDE DEF D
      <4> QED BY <4>3, <4>4, Zenon
    <3> QED BY <3>1, <3>2
  <2> HIDE DEF D, T
  <2>4. PICK h : \A s \in D(m) : s # {} =>
                   /\ Rest(s) \in D(m)
                   /\ h[Rest(s)] = IF Rest(s) = {} THEN 0 ELSE g[Taken(Rest(s))] + h[Rest(Rest(s))]
    BY <2>3, Zenon
  <2> DEFINE f == [s \in D(m) |-> IF s = {} THEN 0 ELSE g[Taken(s)] + h[Rest(s)]]
             e == [s \in D(m) |-> IF s = {} THEN 0 ELSE g[Taken(s)] + f[Rest(s)]]
  <2>5. \A s \in D(m) : f[s] = IF s = {} THEN 0 ELSE g[Taken(s)] + h[Rest(s)]
    BY Zenon
  <2>6. \A s \in D(m) : e[s] = IF s = {} THEN 0 ELSE g[Taken(s)] + f[Rest(s)]
    BY Zenon
  <2>7. f = [s \in D(m) |-> f[s]] /\ e = [s \in D(m) |-> e[s]]
    OBVIOUS
  <2> HIDE DEF f
  <2>8. \A s \in D(m) : s # {} => f[Rest(s)] = h[Rest(s)]
    BY <2>4, <2>5, Zenon
  <2>9. \A s \in D(m) : f[s] = e[s]
    BY <2>5, <2>6, <2>8, Zenon
  <2>10. f = e
    <3> HIDE DEF e
    <3> QED BY <2>7, <2>9, Zenon
  <2>11. SumsIs(D(m), g, f)
    BY <2>10, Zenon DEF SumsIs
  <2> QED BY <2>2, <2>11, Zenon
<1>2. SUBSET S = D(Cardinality(S)) /\ Cardinality(S) \in Nat
  BY SubsetFacts, FS_CardinalityType
<1> HIDE DEF D
<1> QED BY <1>1, <1>2, Zenon

\* MapThenSumSet of a function.
SumOver(g, S) == MapThenSumSet(LAMBDA x : g[x], S)

\* A sum exists for MapThenSumSet to choose.
LEMMA SumIsFold ==
  ASSUME NEW S, IsFiniteSet(S), NEW g
  PROVE  \E f : SumsIs(SUBSET S, g, f) /\ SumOver(g, S) = f[S]
<1> DEFINE f == CHOOSE h : h = [s \in SUBSET S |->
                  IF s = {} THEN 0
                  ELSE g[CHOOSE x \in s : TRUE] + h[s \ {CHOOSE x \in s : TRUE}]]
<1>1. SumOver(g, S) = f[S]
  BY DEF SumOver, MapThenSumSet, MapThenFoldSet
<1>2. \E h : SumsIs(SUBSET S, g, h)
  BY SumsExist
<1>3. SumsIs(SUBSET S, g, f)
  BY <1>2, Zenon DEF SumsIs, Rest, Taken
<1> QED BY <1>1, <1>3, Zenon

\* What is in one of the sets.
Joined(A, S) == UNION {A[i] : i \in S}

\* A sum of sizes is the size of the union, when the sets are disjoint.
LEMMA SumIsCount ==
  ASSUME NEW S, IsFiniteSet(S), NEW g, NEW A,
         \A i \in S : IsFiniteSet(A[i]) /\ g[i] = Cardinality(A[i]),
         \A i, j \in S : i # j => A[i] \cap A[j] = {}
  PROVE  /\ IsFiniteSet(Joined(A, S)) /\ SumOver(g, S) = Cardinality(Joined(A, S))
<1>1. PICK f : SumsIs(SUBSET S, g, f) /\ SumOver(g, S) = f[S]
  BY SumIsFold, Zenon
<1>2. \A s \in SUBSET S : f[s] = IF s = {} THEN 0 ELSE g[Taken(s)] + f[Rest(s)]
  BY <1>1, Zenon DEF SumsIs
<1> DEFINE U(s) == Joined(A, s)
           P(s) == IsFiniteSet(U(s)) /\ f[s] = Cardinality(U(s))
           T == {Cardinality(s) : s \in {t \in SUBSET S : ~P(t)}}
<1>3. T = {}
  <2> SUFFICES ASSUME T # {} PROVE FALSE
    OBVIOUS
  <2>1. T \in SUBSET Nat
    <3> HIDE DEF P
    <3> QED BY SubsetFacts
  <2>2. PICK c \in T : \A y \in T : c <= y
    <3> HIDE DEF T
    <3> QED BY <2>1, LeastExists
  <2>3. PICK s \in SUBSET S : ~P(s) /\ c = Cardinality(s)
    OBVIOUS
  <2> HIDE DEF P
  <2>4. CASE s = {}
    <3>1. U(s) = {}
      BY <2>4 DEF Joined
    <3>2. P(s)
      <4> HIDE DEF U
      <4> QED BY <1>2, <2>4, <3>1, FS_EmptySet DEF P
    <3> QED BY <2>3, <3>2
  <2>5. CASE s # {}
    <3>1. /\ Taken(s) \in s /\ Rest(s) \in SUBSET S /\ Cardinality(s) \in Nat
          /\ s = Rest(s) \cup {Taken(s)} /\ Taken(s) \notin Rest(s)
          /\ Cardinality(Rest(s)) = Cardinality(s) - 1
      BY <2>5, SubsetFacts
    <3>2. P(Rest(s))
      <4> SUFFICES ASSUME ~P(Rest(s)) PROVE FALSE
        OBVIOUS
      <4>1. Cardinality(Rest(s)) \in T
        BY <3>1
      <4> HIDE DEF T
      <4> QED BY <2>2, <2>3, <3>1, <4>1
    <3> DEFINE a == A[Taken(s)]
               b == U(Rest(s))
    <3>3. IsFiniteSet(a) /\ IsFiniteSet(b) /\ f[Rest(s)] = Cardinality(b)
      BY <3>1, <3>2 DEF P
    <3>4. a \cap b = {}
      BY <3>1 DEF Joined
    <3>5. U(s) = a \cup b
      BY <3>1 DEF Joined
    <3>6. f[s] = Cardinality(a) + Cardinality(b)
      BY <1>2, <2>5, <3>1, <3>3
    <3>7. P(s)
      <4> HIDE DEF U, b
      <4> QED BY <3>3, <3>4, <3>5, <3>6, FS_Union, FS_EmptySet, FS_CardinalityType DEF P
    <3> QED BY <2>3, <3>7
  <2> QED BY <2>4, <2>5
<1>4. P(S)
  <2> HIDE DEF P
  <2> QED BY <1>3
<1> HIDE DEF P
<1> QED BY <1>1, <1>4 DEF P
-----------------------------------------------------------------------------
(* What FlattenSeq makes of the tables of relocations.                     *)

\* f[i] is the concatenation of the first i of n sequences.
PrefixIs(seqs, n, f) ==
  f = [i \in 1 .. n |-> IF i = 1 THEN seqs[i] ELSE f[i - 1] \o seqs[i]]

\* The concatenations of a list of sequences exist.
LEMMA PrefixesExist ==
  ASSUME NEW seqs, NEW n \in Nat
  PROVE  \E f : PrefixIs(seqs, n, f)
<1> DEFINE T == {m \in Nat : ~\E f : PrefixIs(seqs, m, f)}
<1> SUFFICES ASSUME T # {} PROVE FALSE
  BY Zenon
<1>1. PICK m \in T : \A y \in T : m <= y
  <2>1. T \in SUBSET Nat
    BY Zenon
  <2> HIDE DEF T
  <2> QED BY <2>1, LeastExists, Zenon
<1>2. m \in Nat /\ ~\E f : PrefixIs(seqs, m, f)
  BY Zenon
<1>3. m # 0
  <2>1. PrefixIs(seqs, 0, [i \in 1 .. 0 |-> 0])
    BY DEF PrefixIs
  <2> QED BY <2>1, <1>2
<1>4. m - 1 \in Nat /\ m - 1 \notin T
  BY <1>1, <1>2, <1>3
<1>5. PICK g : PrefixIs(seqs, m - 1, g)
  BY <1>4
<1> DEFINE f == [i \in 1 .. m |-> IF i = 1 THEN seqs[i] ELSE g[i - 1] \o seqs[i]]
<1>6. \A i \in 1 .. m - 1 : g[i] = IF i = 1 THEN seqs[i] ELSE g[i - 1] \o seqs[i]
  BY <1>5, <1>4 DEF PrefixIs
<1>7. \A i \in 1 .. m : i # 1 => f[i - 1] = g[i - 1]
  <2> TAKE i \in 1 .. m
  <2> HAVE i # 1
  <2>1. i - 1 \in 1 .. m - 1 /\ i - 1 \in 1 .. m
    BY <1>2
  <2>2. f[i - 1] = IF i - 1 = 1 THEN seqs[i - 1] ELSE g[(i - 1) - 1] \o seqs[i - 1]
    BY <2>1
  <2> HIDE DEF f
  <2> QED BY <1>6, <2>1, <2>2
<1>8. f = [i \in 1 .. m |-> IF i = 1 THEN seqs[i] ELSE f[i - 1] \o seqs[i]]
  <2> DEFINE h == [i \in 1 .. m |-> IF i = 1 THEN seqs[i] ELSE f[i - 1] \o seqs[i]]
  <2>1. \A i \in 1 .. m : f[i] = h[i]
    <3> TAKE i \in 1 .. m
    <3>1. f[i] = IF i = 1 THEN seqs[i] ELSE g[i - 1] \o seqs[i]
      OBVIOUS
    <3>2. h[i] = IF i = 1 THEN seqs[i] ELSE f[i - 1] \o seqs[i]
      OBVIOUS
    <3> HIDE DEF f, h
    <3> QED BY <3>1, <3>2, <1>7, Zenon
  <2>2. f = [i \in 1 .. m |-> f[i]] /\ h = [i \in 1 .. m |-> h[i]]
    OBVIOUS
  <2> HIDE DEF f
  <2>3. QED BY <2>1, <2>2, Zenon
<1>9. PrefixIs(seqs, m, f)
  BY <1>8, Zenon DEF PrefixIs
<1> HIDE DEF f
<1> QED BY <1>2, <1>9, Zenon

\* FlattenSeq, which _rebase_stream and _bind_stream build their programs with,
\* is the last of the concatenations.
LEMMA FlattenIsPrefix ==
  ASSUME NEW seqs, Len(seqs) \in Nat \ {0}
  PROVE  \E f : PrefixIs(seqs, Len(seqs), f) /\ FlattenSeq(seqs) = f[Len(seqs)]
<1> DEFINE f == CHOOSE g : g = [i \in 1 .. Len(seqs) |->
                              IF i = 1 THEN seqs[i] ELSE g[i - 1] \o seqs[i]]
<1>1. FlattenSeq(seqs) = f[Len(seqs)]
  BY DEF FlattenSeq
<1>2. \E g : g = [i \in 1 .. Len(seqs) |-> IF i = 1 THEN seqs[i] ELSE g[i - 1] \o seqs[i]]
  BY PrefixesExist, Zenon DEF PrefixIs
<1>3. f = [i \in 1 .. Len(seqs) |-> IF i = 1 THEN seqs[i] ELSE f[i - 1] \o seqs[i]]
  BY <1>2, Zenon
<1>4. PrefixIs(seqs, Len(seqs), f)
  BY <1>3, Zenon DEF PrefixIs
<1> HIDE DEF f
<1> QED BY <1>1, <1>4

\* A one-to-one correspondence keeps the count.
LEMMA SameCount ==
  ASSUME NEW A, NEW B, IsFiniteSet(A), NEW f \in [A -> B],
         \A x, y \in A : f[x] = f[y] => x = y, \A y \in B : \E x \in A : f[x] = y
  PROVE  IsFiniteSet(B) /\ Cardinality(B) = Cardinality(A)
<1>1. f \in Bijection(A, B)
  BY DEF Bijection, Injection, IsInjective, Surjection
<1>2. ExistsBijection(A, B)
  BY <1>1 DEF ExistsBijection
<1> QED BY <1>2, FS_Bijection

\* The places of the entries of table i.
Block(i, n) == {<<i, j>> : j \in 1 .. n}

\* There is one for each entry.
LEMMA BlockSize ==
  ASSUME NEW i, NEW n \in Nat
  PROVE  IsFiniteSet(Block(i, n)) /\ Cardinality(Block(i, n)) = n
<1> DEFINE f == [j \in 1 .. n |-> <<i, j>>]
<1>1. IsFiniteSet(1 .. n) /\ Cardinality(1 .. n) = n
  BY FS_Interval
<1>2. /\ f \in [1 .. n -> Block(i, n)] /\ \A x, y \in 1 .. n : f[x] = f[y] => x = y
      /\ \A y \in Block(i, n) : \E x \in 1 .. n : f[x] = y
  BY DEF Block
<1> HIDE DEF f
<1> QED BY <1>1, <1>2, SameCount

\* All entries of the first m tables are in the first m concatenated.
LEMMA FlattenedLength ==
  ASSUME NEW U, NEW n \in Nat, NEW seqs \in [1 .. n -> Seq(U)],
         NEW R \in SUBSET (1 .. n), \A i \in (1 .. n) \ R : Len(seqs[i]) = 0
  PROVE  /\ FlattenSeq(seqs) \in Seq(U)
         /\ Len(FlattenSeq(seqs)) = SumOver([i \in R |-> Len(seqs[i])], R)
<1> DEFINE g == [i \in R |-> Len(seqs[i])]
           A == [i \in R |-> Block(i, Len(seqs[i]))]
           W(m) == Joined(A, R \cap (1 .. m))
<1>1. \A i \in 1 .. n : seqs[i] \in Seq(U) /\ Len(seqs[i]) \in Nat
  OBVIOUS
<1>2. /\ \A i \in R : IsFiniteSet(A[i]) /\ g[i] = Cardinality(A[i])
      /\ \A i \in R : g[i] = Len(seqs[i])
  BY <1>1, BlockSize
<1>3. \A i, j \in R : i # j => A[i] \cap A[j] = {}
  BY DEF Block
<1>4. IsFiniteSet(R)
  <2>1. IsFiniteSet(1 .. n)
    BY FS_Interval
  <2> QED BY <2>1, FS_Subset
<1>5. SumOver(g, R) = Cardinality(W(n))
  <2>1. R \cap (1 .. n) = R
    OBVIOUS
  <2> HIDE DEF A, g
  <2>2. SumOver(g, R) = Cardinality(Joined(A, R))
    BY <1>2, <1>3, <1>4, SumIsCount
  <2> QED BY <2>1, <2>2, Zenon
<1>6. W(0) = {} /\ Cardinality(W(0)) = 0
  <2>1. R \cap (1 .. 0) = {}
    OBVIOUS
  <2> HIDE DEF A
  <2>2. W(0) = {}
    BY <2>1 DEF Joined
  <2> QED BY <2>2, FS_EmptySet, Zenon
<1>7. ASSUME NEW m \in 1 .. n, IsFiniteSet(W(m - 1))
      PROVE  /\ IsFiniteSet(W(m))
             /\ Cardinality(W(m)) = Cardinality(W(m - 1)) + Len(seqs[m])
  <2> HIDE DEF A
  <2>1. CASE m \in R
    <3>1. R \cap (1 .. m) = (R \cap (1 .. m - 1)) \cup {m}
      BY <2>1
    <3>2. W(m) = W(m - 1) \cup A[m]
      BY <3>1 DEF Joined
    <3>3. W(m - 1) \cap A[m] = {}
      <4>1. \A i \in R \cap (1 .. m - 1) : i # m /\ i \in R
        OBVIOUS
      <4> QED BY <1>3, <2>1, <4>1 DEF Joined
    <3>4. IsFiniteSet(A[m]) /\ Cardinality(A[m]) = Len(seqs[m]) /\ Len(seqs[m]) \in Nat
      BY <1>1, <1>2, <2>1
    <3> HIDE DEF W
    <3>5. /\ IsFiniteSet(W(m - 1) \cup A[m])
          /\ Cardinality(W(m - 1) \cup A[m])
               = Cardinality(W(m - 1)) + Cardinality(A[m]) - Cardinality(W(m - 1) \cap A[m])
      BY <1>7, <3>4, FS_Union, Zenon
    <3>6. Cardinality(W(m - 1)) \in Nat /\ Cardinality({}) = 0
      BY <1>7, FS_EmptySet, FS_CardinalityType
    <3>7. IsFiniteSet(W(m)) /\ Cardinality(W(m)) = Cardinality(W(m - 1)) + Len(seqs[m]) - 0
      BY <3>2, <3>3, <3>4, <3>5, <3>6, Zenon
    <3> QED BY <3>4, <3>6, <3>7
  <2>2. CASE m \notin R
    <3>1. R \cap (1 .. m) = R \cap (1 .. m - 1)
      BY <2>2
    <3>2. W(m) = W(m - 1)
      BY <3>1
    <3>3. Len(seqs[m]) = 0
      BY <2>2
    <3> HIDE DEF W
    <3> QED BY <1>7, <3>2, <3>3, FS_CardinalityType
  <2> QED BY <2>1, <2>2
<1>8. Len(seqs) = n
  OBVIOUS
<1> HIDE DEF g, W
<1>9. CASE n = 0
  <2>1. seqs = <<>>
    BY <1>9
  <2>2. FlattenSeq(<<>>) = <<>>
    BY DEF FlattenSeq
  <2> QED BY <1>5, <1>6, <1>9, <2>1, <2>2 DEF g
<1>10. CASE n # 0
  <2>1. PICK f : PrefixIs(seqs, n, f) /\ FlattenSeq(seqs) = f[n]
    BY <1>8, <1>10, FlattenIsPrefix
  <2>2. \A i \in 1 .. n : f[i] = IF i = 1 THEN seqs[i] ELSE f[i - 1] \o seqs[i]
    BY <2>1 DEF PrefixIs
  <2> DEFINE P(m) == /\ f[m] \in Seq(U) /\ IsFiniteSet(W(m))
                     /\ Len(f[m]) = Cardinality(W(m))
             T == {m \in 1 .. n : ~P(m)}
  <2>3. T = {}
    <3> HIDE DEF P
    <3> SUFFICES ASSUME T # {} PROVE FALSE
      OBVIOUS
    <3>1. PICK m \in T : \A y \in T : m <= y
      <4>1. T \in SUBSET Nat
        OBVIOUS
      <4> HIDE DEF T
      <4> QED BY <4>1, LeastExists
    <3>2. m \in 1 .. n /\ ~P(m) /\ \A y \in 1 .. n : y < m => P(y)
      BY <3>1
    <3> HIDE DEF T
    <3>3. CASE m = 1
      <4>1. f[1] = seqs[1] /\ 1 \in 1 .. n /\ 1 - 1 = 0
        BY <2>2, <3>2, <3>3
      <4>2. IsFiniteSet(W(0))
        BY <1>6, FS_EmptySet
      <4>3. IsFiniteSet(W(1)) /\ Cardinality(W(1)) = Cardinality(W(0)) + Len(seqs[1])
        BY <1>7, <4>1, <4>2
      <4>4. P(1)
        BY <1>1, <1>6, <4>1, <4>3 DEF P
      <4> QED BY <3>2, <3>3, <4>4
    <3>4. CASE m # 1
      <4>1. m - 1 \in 1 .. n /\ m - 1 < m
        BY <3>2, <3>4
      <4>2. /\ f[m - 1] \in Seq(U) /\ IsFiniteSet(W(m - 1))
            /\ Len(f[m - 1]) = Cardinality(W(m - 1))
        BY <3>2, <4>1 DEF P
      <4>3. f[m] = f[m - 1] \o seqs[m] /\ seqs[m] \in Seq(U)
        BY <1>1, <2>2, <3>2, <3>4
      <4>4. f[m] \in Seq(U) /\ Len(f[m]) = Len(f[m - 1]) + Len(seqs[m])
        <5>1. f[m - 1] \o seqs[m] \in Seq(U)
              /\ Len(f[m - 1] \o seqs[m]) = Len(f[m - 1]) + Len(seqs[m])
          BY <4>2, <4>3, Concatenation, ZenonT(40)
        <5> QED BY <4>3, <5>1, Zenon
      <4>5. IsFiniteSet(W(m)) /\ Cardinality(W(m)) = Cardinality(W(m - 1)) + Len(seqs[m])
        BY <1>7, <3>2, <4>2
      <4>6. P(m)
        BY <4>2, <4>4, <4>5 DEF P
      <4> QED BY <3>2, <4>6
    <3> QED BY <3>3, <3>4
  <2>4. P(n)
    <3> HIDE DEF P
    <3> QED BY <1>10, <2>3
  <2> QED BY <1>5, <2>1, <2>4 DEF g
<1> QED BY <1>9, <1>10
-----------------------------------------------------------------------------
(* No relocation is lost between a file and a dylib.                      *)

\* Tally counts every relocation of an object once.
LEMMA TallyAddsUp ==
  ASSUME NEW e, NEW n \in Nat, DOMAIN e.relocs = 1 .. n
  PROVE  Tally(e).internal + SumOver(Tally(e).imports, ImportsOf(e)) = n
<1> DEFINE Name(j) == e.symbols[e.relocs[j].symbol + 1].name
           J == {j \in 1 .. n : IsImport(e, e.relocs[j])}
           I == {j \in 1 .. n : ~IsImport(e, e.relocs[j])}
           A == [s \in ImportsOf(e) |-> {j \in 1 .. n : IsImport(e, e.relocs[j]) /\ Name(j) = s}]
           N == Tally(e).imports
<1>1. /\ IsFiniteSet(1 .. n) /\ Cardinality(1 .. n) = n
      /\ \A S \in SUBSET (1 .. n) : IsFiniteSet(S) /\ Cardinality(S) \in Nat
  <2>1. IsFiniteSet(1 .. n) /\ Cardinality(1 .. n) = n
    BY FS_Interval
  <2> QED BY <2>1, FS_Subset, FS_CardinalityType
<1>2. ImportsOf(e) = {Name(j) : j \in J}
  <2>1. Range(e.relocs) = {e.relocs[j] : j \in 1 .. n}
    BY DEF Range
  <2>2. \A s : s \in ImportsOf(e) <=> \E r \in Range(e.relocs) :
                                      IsImport(e, r) /\ s = e.symbols[r.symbol + 1].name
    BY DEF ImportsOf
  <2>3. \A s : s \in ImportsOf(e) <=> \E j \in 1 .. n : IsImport(e, e.relocs[j]) /\ s = Name(j)
    <3> TAKE s
    <3>1. ASSUME NEW r \in Range(e.relocs), IsImport(e, r), s = e.symbols[r.symbol + 1].name
          PROVE  \E j \in 1 .. n : IsImport(e, e.relocs[j]) /\ s = Name(j)
      <4>1. PICK j \in 1 .. n : r = e.relocs[j]
        BY <2>1
      <4> QED BY <3>1, <4>1, Zenon
    <3>2. ASSUME NEW j \in 1 .. n, IsImport(e, e.relocs[j]), s = Name(j)
          PROVE  \E r \in Range(e.relocs) : IsImport(e, r) /\ s = e.symbols[r.symbol + 1].name
      <4>1. e.relocs[j] \in Range(e.relocs)
        BY <2>1
      <4> QED BY <3>2, <4>1, Zenon
    <3> QED BY <2>2, <3>1, <3>2, Zenon
  <2> QED BY <2>3, Zenon
<1>3. IsFiniteSet(ImportsOf(e))
  <2> DEFINE f == [j \in J |-> Name(j)]
  <2>1. f \in Surjection(J, ImportsOf(e))
    BY <1>2, Zenon DEF Surjection
  <2>2. IsFiniteSet(J)
    BY <1>1
  <2> HIDE DEF f, J
  <2> QED BY <2>1, <2>2, FS_Surjection
<1>4. \A s \in ImportsOf(e) : N[s] = Cardinality(A[s])
  BY Zenon DEF Tally
<1>5. \A s \in ImportsOf(e) : IsFiniteSet(A[s])
  BY <1>1
<1>6. \A s, t \in ImportsOf(e) : s # t => A[s] \cap A[t] = {}
  OBVIOUS
<1>7. Joined(A, ImportsOf(e)) = J
  <2>1. \A s \in ImportsOf(e) : \A j : j \in A[s] <=> j \in J /\ Name(j) = s
    BY Zenon
  <2>2. \A j \in J : Name(j) \in ImportsOf(e)
    BY <1>2, Zenon
  <2> HIDE DEF A, J
  <2>3. \A j : j \in Joined(A, ImportsOf(e)) <=> \E s \in ImportsOf(e) : j \in A[s]
    BY Zenon DEF Joined
  <2>4. \A j : j \in Joined(A, ImportsOf(e)) <=> j \in J
    BY <2>1, <2>2, <2>3, ZenonT(40)
  <2> QED BY <2>4
<1>8. Tally(e).internal = Cardinality(I)
  BY Zenon DEF Tally
<1>9. /\ IsFiniteSet(I \cup J)
      /\ Cardinality(I \cup J) = Cardinality(I) + Cardinality(J) - Cardinality(I \cap J)
  <2>1. IsFiniteSet(I) /\ IsFiniteSet(J)
    BY <1>1
  <2> HIDE DEF I, J
  <2> QED BY <2>1, FS_Union
<1>10. I \cup J = 1 .. n /\ I \cap J = {} /\ Cardinality({}) = 0
  BY FS_EmptySet
<1>11. Cardinality(I) \in Nat /\ Cardinality(J) \in Nat
  BY <1>1
<1> HIDE DEF N, A, I, J
<1>12. SumOver(N, ImportsOf(e)) = Cardinality(J)
  BY <1>3, <1>4, <1>5, <1>6, <1>7, SumIsCount
<1>13. Cardinality(I) + Cardinality(J) - 0 = n
  BY <1>1, <1>9, <1>10, Zenon
<1>14. Tally(e).internal + SumOver(N, ImportsOf(e)) = n
  BY <1>8, <1>11, <1>12, <1>13
<1> QED BY <1>14, Zenon DEF N

\* The tables of relocations of a file, whether they are read whole, and how many
\* entries they have.
RelocTables(file) == {i \in DOMAIN file.sections : file.sections[i].type \in Relocating}
ReadWhole(file)   == \A i \in RelocTables(file) :
                       /\ file.sections[i].type = "RELA"
                       /\ file.sections[i].inFile = Len(file.sections[i].entries)
TableLengths(file) == [i \in RelocTables(file) |-> Len(file.sections[i].entries)]
EntryCount(file) == MapThenSumSet(LAMBDA i : Len(file.sections[i].entries), RelocTables(file))

\* The relocations of a file none of whose tables is packed or cut short.
LEMMA RelocationsRead ==
  ASSUME NEW file, file.sections \in Seq(Range(file.sections)),
         \A sec \in Range(file.sections) : /\ sec.entries \in Seq(Range(sec.entries))
                                           /\ sec.inFile \in 0 .. Len(sec.entries)
  PROVE  /\ Len(IterRelocations(file)) \in Nat
         /\ DOMAIN IterRelocations(file) = 1 .. Len(IterRelocations(file))
         /\ ReadWhole(file) => Len(IterRelocations(file))
                                 = SumOver(TableLengths(file), RelocTables(file))
<1> DEFINE n == Len(file.sections)
           Read(i) == IF file.sections[i].type = "RELA" THEN EntriesRead(file.sections[i])
                      ELSE <<>>
           seqs == [i \in 1 .. n |-> Read(i)]
           U == UNION {Range(sec.entries) : sec \in Range(file.sections)}
<1>1. n \in Nat /\ DOMAIN file.sections = 1 .. n
  OBVIOUS
<1>2. ASSUME NEW i \in 1 .. n
      PROVE  /\ file.sections[i].entries \in Seq(U)
             /\ file.sections[i].inFile \in 0 .. Len(file.sections[i].entries)
  <2>1. file.sections[i] \in Range(file.sections)
    BY <1>1 DEF Range
  <2>2. Range(file.sections[i].entries) \subseteq U
    BY <2>1
  <2>3. file.sections[i].entries \in Seq(Range(file.sections[i].entries))
    BY <2>1
  <2> HIDE DEF U
  <2> QED BY <2>1, <2>2, <2>3
<1> HIDE DEF U
<1>3. ASSUME NEW i \in 1 .. n
      PROVE  /\ Read(i) \in Seq(U)
             /\ file.sections[i].type # "RELA" => Len(Read(i)) = 0
             /\ file.sections[i].type = "RELA" => Len(Read(i)) = file.sections[i].inFile
  <2>1. PICK s, k : s = file.sections[i].entries /\ k = file.sections[i].inFile
    OBVIOUS
  <2>2. SubSeq(s, 1, k) \in Seq(U) /\ Len(SubSeq(s, 1, k)) = k
    BY <1>2, <2>1
  <2> QED BY <2>1, <2>2 DEF EntriesRead
<1>4. IterRelocations(file) = FlattenSeq(seqs)
  BY <1>1 DEF IterRelocations
<1>5. seqs \in [1 .. n -> Seq(U)] /\ \A i \in 1 .. n : seqs[i] = Read(i)
  BY <1>3
<1> DEFINE Q == {i \in 1 .. n : file.sections[i].type = "RELA"}
<1> HIDE DEF n, Read, seqs
<1>6. /\ FlattenSeq(seqs) \in Seq(U)
      /\ Len(FlattenSeq(seqs)) = SumOver([i \in Q |-> Len(seqs[i])], Q)
  <2>1. \A i \in (1 .. n) \ Q : Len(seqs[i]) = 0
    BY <1>3, <1>5
  <2>2. n \in Nat /\ Q \in SUBSET (1 .. n)
    BY <1>1
  <2> HIDE DEF Q
  <2> QED BY <1>5, <2>1, <2>2, FlattenedLength
<1>7. ASSUME ReadWhole(file)
      PROVE  Q = RelocTables(file) /\ [i \in Q |-> Len(seqs[i])] = TableLengths(file)
  <2> DEFINE R == RelocTables(file)
  <2>1. Q = R
    BY <1>1, <1>7 DEF Relocating, ReadWhole, RelocTables
  <2>2. R \subseteq 1 .. n
    BY <1>1 DEF RelocTables
  <2> HIDE DEF Q, R
  <2>3. \A i \in R : Len(seqs[i]) = Len(file.sections[i].entries)
    BY <1>3, <1>5, <1>7, <2>2 DEF ReadWhole, R
  <2> QED BY <2>1, <2>3 DEF TableLengths, R
<1>8. Len(FlattenSeq(seqs)) \in Nat /\ DOMAIN FlattenSeq(seqs) = 1 .. Len(FlattenSeq(seqs))
  BY <1>6
<1> HIDE DEF Q
<1> QED BY <1>4, <1>6, <1>7, <1>8

\* There is one sum.
LEMMA SumIsUnique ==
  ASSUME NEW S, IsFiniteSet(S), NEW g, NEW f, SumsIs(SUBSET S, g, f),
         NEW h, SumsIs(SUBSET S, g, h)
  PROVE  f[S] = h[S]
<1>1. /\ \A s \in SUBSET S : f[s] = IF s = {} THEN 0 ELSE g[Taken(s)] + f[Rest(s)]
      /\ \A s \in SUBSET S : h[s] = IF s = {} THEN 0 ELSE g[Taken(s)] + h[Rest(s)]
  BY Zenon DEF SumsIs
<1> DEFINE T == {Cardinality(s) : s \in {t \in SUBSET S : f[t] # h[t]}}
<1>2. T = {}
  <2> SUFFICES ASSUME T # {} PROVE FALSE
    OBVIOUS
  <2>1. T \in SUBSET Nat
    BY SubsetFacts
  <2>2. PICK c \in T : \A y \in T : c <= y
    <3> HIDE DEF T
    <3> QED BY <2>1, LeastExists
  <2>3. PICK s \in SUBSET S : f[s] # h[s] /\ c = Cardinality(s)
    OBVIOUS
  <2>4. s # {}
    BY <1>1, <2>3
  <2>5. /\ Rest(s) \in SUBSET S /\ Cardinality(s) \in Nat
        /\ Cardinality(Rest(s)) = Cardinality(s) - 1
    BY <2>4, SubsetFacts
  <2>6. f[Rest(s)] = h[Rest(s)]
    <3> SUFFICES ASSUME f[Rest(s)] # h[Rest(s)] PROVE FALSE
      OBVIOUS
    <3>1. Cardinality(Rest(s)) \in T
      BY <2>5
    <3> HIDE DEF T
    <3> QED BY <2>2, <2>3, <2>5, <3>1
  <2> QED BY <1>1, <2>3, <2>4, <2>5, <2>6
<1> QED BY <1>2

\* A sum of lengths is the sum of a function.
LEMMA SumOfLengths ==
  ASSUME NEW S, IsFiniteSet(S), NEW t
  PROVE  MapThenSumSet(LAMBDA i : Len(t[i].entries), S)
           = SumOver([i \in S |-> Len(t[i].entries)], S)
<1> DEFINE L == [i \in S |-> Len(t[i].entries)]
           f == CHOOSE h : h = [s \in SUBSET S |->
                  IF s = {} THEN 0
                  ELSE Len(t[CHOOSE x \in s : TRUE].entries)
                         + h[s \ {CHOOSE x \in s : TRUE}]]
           Lengths(h) == [s \in SUBSET S |->
                            IF s = {} THEN 0 ELSE Len(t[Taken(s)].entries) + h[Rest(s)]]
           Sums(h) == [s \in SUBSET S |-> IF s = {} THEN 0 ELSE L[Taken(s)] + h[Rest(s)]]
<1>1. MapThenSumSet(LAMBDA i : Len(t[i].entries), S) = f[S]
  BY DEF MapThenSumSet, MapThenFoldSet
<1>2. ASSUME NEW h PROVE Lengths(h) = Sums(h)
  <2>1. \A s \in SUBSET S : s # {} => L[Taken(s)] = Len(t[Taken(s)].entries)
    BY SubsetFacts
  <2> HIDE DEF L
  <2>2. \A s \in SUBSET S : Lengths(h)[s] = Sums(h)[s]
    BY <2>1, Zenon
  <2>3. Lengths(h) = [s \in SUBSET S |-> Lengths(h)[s]] /\ Sums(h) = [s \in SUBSET S |-> Sums(h)[s]]
    OBVIOUS
  <2> HIDE DEF Lengths, Sums
  <2> QED BY <2>2, <2>3, Zenon
<1>3. PICK h : h = Sums(h)
  <2>1. PICK h : SumsIs(SUBSET S, L, h)
    <3> HIDE DEF L
    <3> QED BY SumsExist
  <2> HIDE DEF L
  <2>2. h = Sums(h)
    BY <2>1, Zenon DEF SumsIs
  <2> QED BY <2>2, Zenon
<1>4. h = Lengths(h)
  BY <1>2, <1>3, Zenon
<1>5. f = Lengths(f)
  BY <1>4, Zenon DEF Taken, Rest
<1>6. SumsIs(SUBSET S, L, f)
  <2> HIDE DEF f, L, Lengths
  <2>1. f = Sums(f)
    BY <1>2, <1>5, Zenon
  <2> QED BY <2>1, Zenon DEF SumsIs
<1> HIDE DEF f, L
<1>7. PICK e : SumsIs(SUBSET S, L, e) /\ SumOver(L, S) = e[S]
  BY SumIsFold
<1> QED BY <1>1, <1>6, <1>7, SumIsUnique, Zenon DEF L

\* Every relocation of a table that was read whole is in the tally of the object.
LEMMA TalliesRead ==
  ASSUME NEW id \in Libs, ReadWhole(FileOf[id])
  PROVE  Tally(Elf(id)).internal + SumOver(Tally(Elf(id)).imports, ImportsOf(Elf(id)))
           = EntryCount(FileOf[id])
<1> DEFINE file == FileOf[id]
           e    == Elf(id)
           R    == RelocTables(file)
<1>1. /\ file.sections \in Seq(Range(file.sections))
      /\ \A sec \in Range(file.sections) : /\ sec.entries \in Seq(Range(sec.entries))
                                           /\ sec.inFile \in 0 .. Len(sec.entries)
  BY FilesAssumption DEF Libs, Nothing
<1>2. e.relocs = IterRelocations(file)
  BY DEF Elf, Elf64
<1>3. IsFiniteSet(R)
  <2>1. DOMAIN file.sections = 1 .. Len(file.sections) /\ Len(file.sections) \in Nat
    BY <1>1
  <2>2. IsFiniteSet(1 .. Len(file.sections)) /\ R \subseteq 1 .. Len(file.sections)
    BY <2>1, FS_Interval DEF RelocTables
  <2> QED BY <2>2, FS_Subset
<1>4. EntryCount(file) = SumOver(TableLengths(file), R)
  BY <1>3, SumOfLengths DEF EntryCount, TableLengths
<1> HIDE DEF file, e
<1>5. /\ Len(e.relocs) \in Nat /\ DOMAIN e.relocs = 1 .. Len(e.relocs)
      /\ ReadWhole(file) => Len(e.relocs) = SumOver(TableLengths(file), R)
  BY <1>1, <1>2, RelocationsRead
<1>6. Tally(e).internal + SumOver(Tally(e).imports, ImportsOf(e)) = Len(e.relocs)
  BY <1>5, TallyAddsUp
<1>7. Tally(e).internal + SumOver(Tally(e).imports, ImportsOf(e)) = EntryCount(file)
  BY <1>4, <1>5, <1>6, Zenon DEF file
<1> QED BY <1>7, Zenon DEF file, e

\* No relocation is lost between the section table of a file and a dylib made of
\* it, whichever commands and failures have led to that dylib.
THEOREM TablesAreRead == Spec => []TablesRead
<1>1. ASSUME BundleInv, "dylib" \in DOMAIN disk, disk["dylib"] # Nothing
      PROVE  disk["dylib"] \in Libs /\ Translatable(Elf(disk["dylib"]))
  BY <1>1 DEF BundleInv, DiskFits, Fits, Generated, Templates, Range, SourceFiles
<1>2. ASSUME NEW e, Translatable(e) PROVE Phase1Candidate(e)
  BY <1>2 DEF Translatable, Relocatable, Phase1Candidate
<1>3. BundleInv => TablesRead
  <2> SUFFICES ASSUME BundleInv, "dylib" \in DOMAIN disk, disk["dylib"] # Nothing
               PROVE  LET file  == FileOf[disk["dylib"]]
                          e     == Elf(disk["dylib"])
                      IN /\ Phase1Candidate(e)
                         /\ ReadWhole(file) =>
                              Tally(e).internal + SumOver(Tally(e).imports, ImportsOf(e))
                                = EntryCount(file)
    BY DEF TablesRead, SumOver, ReadWhole, EntryCount, RelocTables
  <2> QED BY <1>1, <1>2, TalliesRead
<1> QED BY <1>3, BundleInvariant, PTL

-----------------------------------------------------------------------------
(* Recursive functions.                                                    *)

\* f stops at the elements of stop, and else goes on to nxt.
Recursion(D, stop, nxt, a, b, f) ==
  \A d \in D : f[d] = IF d \in stop THEN a[d] ELSE b[<<d, f[nxt[d]]>>]

\* A recursion on a measure that decreases has one value at each place.
LEMMA RecursionUnique ==
  ASSUME NEW D, NEW stop, NEW nxt \in [D -> D], NEW mu \in [D -> Nat],
         \A d \in D \ stop : mu[nxt[d]] < mu[d], NEW a, NEW b,
         NEW A \in SUBSET D, \A d \in A \ stop : nxt[d] \in A,
         NEW B \in SUBSET D, \A d \in B \ stop : nxt[d] \in B,
         NEW f, Recursion(A, stop, nxt, a, b, f),
         NEW g, Recursion(B, stop, nxt, a, b, g),
         NEW d \in A \cap B
  PROVE  f[d] = g[d]
<1> DEFINE T == {mu[x] : x \in {y \in A \cap B : f[y] # g[y]}}
<1>1. T = {}
  <2> SUFFICES ASSUME T # {} PROVE FALSE
    OBVIOUS
  <2>1. T \in SUBSET Nat
    OBVIOUS
  <2>2. PICK c \in T : \A y \in T : c <= y
    <3> HIDE DEF T
    <3> QED BY <2>1, LeastExists
  <2>3. PICK x \in A \cap B : f[x] # g[x] /\ c = mu[x]
    OBVIOUS
  <2>4. x \notin stop
    BY <2>3 DEF Recursion
  <2>5. nxt[x] \in A \cap B /\ mu[nxt[x]] \in Nat /\ mu[nxt[x]] < mu[x] /\ mu[x] \in Nat
    BY <2>4
  <2>6. f[nxt[x]] = g[nxt[x]]
    <3> SUFFICES ASSUME f[nxt[x]] # g[nxt[x]] PROVE FALSE
      OBVIOUS
    <3>1. mu[nxt[x]] \in T
      BY <2>5
    <3> HIDE DEF T
    <3> QED BY <2>2, <2>3, <2>5, <3>1
  <2> QED BY <2>3, <2>4, <2>6 DEF Recursion
<1> QED BY <1>1

\* It exists.
LEMMA RecursionExists ==
  ASSUME NEW D, NEW stop, NEW nxt \in [D -> D], NEW mu \in [D -> Nat],
         \A d \in D \ stop : mu[nxt[d]] < mu[d],
         NEW X, NEW a \in [D -> X], NEW b \in [D \X X -> X]
  PROVE  \E f \in [D -> X] : Recursion(D, stop, nxt, a, b, f)
<1> DEFINE E(n) == {d \in D : mu[d] <= n}
           Good(n, f) == f \in [E(n) -> X] /\ Recursion(E(n), stop, nxt, a, b, f)
           T == {n \in Nat : ~\E f : Good(n, f)}
<1>1. \A n \in Nat : E(n) \in SUBSET D /\ \A d \in E(n) \ stop : nxt[d] \in E(n)
  OBVIOUS
<1>2. \A n \in Nat : \E f : Good(n, f)
  <2> SUFFICES ASSUME T # {} PROVE FALSE
    BY Zenon
  <2>1. PICK m \in T : \A y \in T : m <= y
    <3>1. T \in SUBSET Nat
      BY Zenon
    <3> HIDE DEF T
    <3> QED BY <3>1, LeastExists, Zenon
  <2>2. m \in Nat /\ ~\E f : Good(m, f)
    BY Zenon
  <2>3. \E g : \A d \in E(m) \ stop :
                 /\ nxt[d] \in E(m) /\ g[nxt[d]] \in X
                 /\ g[nxt[d]] = IF nxt[d] \in stop THEN a[nxt[d]]
                                ELSE b[<<nxt[d], g[nxt[nxt[d]]]>>]
    <3>1. CASE m = 0
      BY <3>1
    <3>2. CASE m # 0
      <4>1. m - 1 \in Nat /\ m - 1 \notin T
        <5> HIDE DEF T
        <5> QED BY <2>1, <2>2, <3>2
      <4>2. PICK g : Good(m - 1, g)
        BY <4>1, Zenon
      <4>3. \A d \in E(m) \ stop : nxt[d] \in E(m) /\ nxt[d] \in E(m - 1)
        BY <2>2
      <4> HIDE DEF E
      <4>4. \A d \in E(m - 1) : /\ g[d] \in X
                                /\ g[d] = IF d \in stop THEN a[d] ELSE b[<<d, g[nxt[d]]>>]
        BY <4>2 DEF Recursion
      <4> QED BY <4>3, <4>4, Zenon
    <3> QED BY <3>1, <3>2
  <2>4. E(m) \in SUBSET D
    OBVIOUS
  <2> HIDE DEF E, T
  <2>5. PICK g : \A d \in E(m) \ stop :
                   /\ nxt[d] \in E(m) /\ g[nxt[d]] \in X
                   /\ g[nxt[d]] = IF nxt[d] \in stop THEN a[nxt[d]]
                                  ELSE b[<<nxt[d], g[nxt[nxt[d]]]>>]
    BY <2>3, Zenon
  <2> DEFINE f == [d \in E(m) |-> IF d \in stop THEN a[d] ELSE b[<<d, g[nxt[d]]>>]]
  <2>6. \A d \in E(m) : f[d] = IF d \in stop THEN a[d] ELSE b[<<d, g[nxt[d]]>>]
    BY Zenon
  <2>7. f \in [E(m) -> X]
    <3>1. ASSUME NEW d \in E(m) PROVE (IF d \in stop THEN a[d] ELSE b[<<d, g[nxt[d]]>>]) \in X
      BY <2>4, <2>5
    <3> QED BY <3>1, Zenon
  <2> HIDE DEF f
  <2>8. ASSUME NEW d \in E(m) \ stop PROVE f[nxt[d]] = g[nxt[d]]
    <3>1. nxt[d] \in E(m)
      BY <2>5, Zenon
    <3>2. f[nxt[d]] = IF nxt[d] \in stop THEN a[nxt[d]] ELSE b[<<nxt[d], g[nxt[nxt[d]]]>>]
      BY <2>6, <3>1, Zenon
    <3>3. g[nxt[d]] = IF nxt[d] \in stop THEN a[nxt[d]] ELSE b[<<nxt[d], g[nxt[nxt[d]]]>>]
      BY <2>5, Zenon
    <3> QED BY <3>2, <3>3
  <2>9. Recursion(E(m), stop, nxt, a, b, f)
    <3> SUFFICES ASSUME NEW d \in E(m)
                 PROVE  f[d] = IF d \in stop THEN a[d] ELSE b[<<d, f[nxt[d]]>>]
      BY Zenon DEF Recursion
    <3>1. f[d] = IF d \in stop THEN a[d] ELSE b[<<d, g[nxt[d]]>>]
      BY <2>6, Zenon
    <3>2. CASE d \in stop
      BY <3>1, <3>2, Zenon
    <3>3. CASE d \notin stop
      BY <2>8, <3>1, <3>3, Zenon
    <3> QED BY <3>2, <3>3, Zenon
  <2> QED BY <2>2, <2>7, <2>9, Zenon
<1> DEFINE F(n) == CHOOSE f : Good(n, f)
           h == [d \in D |-> F(mu[d])[d]]
<1>3. \A n \in Nat : Good(n, F(n))
  <2> HIDE DEF Good
  <2> QED BY <1>2, Zenon
<1>4. \A d \in D : d \in E(mu[d]) /\ mu[d] \in Nat
  OBVIOUS
<1>5. ASSUME NEW d \in D \ stop PROVE F(mu[d])[nxt[d]] = F(mu[nxt[d]])[nxt[d]]
  <2>1. nxt[d] \in D /\ nxt[d] \in E(mu[d]) /\ nxt[d] \in E(mu[nxt[d]])
    OBVIOUS
  <2>2. Recursion(E(mu[d]), stop, nxt, a, b, F(mu[d]))
    BY <1>3
  <2>3. Recursion(E(mu[nxt[d]]), stop, nxt, a, b, F(mu[nxt[d]]))
    BY <1>3, <2>1
  <2>4. /\ E(mu[d]) \in SUBSET D /\ \A x \in E(mu[d]) \ stop : nxt[x] \in E(mu[d])
        /\ E(mu[nxt[d]]) \in SUBSET D
           /\ \A x \in E(mu[nxt[d]]) \ stop : nxt[x] \in E(mu[nxt[d]])
    BY <1>1, <2>1
  <2> HIDE DEF E, F, Good
  <2> QED BY <2>1, <2>2, <2>3, <2>4, RecursionUnique
<1>6. \A d \in D : /\ F(mu[d])[d] \in X
                   /\ F(mu[d])[d] = IF d \in stop THEN a[d] ELSE b[<<d, F(mu[d])[nxt[d]]>>]
  <2> TAKE d \in D
  <2>1. mu[d] \in Nat /\ d \in E(mu[d])
    BY <1>4, Zenon
  <2>2. Good(mu[d], F(mu[d]))
    <3> HIDE DEF Good, F, E
    <3> QED BY <1>3, <2>1, Zenon
  <2> HIDE DEF F, E
  <2> QED BY <2>1, <2>2 DEF Recursion
<1> HIDE DEF F
<1>7. h \in [D -> X] /\ \A d \in D : h[d] = F(mu[d])[d]
  BY <1>6
<1> HIDE DEF h
<1>8. Recursion(D, stop, nxt, a, b, h)
  <2> SUFFICES ASSUME NEW d \in D
               PROVE  h[d] = IF d \in stop THEN a[d] ELSE b[<<d, h[nxt[d]]>>]
    BY DEF Recursion
  <2>1. CASE d \in stop
    BY <1>6, <1>7, <2>1, Zenon
  <2>2. CASE d \notin stop
    <3>1. nxt[d] \in D
      OBVIOUS
    <3>2. h[nxt[d]] = F(mu[d])[nxt[d]]
      <4> HIDE DEF F
      <4>1. h[nxt[d]] = F(mu[nxt[d]])[nxt[d]]
        BY <1>7, <3>1, Zenon
      <4>2. F(mu[d])[nxt[d]] = F(mu[nxt[d]])[nxt[d]]
        BY <1>5, <2>2, Zenon
      <4> QED BY <4>1, <4>2, Zenon
    <3> QED BY <1>6, <1>7, <2>2, <3>2, Zenon
  <2> QED BY <2>1, <2>2
<1> QED BY <1>7, <1>8

\* What holds of each element when it holds of all smaller ones holds of all.
LEMMA Descent ==
  ASSUME NEW D, NEW mu \in [D -> Nat], NEW S,
         \A d \in D : (\A e \in D : mu[e] < mu[d] => e \in S) => d \in S
  PROVE  \A d \in D : d \in S
<1> DEFINE T == {mu[d] : d \in D \ S}
<1> SUFFICES ASSUME T # {} PROVE FALSE
  OBVIOUS
<1>1. PICK c \in T : \A y \in T : c <= y
  <2>1. T \in SUBSET Nat
    OBVIOUS
  <2> HIDE DEF T
  <2> QED BY <2>1, LeastExists
<1>2. PICK d \in D \ S : c = mu[d]
  OBVIOUS
<1>3. \A e \in D \ S : mu[d] <= mu[e]
  BY <1>1, <1>2
<1> HIDE DEF T
<1> QED BY <1>2, <1>3

\* The induction over the naturals.
LEMMA NatDescent ==
  ASSUME NEW S, \A n \in Nat : (\A m \in 0 .. n - 1 : m \in S) => n \in S
  PROVE  \A n \in Nat : n \in S
<1> DEFINE mu == [n \in Nat |-> n]
<1>1. \A n \in Nat : (\A m \in Nat : mu[m] < mu[n] => m \in S) => n \in S
  OBVIOUS
<1>2. mu \in [Nat -> Nat]
  OBVIOUS
<1> HIDE DEF mu
<1> QED BY <1>1, <1>2, Descent

-----------------------------------------------------------------------------
(* The encoders.                                                           *)

\* Division by the radix.
LEMMA Digits ==
  ASSUME NEW v \in Int
  PROVE  /\ v % Radix \in 0 .. Radix - 1 /\ v \div Radix \in Int
         /\ v = Radix * (v \div Radix) + (v % Radix)
BY RadixAssumption

\* The quotient of a number of more than one digit is smaller.
LEMMA QuotientSmaller ==
  ASSUME NEW v \in Int
  PROVE  /\ v \in Nat => v \div Radix \in Nat
         /\ v >= Radix => v \div Radix >= 1 /\ v \div Radix < v
         /\ v < -1 => v \div Radix < 0 /\ v \div Radix > v
         /\ v > 0 => v \div Radix < v
         /\ v = 0 => v \div Radix = 0 /\ v % Radix = 0
         /\ v = -1 => v \div Radix = -1 /\ v % Radix = Radix - 1
         /\ v >= 0 <=> v \div Radix >= 0
BY RadixAssumption

\* The radix is even.
LEMMA HalfRadix == \E h \in Nat : h >= 1 /\ Radix = 2 * h /\ Radix \div 2 = h
BY RadixAssumption

Stream == Seq(0 .. 2 * Radix - 1)

UlebAt(v, f) == IF v < Radix THEN <<v>> ELSE <<(v % Radix) + Radix>> \o f[v \div Radix]

UlebStep(f) == f = [v \in Nat |-> UlebAt(v, f)]

\* The encoder is a recursion that exists.
LEMMA UlebFunction ==
  \E f : UlebStep(f)
<1> DEFINE stop == 0 .. Radix - 1
           nxt == [v \in Nat |-> v \div Radix]
           mu == [v \in Nat |-> v]
           a == [v \in Nat |-> <<v % Radix>>]
           b == [p \in Nat \X Stream |-> <<(p[1] % Radix) + Radix>> \o p[2]]
<1>1. nxt \in [Nat -> Nat] /\ mu \in [Nat -> Nat]
  BY QuotientSmaller
<1>2. \A v \in Nat \ stop : mu[nxt[v]] < mu[v]
  BY QuotientSmaller, RadixAssumption
<1>3. a \in [Nat -> Stream]
  BY Digits, RadixAssumption DEF Stream
<1>4. b \in [Nat \X Stream -> Stream]
  <2> SUFFICES ASSUME NEW v \in Nat, NEW s \in Stream
               PROVE  <<(v % Radix) + Radix>> \o s \in Stream
    BY Zenon
  <2>1. (v % Radix) + Radix \in 0 .. 2 * Radix - 1
    BY Digits, RadixAssumption
  <2> QED BY <2>1, Concatenation DEF Stream
<1> HIDE DEF stop, nxt, mu, a, b
<1>5. PICK f \in [Nat -> Stream] : Recursion(Nat, stop, nxt, a, b, f)
  BY <1>1, <1>2, <1>3, <1>4, RecursionExists
<1>6. \A v \in Nat : f[v] = UlebAt(v, f)
  <2> TAKE v \in Nat
  <2>1. f[v] = IF v \in stop THEN a[v] ELSE b[<<v, f[nxt[v]]>>]
    BY <1>5 DEF Recursion
  <2>2. nxt[v] = v \div Radix /\ nxt[v] \in Nat
    BY <1>1 DEF nxt
  <2>3. a[v] = <<v % Radix>> /\ b[<<v, f[nxt[v]]>>] = <<(v % Radix) + Radix>> \o f[nxt[v]]
    BY <2>2 DEF a, b
  <2>4. v \in stop <=> v < Radix
    BY RadixAssumption DEF stop
  <2>5. v < Radix => v % Radix = v
    BY RadixAssumption
  <2> QED BY <2>1, <2>2, <2>3, <2>4, <2>5 DEF UlebAt
<1> QED BY <1>6, Zenon DEF UlebStep

\* An encoding as dyld reads it: the last byte alone is below the radix.
Ended(bytes) == /\ bytes \in Stream /\ Len(bytes) >= 1 /\ bytes[Len(bytes)] < Radix
                /\ \A q \in 1 .. Len(bytes) - 1 : bytes[q] >= Radix

Fronted(d, bytes, s) == /\ Ended(s) /\ Len(s) = Len(bytes) + 1 /\ s[1] = d + Radix
                        /\ \A q \in 1 .. Len(bytes) : s[q + 1] = bytes[q]

\* The elements of a sequence.
LEMMA Elements ==
  ASSUME NEW S, NEW s \in Seq(S)
  PROVE  Len(s) \in Nat /\ DOMAIN s = 1 .. Len(s) /\ \A i \in 1 .. Len(s) : s[i] \in S
OBVIOUS

\* An encoding is not empty, and its bytes are numbers.
LEMMA EndedBytes ==
  ASSUME NEW b, Ended(b)
  PROVE  Len(b) \in Nat \ {0} /\ \A k \in 1 .. Len(b) : b[k] \in Nat
<1>1. b \in Stream /\ Len(b) >= 1
  BY DEF Ended
<1>2. Len(b) \in Nat /\ \A k \in 1 .. Len(b) : b[k] \in 0 .. 2 * Radix - 1
  BY <1>1, Elements DEF Stream
<1> QED BY <1>1, <1>2

\* A digit goes in front.
LEMMA DigitInFront ==
  ASSUME NEW d \in 0 .. Radix - 1, NEW bytes, Ended(bytes)
  PROVE  Fronted(d, bytes, <<d + Radix>> \o bytes)
<1> DEFINE s == <<d + Radix>> \o bytes
<1>1. <<d + Radix>> \in Stream /\ Len(<<d + Radix>>) = 1
  BY RadixAssumption DEF Stream
<1>2. /\ s \in Stream /\ Len(s) = Len(bytes) + 1 /\ s[1] = d + Radix
      /\ \A q \in 1 .. Len(bytes) : s[1 + q] = bytes[q]
  BY <1>1, Concatenation DEF Stream, Ended
<1>3. \A q \in 1 .. Len(s) : q = 1 \/ (q - 1 \in 1 .. Len(bytes) /\ s[q] = bytes[q - 1])
  BY <1>2 DEF Stream
<1>4. \A q \in 1 .. Len(bytes) : s[q + 1] = bytes[q]
  BY <1>2
<1> HIDE DEF s
<1>5. Len(bytes) \in Nat \ {0} /\ bytes[Len(bytes)] < Radix
  BY EndedBytes DEF Ended
<1>6. s[Len(s)] < Radix
  BY <1>2, <1>4, <1>5
<1>7. ASSUME NEW q \in 1 .. Len(s) - 1 PROVE s[q] >= Radix
  <2>1. CASE q = 1
    BY <1>2, <2>1, RadixAssumption
  <2>2. CASE q # 1
    <3>1. q - 1 \in 1 .. Len(bytes) - 1
      BY <1>2, <1>5, <2>2
    <3>2. s[q] = bytes[q - 1]
      BY <1>2, <1>5, <1>3, <2>2
    <3> QED BY <3>1, <3>2 DEF Ended
  <2> QED BY <2>1, <2>2
<1>8. Ended(s)
  BY <1>2, <1>5, <1>6, <1>7 DEF Ended
<1> QED BY <1>2, <1>4, <1>8 DEF Fronted, s

\* The encoding of a number by that of its quotient.
LEMMA UlebIs ==
  ASSUME NEW n \in Nat
  PROVE  Ended(Uleb(n))
         /\ Uleb(n) = IF n < Radix THEN <<n>> ELSE <<(n % Radix) + Radix>> \o Uleb(n \div Radix)
<1> DEFINE f == CHOOSE g : UlebStep(g)
<1>1. \A v \in Nat : Uleb(v) = f[v]
  BY DEF Uleb, UlebStep, UlebAt
<1>2. f = [v \in Nat |-> UlebAt(v, f)]
  BY UlebFunction, Zenon DEF UlebStep
<1>3. \A v \in Nat : f[v] = UlebAt(v, f)
  <2> HIDE DEF f
  <2> QED BY <1>2
<1> HIDE DEF f
<1>4. \A v \in Nat : Uleb(v) = IF v < Radix THEN <<v>>
        ELSE <<(v % Radix) + Radix>> \o Uleb(v \div Radix)
  <2> TAKE v \in Nat
  <2>1. v \div Radix \in Nat
    BY QuotientSmaller
  <2>2. Uleb(v \div Radix) = f[v \div Radix]
    BY <1>1, <2>1
  <2> QED BY <1>1, <1>3, <2>2 DEF UlebAt
<1> DEFINE S == {v \in Nat : Ended(Uleb(v))}
<1>5. ASSUME NEW v \in Nat, \A m \in 0 .. v - 1 : m \in S PROVE v \in S
  <2>1. CASE v < Radix
    <3>1. Uleb(v) = <<v>>
      BY <1>4, <2>1
    <3>2. Ended(<<v>>)
      BY <2>1, RadixAssumption DEF Ended, Stream
    <3> QED BY <3>1, <3>2
  <2>2. CASE v >= Radix
    <3>1. v \div Radix \in 0 .. v - 1
      BY <2>2, QuotientSmaller
    <3>2. Ended(Uleb(v \div Radix))
      BY <1>5, <3>1
    <3>3. Uleb(v) = <<(v % Radix) + Radix>> \o Uleb(v \div Radix)
      <4>1. ~(v < Radix)
        BY <2>2, RadixAssumption
      <4> QED BY <1>4, <4>1
    <3>4. Ended(<<(v % Radix) + Radix>> \o Uleb(v \div Radix))
      <4>1. v % Radix \in 0 .. Radix - 1
        BY Digits
      <4> QED BY <3>2, <4>1, DigitInFront, Zenon DEF Fronted
    <3> QED BY <3>3, <3>4
  <2> QED BY <2>1, <2>2, RadixAssumption
<1>6. n \in S
  <2> HIDE DEF S
  <2> QED BY <1>5, NatDescent
<1> QED BY <1>4, <1>6

-----------------------------------------------------------------------------
(* dyld's readers.                                                         *)

ReadAt(s, q, f) == IF s[q] < Radix \/ q = Len(s) THEN s[q] % Radix
                   ELSE (s[q] % Radix) + Radix * f[q + 1]

ReadStep(s, f) == f = [q \in DOMAIN s |-> ReadAt(s, q, f)]

\* The reader is a recursion that exists.
LEMMA ReadFunction ==
  ASSUME NEW s \in Seq(Nat)
  PROVE  \E f \in [DOMAIN s -> Nat] : ReadStep(s, f)
<1> DEFINE D == DOMAIN s
           stop == {q \in D : s[q] < Radix \/ q = Len(s)}
           nxt == [q \in D |-> IF q = Len(s) THEN q ELSE q + 1]
           mu == [q \in D |-> Len(s) - q]
           a == [q \in D |-> s[q] % Radix]
           b == [p \in D \X Nat |-> (s[p[1]] % Radix) + Radix * p[2]]
<1>0. D = 1 .. Len(s) /\ Len(s) \in Nat /\ \A q \in D : s[q] \in Nat
  OBVIOUS
<1>num. \A x \in Nat : x % Radix \in Nat /\ Radix * x \in Nat
  BY RadixAssumption
<1>1. nxt \in [D -> D] /\ mu \in [D -> Nat]
  BY <1>0
<1>2. \A q \in D \ stop : mu[nxt[q]] < mu[q]
  BY <1>0
<1>3. a \in [D -> Nat]
  <2>1. \A q \in D : s[q] % Radix \in Nat
    BY <1>0, <1>num
  <2> QED BY <2>1
<1>4. b \in [D \X Nat -> Nat]
  <2> SUFFICES ASSUME NEW q \in D, NEW n \in Nat PROVE (s[q] % Radix) + Radix * n \in Nat
    BY Zenon
  <2>1. s[q] % Radix \in Nat /\ Radix * n \in Nat
    BY <1>0, <1>num
  <2> QED BY <2>1
<1> HIDE DEF D, stop, nxt, mu, a, b
<1>5. PICK f \in [D -> Nat] : Recursion(D, stop, nxt, a, b, f)
  BY <1>1, <1>2, <1>3, <1>4, RecursionExists
<1>6. \A q \in D : f[q] = ReadAt(s, q, f)
  <2> TAKE q \in D
  <2>1. f[q] = IF q \in stop THEN a[q] ELSE b[<<q, f[nxt[q]]>>]
    BY <1>5 DEF Recursion
  <2>2. nxt[q] \in D /\ nxt[q] = IF q = Len(s) THEN q ELSE q + 1
    BY <1>1 DEF nxt
  <2>3. a[q] = s[q] % Radix /\ b[<<q, f[nxt[q]]>>] = (s[q] % Radix) + Radix * f[nxt[q]]
    BY <2>2, <1>5 DEF a, b
  <2>4. q \in stop <=> s[q] < Radix \/ q = Len(s)
    BY DEF stop
  <2> QED BY <2>1, <2>2, <2>3, <2>4 DEF ReadAt
<1> QED BY <1>6, Zenon DEF ReadStep, D

\* What is read at a place, by what is read at the next.
LEMMA ReadIs ==
  ASSUME NEW s \in Seq(Nat), NEW q \in 1 .. Len(s)
  PROVE  ReadUleb(s, q) = IF s[q] < Radix \/ q = Len(s) THEN s[q] % Radix
                          ELSE (s[q] % Radix) + Radix * ReadUleb(s, q + 1)
<1> DEFINE f == CHOOSE g : ReadStep(s, g)
<1>1. \A p \in 1 .. Len(s) : ReadUleb(s, p) = f[p]
  BY DEF ReadUleb, ReadStep, ReadAt
<1>2. f = [p \in DOMAIN s |-> ReadAt(s, p, f)]
  BY ReadFunction, Zenon DEF ReadStep
<1>3. \A p \in 1 .. Len(s) : f[p] = ReadAt(s, p, f)
  <2> HIDE DEF f
  <2> QED BY <1>2
<1> HIDE DEF f
<1>4. q # Len(s) => ReadUleb(s, q + 1) = f[q + 1]
  BY <1>1
<1> QED BY <1>1, <1>3, <1>4 DEF ReadAt

\* The bytes b are in the stream s from place p on.
Placed(s, p, b) == /\ s \in Seq(Nat) /\ p \in Nat \ {0} /\ p + Len(b) - 1 <= Len(s)
                   /\ \A q \in 1 .. Len(b) : s[p + q - 1] = b[q]

\* The reader stops at the last byte of an encoding.
LEMMA LastByteIs ==
  ASSUME NEW s, NEW p, NEW b, Placed(s, p, b), Ended(b)
  PROVE  LastByte(s, p) = p + Len(b) - 1
<1> DEFINE T == {q \in DOMAIN s : q >= p /\ s[q] < Radix}
           l == p + Len(b) - 1
<1>0. /\ p \in Nat \ {0} /\ Len(b) \in Nat \ {0} /\ l <= Len(s) /\ Len(s) \in Nat
      /\ DOMAIN s = 1 .. Len(s)
  BY DEF Placed, Ended, Stream
<1>1. l \in T
  BY <1>0 DEF Placed, Ended
<1>2. \A q \in T : l <= q
  <2> SUFFICES ASSUME NEW q \in T, q < l PROVE FALSE
    BY <1>0
  <2>1. \E k \in 1 .. Len(b) - 1 : p + k - 1 = q
    <3>1. q - p + 1 \in 1 .. Len(b) - 1 /\ p + (q - p + 1) - 1 = q
      BY <1>0
    <3> QED BY <3>1
  <2>2. PICK k \in 1 .. Len(b) - 1 : p + k - 1 = q
    BY <2>1
  <2>3. k \in 1 .. Len(b)
    BY <1>0
  <2>4. s[q] = b[k] /\ b[k] >= Radix /\ b[k] \in Nat
    <3>1. s[p + k - 1] = b[k]
      BY <2>3 DEF Placed
    <3>2. b[k] >= Radix
      BY DEF Ended
    <3>3. b[k] \in Nat
      BY <2>3, EndedBytes
    <3> QED BY <2>2, <3>1, <3>2, <3>3
  <2> QED BY <2>4, RadixAssumption
<1>3. \A x \in T : (\A q \in T : x <= q) => x = l
  BY <1>0, <1>1, <1>2
<1> QED BY <1>1, <1>2, <1>3, Zenon DEF LastByte, Min

\* The rest of an encoding is at the next place.
LEMMA PlacedRest ==
  ASSUME NEW s, NEW p, NEW d \in 0 .. Radix - 1, NEW b, Ended(b),
         Placed(s, p, <<d + Radix>> \o b)
  PROVE  /\ Placed(s, p + 1, b) /\ p \in 1 .. Len(s) /\ p # Len(s)
         /\ s[p] = d + Radix /\ ReadUleb(s, p) = d + Radix * ReadUleb(s, p + 1)
<1> DEFINE e == <<d + Radix>> \o b
<1>1. /\ Ended(e) /\ Len(e) = Len(b) + 1 /\ e[1] = d + Radix
      /\ \A q \in 1 .. Len(b) : e[q + 1] = b[q]
  BY DigitInFront, Zenon DEF Fronted
<1>2. Placed(s, p, e) /\ Len(b) \in Nat \ {0} /\ Len(s) \in Nat /\ p \in Nat \ {0}
  BY DEF Placed, Ended, Stream
<1> HIDE DEF e
<1>3. s[p] = d + Radix
  <2>1. 1 \in 1 .. Len(e)
    BY <1>1, <1>2
  <2>2. s[p + 1 - 1] = e[1]
    BY <1>2, <2>1 DEF Placed
  <2> QED BY <1>1, <1>2, <2>2
<1>4. ASSUME NEW q \in 1 .. Len(b) PROVE s[(p + 1) + q - 1] = b[q]
  <2>1. q + 1 \in 1 .. Len(e)
    BY <1>1, <1>2
  <2>2. s[p + (q + 1) - 1] = e[q + 1]
    BY <1>2, <2>1 DEF Placed
  <2>3. p + (q + 1) - 1 = (p + 1) + q - 1
    BY <1>2
  <2> QED BY <1>1, <2>2, <2>3
<1>5. p \in 1 .. Len(s) /\ p # Len(s) /\ (p + 1) + Len(b) - 1 <= Len(s)
  BY <1>1, <1>2 DEF Placed
<1>6. Placed(s, p + 1, b)
  BY <1>2, <1>4, <1>5 DEF Placed
<1>7. ReadUleb(s, p) = d + Radix * ReadUleb(s, p + 1)
  <2>1. ~(s[p] < Radix)
    BY <1>3, RadixAssumption
  <2>2. s[p] % Radix = d
    BY <1>3, RadixAssumption
  <2>3. s \in Seq(Nat)
    BY DEF Placed
  <2>4. ReadUleb(s, p) = (s[p] % Radix) + Radix * ReadUleb(s, p + 1)
    BY <1>5, <2>1, <2>3, ReadIs
  <2> QED BY <2>2, <2>4
<1> QED BY <1>3, <1>5, <1>6, <1>7

\* A last byte.
LEMMA PlacedOne ==
  ASSUME NEW s, NEW p, NEW d \in 0 .. Radix - 1, Placed(s, p, <<d>>)
  PROVE  s[p] = d /\ ReadUleb(s, p) = d
<1>1. s \in Seq(Nat) /\ p \in 1 .. Len(s)
  BY DEF Placed
<1>2. s[p] = d
  <2>1. 1 \in 1 .. Len(<<d>>)
    OBVIOUS
  <2>2. s[p + 1 - 1] = d
    BY <2>1 DEF Placed
  <2> QED BY <1>1, <2>2
<1>3. d % Radix = d
  BY RadixAssumption
<1> QED BY <1>1, <1>2, <1>3, ReadIs, RadixAssumption

\* dyld reads back what _uleb128 wrote, wherever it is.
LEMMA UlebReads ==
  ASSUME NEW n \in Nat, NEW s, NEW p, Placed(s, p, Uleb(n))
  PROVE  ReadUleb(s, p) = n
<1> DEFINE S == {m \in Nat : \A q \in Nat : Placed(s, q, Uleb(m)) => ReadUleb(s, q) = m}
<1>1. ASSUME NEW m \in Nat, \A k \in 0 .. m - 1 : k \in S PROVE m \in S
  <2> SUFFICES ASSUME NEW q \in Nat, Placed(s, q, Uleb(m)) PROVE ReadUleb(s, q) = m
    OBVIOUS
  <2>1. CASE m < Radix
    <3>1. Uleb(m) = <<m>> /\ m \in 0 .. Radix - 1
      <4>1. Uleb(m) = <<m>>
        BY <2>1, UlebIs, Zenon
      <4> QED BY <2>1, <4>1, RadixAssumption
    <3> QED BY <3>1, PlacedOne
  <2>2. CASE ~(m < Radix)
    <3>1. m \div Radix \in 0 .. m - 1 /\ m % Radix \in 0 .. Radix - 1
          /\ m = Radix * (m \div Radix) + (m % Radix)
      BY <2>2, QuotientSmaller, Digits, RadixAssumption
    <3>2. Uleb(m) = <<(m % Radix) + Radix>> \o Uleb(m \div Radix) /\ Ended(Uleb(m \div Radix))
      <4>1. m \div Radix \in Nat
        BY <3>1
      <4> QED BY <2>2, <4>1, UlebIs, Zenon
    <3>3. /\ Placed(s, q + 1, Uleb(m \div Radix))
          /\ ReadUleb(s, q) = (m % Radix) + Radix * ReadUleb(s, q + 1)
      <4>1. Placed(s, q, <<(m % Radix) + Radix>> \o Uleb(m \div Radix))
        BY <3>2, Zenon
      <4>2. m % Radix \in 0 .. Radix - 1 /\ Ended(Uleb(m \div Radix))
        BY <3>1, <3>2, Zenon
      <4> QED BY <4>1, <4>2, PlacedRest, Zenon
    <3>4. ReadUleb(s, q + 1) = m \div Radix
      BY <1>1, <3>1, <3>3
    <3> QED BY <3>1, <3>3, <3>4, RadixAssumption
  <2> QED BY <2>1, <2>2
<1>2. n \in S
  <2> HIDE DEF S
  <2> QED BY <1>1, NatDescent
<1>3. p \in Nat
  BY DEF Placed
<1> QED BY <1>2, <1>3

PowerStep(f) == f = [n \in Nat |-> IF n = 0 THEN 1 ELSE Radix * f[n - 1]]

\* The powers are a recursion that exists.
LEMMA PowerFunction ==
  \E f \in [Nat -> Nat] : PowerStep(f)
<1> DEFINE nxt == [n \in Nat |-> IF n = 0 THEN 0 ELSE n - 1]
           mu == [n \in Nat |-> n]
           a == [n \in Nat |-> 1]
           b == [p \in Nat \X Nat |-> Radix * p[2]]
<1>1. /\ nxt \in [Nat -> Nat] /\ mu \in [Nat -> Nat] /\ a \in [Nat -> Nat]
      /\ \A v \in Nat \ {0} : mu[nxt[v]] < mu[v]
  OBVIOUS
<1>2. b \in [Nat \X Nat -> Nat]
  <2>1. \A n \in Nat : Radix * n \in Nat
    BY RadixAssumption
  <2> QED BY <2>1
<1> HIDE DEF nxt, mu, a, b
<1>3. PICK f \in [Nat -> Nat] : Recursion(Nat, {0}, nxt, a, b, f)
  BY <1>1, <1>2, RecursionExists
<1>4. \A n \in Nat : f[n] = IF n = 0 THEN 1 ELSE Radix * f[n - 1]
  <2> TAKE n \in Nat
  <2>1. f[n] = IF n \in {0} THEN a[n] ELSE b[<<n, f[nxt[n]]>>]
    BY <1>3 DEF Recursion
  <2>2. nxt[n] \in Nat /\ (n # 0 => nxt[n] = n - 1)
    BY <1>1 DEF nxt
  <2>3. a[n] = 1 /\ b[<<n, f[nxt[n]]>>] = Radix * f[nxt[n]]
    BY <2>2, <1>3 DEF a, b
  <2> QED BY <2>1, <2>2, <2>3
<1> QED BY <1>4, Zenon DEF PowerStep

\* The powers of the radix.
LEMMA PowerIs ==
  /\ Power[0] = 1
  /\ \A n \in Nat : Power[n] \in Nat \ {0} /\ Power[n + 1] = Radix * Power[n]
<1>1. PowerStep(Power)
  <2>1. Power = CHOOSE f : PowerStep(f)
    BY DEF Power, PowerStep
  <2> QED BY <2>1, PowerFunction, Zenon
<1> DEFINE f == Power
<1>2. f = [n \in Nat |-> IF n = 0 THEN 1 ELSE Radix * f[n - 1]]
  BY <1>1 DEF PowerStep
<1> HIDE DEF f
<1>3. \A n \in Nat : f[n] = IF n = 0 THEN 1 ELSE Radix * f[n - 1]
  BY <1>2
<1> DEFINE S == {n \in Nat : f[n] \in Nat \ {0}}
<1>4. ASSUME NEW n \in Nat, \A m \in 0 .. n - 1 : m \in S PROVE n \in S
  <2>1. CASE n = 0
    BY <1>3, <2>1
  <2>2. CASE n # 0
    <3>1. n - 1 \in 0 .. n - 1
      BY <2>2
    <3>2. f[n - 1] \in Nat \ {0} /\ f[n] = Radix * f[n - 1]
      BY <1>3, <1>4, <2>2, <3>1
    <3>3. \A x \in Nat \ {0} : Radix * x \in Nat \ {0}
      BY RadixAssumption
    <3> QED BY <3>2, <3>3
  <2> QED BY <2>1, <2>2
<1>5. \A n \in Nat : n \in S
  <2> HIDE DEF S
  <2> QED BY <1>4, NatDescent
<1>6. \A n \in Nat : f[n + 1] = Radix * f[n]
  <2> TAKE n \in Nat
  <2>1. n + 1 \in Nat /\ n + 1 # 0 /\ (n + 1) - 1 = n
    OBVIOUS
  <2> QED BY <1>3, <2>1
<1> QED BY <1>3, <1>5, <1>6 DEF f

\* The length of the encoding of a number, by that of its quotient.
LEMMA UlebLength ==
  ASSUME NEW n \in Nat
  PROVE  /\ Len(Uleb(n)) \in Nat \ {0}
         /\ n < Radix => Len(Uleb(n)) = 1
         /\ n >= Radix => /\ n \div Radix \in 0 .. n - 1
                          /\ Len(Uleb(n)) = Len(Uleb(n \div Radix)) + 1
<1>1. Len(Uleb(n)) \in Nat \ {0}
  BY UlebIs, EndedBytes
<1>2. ASSUME n < Radix PROVE Len(Uleb(n)) = 1
  <2>1. Uleb(n) = <<n>>
    BY <1>2, UlebIs, Zenon
  <2> QED BY <2>1
<1>3. ASSUME n >= Radix
      PROVE  n \div Radix \in 0 .. n - 1 /\ Len(Uleb(n)) = Len(Uleb(n \div Radix)) + 1
  <2>1. n \div Radix \in 0 .. n - 1 /\ n % Radix \in 0 .. Radix - 1 /\ ~(n < Radix)
    <3>1. n % Radix \in 0 .. Radix - 1
      BY Digits
    <3>2. n \div Radix \in Nat /\ n \div Radix < n
      BY <1>3, QuotientSmaller
    <3> QED BY <1>3, <3>1, <3>2, RadixAssumption
  <2>2. Ended(Uleb(n \div Radix)) /\ Uleb(n) = <<(n % Radix) + Radix>> \o Uleb(n \div Radix)
    <3>1. n \div Radix \in Nat
      BY <2>1
    <3> QED BY <2>1, <3>1, UlebIs, Zenon
  <2> QED BY <2>1, <2>2, DigitInFront, ZenonT(40) DEF Fronted
<1> QED BY <1>1, <1>2, <1>3

\* A larger number has no shorter encoding.
LEMMA UlebGrows ==
  ASSUME NEW n \in Nat, NEW m \in 0 .. n
  PROVE  Len(Uleb(m)) <= Len(Uleb(n))
<1> DEFINE S == {k \in Nat : \A i \in 0 .. k : Len(Uleb(i)) <= Len(Uleb(k))}
<1>1. ASSUME NEW k \in Nat, \A j \in 0 .. k - 1 : j \in S PROVE k \in S
  <2> SUFFICES ASSUME NEW i \in 0 .. k PROVE Len(Uleb(i)) <= Len(Uleb(k))
    OBVIOUS
  <2>0. i \in Nat /\ i <= k /\ Len(Uleb(i)) \in Nat \ {0} /\ Len(Uleb(k)) \in Nat \ {0}
    BY UlebLength
  <2>1. CASE i < Radix
    <3>1. Len(Uleb(i)) = 1
      BY <2>0, <2>1, UlebLength
    <3> QED BY <2>0, <3>1
  <2>2. CASE i >= Radix
    <3>1. k >= Radix
      BY <2>0, <2>2, RadixAssumption
    <3>2. i \div Radix \in 0 .. k \div Radix
      BY <2>0, <2>2, RadixAssumption
    <3>3. k \div Radix \in 0 .. k - 1 /\ Len(Uleb(k)) = Len(Uleb(k \div Radix)) + 1
      BY <3>1, UlebLength
    <3>4. Len(Uleb(i)) = Len(Uleb(i \div Radix)) + 1
      BY <2>0, <2>2, UlebLength
    <3>5. Len(Uleb(i \div Radix)) <= Len(Uleb(k \div Radix))
      BY <1>1, <3>2, <3>3
    <3>6. Len(Uleb(i \div Radix)) \in Nat /\ Len(Uleb(k \div Radix)) \in Nat
      <4>1. i \div Radix \in Nat /\ k \div Radix \in Nat
        BY <3>2, <3>3
      <4> QED BY <4>1, UlebLength
    <3> QED BY <3>3, <3>4, <3>5, <3>6
  <2> QED BY <2>0, <2>1, <2>2, RadixAssumption
<1>2. n \in S
  <2> HIDE DEF S
  <2> QED BY <1>1, NatDescent
<1> QED BY <1>2

\* No shorter encoding has room for the number.
LEMMA UlebShortest ==
  ASSUME NEW n \in Nat, Len(Uleb(n)) > 1
  PROVE  n >= Power[Len(Uleb(n)) - 1]
<1> DEFINE S == {k \in Nat : Len(Uleb(k)) > 1 => k >= Power[Len(Uleb(k)) - 1]}
<1>1. ASSUME NEW k \in Nat, \A j \in 0 .. k - 1 : j \in S PROVE k \in S
  <2> SUFFICES ASSUME Len(Uleb(k)) > 1 PROVE k >= Power[Len(Uleb(k)) - 1]
    OBVIOUS
  <2>1. k >= Radix
    <3>1. k < Radix => Len(Uleb(k)) = 1
      BY UlebLength
    <3>2. ~(1 > 1) /\ (k >= Radix \/ k < Radix)
      BY RadixAssumption
    <3> QED BY <3>1, <3>2, Zenon
  <2> DEFINE q == k \div Radix
  <2>2. q \in 0 .. k - 1 /\ q \in Nat /\ Len(Uleb(k)) = Len(Uleb(q)) + 1
    BY <2>1, UlebLength
  <2>3. Len(Uleb(q)) \in Nat \ {0}
    BY <2>2, UlebLength
  <2>4. k >= Radix * q
    BY Digits, RadixAssumption
  <2>5. q \in S
    BY <1>1, <2>2
  <2> HIDE DEF q
  <2>6. CASE Len(Uleb(q)) = 1
    <3>1. Power[1] = Radix
      <4>1. Power[0 + 1] = Radix * Power[0] /\ Power[0] = 1
        BY PowerIs
      <4> QED BY <4>1, RadixAssumption
    <3> QED BY <2>1, <2>2, <2>6, <3>1
  <2>7. CASE Len(Uleb(q)) > 1
    <3> DEFINE l == Len(Uleb(q)) - 1
    <3>1. l \in Nat /\ l + 1 = Len(Uleb(k)) - 1
      BY <2>2, <2>3
    <3>2. q >= Power[l]
      BY <2>5, <2>7
    <3> HIDE DEF l
    <3>3. Power[l + 1] = Radix * Power[l] /\ Power[l] \in Nat
      BY <3>1, PowerIs
    <3>4. \A x, y \in Nat : x >= y => Radix * x >= Radix * y
      BY RadixAssumption
    <3>5. Radix * q >= Radix * Power[l] /\ Radix * q \in Nat /\ Radix * Power[l] \in Nat
      <4>1. \A x \in Nat : Radix * x \in Nat
        BY RadixAssumption
      <4> QED BY <2>2, <3>2, <3>3, <3>4, <4>1
    <3> QED BY <2>4, <3>1, <3>3, <3>5
  <2>8. Len(Uleb(q)) = 1 \/ Len(Uleb(q)) > 1
    <3>1. \A x \in Nat \ {0} : x = 1 \/ x > 1
      OBVIOUS
    <3> QED BY <2>3, <3>1, Zenon
  <2> QED BY <2>6, <2>7, <2>8, Zenon
<1>2. n \in S
  <2> HIDE DEF S
  <2> QED BY <1>1, NatDescent
<1> QED BY <1>2

\* Nothing but the sign is left of a number after its first digit.
Settled(v) == v \div Radix = IF Sign(v % Radix) THEN -1 ELSE 0

Magnitude(v) == IF v >= 0 THEN v ELSE -v

\* What is left becomes smaller.
LEMMA SlebSmaller ==
  ASSUME NEW v \in Int
  PROVE  /\ Magnitude(v) \in Nat
         /\ ~Settled(v) => Magnitude(v \div Radix) < Magnitude(v)
<1>1. PICK h \in Nat : h >= 1 /\ Radix = 2 * h /\ Radix \div 2 = h
  BY HalfRadix
<1>2. v = 0 => Settled(v)
  BY <1>1, QuotientSmaller DEF Settled, Sign
<1>3. v = -1 => Settled(v)
  <2>1. (Radix - 1) % Radix = Radix - 1
    BY RadixAssumption
  <2> QED BY <1>1, <2>1, QuotientSmaller DEF Settled, Sign
<1>4. Magnitude(v) \in Nat
  BY DEF Magnitude
<1>5. CASE v > 0
  <2>1. v \div Radix \in Nat /\ v \div Radix < v
    BY <1>5, QuotientSmaller
  <2> QED BY <1>4, <1>5, <2>1 DEF Magnitude
<1>6. CASE v < -1
  <2>1. v \div Radix \in Int /\ v \div Radix < 0 /\ v \div Radix > v
    BY <1>6, QuotientSmaller, Digits
  <2> QED BY <1>4, <1>6, <2>1 DEF Magnitude
<1> QED BY <1>2, <1>3, <1>4, <1>5, <1>6

SlebAt(v, f) == IF Settled(v) THEN <<v % Radix>> ELSE <<(v % Radix) + Radix>> \o f[v \div Radix]

SlebStep(f) == f = [v \in Int |-> SlebAt(v, f)]

\* The signed encoder is a recursion that exists.
LEMMA SlebFunction ==
  \E f : SlebStep(f)
<1> DEFINE stop == {v \in Int : Settled(v)}
           nxt == [v \in Int |-> v \div Radix]
           mu == [v \in Int |-> Magnitude(v)]
           a == [v \in Int |-> <<v % Radix>>]
           b == [p \in Int \X Stream |-> <<(p[1] % Radix) + Radix>> \o p[2]]
<1>1. nxt \in [Int -> Int] /\ mu \in [Int -> Nat]
  BY Digits, SlebSmaller
<1>2. \A v \in Int \ stop : mu[nxt[v]] < mu[v]
  BY Digits, SlebSmaller
<1>3. a \in [Int -> Stream]
  BY Digits, RadixAssumption DEF Stream
<1>4. b \in [Int \X Stream -> Stream]
  <2> SUFFICES ASSUME NEW v \in Int, NEW s \in Stream
               PROVE  <<(v % Radix) + Radix>> \o s \in Stream
    BY Zenon
  <2>1. (v % Radix) + Radix \in 0 .. 2 * Radix - 1
    BY Digits, RadixAssumption
  <2> QED BY <2>1, Concatenation DEF Stream
<1> HIDE DEF stop, nxt, mu, a, b
<1>5. PICK f \in [Int -> Stream] : Recursion(Int, stop, nxt, a, b, f)
  BY <1>1, <1>2, <1>3, <1>4, RecursionExists
<1>6. \A v \in Int : f[v] = SlebAt(v, f)
  <2> TAKE v \in Int
  <2>1. f[v] = IF v \in stop THEN a[v] ELSE b[<<v, f[nxt[v]]>>]
    BY <1>5 DEF Recursion
  <2>2. nxt[v] = v \div Radix /\ nxt[v] \in Int
    BY <1>1 DEF nxt
  <2>3. a[v] = <<v % Radix>> /\ b[<<v, f[nxt[v]]>>] = <<(v % Radix) + Radix>> \o f[nxt[v]]
    BY <2>2 DEF a, b
  <2>4. v \in stop <=> Settled(v)
    BY DEF stop
  <2> QED BY <2>1, <2>2, <2>3, <2>4 DEF SlebAt
<1> QED BY <1>6, Zenon DEF SlebStep

\* The signed encoding of a number by that of what is left of it.
LEMMA SlebIs ==
  ASSUME NEW n \in Int
  PROVE  /\ Ended(Sleb(n))
         /\ Sleb(n) = IF Settled(n) THEN <<n % Radix>>
              ELSE <<(n % Radix) + Radix>> \o Sleb(n \div Radix)
<1> DEFINE f == CHOOSE g : SlebStep(g)
<1>1. \A v \in Int : Sleb(v) = f[v]
  BY DEF Sleb, SlebStep, SlebAt, Settled
<1>2. f = [v \in Int |-> SlebAt(v, f)]
  BY SlebFunction, Zenon DEF SlebStep
<1>3. \A v \in Int : f[v] = SlebAt(v, f)
  <2> HIDE DEF f
  <2> QED BY <1>2
<1> HIDE DEF f
<1>4. \A v \in Int : Sleb(v) = IF Settled(v) THEN <<v % Radix>>
        ELSE <<(v % Radix) + Radix>> \o Sleb(v \div Radix)
  <2> TAKE v \in Int
  <2>1. v \div Radix \in Int
    BY Digits
  <2>2. Sleb(v \div Radix) = f[v \div Radix]
    BY <1>1, <2>1
  <2> QED BY <1>1, <1>3, <2>2 DEF SlebAt
<1> DEFINE S == {v \in Int : Ended(Sleb(v))}
           mu == [v \in Int |-> Magnitude(v)]
<1>5. ASSUME NEW v \in Int, \A m \in Int : mu[m] < mu[v] => m \in S PROVE v \in S
  <2>0. v % Radix \in 0 .. Radix - 1
    BY Digits
  <2>1. CASE Settled(v)
    <3>1. Sleb(v) = <<v % Radix>>
      BY <1>4, <2>1
    <3>2. Ended(<<v % Radix>>)
      BY <2>0, RadixAssumption DEF Ended, Stream
    <3> QED BY <3>1, <3>2
  <2>2. CASE ~Settled(v)
    <3>1. v \div Radix \in Int /\ mu[v \div Radix] < mu[v]
      BY <2>2, SlebSmaller, Digits
    <3>2. Ended(Sleb(v \div Radix))
      BY <1>5, <3>1
    <3>3. Sleb(v) = <<(v % Radix) + Radix>> \o Sleb(v \div Radix)
      BY <1>4, <2>2
    <3>4. Ended(<<(v % Radix) + Radix>> \o Sleb(v \div Radix))
      BY <2>0, <3>2, DigitInFront, Zenon DEF Fronted
    <3> QED BY <3>3, <3>4
  <2> QED BY <2>1, <2>2
<1>6. n \in S
  <2>1. mu \in [Int -> Nat]
    BY SlebSmaller
  <2> HIDE DEF S, mu
  <2> QED BY <1>5, <2>1, Descent
<1> QED BY <1>4, <1>6

\* The parts of an encoding of more than one byte.
LEMMA SlebRest ==
  ASSUME NEW v \in Int, ~Settled(v)
  PROVE  /\ v \div Radix \in Int /\ Ended(Sleb(v \div Radix))
         /\ Fronted(v % Radix, Sleb(v \div Radix), Sleb(v))
         /\ Sleb(v) = <<(v % Radix) + Radix>> \o Sleb(v \div Radix)
<1>1. v \div Radix \in Int /\ v % Radix \in 0 .. Radix - 1
  BY Digits
<1>2. Ended(Sleb(v \div Radix)) /\ Sleb(v) = <<(v % Radix) + Radix>> \o Sleb(v \div Radix)
  BY <1>1, SlebIs, Zenon
<1>3. Fronted(v % Radix, Sleb(v \div Radix), <<(v % Radix) + Radix>> \o Sleb(v \div Radix))
  BY <1>1, <1>2, DigitInFront, Zenon
<1> QED BY <1>1, <1>2, <1>3, Zenon

\* The last byte of a signed encoding, read.
LEMMA SlebOne ==
  ASSUME NEW v \in Int, Settled(v)
  PROVE  /\ Sleb(v) = <<v % Radix>> /\ Len(Sleb(v)) = 1 /\ v % Radix \in 0 .. Radix - 1
         /\ Sign(v % Radix) => v < 0 /\ v % Radix = v + Power[1]
         /\ ~Sign(v % Radix) => v >= 0 /\ v % Radix = v
<1>1. Sleb(v) = <<v % Radix>>
  BY SlebIs, Zenon
<1>2. Power[1] = Radix
  <2>1. Power[0 + 1] = Radix * Power[0] /\ Power[0] = 1
    BY PowerIs
  <2> QED BY <2>1, RadixAssumption
<1>3. Len(Sleb(v)) = 1
  BY <1>1
<1> DEFINE d == v % Radix
           q == v \div Radix
<1>4. d \in 0 .. Radix - 1 /\ q \in Int /\ v = Radix * q + d /\ q = IF Sign(d) THEN -1 ELSE 0
  BY Digits DEF Settled
<1> HIDE DEF d, q
<1>5. Sign(d) => v < 0 /\ d = v + Radix
  BY <1>4, RadixAssumption
<1>6. ~Sign(d) => v >= 0 /\ d = v
  BY <1>4, RadixAssumption
<1> QED BY <1>1, <1>2, <1>3, <1>4, <1>5, <1>6 DEF d

\* The last byte of an encoding tells the sign of the number.
LEMMA SlebSign ==
  ASSUME NEW v \in Int
  PROVE  Sign(Sleb(v)[Len(Sleb(v))]) <=> v < 0
<1> DEFINE S == {u \in Int : Sign(Sleb(u)[Len(Sleb(u))]) <=> u < 0}
           mu == [u \in Int |-> Magnitude(u)]
<1>1. ASSUME NEW u \in Int, \A m \in Int : mu[m] < mu[u] => m \in S PROVE u \in S
  <2>1. CASE Settled(u)
    <3>1. Sleb(u)[Len(Sleb(u))] = u % Radix
      <4>1. Sleb(u) = <<u % Radix>> /\ Len(Sleb(u)) = 1
        BY <2>1, SlebOne
      <4>2. <<u % Radix>>[1] = u % Radix
        OBVIOUS
      <4> QED BY <4>1, <4>2, Zenon
    <3>2. Sign(u % Radix) <=> u < 0
      BY <2>1, SlebOne
    <3> QED BY <3>1, <3>2
  <2>2. CASE ~Settled(u)
    <3> DEFINE q == u \div Radix
    <3>1. q \in Int /\ mu[q] < mu[u]
      BY <2>2, SlebSmaller, Digits
    <3>2. Sign(Sleb(q)[Len(Sleb(q))]) <=> q < 0
      BY <1>1, <3>1
    <3>3. Fronted(u % Radix, Sleb(q), Sleb(u)) /\ Ended(Sleb(q))
      BY <2>2, SlebRest
    <3>4. Sleb(u)[Len(Sleb(u))] = Sleb(q)[Len(Sleb(q))]
      BY <3>3, EndedBytes DEF Fronted
    <3>5. q < 0 <=> u < 0
      BY QuotientSmaller, RadixAssumption
    <3> HIDE DEF q
    <3> QED BY <3>2, <3>4, <3>5
  <2> QED BY <2>1, <2>2
<1>2. mu \in [Int -> Nat]
  BY SlebSmaller
<1>3. v \in S
  <2> HIDE DEF S, mu
  <2> QED BY <1>1, <1>2, Descent
<1> QED BY <1>3

\* The digits of a negative number are those of the number plus a power.
Wrapped(v) == v + IF v < 0 THEN Power[Len(Sleb(v))] ELSE 0

\* dyld reads the digits that _sleb128 wrote.
LEMMA SlebDigits ==
  ASSUME NEW v \in Int, NEW s, NEW p, Placed(s, p, Sleb(v))
  PROVE  ReadUleb(s, p) = Wrapped(v)
<1> DEFINE S == {u \in Int : \A i \in Nat :
  Placed(s, i, Sleb(u)) => ReadUleb(s, i) = Wrapped(u)}
           mu == [u \in Int |-> Magnitude(u)]
<1>1. ASSUME NEW u \in Int, \A m \in Int : mu[m] < mu[u] => m \in S PROVE u \in S
  <2> SUFFICES ASSUME NEW i \in Nat, Placed(s, i, Sleb(u)) PROVE ReadUleb(s, i) = Wrapped(u)
    OBVIOUS
  <2>1. CASE Settled(u)
    <3>1. Placed(s, i, <<u % Radix>>) /\ u % Radix \in 0 .. Radix - 1
      BY <2>1, SlebOne
    <3>2. ReadUleb(s, i) = u % Radix
      BY <3>1, PlacedOne
    <3>3. Len(Sleb(u)) = 1 /\ Power[1] \in Nat
      <4>1. Power[1] \in Nat
        BY PowerIs
      <4> QED BY <2>1, <4>1, SlebOne
    <3>4. CASE Sign(u % Radix)
      <4>1. u < 0 /\ u % Radix = u + Power[1]
        BY <2>1, <3>4, SlebOne
      <4> QED BY <3>2, <3>3, <4>1 DEF Wrapped
    <3>5. CASE ~Sign(u % Radix)
      <4>1. u >= 0 /\ u % Radix = u
        BY <2>1, <3>5, SlebOne
      <4> QED BY <3>2, <4>1 DEF Wrapped
    <3> QED BY <3>4, <3>5
  <2>2. CASE ~Settled(u)
    <3> DEFINE q == u \div Radix
               d == u % Radix
    <3>1. q \in Int /\ d \in 0 .. Radix - 1 /\ u = Radix * q + d
      BY Digits
    <3>2. mu[q] < mu[u]
      BY <2>2, <3>1, SlebSmaller
    <3>3. Fronted(d, Sleb(q), Sleb(u)) /\ Ended(Sleb(q)) /\ Sleb(u) = <<d + Radix>> \o Sleb(q)
      BY <2>2, SlebRest
    <3>4. q < 0 <=> u < 0
      BY QuotientSmaller, RadixAssumption
    <3> HIDE DEF q, d
    <3>5. Placed(s, i + 1, Sleb(q)) /\ ReadUleb(s, i) = d + Radix * ReadUleb(s, i + 1)
      <4>1. Placed(s, i, <<d + Radix>> \o Sleb(q))
        BY <3>3, Zenon
      <4> QED BY <3>1, <3>3, <4>1, PlacedRest, ZenonT(40)
    <3>6. ReadUleb(s, i + 1) = Wrapped(q)
      BY <1>1, <3>1, <3>2, <3>5
    <3>7. CASE u < 0
      <4> DEFINE l == Len(Sleb(q))
      <4>1. l \in Nat /\ Len(Sleb(u)) = l + 1
        BY <3>3, EndedBytes DEF Fronted
      <4>2. Wrapped(q) = q + Power[l] /\ Wrapped(u) = u + Power[l + 1]
        BY <3>4, <3>7, <4>1 DEF Wrapped
      <4> HIDE DEF l
      <4>3. Power[l + 1] = Radix * Power[l] /\ Power[l] \in Int
        <5>1. Power[l + 1] = Radix * Power[l] /\ Power[l] \in Nat \ {0}
          BY <4>1, PowerIs, Zenon
        <5> QED BY <5>1
      <4>4. \A x \in Int : Radix * (q + x) = Radix * q + Radix * x /\ Radix * x \in Int
            /\ Radix * q \in Int
        BY <3>1, RadixAssumption
      <4>5. Radix * (q + Power[l]) = Radix * q + Radix * Power[l] /\ Radix * q \in Int
            /\ Radix * Power[l] \in Int
        BY <4>3, <4>4
      <4>6. ReadUleb(s, i) = d + (Radix * q + Radix * Power[l])
        BY <3>5, <3>6, <4>2, <4>5
      <4> QED BY <3>1, <4>2, <4>3, <4>5, <4>6
    <3>8. CASE ~(u < 0)
      <4>1. Wrapped(q) = q /\ Wrapped(u) = u
        BY <3>1, <3>4, <3>8 DEF Wrapped
      <4>2. Radix * q \in Int
        BY <3>1, RadixAssumption
      <4> QED BY <3>1, <3>5, <3>6, <4>1, <4>2
    <3> QED BY <3>7, <3>8
  <2> QED BY <2>1, <2>2
<1>2. mu \in [Int -> Nat]
  BY SlebSmaller
<1>3. v \in S
  <2> HIDE DEF S, mu
  <2> QED BY <1>1, <1>2, Descent
<1>4. p \in Nat
  BY DEF Placed
<1> QED BY <1>3, <1>4

Half(l) == Power[l - 1] \div 2

\* No shorter signed encoding has room for the number.
LEMMA SlebShortest ==
  ASSUME NEW v \in Int
  PROVE  Len(Sleb(v)) > 1 => v \notin -Half(Len(Sleb(v))) .. Half(Len(Sleb(v))) - 1
<1> DEFINE Out(u) == u \notin -Half(Len(Sleb(u))) .. Half(Len(Sleb(u))) - 1
           S == {u \in Int : Len(Sleb(u)) > 1 => Out(u)}
           mu == [u \in Int |-> Magnitude(u)]
<1>0. PICK h \in Nat : h >= 1 /\ Radix = 2 * h /\ Radix \div 2 = h
  BY HalfRadix
<1>h. ASSUME NEW l \in Nat PROVE Half(l + 2) = h * Power[l] /\ Power[l] \in Nat \ {0}
  <2>1. Power[l + 1] = Radix * Power[l] /\ Power[l] \in Nat \ {0} /\ (l + 2) - 1 = l + 1
    BY PowerIs
  <2>2. \A x \in Nat : (Radix * x) \div 2 = h * x
    BY <1>0
  <2> QED BY <2>1, <2>2 DEF Half
<1>1. ASSUME NEW u \in Int, \A m \in Int : mu[m] < mu[u] => m \in S PROVE u \in S
  <2> SUFFICES ASSUME Len(Sleb(u)) > 1 PROVE Out(u)
    OBVIOUS
  <2>1. ~Settled(u)
    <3>1. Settled(u) => Len(Sleb(u)) = 1
      BY SlebOne
    <3>2. ~(1 > 1)
      OBVIOUS
    <3> QED BY <3>1, <3>2, Zenon
  <2> DEFINE q == u \div Radix
             d == u % Radix
  <2>2. q \in Int /\ d \in 0 .. Radix - 1 /\ u = Radix * q + d
    BY Digits
  <2>3. mu[q] < mu[u]
    BY <2>1, <2>2, SlebSmaller
  <2>4. q # IF Sign(d) THEN -1 ELSE 0
    BY <2>1 DEF Settled
  <2>5. Fronted(d, Sleb(q), Sleb(u)) /\ Ended(Sleb(q))
    BY <2>1, SlebRest
  <2> HIDE DEF q, d
  <2> DEFINE l == Len(Sleb(q))
  <2>6. l \in Nat \ {0} /\ Len(Sleb(u)) = l + 1
    BY <2>5, EndedBytes DEF Fronted
  <2>7. q \in S
    BY <1>1, <2>2, <2>3
  <2>8. CASE l = 1
    <3>1. Half(Len(Sleb(u))) = h
      <4>1. Half(0 + 2) = h * Power[0] /\ Power[0] = 1
        BY <1>h, PowerIs
      <4> QED BY <1>0, <2>6, <2>8, <4>1
    <3>2. d % Radix = d
      BY <2>2, RadixAssumption
    <3>3. Sign(d) <=> d >= h
      BY <1>0, <3>2 DEF Sign
    <3>4. u \notin -h .. h - 1
      <4> SUFFICES ASSUME u \in -h .. h - 1 PROVE FALSE
        OBVIOUS
      <4>1. CASE u >= 0
        <5>1. q = 0 /\ d = u
          BY <1>0, <2>2, <4>1
        <5> QED BY <1>0, <2>4, <3>3, <5>1
      <4>2. CASE u < 0
        <5>1. q = -1 /\ d = u + Radix
          BY <1>0, <2>2, <4>2
        <5> QED BY <1>0, <2>4, <3>3, <5>1
      <4> QED BY <4>1, <4>2
    <3> QED BY <3>1, <3>4
  <2>9. CASE l # 1
    <3>1. Len(Sleb(q)) > 1 /\ Out(q)
      <4>1. \A x \in Nat \ {0} : x # 1 => x > 1
        OBVIOUS
      <4>2. Len(Sleb(q)) > 1
        BY <2>6, <2>9, <4>1
      <4> QED BY <2>7, <4>2, Zenon
    <3> DEFINE k == l - 2
    <3>2. k \in Nat /\ l = k + 2 /\ l + 1 = (k + 1) + 2
      <4>1. \A x \in Nat \ {0} : x # 1 => x - 2 \in Nat /\ x = (x - 2) + 2
            /\ x + 1 = ((x - 2) + 1) + 2
        OBVIOUS
      <4> HIDE DEF l
      <4> QED BY <2>6, <2>9, <4>1
    <3> HIDE DEF l, k
    <3> DEFINE x == h * Power[k]
    <3>3. Half(l) = x /\ Half(l + 1) = h * Power[k + 1] /\ Power[k + 1] = Radix * Power[k]
          /\ Power[k] \in Nat
      <4>1. Half(l) = x /\ Half(l + 1) = h * Power[k + 1]
        <5>1. k + 1 \in Nat
          BY <3>2
        <5> QED BY <1>h, <3>2, <5>1, Zenon
      <4>2. Power[k + 1] = Radix * Power[k] /\ Power[k] \in Nat \ {0}
        BY <3>2, PowerIs, Zenon
      <4> QED BY <4>1, <4>2
    <3>4. x \in Nat /\ Half(l + 1) = Radix * x
      <4>1. \A y \in Nat : h * y \in Nat /\ h * (Radix * y) = Radix * (h * y)
        BY <1>0
      <4> QED BY <3>3, <4>1
    <3> HIDE DEF x
    <3>5. q \notin -x .. x - 1
      BY <3>1, <3>3 DEF l
    <3>6. u \notin -(Radix * x) .. Radix * x - 1
      <4>1. \A y, z \in Int : y >= z => Radix * y >= Radix * z
        BY RadixAssumption
      <4>2. \A y \in Int : Radix * y \in Int /\ Radix * (-y) = -(Radix * y)
            /\ Radix * (y - 1) = Radix * y - Radix
        BY RadixAssumption
      <4>3. CASE q >= x
        <5>1. Radix * q >= Radix * x /\ Radix * q \in Int /\ Radix * x \in Int
          BY <2>2, <3>4, <4>1, <4>2, <4>3
        <5> QED BY <2>2, <5>1
      <4>4. CASE -x - 1 >= q
        <5>1. Radix * (-x - 1) >= Radix * q
          BY <2>2, <3>4, <4>1, <4>4
        <5>2. Radix * (-x - 1) = -(Radix * x) - Radix /\ Radix * x \in Int /\ Radix * q \in Int
          BY <2>2, <3>4, <4>2
        <5> QED BY <2>2, <5>1, <5>2, RadixAssumption
      <4> QED BY <2>2, <3>4, <3>5, <4>3, <4>4
    <3> QED BY <2>6, <3>4, <3>6 DEF l
  <2> QED BY <2>8, <2>9
<1>2. mu \in [Int -> Nat]
  BY SlebSmaller
<1>3. v \in S
  <2> HIDE DEF Out, S, mu
  <2>1. \A u \in Int : (\A m \in Int : mu[m] < mu[u] => m \in S) => u \in S
    BY <1>1
  <2> QED BY <1>2, <2>1, Descent
<1> QED BY <1>3

\* An encoding in front of other bytes is where its first byte is.
LEMMA PlacedInFront ==
  ASSUME NEW b, Ended(b), NEW r \in Seq(Nat)
  PROVE  Placed(b \o r, 1, b)
<1>1. b \in Seq(Nat) /\ Len(b) \in Nat /\ Len(b) >= 1
  <2>1. b \in Seq(0 .. 2 * Radix - 1) /\ Len(b) >= 1
    BY DEF Ended, Stream
  <2>2. Len(b) \in Nat /\ DOMAIN b = 1 .. Len(b) /\ b = [i \in 1 .. Len(b) |-> b[i]]
    BY <2>1
  <2>3. \A k \in 1 .. Len(b) : b[k] \in Nat
    BY EndedBytes
  <2>4. b \in [1 .. Len(b) -> Nat]
    BY <2>2, <2>3, Zenon
  <2> QED BY <2>1, <2>2, <2>4, FunctionIsSeq
<1> DEFINE s == b \o r
<1>2. /\ s \in Seq(Nat) /\ Len(s) = Len(b) + Len(r) /\ Len(r) \in Nat
      /\ \A i \in 1 .. Len(b) : s[i] = b[i]
  BY <1>1, Concatenation
<1> HIDE DEF s
<1>3. \A q \in 1 .. Len(b) : s[1 + q - 1] = b[q]
  <2> TAKE q \in 1 .. Len(b)
  <2>1. 1 + q - 1 = q
    OBVIOUS
  <2> QED BY <1>2, <2>1
<1>4. Placed(s, 1, b)
  BY <1>1, <1>2, <1>3 DEF Placed
<1> QED BY <1>4 DEF s

\* Behind is a stream.
LEMMA BehindBytes == Behind \in Seq(Nat)
BY RadixAssumption DEF Behind

\* dyld reads an unsigned number back, and the encoding is the shortest.
LEMMA UlebIsReadBack ==
  ASSUME NEW n \in Nat
  PROVE  UlebReadBack(n)
<1> DEFINE s == Uleb(n) \o Behind
<1>1. Ended(Uleb(n)) /\ Placed(s, 1, Uleb(n))
  BY UlebIs, PlacedInFront, BehindBytes
<1>2. Len(Uleb(n)) \in Nat
  BY UlebLength
<1> HIDE DEF s
<1>3. ReadUleb(s, 1) = n
  BY <1>1, UlebReads
<1>4. LastByte(s, 1) = Len(Uleb(n))
  <2>1. LastByte(s, 1) = 1 + Len(Uleb(n)) - 1
    BY <1>1, LastByteIs
  <2> QED BY <1>2, <2>1
<1> QED BY <1>3, <1>4, UlebShortest DEF UlebReadBack, s

\* dyld reads a signed number back, and the encoding is the shortest.
LEMMA SlebIsReadBack ==
  ASSUME NEW n \in Int
  PROVE  SlebReadBack(n)
<1> DEFINE b == Sleb(n)
           s == b \o Behind
<1>1. Ended(b)
  BY SlebIs
<1>2. Placed(s, 1, b)
  BY <1>1, PlacedInFront, BehindBytes
<1>3. Len(b) \in Nat \ {0} /\ Power[Len(b)] \in Nat \ {0}
  <2>1. Len(b) \in Nat \ {0}
    BY <1>1, EndedBytes
  <2> HIDE DEF b
  <2> QED BY <2>1, PowerIs
<1>4. ReadUleb(s, 1) = Wrapped(n)
  <2> HIDE DEF s
  <2> QED BY <1>2, SlebDigits
<1>5. Sign(b[Len(b)]) <=> n < 0
  BY SlebSign
<1>6. Wrapped(n) = n + IF n < 0 THEN Power[Len(b)] ELSE 0
  BY DEF Wrapped
<1>7. Len(b) > 1 => n \notin -Half(Len(b)) .. Half(Len(b)) - 1
  BY SlebShortest
<1> HIDE DEF b
<1>8. LastByte(s, 1) = Len(b)
  <2>1. LastByte(s, 1) = 1 + Len(b) - 1
    <3> HIDE DEF s
    <3> QED BY <1>1, <1>2, LastByteIs
  <2> HIDE DEF s
  <2> QED BY <1>3, <2>1
<1>9. s[Len(b)] = b[Len(b)]
  <2> HIDE DEF s
  <2>1. Len(b) \in 1 .. Len(b) /\ 1 + Len(b) - 1 = Len(b)
    BY <1>3
  <2>2. s[1 + Len(b) - 1] = b[Len(b)]
    BY <1>2, <2>1 DEF Placed
  <2> QED BY <2>1, <2>2
<1> HIDE DEF s
<1>10. ReadSleb(s, 1) = n
  <2>1. ReadSleb(s, 1) = ReadUleb(s, 1) - IF Sign(b[Len(b)]) THEN Power[Len(b) - 1 + 1] ELSE 0
    BY <1>8, <1>9, Zenon DEF ReadSleb
  <2>2. Len(b) - 1 + 1 = Len(b)
    BY <1>3
  <2>3. CASE n < 0
    BY <1>3, <1>4, <1>5, <1>6, <2>1, <2>2, <2>3
  <2>4. CASE ~(n < 0)
    BY <1>4, <1>5, <1>6, <2>1, <2>4
  <2> QED BY <2>3, <2>4
<1>11. QED BY <1>7, <1>8, <1>10, Zenon DEF SlebReadBack, Half, b, s

-----------------------------------------------------------------------------
(* The order of the nodes.                                                 *)

\* Character k parts m from n, or m ends there.
Parts(m, n, k) == /\ k \in 1 .. Len(n) /\ k <= Len(m) + 1
                  /\ \A j \in 1 .. k - 1 : m[j] = n[j]
                  /\ k = Len(m) + 1 \/ m[k] < n[k]

\* Prefixes, character by character.
LEMMA PrefixByCharacter ==
  ASSUME NEW U, NEW m \in Seq(U), NEW n \in Seq(U)
  PROVE  IsPrefix(m, n) <=> Len(m) <= Len(n) /\ \A j \in 1 .. Len(m) : m[j] = n[j]
<1>1. CASE Len(m) <= Len(n)
  <2> DEFINE a == SubSeq(m, 1, Len(m))
             b == SubSeq(n, 1, Len(m))
  <2>1. a = m
    OBVIOUS
  <2>2. b \in Seq(U) /\ Len(b) = Len(m) /\ \A j \in 1 .. Len(m) : b[j] = n[j]
    BY <1>1
  <2> HIDE DEF a, b
  <2>3. m = b <=> \A j \in 1 .. Len(m) : m[j] = n[j]
    BY <2>2
  <2> QED BY <1>1, <2>1, <2>3 DEF IsPrefix, a, b
<1>2. CASE ~(Len(m) <= Len(n))
  BY <1>2 DEF IsPrefix
<1> QED BY <1>1, <1>2

\* Two sequences with the same characters are the same.
LEMMA SeqEqual ==
  ASSUME NEW U, NEW m \in Seq(U), NEW n \in Seq(U), Len(m) = Len(n),
         \A j \in 1 .. Len(m) : m[j] = n[j]
  PROVE  m = n
OBVIOUS

\* One node is before another when a character parts them.
LEMMA BeforeIs ==
  ASSUME NEW m \in Seq(Nat), NEW n \in Seq(Nat)
  PROVE  Before(m, n) <=> \E k : Parts(m, n, k)
<1>1. Len(m) \in Nat /\ Len(n) \in Nat
  OBVIOUS
<1>2. IsStrictPrefix(m, n) <=> Parts(m, n, Len(m) + 1)
  <2>1. m = n => Len(m) = Len(n)
    OBVIOUS
  <2>2. Len(m) = Len(n) /\ (\A j \in 1 .. Len(m) : m[j] = n[j]) => m = n
    OBVIOUS
  <2>3. (Len(m) + 1) - 1 = Len(m)
    BY <1>1
  <2>4. Parts(m, n, Len(m) + 1) <=> Len(m) + 1 <= Len(n) /\ \A j \in 1 .. Len(m) : m[j] = n[j]
    BY <1>1, <2>3 DEF Parts
  <2>5. IsPrefix(m, n) <=> Len(m) <= Len(n) /\ \A j \in 1 .. Len(m) : m[j] = n[j]
    BY PrefixByCharacter
  <2>6. Len(m) + 1 <= Len(n) <=> Len(m) <= Len(n) /\ Len(m) # Len(n)
    BY <1>1
  <2>7. IsStrictPrefix(m, n) <=> IsPrefix(m, n) /\ m # n
    BY DEF IsStrictPrefix
  <2> QED BY <2>1, <2>2, <2>4, <2>5, <2>6, <2>7, Zenon
<1>3. ASSUME NEW k PROVE Parts(m, n, k) <=> \/ k = Len(m) + 1 /\ Parts(m, n, Len(m) + 1)
                                            \/ /\ k \in 1 .. Len(m) /\ k <= Len(n)
                                               /\ m[k] < n[k]
                                               /\ \A j \in 1 .. k - 1 : m[j] = n[j]
  BY <1>1, SMTT(30) DEF Parts
<1> QED BY <1>2, <1>3 DEF Before

\* The order of the nodes is transitive,
LEMMA BeforeTransitive ==
  ASSUME NEW m \in Seq(Nat), NEW n \in Seq(Nat), NEW o \in Seq(Nat), Before(m, n), Before(n, o)
  PROVE  Before(m, o)
<1>1. PICK k : Parts(m, n, k)
  BY BeforeIs
<1>2. PICK l : Parts(n, o, l)
  BY BeforeIs
<1>3. /\ Len(m) \in Nat /\ Len(n) \in Nat /\ Len(o) \in Nat
      /\ \A j \in 1 .. Len(m) : m[j] \in Nat
      /\ \A j \in 1 .. Len(n) : n[j] \in Nat
      /\ \A j \in 1 .. Len(o) : o[j] \in Nat
  OBVIOUS
<1>4. CASE k < l
  <2>1. /\ k \in 1 .. Len(o) /\ k <= Len(m) + 1 /\ n[k] = o[k]
        /\ \A j \in 1 .. k - 1 : m[j] = o[j]
    BY <1>1, <1>2, <1>3, <1>4, SMTT(30) DEF Parts
  <2>2. Parts(m, o, k)
    BY <1>1, <2>1 DEF Parts
  <2> QED BY <2>2, BeforeIs
<1>5. CASE k = l
  <2>1. /\ k \in 1 .. Len(o) /\ k <= Len(m) + 1 /\ n[k] < o[k] /\ k <= Len(n)
        /\ \A j \in 1 .. k - 1 : m[j] = o[j]
    BY <1>1, <1>2, <1>3, <1>5 DEF Parts
  <2>2. k # Len(m) + 1 => m[k] < o[k]
    <3> SUFFICES ASSUME k # Len(m) + 1 PROVE m[k] < o[k]
      OBVIOUS
    <3>1. k \in 1 .. Len(m) /\ m[k] < n[k] /\ k \in 1 .. Len(n)
      BY <1>1, <1>3, <2>1 DEF Parts
    <3>2. m[k] \in Nat /\ n[k] \in Nat /\ o[k] \in Nat
      BY <1>3, <2>1, <3>1
    <3>3. \A x, y, z \in Nat : x < y /\ y < z => x < z
      OBVIOUS
    <3> QED BY <2>1, <3>1, <3>2, <3>3, Zenon
  <2>3. Parts(m, o, k)
    BY <2>1, <2>2 DEF Parts
  <2> QED BY <2>3, BeforeIs
<1>6. CASE l < k
  <2>0. /\ k \in 1 .. Len(n) /\ k <= Len(m) + 1 /\ \A j \in 1 .. k - 1 : m[j] = n[j]
        /\ l \in 1 .. Len(o) /\ \A j \in 1 .. l - 1 : n[j] = o[j]
        /\ l = Len(n) + 1 \/ n[l] < o[l]
    BY <1>1, <1>2 DEF Parts
  <2>1. /\ l \in 1 .. Len(o) /\ l <= Len(m) + 1 /\ l <= Len(m) /\ m[l] = n[l] /\ n[l] < o[l]
        /\ \A j \in 1 .. l - 1 : m[j] = o[j]
    <3>1. l \in 1 .. k - 1 /\ l <= Len(m) /\ l <= Len(m) + 1 /\ l # Len(n) + 1
      <4>1. Len(m) \in Nat /\ Len(n) \in Nat /\ Len(o) \in Nat
        BY <1>3, Zenon
      <4>2. k \in 1 .. Len(n) /\ k <= Len(m) + 1 /\ l \in 1 .. Len(o)
        BY <2>0, Zenon
      <4> QED BY <1>6, <4>1, <4>2, SMTT(30)
    <3>2. \A j \in 1 .. l - 1 : j \in 1 .. k - 1
      BY <2>0, <3>1
    <3> QED BY <2>0, <3>1, <3>2
  <2>2. Parts(m, o, l)
    BY <2>1 DEF Parts
  <2> QED BY <2>2, BeforeIs
<1> QED BY <1>1, <1>2, <1>3, <1>4, <1>5, <1>6 DEF Parts

\* irreflexive,
LEMMA BeforeIrreflexive ==
  ASSUME NEW m \in Seq(Nat)
  PROVE  ~Before(m, m)
<1> SUFFICES ASSUME NEW k, Parts(m, m, k) PROVE FALSE
  BY BeforeIs
<1>1. k \in 1 .. Len(m) /\ m[k] < m[k] /\ m[k] \in Nat
  BY DEF Parts
<1> QED BY <1>1

\* and total: visit lists the nodes in one order.
LEMMA BeforeTotal ==
  ASSUME NEW m \in Seq(Nat), NEW n \in Seq(Nat), m # n
  PROVE  Before(m, n) \/ Before(n, m)
<1>1. /\ Len(m) \in Nat /\ Len(n) \in Nat
      /\ \A j \in 1 .. Len(m) : m[j] \in Nat
      /\ \A j \in 1 .. Len(n) : n[j] \in Nat
  OBVIOUS
<1> DEFINE T == {k \in Nat : /\ k >= 1 /\ k <= Len(m) + 1 /\ k <= Len(n) + 1
                             /\ k = Len(m) + 1 \/ k = Len(n) + 1 \/ m[k] # n[k]}
<1>2. T # {}
  <2>1. CASE Len(m) <= Len(n)
    <3>1. Len(m) + 1 \in T
      BY <1>1, <2>1
    <3> QED BY <3>1
  <2>2. CASE ~(Len(m) <= Len(n))
    <3>1. Len(n) + 1 \in T
      BY <1>1, <2>2
    <3> QED BY <3>1
  <2> QED BY <2>1, <2>2
<1>3. PICK k \in T : \A y \in T : k <= y
  <2>1. T \in SUBSET Nat
    OBVIOUS
  <2> HIDE DEF T
  <2> QED BY <1>2, <2>1, LeastExists
<1>4. \A j \in 1 .. k - 1 : m[j] = n[j]
  <2> SUFFICES ASSUME NEW j \in 1 .. k - 1, m[j] # n[j] PROVE FALSE
    OBVIOUS
  <2>1. j \in T
    BY <1>1, SMTT(30)
  <2> QED BY <1>3, <2>1
<1>5. /\ k \in Nat \ {0} /\ k <= Len(m) + 1 /\ k <= Len(n) + 1
      /\ k = Len(m) + 1 \/ k = Len(n) + 1 \/ m[k] # n[k]
  OBVIOUS
<1> HIDE DEF T
<1>6. CASE k = Len(m) + 1 /\ k = Len(n) + 1
  <2>1. Len(m) = Len(n) /\ \A j \in 1 .. Len(m) : m[j] = n[j]
    BY <1>1, <1>4, <1>6
  <2>2. m = n
    BY <2>1, SeqEqual
  <2> QED BY <2>2
<1>7. CASE k = Len(m) + 1 /\ k # Len(n) + 1
  <2>1. Parts(m, n, k)
    BY <1>1, <1>4, <1>5, <1>7 DEF Parts
  <2> QED BY <2>1, BeforeIs
<1>8. CASE k # Len(m) + 1 /\ k = Len(n) + 1
  <2>1. \A j \in 1 .. k - 1 : n[j] = m[j]
    BY <1>4
  <2>2. Parts(n, m, k)
    BY <1>1, <1>5, <1>8, <2>1 DEF Parts
  <2> QED BY <2>2, BeforeIs
<1>9. CASE k # Len(m) + 1 /\ k # Len(n) + 1
  <2>1. k \in 1 .. Len(m) /\ k \in 1 .. Len(n) /\ m[k] # n[k]
    BY <1>1, <1>5, <1>9, SMTT(30)
  <2>2. m[k] < n[k] \/ n[k] < m[k]
    BY <1>1, <2>1
  <2>3. \A j \in 1 .. k - 1 : n[j] = m[j]
    BY <1>4
  <2>4. m[k] < n[k] => Parts(m, n, k)
    BY <1>4, <1>5, <2>1 DEF Parts
  <2>5. n[k] < m[k] => Parts(n, m, k)
    BY <1>5, <2>1, <2>3 DEF Parts
  <2> QED BY <2>2, <2>4, <2>5, BeforeIs
<1> QED BY <1>6, <1>7, <1>8, <1>9

\* The elements of S before n.
Earlier(S, n) == {m \in S : Before(m, n)}

\* A set of nodes in order.
LEMMA InOrderIs ==
  ASSUME NEW S \in SUBSET Seq(Nat), IsFiniteSet(S)
  PROVE  /\ Cardinality(S) \in Nat /\ InOrder(S) \in [1 .. Cardinality(S) -> S]
         /\ \A i, j \in 1 .. Cardinality(S) : i < j => Before(InOrder(S)[i], InOrder(S)[j])
         /\ \A n \in S : \E i \in 1 .. Cardinality(S) : InOrder(S)[i] = n
<1> DEFINE c == Cardinality(S)
           rank == [n \in S |-> Cardinality(Earlier(S, n)) + 1]
<1>1. c \in Nat
  BY FS_CardinalityType
<1>2. \A n \in S : IsFiniteSet(Earlier(S, n)) /\ Earlier(S, n) \in SUBSET S
      /\ n \notin Earlier(S, n)
  <2> TAKE n \in S
  <2>1. Earlier(S, n) \in SUBSET S
    BY DEF Earlier
  <2>2. ~Before(n, n)
    BY BeforeIrreflexive
  <2> QED BY <2>1, <2>2, FS_Subset DEF Earlier
<1>3. \A n \in S : rank[n] \in 1 .. c
  <2> TAKE n \in S
  <2>1. IsFiniteSet(Earlier(S, n)) /\ Earlier(S, n) \in SUBSET S /\ n \notin Earlier(S, n)
    BY <1>2
  <2>2. Cardinality(Earlier(S, n)) \in Nat /\ Cardinality(Earlier(S, n)) <= c
    BY <2>1, FS_Subset, FS_CardinalityType
  <2>3. Cardinality(Earlier(S, n)) # c
    BY <2>1, FS_Subset
  <2> QED BY <1>1, <2>2, <2>3
<1>4. ASSUME NEW m \in S, NEW n \in S, Before(m, n) PROVE rank[m] < rank[n]
  <2> DEFINE A == Earlier(S, m)
             B == Earlier(S, n)
  <2>1. \A x \in A : x \in S /\ Before(x, n)
    <3> TAKE x \in A
    <3>1. x \in S /\ Before(x, m)
      BY DEF Earlier
    <3> QED BY <1>4, <3>1, BeforeTransitive
  <2>2. A \in SUBSET B /\ m \in B /\ m \notin A
    BY <1>2, <1>4, <2>1 DEF Earlier
  <2>3. IsFiniteSet(B) /\ IsFiniteSet(A)
    BY <1>2
  <2> HIDE DEF A, B
  <2>4. Cardinality(A) <= Cardinality(B) /\ Cardinality(A) # Cardinality(B)
    BY <2>2, <2>3, FS_Subset
  <2>5. Cardinality(A) \in Nat /\ Cardinality(B) \in Nat
    BY <2>3, FS_CardinalityType
  <2>6. rank[m] = Cardinality(A) + 1 /\ rank[n] = Cardinality(B) + 1
    BY DEF A, B
  <2> QED BY <2>4, <2>5, <2>6
<1>rank. \A n \in S : rank[n] = Cardinality(Earlier(S, n)) + 1
  OBVIOUS
<1>fun. rank \in [S -> 1 .. c]
  BY <1>3
<1> HIDE DEF rank
<1>5. \A m, n \in S : rank[m] = rank[n] => m = n
  <2> TAKE m, n \in S
  <2> HAVE rank[m] = rank[n]
  <2>1. rank[m] \in Nat /\ rank[n] \in Nat
    BY <1>1, <1>3
  <2>2. ~(rank[m] < rank[n]) /\ ~(rank[n] < rank[m])
    BY <2>1
  <2> QED BY <1>4, <2>2, BeforeTotal
<1>6. \A k \in 1 .. c : \E n \in S : rank[n] = k
  <2>1. rank \in Injection(S, 1 .. c)
    BY <1>5, <1>fun DEF Injection, IsInjective
  <2>2. IsFiniteSet(1 .. c) /\ Cardinality(1 .. c) = c
    BY <1>1, FS_Interval
  <2>3. rank \in Surjection(S, 1 .. c)
    BY <2>1, <2>2, FS_Injection
  <2> QED BY <2>3 DEF Surjection
<1> DEFINE f == InOrder(S)
<1>7. \A k \in 1 .. c : f[k] \in S /\ rank[f[k]] = k
  <2> TAKE k \in 1 .. c
  <2>1. f[k] = CHOOSE n \in S : Cardinality(Earlier(S, n)) = k - 1
    BY DEF InOrder, Earlier
  <2>2. PICK n \in S : rank[n] = k
    BY <1>6
  <2>3. \A x \in S : Cardinality(Earlier(S, x)) \in Nat
    BY <1>2, FS_CardinalityType
  <2>4. \A x \in S : Cardinality(Earlier(S, x)) = k - 1 <=> rank[x] = k
    BY <1>rank, <2>3
  <2> HIDE DEF f
  <2>5. f[k] \in S /\ Cardinality(Earlier(S, f[k])) = k - 1
    BY <2>1, <2>2, <2>4, Zenon
  <2> QED BY <2>4, <2>5
<1>8. f \in [1 .. c -> S]
  <2> DEFINE F(k) == CHOOSE n \in S : Cardinality({m \in S : Before(m, n)}) = k - 1
  <2>1. f = [k \in 1 .. c |-> F(k)]
    BY Zenon DEF InOrder
  <2> HIDE DEF f, F
  <2> QED BY <1>7, <2>1
<1> HIDE DEF f
<1>9. ASSUME NEW i \in 1 .. c, NEW j \in 1 .. c, i < j PROVE Before(f[i], f[j])
  <2>1. f[i] \in S /\ f[j] \in S /\ rank[f[i]] = i /\ rank[f[j]] = j
    BY <1>7
  <2>2. f[i] # f[j]
    BY <1>9, <2>1
  <2>3. ~(rank[f[j]] < rank[f[i]])
    BY <1>9, <2>1
  <2> QED BY <1>4, <2>1, <2>2, <2>3, BeforeTotal
<1>10. ASSUME NEW n \in S PROVE \E i \in 1 .. c : f[i] = n
  <2>1. rank[n] \in 1 .. c
    BY <1>3
  <2>2. f[rank[n]] \in S /\ rank[f[rank[n]]] = rank[n]
    BY <1>7, <2>1
  <2> QED BY <1>5, <2>1, <2>2
<1> QED BY <1>1, <1>8, <1>9, <1>10 DEF f

\* Each node is there once.
LEMMA InOrderOnce ==
  ASSUME NEW S \in SUBSET Seq(Nat), IsFiniteSet(S),
         NEW i \in 1 .. Cardinality(S), NEW j \in 1 .. Cardinality(S),
         InOrder(S)[i] = InOrder(S)[j]
  PROVE  i = j
<1>1. Cardinality(S) \in Nat /\ InOrder(S)[i] \in S /\ InOrder(S)[j] \in S
  BY InOrderIs
<1>2. ~Before(InOrder(S)[i], InOrder(S)[j]) /\ ~Before(InOrder(S)[j], InOrder(S)[i])
  BY <1>1, BeforeIrreflexive
<1>3. ~(i < j) /\ ~(j < i)
  BY <1>2, InOrderIs
<1> QED BY <1>1, <1>3

-----------------------------------------------------------------------------
(* Concatenations.                                                         *)

\* Where each of the first n sequences begins, and where the last one ends.
Starts(seqs, n, at) == /\ at \in [0 .. n -> Nat] /\ at[0] = 0
                       /\ \A i \in 1 .. n : at[i] = at[i - 1] + Len(seqs[i])

\* s holds the first m sequences.
AllThere(seqs, m, at, s) == \A i \in 1 .. m : \A j \in 1 .. Len(seqs[i]) :
  s[at[i - 1] + j] = seqs[i][j]

\* Every sequence of a concatenation is at its place.
LEMMA FlattenPlaces ==
  ASSUME NEW U, NEW n \in Nat, NEW seqs \in [1 .. n -> Seq(U)]
  PROVE  \E at : /\ Starts(seqs, n, at) /\ FlattenSeq(seqs) \in Seq(U)
                 /\ Len(FlattenSeq(seqs)) = at[n] /\ AllThere(seqs, n, at, FlattenSeq(seqs))
<1>0. Len(seqs) = n /\ \A i \in 1 .. n : seqs[i] \in Seq(U) /\ Len(seqs[i]) \in Nat
  OBVIOUS
<1>1. CASE n = 0
  <2>1. FlattenSeq(seqs) = seqs
    BY <1>0, <1>1 DEF FlattenSeq
  <2>2. Starts(seqs, 0, [i \in 0 .. 0 |-> 0])
    BY DEF Starts
  <2>3. seqs \in Seq(U)
    BY <1>1
  <2>4. AllThere(seqs, 0, [i \in 0 .. 0 |-> 0], seqs)
    BY DEF AllThere
  <2> QED BY <1>0, <1>1, <2>1, <2>2, <2>3, <2>4
<1>2. CASE n # 0
  <2>1. PICK f : PrefixIs(seqs, n, f) /\ FlattenSeq(seqs) = f[n]
    BY <1>0, <1>2, FlattenIsPrefix
  <2> DEFINE g == [i \in 0 .. n |-> IF i = 0 THEN <<>> ELSE f[i]]
             at == [i \in 0 .. n |-> Len(g[i])]
  <2>f. \A i \in 1 .. n : f[i] = IF i = 1 THEN seqs[i] ELSE f[i - 1] \o seqs[i]
    BY <2>1 DEF PrefixIs
  <2>2. g[0] = <<>> /\ g[n] = f[n] /\ \A i \in 1 .. n : g[i] = g[i - 1] \o seqs[i]
    <3>1. g[0] = <<>> /\ g[n] = f[n]
      BY <1>2
    <3>2. ASSUME NEW i \in 1 .. n PROVE g[i] = g[i - 1] \o seqs[i]
      <4>1. CASE i = 1
        <5>1. g[i] = seqs[i] /\ g[i - 1] = <<>>
          BY <2>f, <4>1
        <5>2. <<>> \o seqs[i] = seqs[i]
          BY <1>0
        <5> QED BY <5>1, <5>2
      <4>2. CASE i # 1
        <5>1. g[i] = f[i] /\ g[i - 1] = f[i - 1]
          BY <4>2
        <5> HIDE DEF g
        <5> QED BY <2>f, <4>2, <5>1
      <4> QED BY <4>1, <4>2
    <3> QED BY <3>1, <3>2
  <2>at. \A i \in 0 .. n : at[i] = Len(g[i])
    OBVIOUS
  <2>fun. at = [i \in 0 .. n |-> Len(g[i])]
    OBVIOUS
  <2> HIDE DEF g, at
  <2> DEFINE S == {m \in Nat : m <= n => g[m] \in Seq(U) /\ AllThere(seqs, m, at, g[m])}
  <2>3. ASSUME NEW m \in Nat, \A k \in 0 .. m - 1 : k \in S PROVE m \in S
    <3> SUFFICES ASSUME m <= n PROVE g[m] \in Seq(U) /\ AllThere(seqs, m, at, g[m])
      OBVIOUS
    <3>1. CASE m = 0
      <4>1. g[0] \in Seq(U)
        BY <2>2
      <4>2. AllThere(seqs, 0, at, g[0])
        BY DEF AllThere
      <4> QED BY <3>1, <4>1, <4>2
    <3>2. CASE m # 0
      <4>1. m - 1 \in 0 .. m - 1 /\ m - 1 <= n /\ m \in 1 .. n /\ m - 1 \in 0 .. n
        BY <3>2
      <4>2. g[m - 1] \in Seq(U) /\ AllThere(seqs, m - 1, at, g[m - 1])
        BY <2>3, <4>1
      <4>3. g[m] = g[m - 1] \o seqs[m] /\ seqs[m] \in Seq(U)
        BY <1>0, <2>2, <4>1
      <4> DEFINE p == g[m - 1]
                 q == g[m]
      <4>4. /\ q \in Seq(U) /\ \A i \in 1 .. Len(p) : q[i] = p[i]
            /\ \A i \in 1 .. Len(seqs[m]) : q[Len(p) + i] = seqs[m][i]
        <5>1. p \in Seq(U) /\ q = p \o seqs[m]
          BY <4>2, <4>3
        <5> HIDE DEF p, q
        <5>2. /\ p \o seqs[m] \in Seq(U) /\ \A i \in 1 .. Len(p) : (p \o seqs[m])[i] = p[i]
              /\ \A i \in 1 .. Len(seqs[m]) : (p \o seqs[m])[Len(p) + i] = seqs[m][i]
          BY <4>3, <5>1, Concatenation
        <5> QED BY <5>1, <5>2, Zenon
      <4>5. at[m - 1] = Len(p) /\ Len(p) \in Nat
        BY <2>at, <4>1, <4>2
      <4>6. ASSUME NEW i \in 1 .. m, NEW j \in 1 .. Len(seqs[i])
                     PROVE q[at[i - 1] + j] = seqs[i][j]
        <5>1. CASE i = m
          BY <4>4, <4>5, <5>1
        <5>2. CASE i # m
          <6>1. i \in 1 .. m - 1 /\ i - 1 \in 0 .. n /\ i \in 1 .. n
            BY <4>1, <5>2
          <6>2. p[at[i - 1] + j] = seqs[i][j]
            BY <4>2, <6>1 DEF AllThere
          <6>3. at[i - 1] + j \in 1 .. Len(p)
            <7>1. at[i - 1] + j \in Nat \ {0}
              <8>1. i - 1 \in S /\ i - 1 <= n
                BY <2>3, <6>1
              <8>2. at[i - 1] = Len(g[i - 1]) /\ g[i - 1] \in Seq(U)
                BY <2>at, <6>1, <8>1
              <8>3. at[i - 1] \in Nat
                BY <8>2
              <8> QED BY <8>3
            <7> DEFINE T == {k \in Nat : i <= k /\ k <= m - 1 => at[i - 1] + j <= at[k]}
            <7>2. ASSUME NEW k \in Nat, \A l \in 0 .. k - 1 : l \in T PROVE k \in T
              <8> SUFFICES ASSUME i <= k, k <= m - 1 PROVE at[i - 1] + j <= at[k]
                OBVIOUS
              <8>1. k \in 1 .. n /\ k \in S /\ k - 1 \in S /\ k - 1 \in 0 .. n
                    /\ k \in 0 .. n /\ k - 1 <= n
                BY <2>3, <4>1, <6>1
              <8>2. g[k] = g[k - 1] \o seqs[k] /\ g[k - 1] \in Seq(U) /\ seqs[k] \in Seq(U)
                BY <1>0, <2>2, <8>1
              <8>3. Len(g[k]) = Len(g[k - 1]) + Len(seqs[k]) /\ Len(g[k - 1]) \in Nat
                    /\ Len(seqs[k]) \in Nat
                BY <8>2, Concatenation
              <8>4. at[k] = at[k - 1] + Len(seqs[k]) /\ at[k - 1] \in Nat
                BY <2>at, <8>1, <8>3
              <8>5. CASE k = i
                BY <7>1, <8>3, <8>4, <8>5
              <8>6. CASE k # i
                <9>1. k - 1 \in T /\ i <= k - 1 /\ k - 1 <= m - 1
                  BY <6>1, <7>2, <8>6
                <9> QED BY <7>1, <8>3, <8>4, <9>1, SMTT(30)
              <8> QED BY <8>5, <8>6
            <7>3. m - 1 \in T
              <8>1. m - 1 \in Nat
                BY <4>1
              <8> HIDE DEF T
              <8> QED BY <7>2, <8>1, NatDescent
            <7>4. at[i - 1] + j <= at[m - 1]
              BY <4>1, <6>1, <7>3
            <7> QED BY <4>5, <7>1, <7>4
          <6> HIDE DEF p, q
          <6> QED BY <4>4, <6>2, <6>3
        <5> QED BY <5>1, <5>2
      <4> QED BY <4>4, <4>6 DEF AllThere
    <3> QED BY <3>1, <3>2
  <2>4. \A m \in Nat : m \in S
    <3> HIDE DEF S
    <3> QED BY <2>3, NatDescent
  <2>5. \A m \in 0 .. n : g[m] \in Seq(U)
    BY <2>4
  <2>6. AllThere(seqs, n, at, g[n])
    BY <2>4
  <2>7. at \in [0 .. n -> Nat]
    BY <2>5, <2>fun
  <2>8. ASSUME NEW i \in 1 .. n PROVE at[i] = at[i - 1] + Len(seqs[i])
    <3>1. i \in 0 .. n /\ i - 1 \in 0 .. n
      OBVIOUS
    <3>2. g[i] = g[i - 1] \o seqs[i] /\ g[i - 1] \in Seq(U) /\ seqs[i] \in Seq(U)
      BY <1>0, <2>2, <2>5, <3>1
    <3>3. Len(g[i]) = Len(g[i - 1]) + Len(seqs[i])
      BY <3>2, Concatenation
    <3> QED BY <2>at, <3>1, <3>3
  <2>9. Starts(seqs, n, at)
    <3>1. at[0] = 0
      BY <2>2, <2>at
    <3> QED BY <2>7, <2>8, <3>1 DEF Starts
  <2>10. FlattenSeq(seqs) = g[n] /\ at[n] = Len(g[n]) /\ g[n] \in Seq(U)
    BY <2>1, <2>2, <2>5, <2>at
  <2> QED BY <2>6, <2>9, <2>10
<1> QED BY <1>1, <1>2

-----------------------------------------------------------------------------
(* The nodes of a trie.                                                    *)

\* The beginning of a sequence.
LEMMA Beginning ==
  ASSUME NEW U, NEW s \in Seq(U), NEW l \in 0 .. Len(s)
  PROVE  /\ SubSeq(s, 1, l) \in Seq(U) /\ Len(SubSeq(s, 1, l)) = l
         /\ \A j \in 1 .. l : SubSeq(s, 1, l)[j] = s[j]
OBVIOUS

\* The nodes are finitely many, and with a node there are all its beginnings.
LEMMA TrieNodesAre ==
  ASSUME NEW e \in ExportSets
  PROVE  /\ TrieNodes(e) \in SUBSET Seq(Nat) /\ IsFiniteSet(TrieNodes(e))
         /\ <<>> \in TrieNodes(e) /\ DOMAIN e \in SUBSET TrieNodes(e)
         /\ \A n \in TrieNodes(e) : \A k \in 0 .. Len(n) : SubSeq(n, 1, k) \in TrieNodes(e)
<1>1. IsFiniteSet(DOMAIN e) /\ \A s \in DOMAIN e : s \in Seq(Nat)
  BY TrieAssumption
<1>2. \A n \in TrieNodes(e) : n = <<>> \/ \E s \in DOMAIN e : \E l \in 0 .. Len(s) :
        n = SubSeq(s, 1, l)
  BY Zenon DEF TrieNodes, Prefixes
<1>3. <<>> \in TrieNodes(e)
      /\ \A s \in DOMAIN e : \A l \in 0 .. Len(s) : SubSeq(s, 1, l) \in TrieNodes(e)
  <2>1. <<>> \in TrieNodes(e)
    BY DEF TrieNodes
  <2>2. ASSUME NEW s \in DOMAIN e, NEW l \in 0 .. Len(s) PROVE SubSeq(s, 1, l) \in TrieNodes(e)
    <3>1. SubSeq(s, 1, l) \in Prefixes(s)
      BY DEF Prefixes
    <3> QED BY <3>1, Zenon DEF TrieNodes
  <2> QED BY <2>1, <2>2
<1>4. TrieNodes(e) \in SUBSET Seq(Nat)
  <2> SUFFICES ASSUME NEW n \in TrieNodes(e) PROVE n \in Seq(Nat)
    OBVIOUS
  <2>1. CASE n = <<>>
    BY <2>1
  <2>2. CASE n # <<>>
    <3>0. PICK s \in DOMAIN e : \E l \in 0 .. Len(s) : n = SubSeq(s, 1, l)
      BY <1>2, <2>2, Zenon
    <3>1. PICK l \in 0 .. Len(s) : n = SubSeq(s, 1, l)
      BY <3>0, Zenon
    <3> QED BY <1>1, <3>1, Beginning
  <2> QED BY <2>1, <2>2
<1>5. IsFiniteSet(TrieNodes(e))
  <2> DEFINE f == [s \in DOMAIN e |-> Prefixes(s)]
             P == {Prefixes(s) : s \in DOMAIN e}
  <2>1. IsFiniteSet(P)
    <3>1. f \in Surjection(DOMAIN e, P)
      BY DEF Surjection
    <3> HIDE DEF f, P
    <3> QED BY <1>1, <3>1, FS_Surjection
  <2>2. ASSUME NEW s \in DOMAIN e PROVE IsFiniteSet(Prefixes(s))
    <3> DEFINE g == [l \in 0 .. Len(s) |-> SubSeq(s, 1, l)]
    <3>1. g \in Surjection(0 .. Len(s), Prefixes(s))
      BY DEF Surjection, Prefixes
    <3>2. Len(s) \in Nat
      BY <1>1
    <3>3. IsFiniteSet(0 .. Len(s))
      BY <3>2, FS_Interval
    <3> HIDE DEF g
    <3> QED BY <3>1, <3>3, FS_Surjection
  <2>3. \A T \in P : IsFiniteSet(T)
    BY <2>2
  <2>4. TrieNodes(e) = {<<>>} \cup UNION P
    BY DEF TrieNodes
  <2> HIDE DEF P
  <2>5. IsFiniteSet(UNION P) /\ IsFiniteSet({<<>>})
    BY <2>1, <2>3, FS_UNION, FS_Singleton
  <2>6. IsFiniteSet({<<>>} \cup UNION P)
    BY <2>5, FS_Union, Zenon
  <2> QED BY <2>4, <2>6
<1>6. DOMAIN e \in SUBSET TrieNodes(e)
  <2> SUFFICES ASSUME NEW s \in DOMAIN e PROVE s \in TrieNodes(e)
    OBVIOUS
  <2>1. s \in Seq(Nat) /\ Len(s) \in 0 .. Len(s)
    BY <1>1
  <2>2. SubSeq(s, 1, Len(s)) = s
    BY <2>1
  <2> QED BY <1>3, <2>1, <2>2
<1>7. ASSUME NEW n \in TrieNodes(e), NEW k \in 0 .. Len(n)
               PROVE SubSeq(n, 1, k) \in TrieNodes(e)
  <2>1. CASE n = <<>>
    <3>1. SubSeq(n, 1, k) = <<>>
      BY <2>1
    <3> QED BY <1>3, <3>1
  <2>2. CASE n # <<>>
    <3>0. PICK s \in DOMAIN e : \E l \in 0 .. Len(s) : n = SubSeq(s, 1, l)
      BY <1>2, <2>2, Zenon
    <3>1. PICK l \in 0 .. Len(s) : n = SubSeq(s, 1, l)
      BY <3>0, Zenon
    <3>2. s \in Seq(Nat) /\ Len(s) \in Nat
      BY <1>1
    <3>3. /\ n \in Seq(Nat) /\ Len(n) = l /\ \A j \in 1 .. l : n[j] = s[j]
      BY <3>1, <3>2, Beginning
    <3>4. k \in 0 .. Len(s)
      BY <3>2, <3>3
    <3>5. SubSeq(n, 1, k) \in Seq(Nat) /\ Len(SubSeq(n, 1, k)) = k
          /\ \A j \in 1 .. k : SubSeq(n, 1, k)[j] = n[j]
      BY <3>3, Beginning
    <3>6. SubSeq(s, 1, k) \in Seq(Nat) /\ Len(SubSeq(s, 1, k)) = k
          /\ \A j \in 1 .. k : SubSeq(s, 1, k)[j] = s[j]
      BY <3>2, <3>4, Beginning
    <3>7. \A j \in 1 .. k : SubSeq(n, 1, k)[j] = SubSeq(s, 1, k)[j]
      BY <3>3, <3>5, <3>6
    <3>8. SubSeq(n, 1, k) = SubSeq(s, 1, k)
      BY <3>5, <3>6, <3>7, SeqEqual
    <3> QED BY <1>3, <3>4, <3>8
  <2> QED BY <2>1, <2>2
<1> QED BY <1>3, <1>4, <1>5, <1>6, <1>7

-----------------------------------------------------------------------------
(* A node's bytes.                                                         *)

RecordsOf(kids, off) == [c \in DOMAIN kids |-> <<Last(kids[c]), 0>> \o Uleb(off[kids[c]])]

\* The record of a child: its character, a NUL and its offset.
IsRecord(r, kid, n) == /\ r \in Seq(Nat) /\ Len(r) = 2 + Len(Uleb(n)) /\ r[1] = Last(kid)
                       /\ \A j \in 1 .. Len(Uleb(n)) : r[2 + j] = Uleb(n)[j]

\* The bytes of an unsigned encoding.
LEMMA UlebBytes ==
  ASSUME NEW n \in Nat
  PROVE  Uleb(n) \in Seq(Nat) /\ Ended(Uleb(n)) /\ Len(Uleb(n)) \in Nat \ {0}
<1>1. Ended(Uleb(n)) /\ Len(Uleb(n)) \in Nat \ {0}
  BY UlebIs, UlebLength
<1>2. <<>> \in Seq(Nat)
  OBVIOUS
<1>3. Placed(Uleb(n) \o <<>>, 1, Uleb(n))
  BY <1>1, <1>2, PlacedInFront
<1>4. Uleb(n) \in Stream
  BY <1>1 DEF Ended
<1>5. Uleb(n) \o <<>> = Uleb(n)
  BY <1>4 DEF Stream
<1> QED BY <1>1, <1>3, <1>5 DEF Placed

\* Two runs of bytes, one behind the other.
LEMMA BytesJoined ==
  \A x, y \in Seq(Nat) :
    /\ x \o y \in Seq(Nat) /\ Len(x \o y) = Len(x) + Len(y)
    /\ \A i \in 1 .. Len(x) : (x \o y)[i] = x[i]
    /\ \A i \in 1 .. Len(y) : (x \o y)[Len(x) + i] = y[i]
BY Concatenation

\* The records of the children, as encode_node writes them.
LEMMA RecordsAre ==
  ASSUME NEW N \in SUBSET Seq(Nat), NEW kids \in Seq(N), NEW off \in [N -> Nat],
         \A c \in 1 .. Len(kids) : kids[c] # <<>>
  PROVE  /\ RecordsOf(kids, off) \in [1 .. Len(kids) -> Seq(Nat)]
         /\ \A c \in 1 .. Len(kids) : IsRecord(RecordsOf(kids, off)[c], kids[c], off[kids[c]])
<1>1. DOMAIN kids = 1 .. Len(kids) /\ \A c \in 1 .. Len(kids) : kids[c] \in N
      /\ kids[c] \in Seq(Nat)
  OBVIOUS
<1>2. ASSUME NEW c \in 1 .. Len(kids)
      PROVE  IsRecord(<<Last(kids[c]), 0>> \o Uleb(off[kids[c]]), kids[c], off[kids[c]])
  <2> DEFINE k == kids[c]
             n == off[k]
             h == <<Last(k), 0>>
             u == Uleb(n)
             r == h \o u
  <2>1. k \in N /\ k \in Seq(Nat) /\ k # <<>> /\ n \in Nat
    BY <1>1
  <2> HIDE DEF k, n
  <2>2. Last(k) \in Nat
    <3>1. Len(k) \in 1 .. Len(k)
      BY <2>1
    <3> QED BY <2>1, <3>1 DEF Last
  <2>3. h \in Seq(Nat) /\ Len(h) = 2 /\ h[1] = Last(k)
    BY <2>2
  <2>4. u \in Seq(Nat) /\ Len(u) \in Nat
    BY <2>1, UlebBytes
  <2> HIDE DEF h, u
  <2>5. /\ r \in Seq(Nat) /\ Len(r) = Len(h) + Len(u)
        /\ \A i \in 1 .. Len(h) : r[i] = h[i]
        /\ \A i \in 1 .. Len(u) : r[Len(h) + i] = u[i]
    <3>1. h \in Seq(Nat) /\ u \in Seq(Nat)
      BY <2>3, <2>4
    <3> QED BY <3>1, BytesJoined, Zenon
  <2>6. r[1] = h[1]
    <3> HIDE DEF r
    <3> QED BY <2>3, <2>5
  <2> HIDE DEF r
  <2>7. IsRecord(r, k, n)
    BY <2>3, <2>5, <2>6 DEF IsRecord, u
  <2> QED BY <2>7 DEF r, h, u, k, n
<1>3. \A c \in 1 .. Len(kids) :
        RecordsOf(kids, off)[c] = <<Last(kids[c]), 0>> \o Uleb(off[kids[c]])
  BY <1>1 DEF RecordsOf
<1>4. \A c \in 1 .. Len(kids) : IsRecord(RecordsOf(kids, off)[c], kids[c], off[kids[c]])
  BY <1>2, <1>3
<1>5. \A c \in 1 .. Len(kids) : RecordsOf(kids, off)[c] \in Seq(Nat)
  BY <1>4 DEF IsRecord
<1>6. DOMAIN RecordsOf(kids, off) = 1 .. Len(kids)
  BY <1>1 DEF RecordsOf
<1>7. RecordsOf(kids, off) = [c \in DOMAIN RecordsOf(kids, off) |-> RecordsOf(kids, off)[c]]
  BY DEF RecordsOf
<1> QED BY <1>4, <1>5, <1>6, <1>7

\* Larger offsets make no shorter records.
LEMMA RecordsLonger ==
  ASSUME NEW N \in SUBSET Seq(Nat), NEW kids \in Seq(N),
         \A c \in 1 .. Len(kids) : kids[c] # <<>>,
         NEW off \in [N -> Nat], NEW far \in [N -> Nat], \A n \in N : off[n] <= far[n]
  PROVE  Len(FlattenSeq(RecordsOf(kids, off))) <= Len(FlattenSeq(RecordsOf(kids, far)))
<1> DEFINE n == Len(kids)
           r == RecordsOf(kids, off)
           t == RecordsOf(kids, far)
<1>1. n \in Nat /\ \A c \in 1 .. n : kids[c] \in N
  OBVIOUS
<1>2. r \in [1 .. n -> Seq(Nat)] /\ t \in [1 .. n -> Seq(Nat)]
  BY RecordsAre
<1>3. \A c \in 1 .. n : Len(r[c]) <= Len(t[c]) /\ Len(r[c]) \in Nat /\ Len(t[c]) \in Nat
  <2> TAKE c \in 1 .. n
  <2>1. IsRecord(r[c], kids[c], off[kids[c]]) /\ IsRecord(t[c], kids[c], far[kids[c]])
    BY RecordsAre
  <2>2. off[kids[c]] \in 0 .. far[kids[c]] /\ far[kids[c]] \in Nat /\ off[kids[c]] \in Nat
    BY <1>1
  <2>3. Len(Uleb(off[kids[c]])) <= Len(Uleb(far[kids[c]]))
    BY <2>2, UlebGrows
  <2>4. Len(Uleb(off[kids[c]])) \in Nat /\ Len(Uleb(far[kids[c]])) \in Nat
    BY <2>2, UlebLength
  <2>5. Len(r[c]) = 2 + Len(Uleb(off[kids[c]])) /\ Len(t[c]) = 2 + Len(Uleb(far[kids[c]]))
    BY <2>1, Zenon DEF IsRecord
  <2>6. \A x, y \in Nat : x <= y => 2 + x <= 2 + y /\ 2 + x \in Nat /\ 2 + y \in Nat
    OBVIOUS
  <2> HIDE DEF r, t
  <2> QED BY <2>3, <2>4, <2>5, <2>6
<1> HIDE DEF n, r, t
<1>4. PICK a : Starts(r, n, a) /\ Len(FlattenSeq(r)) = a[n]
  BY <1>1, <1>2, FlattenPlaces
<1>5. PICK b : Starts(t, n, b) /\ Len(FlattenSeq(t)) = b[n]
  BY <1>1, <1>2, FlattenPlaces
<1> DEFINE S == {m \in Nat : m <= n => a[m] <= b[m]}
<1>6. ASSUME NEW m \in Nat, \A k \in 0 .. m - 1 : k \in S PROVE m \in S
  <2> SUFFICES ASSUME m <= n PROVE a[m] <= b[m]
    OBVIOUS
  <2>1. CASE m = 0
    BY <1>4, <1>5, <2>1 DEF Starts
  <2>2. CASE m # 0
    <3>1. m \in 1 .. n /\ m - 1 \in 0 .. n /\ m - 1 \in S
      BY <1>1, <1>6, <2>2
    <3>2. /\ a[m] = a[m - 1] + Len(r[m]) /\ b[m] = b[m - 1] + Len(t[m])
          /\ a[m - 1] \in Nat /\ b[m - 1] \in Nat
      BY <1>4, <1>5, <3>1 DEF Starts
    <3>3. a[m - 1] <= b[m - 1]
      BY <1>1, <3>1
    <3> QED BY <1>3, <3>1, <3>2, <3>3
  <2> QED BY <2>1, <2>2
<1>7. n \in S
  <2> HIDE DEF S
  <2> QED BY <1>1, <1>6, NatDescent
<1>8. a[n] <= b[n]
  BY <1>1, <1>7
<1> QED BY <1>4, <1>5, <1>8 DEF r, t

-----------------------------------------------------------------------------
(* The layout.                                                             *)

TrieTypes ==
  /\ exports \in ExportSets /\ nodes = Visit(exports)
  /\ offset \in [TrieNodes(exports) -> Nat]
  /\ pos \in 1 .. Len(nodes) + 1 /\ cursor \in Nat

Sizes == [n \in TrieNodes(exports) |-> Len(EncodeNode(n))]

\* No node is further than the nodes before it push it, in this round or in
\* the last one.
Ahead ==
  /\ \A j \in 1 .. Len(nodes) - 1 : offset[nodes[j + 1]] <= offset[nodes[j]] + Sizes[nodes[j]]
  /\ pos <= Len(nodes) => offset[nodes[pos]] <= cursor
  /\ pos > 1 => cursor <= offset[nodes[pos - 1]] + Sizes[nodes[pos - 1]]
  /\ pos = 1 => cursor = 0
  /\ offset[nodes[1]] = 0

\* As long as a round has changed nothing, its nodes are without gaps.
Exact ==
  ~changed =>
    /\ \A j \in 1 .. pos - 2 : offset[nodes[j + 1]] = offset[nodes[j]] + Sizes[nodes[j]]
    /\ pos > 1 => cursor = offset[nodes[pos - 1]] + Sizes[nodes[pos - 1]]

Finished ==
  pc = "done" => /\ pos > Len(nodes) /\ ~changed
                 /\ out = FlattenSeq([k \in DOMAIN nodes |-> EncodeNode(nodes[k])])

LaidOut == TrieTypes /\ Ahead /\ Exact /\ Finished

\* Before visit, which may run out of frames, there is nothing.
Unvisited == /\ exports \in ExportSets /\ nodes = <<>>
             /\ offset = [n \in TrieNodes(exports) |-> 0]
             /\ pc \in {"visit", "error"} /\ pos = 1 /\ cursor = 0 /\ ~changed

TrieInv == Unvisited \/ (LaidOut /\ pc # "visit")

\* The list of the nodes.
LEMMA VisitIs ==
  ASSUME exports \in ExportSets, nodes = Visit(exports)
  PROVE  /\ Len(nodes) \in Nat /\ Len(nodes) >= 1 /\ DOMAIN nodes = 1 .. Len(nodes)
         /\ nodes \in [1 .. Len(nodes) -> TrieNodes(exports)]
         /\ \A i \in 1 .. Len(nodes) : nodes[i] \in TrieNodes(exports)
         /\ \A i, j \in 1 .. Len(nodes) : nodes[i] = nodes[j] => i = j
         /\ Range(nodes) = TrieNodes(exports)
         /\ nodes[1] = <<>>
<1> DEFINE N == TrieNodes(exports)
           c == Cardinality(N)
<1>1. N \in SUBSET Seq(Nat) /\ IsFiniteSet(N) /\ <<>> \in N
  BY TrieNodesAre
<1> HIDE DEF N
<1>2. nodes = InOrder(N)
  BY DEF Visit, N
<1>3. /\ c \in Nat /\ nodes \in [1 .. c -> N]
      /\ \A i, j \in 1 .. c : i < j => Before(nodes[i], nodes[j])
      /\ \A n \in N : \E i \in 1 .. c : nodes[i] = n
  BY <1>1, <1>2, InOrderIs
<1>4. \A i, j \in 1 .. c : nodes[i] = nodes[j] => i = j
  BY <1>1, <1>2, InOrderOnce
<1> HIDE DEF c
<1>5. Len(nodes) = c /\ DOMAIN nodes = 1 .. c
  BY <1>3
<1>6. Range(nodes) = N
  BY <1>3, <1>5 DEF Range
<1>7. PICK i \in 1 .. c : nodes[i] = <<>>
  BY <1>1, <1>3
<1>8. i = 1
  <2> SUFFICES ASSUME i # 1 PROVE FALSE
    OBVIOUS
  <2>1. 1 \in 1 .. c /\ 1 < i
    BY <1>3
  <2>2. Before(nodes[1], <<>>) /\ nodes[1] \in Seq(Nat)
    BY <1>1, <1>3, <1>7, <2>1
  <2>3. PICK k : Parts(nodes[1], <<>>, k)
    <3>1. <<>> \in Seq(Nat)
      OBVIOUS
    <3> QED BY <2>2, <3>1, BeforeIs
  <2> QED BY <2>3 DEF Parts
<1> QED BY <1>3, <1>4, <1>5, <1>6, <1>7, <1>8 DEF N

Children(n) == ChildrenOf(exports, n)
Terminal(n) == TerminalOf(exports, n)

Kids(n) == {m \in TrieNodes(exports) : Len(m) = Len(n) + 1 /\ IsPrefix(n, m)}

\* The children of a node, in the order of their characters.
LEMMA ChildrenAre ==
  ASSUME exports \in ExportSets, nodes = Visit(exports), NEW n \in TrieNodes(exports)
  PROVE  /\ Children(n) \in Seq(TrieNodes(exports)) /\ Len(Children(n)) \in Nat
         /\ DOMAIN Children(n) = 1 .. Len(Children(n))
         /\ \A c \in 1 .. Len(Children(n)) : Children(n)[c] \in Kids(n) /\ Children(n)[c] # <<>>
         /\ \A c, d \in 1 .. Len(Children(n)) : Children(n)[c] = Children(n)[d] => c = d
         /\ \A m \in Kids(n) : \E c \in 1 .. Len(Children(n)) : Children(n)[c] = m
<1> DEFINE N == TrieNodes(exports)
           K == Kids(n)
           ch == Children(n)
<1>1. N \in SUBSET Seq(Nat) /\ IsFiniteSet(N)
  BY TrieNodesAre
<1>2. K \in SUBSET N
  BY DEF Kids
<1>3. IsFiniteSet(K) /\ K \in SUBSET Seq(Nat)
  <2> HIDE DEF N, K
  <2> QED BY <1>1, <1>2, FS_Subset
<1>4. ch = InOrder(K)
  BY DEF Children, ChildrenOf, Kids
<1>5. \A m \in K : m # <<>>
  <2> TAKE m \in K
  <2>1. Len(m) = Len(n) + 1 /\ Len(n) \in Nat
    BY <1>1 DEF Kids
  <2> QED BY <2>1
<1> HIDE DEF N, K, ch
<1>6. /\ Cardinality(K) \in Nat /\ ch \in [1 .. Cardinality(K) -> K]
      /\ \A m \in K : \E c \in 1 .. Cardinality(K) : ch[c] = m
  BY <1>3, <1>4, InOrderIs
<1>7. \A c, d \in 1 .. Cardinality(K) : ch[c] = ch[d] => c = d
  BY <1>3, <1>4, InOrderOnce
<1>8. ch \in [1 .. Cardinality(K) -> N]
  BY <1>2, <1>6
<1>9. ch \in Seq(N) /\ Len(ch) = Cardinality(K) /\ DOMAIN ch = 1 .. Cardinality(K)
  BY <1>6, <1>8, FunctionIsSeq
<1> QED BY <1>5, <1>6, <1>7, <1>9 DEF N, K, ch

HeadOf(n) == Uleb(Len(Terminal(n))) \o Terminal(n) \o <<Len(Children(n))>>

EncodeWith(n, off) == HeadOf(n) \o FlattenSeq(RecordsOf(Children(n), off))

\* The terminal of a node.
LEMMA TerminalIs ==
  ASSUME exports \in ExportSets, NEW n
  PROVE  Terminal(n) \in Seq(Nat) /\ Len(Terminal(n)) \in Nat
<1>1. CASE n \in DOMAIN exports
  <2>1. exports[n] \in Nat
    BY <1>1, TrieAssumption
  <2>2. Uleb(0) \in Seq(Nat) /\ Uleb(exports[n]) \in Seq(Nat)
    BY <2>1, UlebBytes
  <2>3. Uleb(0) \o Uleb(exports[n]) \in Seq(Nat)
    BY <2>2, Concatenation
  <2>4. Terminal(n) = Uleb(0) \o Uleb(exports[n])
    BY <1>1 DEF Terminal, TerminalOf
  <2> HIDE DEF Terminal
  <2> QED BY <2>3, <2>4
<1>2. CASE n \notin DOMAIN exports
  BY <1>2 DEF Terminal, TerminalOf
<1> QED BY <1>1, <1>2

\* The bytes of a node for given offsets.
LEMMA EncodeIs ==
  ASSUME exports \in ExportSets, nodes = Visit(exports), NEW n \in TrieNodes(exports),
         NEW off \in [TrieNodes(exports) -> Nat]
  PROVE  LET h == HeadOf(n)
             f == FlattenSeq(RecordsOf(Children(n), off))
         IN /\ h \in Seq(Nat) /\ f \in Seq(Nat) /\ EncodeWith(n, off) \in Seq(Nat)
            /\ Len(h) \in Nat /\ Len(f) \in Nat /\ Len(EncodeWith(n, off)) = Len(h) + Len(f)
            /\ \A i \in 1 .. Len(h) : EncodeWith(n, off)[i] = h[i]
            /\ \A i \in 1 .. Len(f) : EncodeWith(n, off)[Len(h) + i] = f[i]
<1> DEFINE ch == Children(n)
           h == HeadOf(n)
           r == RecordsOf(ch, off)
           f == FlattenSeq(r)
           e == EncodeWith(n, off)
           N == TrieNodes(exports)
<1>1. Terminal(n) \in Seq(Nat) /\ Len(Terminal(n)) \in Nat
  BY TerminalIs
<1>2. ch \in Seq(N) /\ Len(ch) \in Nat /\ (\A c \in 1 .. Len(ch) : ch[c] # <<>>)
      /\ N \in SUBSET Seq(Nat)
  BY ChildrenAre, TrieNodesAre
<1>3. h \in Seq(Nat)
  <2>1. Uleb(Len(Terminal(n))) \in Seq(Nat) /\ <<Len(ch)>> \in Seq(Nat)
    BY <1>1, <1>2, UlebBytes
  <2> DEFINE u == Uleb(Len(Terminal(n)))
             t == Terminal(n)
             k == <<Len(ch)>>
  <2>2. h = u \o t \o k /\ u \in Seq(Nat) /\ t \in Seq(Nat) /\ k \in Seq(Nat)
    BY <1>1, <2>1 DEF HeadOf
  <2> HIDE DEF u, t, k, h
  <2> QED BY <2>2, Concatenation
<1>4. f \in Seq(Nat)
  <2>0. off \in [N -> Nat]
    OBVIOUS
  <2>1. r \in [1 .. Len(ch) -> Seq(Nat)]
    <3> HIDE DEF ch, N
    <3> QED BY <1>2, <2>0, RecordsAre
  <2> HIDE DEF r, ch
  <2> QED BY <1>2, <2>1, FlattenPlaces
<1>5. e = h \o f
  BY DEF EncodeWith
<1> HIDE DEF e, h, f
<1>6. /\ h \o f \in Seq(Nat) /\ Len(h \o f) = Len(h) + Len(f)
      /\ \A i \in 1 .. Len(h) : (h \o f)[i] = h[i]
      /\ \A i \in 1 .. Len(f) : (h \o f)[Len(h) + i] = f[i]
  BY <1>3, <1>4, Concatenation
<1>7. Len(h) \in Nat /\ Len(f) \in Nat
  BY <1>3, <1>4
<1> QED BY <1>3, <1>4, <1>5, <1>6, <1>7 DEF e, h, f, r, ch

\* encode_node takes the offsets that the nodes have,
LEMMA EncodeNodeIs ==
  ASSUME NEW n
  PROVE  EncodeNode(n) = EncodeWith(n, offset)
BY DEF EncodeNode, NodeBytes, EncodeWith, HeadOf, RecordsOf, Children, Terminal

\* and in the next state the ones that they have then.
LEMMA EncodeNodeLater ==
  ASSUME NEW n, UNCHANGED <<exports, nodes>>
  PROVE  EncodeNode(n)' = EncodeWith(n, offset')
BY DEF EncodeNode, NodeBytes, EncodeWith, HeadOf, RecordsOf, Children, Terminal

\* Larger offsets make no shorter nodes.
LEMMA EncodeLonger ==
  ASSUME exports \in ExportSets, nodes = Visit(exports), NEW n \in TrieNodes(exports),
         NEW off \in [TrieNodes(exports) -> Nat], NEW far \in [TrieNodes(exports) -> Nat],
         \A m \in TrieNodes(exports) : off[m] <= far[m]
  PROVE  Len(EncodeWith(n, off)) <= Len(EncodeWith(n, far))
<1> DEFINE ch == Children(n)
           N == TrieNodes(exports)
<1>1. /\ Len(EncodeWith(n, off)) = Len(HeadOf(n)) + Len(FlattenSeq(RecordsOf(ch, off)))
      /\ Len(FlattenSeq(RecordsOf(ch, off))) \in Nat /\ Len(HeadOf(n)) \in Nat
  BY EncodeIs
<1>2. /\ Len(EncodeWith(n, far)) = Len(HeadOf(n)) + Len(FlattenSeq(RecordsOf(ch, far)))
      /\ Len(FlattenSeq(RecordsOf(ch, far))) \in Nat
  BY EncodeIs
<1>3. ch \in Seq(N) /\ (\A c \in 1 .. Len(ch) : ch[c] # <<>>) /\ N \in SUBSET Seq(Nat)
  BY ChildrenAre, TrieNodesAre
<1>4. off \in [N -> Nat] /\ far \in [N -> Nat] /\ \A m \in N : off[m] <= far[m]
  OBVIOUS
<1> HIDE DEF ch, N
<1>5. Len(FlattenSeq(RecordsOf(ch, off))) <= Len(FlattenSeq(RecordsOf(ch, far)))
  BY <1>3, <1>4, RecordsLonger
<1> QED BY <1>1, <1>2, <1>5

\* What a node's offset is after it was placed.
LEMMA PlacedOffset ==
  ASSUME TrieTypes, Ahead, LayoutNode
  PROVE  /\ UNCHANGED <<exports, nodes>> /\ pos \in 1 .. Len(nodes) /\ pos' = pos + 1
         /\ offset' \in [TrieNodes(exports) -> Nat]
         /\ offset'[nodes[pos]] = cursor
         /\ \A j \in 1 .. Len(nodes) : j # pos => offset'[nodes[j]] = offset[nodes[j]]
         /\ \A n \in TrieNodes(exports) : offset[n] <= offset'[n]
         /\ cursor' = cursor + Sizes[nodes[pos]] /\ Sizes[nodes[pos]] \in Nat /\ cursor' \in Nat
         /\ \A n \in TrieNodes(exports) : Sizes[n] \in Nat /\ Sizes'[n] \in Nat
            /\ Sizes[n] <= Sizes'[n]
<1> DEFINE N == TrieNodes(exports)
           x == nodes[pos]
<1>1. /\ exports \in ExportSets /\ nodes = Visit(exports) /\ offset \in [N -> Nat]
      /\ pos \in 1 .. Len(nodes) + 1 /\ cursor \in Nat
  BY DEF TrieTypes
<1>2. /\ UNCHANGED <<exports, nodes>> /\ pos <= Len(nodes) /\ pos' = pos + 1
      /\ offset' = [offset EXCEPT ![x] = cursor] /\ cursor' = cursor + Len(EncodeNode(x))
  BY DEF LayoutNode
<1>3. /\ Len(nodes) \in Nat /\ \A i \in 1 .. Len(nodes) : nodes[i] \in N
      /\ \A i, j \in 1 .. Len(nodes) : nodes[i] = nodes[j] => i = j
  BY <1>1, VisitIs
<1>4. pos \in 1 .. Len(nodes) /\ x \in N
  BY <1>1, <1>2, <1>3
<1>5. offset' \in [N -> Nat] /\ offset'[x] = cursor
      /\ \A n \in N : n # x => offset'[n] = offset[n]
  <2> HIDE DEF N, x
  <2> QED BY <1>1, <1>2, <1>4
<1>6. ASSUME NEW j \in 1 .. Len(nodes), j # pos PROVE offset'[nodes[j]] = offset[nodes[j]]
  BY <1>3, <1>4, <1>5, <1>6
<1>7. \A n \in N : offset[n] <= offset'[n]
  <2> TAKE n \in N
  <2>1. offset[n] \in Nat
    BY <1>1
  <2>2. CASE n = x
    BY <1>1, <1>2, <1>5, <2>2 DEF Ahead
  <2>3. CASE n # x
    BY <1>5, <2>1, <2>3
  <2> QED BY <2>2, <2>3
<1>8. ASSUME NEW n \in N PROVE Sizes[n] \in Nat /\ Sizes'[n] \in Nat /\ Sizes[n] <= Sizes'[n]
  <2>1. Sizes[n] = Len(EncodeWith(n, offset)) /\ Sizes'[n] = Len(EncodeWith(n, offset'))
    <3>1. Sizes[n] = Len(EncodeNode(n))
      BY DEF Sizes
    <3>2. Sizes'[n] = Len(EncodeNode(n)')
      BY <1>2 DEF Sizes
    <3> QED BY <1>2, <3>1, <3>2, EncodeNodeIs, EncodeNodeLater
  <2>2. \A h, f \in Nat : h + f \in Nat
    OBVIOUS
  <2>3. Len(EncodeWith(n, offset)) \in Nat
    BY <1>1, <2>2, EncodeIs
  <2>4. Len(EncodeWith(n, offset')) \in Nat
    BY <1>1, <1>5, <2>2, EncodeIs
  <2>5. Len(EncodeWith(n, offset)) <= Len(EncodeWith(n, offset'))
    BY <1>1, <1>5, <1>7, EncodeLonger
  <2> QED BY <2>1, <2>3, <2>4, <2>5
<1>9. cursor' = cursor + Sizes[x]
  BY <1>2, <1>4 DEF Sizes
<1>10. cursor' \in Nat
  BY <1>1, <1>4, <1>8, <1>9
<1> QED BY <1>1, <1>2, <1>4, <1>5, <1>6, <1>7, <1>8, <1>9, <1>10

\* Where a node is placed the layout stays ahead.
LEMMA AheadStep ==
  ASSUME TrieTypes, Ahead, LayoutNode
  PROVE  TrieTypes' /\ Ahead'
<1>1. /\ UNCHANGED <<exports, nodes>> /\ pos \in 1 .. Len(nodes) /\ pos' = pos + 1
      /\ offset' \in [TrieNodes(exports) -> Nat]
      /\ offset'[nodes[pos]] = cursor
      /\ \A j \in 1 .. Len(nodes) : j # pos => offset'[nodes[j]] = offset[nodes[j]]
      /\ cursor' = cursor + Sizes[nodes[pos]] /\ cursor' \in Nat
  BY PlacedOffset
<1>2. \A n \in TrieNodes(exports) : Sizes[n] \in Nat /\ Sizes'[n] \in Nat
      /\ Sizes[n] <= Sizes'[n]
  BY PlacedOffset
<1>3. /\ Len(nodes) \in Nat /\ \A i \in 1 .. Len(nodes) : nodes[i] \in TrieNodes(exports)
  BY VisitIs DEF TrieTypes
<1>4. TrieTypes'
  BY <1>1, <1>3 DEF TrieTypes
<1> DEFINE o(j) == offset[nodes[j]]
           p(j) == offset'[nodes[j]]
           z(j) == Sizes[nodes[j]]
           y(j) == Sizes'[nodes[j]]
<1>5. /\ cursor \in Nat /\ \A j \in 1 .. Len(nodes) : o(j) \in Nat /\ p(j) \in Nat
      /\ \A j \in 1 .. Len(nodes) : z(j) \in Nat /\ y(j) \in Nat /\ z(j) <= y(j)
  BY <1>1, <1>2, <1>3 DEF TrieTypes
<1>6. /\ p(pos) = cursor /\ (\A j \in 1 .. Len(nodes) : j # pos => p(j) = o(j))
      /\ cursor' = cursor + z(pos)
  BY <1>1
<1>7. /\ \A j \in 1 .. Len(nodes) - 1 : o(j + 1) <= o(j) + z(j)
      /\ o(pos) <= cursor
      /\ pos > 1 => cursor <= o(pos - 1) + z(pos - 1)
      /\ pos = 1 => cursor = 0
      /\ o(1) = 0
  BY <1>1 DEF Ahead
<1> HIDE DEF o, p, z, y
<1>8. ASSUME NEW j \in 1 .. Len(nodes) - 1 PROVE p(j + 1) <= p(j) + y(j)
  <2>0. j \in 1 .. Len(nodes) /\ j + 1 \in 1 .. Len(nodes) /\ pos \in 1 .. Len(nodes)
    BY <1>1, <1>3
  <2>1. CASE j = pos
    <3>1. p(j) = cursor /\ p(j + 1) = o(j + 1) /\ o(j + 1) <= o(j) + z(j) /\ o(j) <= cursor
      BY <1>6, <1>7, <2>0, <2>1
    <3>2. z(j) <= y(j) /\ z(j) \in Nat /\ y(j) \in Nat /\ o(j) \in Nat /\ o(j + 1) \in Nat
          /\ cursor \in Nat
      BY <1>5, <2>0
    <3> QED BY <3>1, <3>2
  <2>2. CASE j + 1 = pos
    <3>1. p(j + 1) = cursor /\ p(j) = o(j) /\ cursor <= o(j) + z(j)
      <4>1. j = pos - 1 /\ pos > 1 /\ j # pos
        BY <2>0, <2>2
      <4> QED BY <1>6, <1>7, <2>0, <2>2, <4>1
    <3>2. z(j) <= y(j) /\ z(j) \in Nat /\ y(j) \in Nat /\ o(j) \in Nat /\ cursor \in Nat
      BY <1>5, <2>0
    <3> QED BY <3>1, <3>2
  <2>3. CASE j # pos /\ j + 1 # pos
    <3>1. p(j + 1) = o(j + 1) /\ p(j) = o(j) /\ o(j + 1) <= o(j) + z(j)
      BY <1>6, <1>7, <2>0, <2>3
    <3>2. z(j) <= y(j) /\ z(j) \in Nat /\ y(j) \in Nat /\ o(j) \in Nat /\ o(j + 1) \in Nat
      BY <1>5, <2>0
    <3> QED BY <3>1, <3>2
  <2> QED BY <2>1, <2>2, <2>3
<1>9. ASSUME pos' <= Len(nodes) PROVE p(pos') <= cursor'
  <2>1. pos \in 1 .. Len(nodes) - 1 /\ pos + 1 \in 1 .. Len(nodes) /\ pos + 1 # pos
        /\ pos \in 1 .. Len(nodes)
    BY <1>1, <1>3, <1>9
  <2>2. p(pos + 1) = o(pos + 1) /\ o(pos + 1) <= o(pos) + z(pos) /\ o(pos) <= cursor
        /\ cursor' = cursor + z(pos)
    BY <1>6, <1>7, <2>1
  <2>3. z(pos) \in Nat /\ o(pos) \in Nat /\ o(pos + 1) \in Nat /\ cursor \in Nat
    BY <1>5, <2>1
  <2>4. p(pos + 1) <= cursor'
    BY <2>2, <2>3
  <2> QED BY <1>1, <2>4
<1>10. cursor' <= p(pos' - 1) + y(pos' - 1) /\ pos' - 1 = pos
  <2>1. pos' - 1 = pos /\ pos \in 1 .. Len(nodes)
    BY <1>1, <1>3
  <2>2. cursor' <= p(pos) + y(pos)
    BY <1>5, <1>6, <2>1
  <2> QED BY <2>1, <2>2
<1>11. p(1) = 0 /\ pos' # 1
  <2>1. 1 \in 1 .. Len(nodes)
    BY <1>1, <1>3
  <2> QED BY <1>1, <1>3, <1>6, <1>7, <2>1
<1>12. /\ \A j \in 1 .. Len(nodes') - 1 :
            offset'[nodes'[j + 1]] <= offset'[nodes'[j]] + Sizes'[nodes'[j]]
       /\ pos' <= Len(nodes') => offset'[nodes'[pos']] <= cursor'
       /\ pos' > 1 => cursor' <= offset'[nodes'[pos' - 1]] + Sizes'[nodes'[pos' - 1]]
       /\ pos' = 1 => cursor' = 0
       /\ offset'[nodes'[1]] = 0
  BY <1>1, <1>8, <1>9, <1>10, <1>11 DEF p, y
<1> QED BY <1>4, <1>12 DEF Ahead

\* The lengths of the nodes depend on the names and the offsets alone.
LEMMA SizesSame ==
  ASSUME UNCHANGED <<exports, nodes, offset>>
  PROVE  Sizes' = Sizes /\ \A n : EncodeNode(n)' = EncodeNode(n)
<1>1. ASSUME NEW n PROVE EncodeNode(n)' = EncodeNode(n)
  BY EncodeNodeIs, EncodeNodeLater
<1> QED BY <1>1 DEF Sizes

\* A round that has changed nothing stays without gaps.
LEMMA ExactStep ==
  ASSUME TrieTypes, Ahead, Exact, LayoutNode
  PROVE  Exact'
<1> SUFFICES ASSUME ~changed'
             PROVE  /\ \A j \in 1 .. pos' - 2 :
                         offset'[nodes'[j + 1]] = offset'[nodes'[j]] + Sizes'[nodes'[j]]
                    /\ pos' > 1 => cursor' = offset'[nodes'[pos' - 1]] + Sizes'[nodes'[pos' - 1]]
  BY DEF Exact
<1>1. /\ UNCHANGED <<exports, nodes>> /\ pos \in 1 .. Len(nodes) /\ pos' = pos + 1
      /\ offset'[nodes[pos]] = cursor
      /\ cursor' = cursor + Sizes[nodes[pos]]
  BY PlacedOffset
<1>2. ~changed /\ offset[nodes[pos]] = cursor
  BY DEF LayoutNode
<1>3. offset' = offset
  <2>1. offset' = [offset EXCEPT ![nodes[pos]] = cursor]
    BY DEF LayoutNode
  <2>2. offset = [n \in TrieNodes(exports) |-> offset[n]]
    BY DEF TrieTypes
  <2> QED BY <1>2, <2>1, <2>2
<1>4. Sizes' = Sizes
  BY <1>1, <1>3, SizesSame
<1>5. /\ \A j \in 1 .. pos - 2 : offset[nodes[j + 1]] = offset[nodes[j]] + Sizes[nodes[j]]
      /\ pos > 1 => cursor = offset[nodes[pos - 1]] + Sizes[nodes[pos - 1]]
  BY <1>2 DEF Exact
<1>6. pos \in Nat
  <2>1. Len(nodes) \in Nat
    BY VisitIs DEF TrieTypes
  <2> QED BY <1>1, <2>1
<1>7. ASSUME NEW j \in 1 .. pos - 1
               PROVE offset[nodes[j + 1]] = offset[nodes[j]] + Sizes[nodes[j]]
  <2>1. CASE j = pos - 1
    <3>1. j + 1 = pos /\ pos > 1
      BY <1>6, <2>1
    <3> QED BY <1>2, <1>5, <2>1, <3>1
  <2>2. CASE j # pos - 1
    <3>1. j \in 1 .. pos - 2
      BY <1>6, <2>2
    <3> QED BY <1>5, <3>1
  <2> QED BY <2>1, <2>2
<1>8. pos' - 2 = pos - 1 /\ pos' - 1 = pos
  BY <1>1, <1>6
<1> QED BY <1>1, <1>2, <1>3, <1>4, <1>7, <1>8

\* The beginning.
LEMMA TrieStart == TrieInit => TrieInv
BY DEF TrieInit, TrieInv, Unvisited

\* Before the first round every node is at 0.
Visited == /\ exports \in ExportSets /\ nodes = Visit(exports)
           /\ offset = [n \in TrieNodes(exports) |-> 0]
           /\ pc = "layout" /\ pos = 1 /\ cursor = 0 /\ ~changed

\* The beginning of the layout.
LEMMA LayoutStart == Visited => LaidOut
<1> SUFFICES ASSUME Visited PROVE LaidOut
  OBVIOUS
<1>1. /\ exports \in ExportSets /\ nodes = Visit(exports)
      /\ offset = [n \in TrieNodes(exports) |-> 0]
      /\ pc = "layout" /\ pos = 1 /\ cursor = 0 /\ ~changed
  BY DEF Visited
<1>2. /\ Len(nodes) \in Nat /\ Len(nodes) >= 1
         /\ \A i \in 1 .. Len(nodes) : nodes[i] \in TrieNodes(exports)
  BY <1>1, VisitIs
<1>3. TrieTypes
  BY <1>1, <1>2 DEF TrieTypes
<1>4. ASSUME NEW n \in TrieNodes(exports) PROVE Sizes[n] \in Nat
  <2>1. Sizes[n] = Len(EncodeWith(n, offset))
    BY EncodeNodeIs DEF Sizes
  <2>2. \A h, f \in Nat : h + f \in Nat
    OBVIOUS
  <2>3. Len(EncodeWith(n, offset)) \in Nat
    BY <1>3, <2>2, EncodeIs DEF TrieTypes
  <2> QED BY <2>1, <2>3
<1>5. \A j \in 1 .. Len(nodes) : offset[nodes[j]] = 0 /\ Sizes[nodes[j]] \in Nat
  BY <1>1, <1>2, <1>4
<1>6. \A j \in 1 .. Len(nodes) - 1 : offset[nodes[j + 1]] <= offset[nodes[j]] + Sizes[nodes[j]]
  <2> TAKE j \in 1 .. Len(nodes) - 1
  <2>1. j \in 1 .. Len(nodes) /\ j + 1 \in 1 .. Len(nodes)
    BY <1>2
  <2>2. offset[nodes[j]] = 0 /\ offset[nodes[j + 1]] = 0 /\ Sizes[nodes[j]] \in Nat
    BY <1>5, <2>1
  <2> QED BY <2>2
<1>7. 1 \in 1 .. Len(nodes)
  BY <1>2
<1>8. Ahead
  BY <1>1, <1>5, <1>6, <1>7 DEF Ahead
<1>9. Exact
  BY <1>1 DEF Exact
<1>10. Finished
  BY <1>1 DEF Finished
<1> QED BY <1>3, <1>8, <1>9, <1>10 DEF LaidOut

\* Every step of the layout.
LEMMA LaidOutStep ==
  LaidOut /\ [LayoutNode \/ EndRound \/ RaiseLayout \/ Emit]_trieVars => LaidOut'
<1> SUFFICES ASSUME LaidOut, [LayoutNode \/ EndRound \/ RaiseLayout \/ Emit]_trieVars
             PROVE  LaidOut'
  OBVIOUS
<1>0. TrieTypes /\ Ahead /\ Exact /\ Finished
  BY DEF LaidOut
<1>1. CASE LayoutNode
  <2>1. TrieTypes' /\ Ahead' /\ Exact'
    BY <1>0, <1>1, AheadStep, ExactStep
  <2>2. Finished'
    BY <1>1 DEF LayoutNode, Finished
  <2> QED BY <2>1, <2>2 DEF LaidOut
<1>2. CASE EndRound
  <2>1. UNCHANGED <<exports, nodes, offset, pc, out>> /\ pc = "layout"
        /\ pos' = 1 /\ cursor' = 0 /\ changed' = FALSE
    BY <1>2 DEF EndRound
  <2>2. Sizes' = Sizes
    BY <2>1, SizesSame
  <2>3. Len(nodes) \in Nat /\ Len(nodes) >= 1
    BY <1>0, VisitIs DEF TrieTypes
  <2>4. TrieTypes'
    BY <1>0, <2>1, <2>3 DEF TrieTypes
  <2>5. Ahead'
    BY <1>0, <2>1, <2>2 DEF Ahead
  <2>6. Exact'
    BY <2>1 DEF Exact
  <2>7. Finished'
    BY <2>1 DEF Finished
  <2> QED BY <2>4, <2>5, <2>6, <2>7 DEF LaidOut
<1>3. CASE RaiseLayout
  <2>1. UNCHANGED <<exports, nodes, offset, pos, cursor, changed, out>> /\ pc' = "error"
    BY <1>3 DEF RaiseLayout
  <2>2. Sizes' = Sizes
    BY <2>1, SizesSame
  <2>3. TrieTypes' /\ Ahead' /\ Exact'
    BY <1>0, <2>1, <2>2 DEF TrieTypes, Ahead, Exact
  <2>4. Finished'
    BY <2>1 DEF Finished
  <2> QED BY <2>3, <2>4 DEF LaidOut
<1>4. CASE Emit
  <2>1. /\ UNCHANGED <<exports, nodes, offset, pos, cursor, changed>>
        /\ pos > Len(nodes) /\ ~changed
        /\ out' = FlattenSeq([k \in DOMAIN nodes |-> EncodeNode(nodes[k])])
    BY <1>4 DEF Emit
  <2>2. Sizes' = Sizes /\ \A n : EncodeNode(n)' = EncodeNode(n)
    BY <2>1, SizesSame
  <2>3. TrieTypes' /\ Ahead' /\ Exact'
    BY <1>0, <2>1, <2>2 DEF TrieTypes, Ahead, Exact
  <2>4. Finished'
    BY <2>1, <2>2 DEF Finished
  <2> QED BY <2>3, <2>4 DEF LaidOut
<1>5. CASE UNCHANGED trieVars
  <2>1. UNCHANGED <<exports, nodes, offset, pc, pos, cursor, changed, out>>
    BY <1>5 DEF trieVars
  <2>2. Sizes' = Sizes /\ \A n : EncodeNode(n)' = EncodeNode(n)
    BY <2>1, SizesSame
  <2>3. TrieTypes' /\ Ahead' /\ Exact'
    BY <1>0, <2>1, <2>2 DEF TrieTypes, Ahead, Exact
  <2>4. Finished'
    BY <1>0, <2>1, <2>2 DEF Finished
  <2> QED BY <2>3, <2>4 DEF LaidOut
<1> QED BY <1>1, <1>2, <1>3, <1>4, <1>5

\* Every step.
LEMMA TrieStep == TrieInv /\ [TrieNext]_trieVars => TrieInv'
<1> SUFFICES ASSUME TrieInv, [TrieNext]_trieVars PROVE TrieInv'
  OBVIOUS
<1>1. CASE VisitNodes
  <2>1. /\ pc = "visit" /\ pc' = "layout" /\ nodes' = Visit(exports)
        /\ UNCHANGED <<exports, offset, pos, cursor, changed>>
    BY <1>1 DEF VisitNodes
  <2>2. /\ exports \in ExportSets /\ offset = [n \in TrieNodes(exports) |-> 0]
        /\ pos = 1 /\ cursor = 0 /\ ~changed
    BY <2>1 DEF TrieInv, Unvisited
  <2>3. Visited'
    BY <2>1, <2>2 DEF Visited
  <2>5. LaidOut'
    BY <2>3, LayoutStart, PTL
  <2>6. pc' # "visit"
    BY <2>1
  <2> QED BY <2>5, <2>6 DEF TrieInv
<1>2. CASE RaiseVisit
  <2>1. pc = "visit" /\ pc' = "error"
        /\ UNCHANGED <<exports, nodes, offset, pos, cursor, changed>>
    BY <1>2 DEF RaiseVisit
  <2>2. Unvisited
    BY <2>1 DEF TrieInv
  <2>3. Unvisited'
    BY <2>1, <2>2 DEF Unvisited
  <2> QED BY <2>3 DEF TrieInv
<1>3. CASE LayoutNode \/ EndRound \/ RaiseLayout \/ Emit
  <2>1. pc = "layout" /\ pc' # "visit"
    BY <1>3 DEF LayoutNode, EndRound, RaiseLayout, Emit
  <2>2. LaidOut
    BY <2>1 DEF TrieInv, Unvisited
  <2>3. LaidOut'
    BY <1>3, <2>2, LaidOutStep
  <2> QED BY <2>1, <2>3 DEF TrieInv
<1>4. CASE UNCHANGED trieVars
  <2>1. UNCHANGED <<exports, nodes, offset, pc, pos, cursor, changed>>
    BY <1>4 DEF trieVars
  <2>2. CASE Unvisited
    <3>1. Unvisited'
      BY <2>1, <2>2 DEF Unvisited
    <3> QED BY <3>1 DEF TrieInv
  <2>3. CASE LaidOut /\ pc # "visit"
    <3>1. LaidOut'
      BY <1>4, <2>3, LaidOutStep
    <3> QED BY <2>1, <2>3, <3>1 DEF TrieInv
  <2> QED BY <2>2, <2>3 DEF TrieInv
<1> QED BY <1>1, <1>2, <1>3, <1>4 DEF TrieNext

\* _build_export_trie keeps TrieInv, for any names and any number of rounds.
THEOREM TrieInvariant == TrieSpec => []TrieInv
BY TrieStart, TrieStep, PTL DEF TrieSpec

\* In any state of the invariant the numbers are read back.
LEMMA NumbersThen == TrieInv => NumbersReadBack
<1> SUFFICES ASSUME TrieInv, NEW n \in Range(exports) \cup Range(offset)
             PROVE  UlebReadBack(n) /\ SlebReadBack(n) /\ SlebReadBack(-n)
  BY DEF NumbersReadBack
<1>1. exports \in ExportSets /\ offset \in [TrieNodes(exports) -> Nat]
  BY DEF TrieInv, Unvisited, LaidOut, TrieTypes
<1>2. n \in Nat
  BY <1>1, TrieAssumption DEF Range
<1>3. n \in Int /\ -n \in Int
  BY <1>2
<1> QED BY <1>2, <1>3, UlebIsReadBack, SlebIsReadBack

\* The addresses and the offsets, and as addends of either sign, are read back by
\* dyld as _uleb128 and _sleb128 wrote them, and no encoding is too long.
THEOREM NumbersAreReadBack == TrieSpec => []NumbersReadBack
BY TrieInvariant, NumbersThen, PTL

\* No step moves a node towards the beginning.
LEMMA GrowStep ==
  TrieInv /\ [TrieNext]_trieVars => [\A n \in DOMAIN offset : offset'[n] >= offset[n]]_trieVars
<1> SUFFICES ASSUME TrieInv, TrieNext, NEW n \in DOMAIN offset PROVE offset'[n] >= offset[n]
  OBVIOUS
<1>1. DOMAIN offset = TrieNodes(exports) /\ offset[n] \in Nat
  BY DEF TrieInv, Unvisited, LaidOut, TrieTypes
<1>2. CASE LayoutNode
  <2>0. TrieTypes /\ Ahead
    BY <1>2 DEF TrieInv, Unvisited, LaidOut, LayoutNode
  <2>1. offset[n] <= offset'[n] /\ offset'[n] \in Nat
    BY <1>1, <1>2, <2>0, PlacedOffset
  <2> QED BY <1>1, <2>1
<1>3. CASE VisitNodes \/ RaiseVisit \/ EndRound \/ RaiseLayout \/ Emit
  <2>1. offset' = offset
    BY <1>3 DEF VisitNodes, RaiseVisit, EndRound, RaiseLayout, Emit
  <2> QED BY <1>1, <2>1
<1> QED BY <1>2, <1>3 DEF TrieNext

\* From round to round of _build_export_trie a node only moves towards the end.
THEOREM OffsetsOnlyGrow == TrieSpec => OffsetsGrow
BY TrieInvariant, GrowStep, PTL DEF TrieSpec, OffsetsGrow

-----------------------------------------------------------------------------
(* dyld's walk.                                                            *)

\* What is at a place of bytes that are placed is placed too.
LEMMA PlacedPart ==
  ASSUME NEW s, NEW p, NEW b, Placed(s, p, b), Len(b) \in Nat,
         NEW k \in Nat, NEW c, Len(c) \in Nat, k + Len(c) <= Len(b),
         \A i \in 1 .. Len(c) : b[k + i] = c[i]
  PROVE  Placed(s, p + k, c)
<1>1. s \in Seq(Nat) /\ p \in Nat \ {0} /\ Len(s) \in Nat /\ p + Len(b) - 1 <= Len(s)
  BY DEF Placed
<1>2. ASSUME NEW i \in 1 .. Len(c) PROVE s[(p + k) + i - 1] = c[i]
  <2>1. k + i \in 1 .. Len(b) /\ p + (k + i) - 1 = (p + k) + i - 1
    BY <1>1
  <2>2. s[p + (k + i) - 1] = b[k + i]
    BY <2>1 DEF Placed
  <2> QED BY <2>1, <2>2
<1>3. p + k \in Nat \ {0} /\ (p + k) + Len(c) - 1 <= Len(s)
  BY <1>1
<1> QED BY <1>1, <1>2, <1>3 DEF Placed

\* The two parts of a concatenation are one behind the other.
LEMMA PlacedParts ==
  ASSUME NEW s, NEW p, NEW b \in Seq(Nat), NEW c \in Seq(Nat), Placed(s, p, b \o c)
  PROVE  Placed(s, p, b) /\ Placed(s, p + Len(b), c)
<1> DEFINE e == b \o c
<1>1. /\ e \in Seq(Nat) /\ Len(e) = Len(b) + Len(c) /\ Len(b) \in Nat /\ Len(c) \in Nat
      /\ \A i \in 1 .. Len(b) : e[i] = b[i]
      /\ \A i \in 1 .. Len(c) : e[Len(b) + i] = c[i]
  BY Concatenation
<1>2. Placed(s, p, e)
  OBVIOUS
<1> HIDE DEF e
<1>3. Placed(s, p + Len(b), c)
  <2>1. Len(e) \in Nat /\ Len(b) + Len(c) <= Len(e)
    BY <1>1
  <2> QED BY <1>1, <1>2, <2>1, PlacedPart, Zenon
<1>4. Placed(s, p + 0, b)
  <2>1. Len(e) \in Nat /\ 0 + Len(b) <= Len(e) /\ 0 \in Nat
    BY <1>1
  <2>2. \A i \in 1 .. Len(b) : e[0 + i] = b[i]
    <3> TAKE i \in 1 .. Len(b)
    <3>1. 0 + i = i
      OBVIOUS
    <3> QED BY <1>1, <3>1
  <2> QED BY <1>1, <1>2, <2>1, <2>2, PlacedPart
<1>5. p + 0 = p
  BY <1>2 DEF Placed
<1> QED BY <1>3, <1>4, <1>5

\* A sequence of a concatenation is where the ones before it end.
LEMMA PlacedStarts ==
  ASSUME NEW n \in Nat, NEW seqs \in [1 .. n -> Seq(Nat)], NEW at, Starts(seqs, n, at),
         NEW f \in Seq(Nat), Len(f) = at[n], AllThere(seqs, n, at, f),
         NEW s, NEW p, Placed(s, p, f), NEW c \in 1 .. n
  PROVE  Placed(s, p + at[c - 1], seqs[c])
<1>1. at \in [0 .. n -> Nat] /\ \A i \in 1 .. n : at[i] = at[i - 1] + Len(seqs[i])
  BY DEF Starts
<1>2. \A i \in 1 .. n : Len(seqs[i]) \in Nat /\ at[i] \in Nat /\ at[i - 1] \in Nat
  <2> TAKE i \in 1 .. n
  <2>1. seqs[i] \in Seq(Nat) /\ i \in 0 .. n /\ i - 1 \in 0 .. n
    OBVIOUS
  <2> QED BY <1>1, <2>1
<1> DEFINE T == {m \in Nat : m \in c .. n => at[c] <= at[m]}
<1>3. ASSUME NEW m \in Nat, \A k \in 0 .. m - 1 : k \in T PROVE m \in T
  <2> SUFFICES ASSUME m \in c .. n PROVE at[c] <= at[m]
    OBVIOUS
  <2>1. CASE m = c
    BY <1>2, <2>1
  <2>2. CASE m # c
    <3>1. m - 1 \in 0 .. m - 1 /\ m - 1 \in c .. n /\ m \in 1 .. n /\ m - 1 \in 1 .. n
      BY <2>2
    <3>2. at[c] <= at[m - 1]
      BY <1>3, <3>1
    <3>3. at[m] = at[m - 1] + Len(seqs[m]) /\ Len(seqs[m]) \in Nat /\ at[m - 1] \in Nat
          /\ at[c] \in Nat
      BY <1>1, <1>2, <3>1
    <3> QED BY <3>2, <3>3
  <2> QED BY <2>1, <2>2
<1>4. n \in T
  <2> HIDE DEF T
  <2> QED BY <1>3, NatDescent
<1>5. at[c] <= at[n] /\ at[c] = at[c - 1] + Len(seqs[c])
  BY <1>1, <1>4
<1>6. at[c - 1] \in Nat /\ Len(seqs[c]) \in Nat /\ at[c - 1] + Len(seqs[c]) <= Len(f)
      /\ Len(f) \in Nat
  BY <1>2, <1>5
<1>7. \A i \in 1 .. Len(seqs[c]) : f[at[c - 1] + i] = seqs[c][i]
  BY DEF AllThere
<1> QED BY <1>6, <1>7, PlacedPart

\* The bytes of the trie are the nodes, each at its offset.
LEMMA OutHolds ==
  ASSUME LaidOut, pc = "done", NEW n \in TrieNodes(exports)
  PROVE  Placed(out, offset[n] + 1, EncodeNode(n))
<1> DEFINE seqs == [k \in 1 .. Len(nodes) |-> EncodeNode(nodes[k])]
<1>1. /\ exports \in ExportSets /\ nodes = Visit(exports)
         /\ offset \in [TrieNodes(exports) -> Nat]
      /\ pos \in 1 .. Len(nodes) + 1 /\ pos > Len(nodes) /\ ~changed
      /\ out = FlattenSeq([k \in DOMAIN nodes |-> EncodeNode(nodes[k])])
      /\ offset[nodes[1]] = 0
  BY DEF LaidOut, TrieTypes, Finished, Ahead
<1>2. /\ Len(nodes) \in Nat \ {0} /\ DOMAIN nodes = 1 .. Len(nodes)
      /\ \A i \in 1 .. Len(nodes) : nodes[i] \in TrieNodes(exports)
      /\ Range(nodes) = TrieNodes(exports)
  BY <1>1, VisitIs
<1>3. \A j \in 1 .. Len(nodes) - 1 : offset[nodes[j + 1]] = offset[nodes[j]] + Sizes[nodes[j]]
  <2>1. pos - 2 = Len(nodes) - 1
    BY <1>1, <1>2
  <2>2. Exact
    BY DEF LaidOut
  <2> QED BY <1>1, <2>1, <2>2 DEF Exact
<1>4. seqs \in [1 .. Len(nodes) -> Seq(Nat)] /\ out = FlattenSeq(seqs)
  <2>1. \A k \in 1 .. Len(nodes) : EncodeNode(nodes[k]) \in Seq(Nat)
    BY <1>1, <1>2, EncodeIs, EncodeNodeIs
  <2> QED BY <1>1, <1>2, <2>1
<1>5. \A k \in 1 .. Len(nodes) : Len(seqs[k]) = Sizes[nodes[k]]
      /\ seqs[k] = EncodeNode(nodes[k])
  BY <1>2 DEF Sizes
<1> HIDE DEF seqs
<1>6. PICK at : /\ Starts(seqs, Len(nodes), at) /\ out \in Seq(Nat)
                /\ Len(out) = at[Len(nodes)] /\ AllThere(seqs, Len(nodes), at, out)
  BY <1>2, <1>4, FlattenPlaces
<1>7. \A i \in 1 .. Len(nodes) : at[i] = at[i - 1] + Len(seqs[i])
  BY <1>6 DEF Starts
<1> DEFINE S == {k \in Nat : k + 1 \in 1 .. Len(nodes) => at[k] = offset[nodes[k + 1]]}
<1>8. ASSUME NEW k \in Nat, \A m \in 0 .. k - 1 : m \in S PROVE k \in S
  <2>1. CASE k = 0
    <3>1. at[0] = 0
      BY <1>6 DEF Starts
    <3> QED BY <1>1, <2>1, <3>1
  <2>2. CASE k # 0 /\ k + 1 \in 1 .. Len(nodes)
    <3>1. k - 1 \in 0 .. k - 1 /\ (k - 1) + 1 = k /\ k \in 1 .. Len(nodes)
          /\ k \in 1 .. Len(nodes) - 1
      BY <1>2, <2>2
    <3>2. at[k - 1] = offset[nodes[k]]
      BY <1>8, <3>1
    <3>3. at[k] = at[k - 1] + Sizes[nodes[k]]
      BY <1>5, <1>7, <3>1
    <3>4. offset[nodes[k + 1]] = offset[nodes[k]] + Sizes[nodes[k]]
      BY <1>3, <3>1
    <3> QED BY <3>2, <3>3, <3>4
  <2>3. CASE ~(k + 1 \in 1 .. Len(nodes))
    BY <2>3
  <2> QED BY <2>1, <2>2, <2>3
<1>9. PICK i \in 1 .. Len(nodes) : nodes[i] = n
  BY <1>2 DEF Range
<1>10. at[i - 1] = offset[n]
  <2>1. i - 1 \in S
    <3> HIDE DEF S
    <3>1. i - 1 \in Nat
      BY <1>9
    <3> QED BY <1>8, <3>1, NatDescent
  <2>2. (i - 1) + 1 = i
    BY <1>9
  <2> QED BY <1>9, <2>1, <2>2
<1>11. Placed(out, 1, out)
  <2>1. \A q \in 1 .. Len(out) : out[1 + q - 1] = out[q]
    <3> TAKE q \in 1 .. Len(out)
    <3>1. 1 + q - 1 = q
      OBVIOUS
    <3> QED BY <3>1
  <2> QED BY <1>6, <2>1 DEF Placed
<1>12. Placed(out, 1 + at[i - 1], seqs[i])
  <2>1. Len(nodes) \in Nat
    BY <1>2
  <2> QED BY <1>4, <1>6, <1>9, <1>11, <2>1, PlacedStarts
<1>13. 1 + at[i - 1] = offset[n] + 1
  BY <1>1, <1>10
<1> QED BY <1>5, <1>9, <1>12, <1>13

\* What dyld finds at a node: the length of its terminal, the terminal, and
\* the number of its children.
AtNode(n, p) ==
  LET u == Len(Uleb(Len(Terminal(n))))
      t == Len(Terminal(n))
  IN /\ p \in Nat \ {0} /\ u \in Nat /\ t \in Nat /\ out \in Seq(Nat)
     /\ ReadUleb(out, p) = t /\ NextNumber(out, p) = p + u
     /\ Placed(out, p + u, Terminal(n))
     /\ out[p + u + t] = Len(Children(n))
     /\ Placed(out, p + u + t + 1, FlattenSeq(RecordsOf(Children(n), offset)))

\* A number is read where it is placed, and the next one begins behind it.
LEMMA NumberIsRead ==
  ASSUME NEW n \in Nat, NEW s, NEW p, Placed(s, p, Uleb(n))
  PROVE  ReadUleb(s, p) = n /\ NextNumber(s, p) = p + Len(Uleb(n))
<1>1. Ended(Uleb(n)) /\ Len(Uleb(n)) \in Nat /\ p \in Nat
  BY UlebBytes DEF Placed
<1>2. LastByte(s, p) = p + Len(Uleb(n)) - 1
  BY <1>1, LastByteIs
<1>3. NextNumber(s, p) = p + Len(Uleb(n))
  BY <1>1, <1>2 DEF NextNumber
<1> QED BY <1>3, UlebReads

\* dyld reads the head of every node.
LEMMA NodeIsRead ==
  ASSUME LaidOut, pc = "done", NEW n \in TrieNodes(exports)
  PROVE  AtNode(n, offset[n] + 1)
<1> DEFINE p == offset[n] + 1
           t == Terminal(n)
           u == Uleb(Len(t))
           k == <<Len(Children(n))>>
           f == FlattenSeq(RecordsOf(Children(n), offset))
<1>1. exports \in ExportSets /\ nodes = Visit(exports) /\ offset \in [TrieNodes(exports) -> Nat]
  BY DEF LaidOut, TrieTypes
<1>2. t \in Seq(Nat) /\ Len(t) \in Nat /\ u \in Seq(Nat) /\ Len(u) \in Nat
  <2>1. t \in Seq(Nat) /\ Len(t) \in Nat
    BY <1>1, TerminalIs
  <2> HIDE DEF t
  <2> QED BY <2>1, UlebBytes
<1>3. k \in Seq(Nat) /\ Len(k) = 1 /\ k[1] = Len(Children(n))
  <2>1. Len(Children(n)) \in Nat
    BY <1>1, ChildrenAre
  <2> QED BY <2>1
<1>4. HeadOf(n) = u \o t \o k /\ HeadOf(n) \in Seq(Nat) /\ f \in Seq(Nat)
  BY <1>1, EncodeIs DEF HeadOf
<1>5. Placed(out, p, HeadOf(n) \o f) /\ p \in Nat \ {0} /\ out \in Seq(Nat)
  <2>1. Placed(out, p, EncodeNode(n)) /\ EncodeNode(n) = HeadOf(n) \o f
    BY OutHolds, EncodeNodeIs DEF EncodeWith
  <2> QED BY <2>1 DEF Placed
<1> HIDE DEF p, t, u, k, f
<1>6. Placed(out, p, HeadOf(n)) /\ Placed(out, p + Len(HeadOf(n)), f)
  BY <1>4, <1>5, PlacedParts
<1>7. u \o t \in Seq(Nat) /\ Len(u \o t) = Len(u) + Len(t)
      /\ Len((u \o t) \o k) = Len(u) + Len(t) + 1
  <2>1. u \o t \in Seq(Nat) /\ Len(u \o t) = Len(u) + Len(t)
    BY <1>2, Concatenation
  <2>2. Len((u \o t) \o k) = Len(u \o t) + Len(k)
    BY <1>3, <2>1, Concatenation, Zenon
  <2> QED BY <1>3, <2>1, <2>2, Zenon
<1>8. Placed(out, p, u \o t) /\ Placed(out, p + Len(u \o t), k)
  BY <1>3, <1>4, <1>6, <1>7, PlacedParts
<1>9. Placed(out, p, u) /\ Placed(out, p + Len(u), t)
  BY <1>2, <1>8, PlacedParts
<1>10. Placed(out, p + Len(u) + Len(t), k) /\ Placed(out, p + Len(u) + Len(t) + 1, f)
  <2>1. p + Len(u \o t) = p + Len(u) + Len(t) /\ p + Len(HeadOf(n)) = p + Len(u) + Len(t) + 1
    BY <1>2, <1>4, <1>5, <1>7
  <2> QED BY <1>6, <1>8, <2>1
<1>11. out[p + Len(u) + Len(t)] = Len(Children(n))
  <2>1. 1 \in 1 .. Len(k) /\ (p + Len(u) + Len(t)) + 1 - 1 = p + Len(u) + Len(t)
    BY <1>2, <1>3, <1>5
  <2>2. out[(p + Len(u) + Len(t)) + 1 - 1] = k[1]
    BY <1>10, <2>1 DEF Placed
  <2> QED BY <1>3, <2>1, <2>2
<1>12. ReadUleb(out, p) = Len(t) /\ NextNumber(out, p) = p + Len(u)
  BY <1>2, <1>9, NumberIsRead DEF u
<1> QED BY <1>2, <1>5, <1>9, <1>10, <1>11, <1>12 DEF AtNode, p, t, u, f

\* The records of the children that begin at the places at.
AtChildren(n, k, at) ==
  /\ k = Len(Children(n)) /\ k \in Nat /\ at \in [1 .. k -> Nat \ {0}]
  /\ \A c \in 1 .. k : /\ out[at[c]] = Last(Children(n)[c])
                       /\ ReadUleb(out, at[c] + 2) = offset[Children(n)[c]]
                       /\ c < k => at[c + 1] = NextNumber(out, at[c] + 2)

\* dyld reads the records of the children, one behind the other.
LEMMA RecordsAreRead ==
  ASSUME LaidOut, pc = "done", NEW n \in TrieNodes(exports), NEW q,
         Placed(out, q, FlattenSeq(RecordsOf(Children(n), offset)))
  PROVE  \E at : AtChildren(n, Len(Children(n)), at) /\ (Len(Children(n)) > 0 => at[1] = q)
<1> DEFINE k == Len(Children(n))
           r == RecordsOf(Children(n), offset)
           f == FlattenSeq(r)
<1>1. exports \in ExportSets /\ nodes = Visit(exports) /\ offset \in [TrieNodes(exports) -> Nat]
  BY DEF LaidOut, TrieTypes
<1>2. /\ Children(n) \in Seq(TrieNodes(exports)) /\ k \in Nat
      /\ \A c \in 1 .. k : Children(n)[c] # <<>> /\ Children(n)[c] \in TrieNodes(exports)
      /\ TrieNodes(exports) \in SUBSET Seq(Nat)
  <2>1. /\ Children(n) \in Seq(TrieNodes(exports)) /\ k \in Nat
        /\ \A c \in 1 .. k : Children(n)[c] # <<>>
        /\ TrieNodes(exports) \in SUBSET Seq(Nat)
    BY <1>1, ChildrenAre, TrieNodesAre
  <2> QED BY <2>1, Elements
<1>3. r \in [1 .. k -> Seq(Nat)]
      /\ \A c \in 1 .. k : IsRecord(r[c], Children(n)[c], offset[Children(n)[c]])
  BY <1>1, <1>2, RecordsAre
<1>4. Placed(out, q, f) /\ q \in Nat \ {0}
  BY DEF Placed
<1> HIDE DEF k, r, f
<1>5. PICK L : Starts(r, k, L) /\ f \in Seq(Nat) /\ Len(f) = L[k] /\ AllThere(r, k, L, f)
  BY <1>2, <1>3, FlattenPlaces DEF f
<1>6. L \in [0 .. k -> Nat] /\ L[0] = 0 /\ \A c \in 1 .. k : L[c] = L[c - 1] + Len(r[c])
  BY <1>5 DEF Starts
<1> DEFINE at == [c \in 1 .. k |-> q + L[c - 1]]
<1>7. at \in [1 .. k -> Nat \ {0}]
  <2>1. \A c \in 1 .. k : q + L[c - 1] \in Nat \ {0}
    <3> TAKE c \in 1 .. k
    <3>1. c - 1 \in 0 .. k
      BY <1>2
    <3>2. L[c - 1] \in Nat
      BY <1>6, <3>1
    <3> QED BY <1>4, <3>2
  <2> QED BY <2>1
<1>8. ASSUME NEW c \in 1 .. k
      PROVE  /\ out[at[c]] = Last(Children(n)[c])
             /\ ReadUleb(out, at[c] + 2) = offset[Children(n)[c]]
             /\ c < k => at[c + 1] = NextNumber(out, at[c] + 2)
  <2> DEFINE m == Children(n)[c]
             v == Uleb(offset[m])
  <2>1. at[c] = q + L[c - 1] /\ at[c] \in Nat \ {0}
    BY <1>7
  <2>2. Placed(out, at[c], r[c])
    BY <1>2, <1>3, <1>4, <1>5, <2>1, PlacedStarts
  <2>3. IsRecord(r[c], m, offset[m]) /\ offset[m] \in Nat
    BY <1>1, <1>2, <1>3
  <2>4. v \in Seq(Nat) /\ Len(v) \in Nat
    <3> HIDE DEF m
    <3> QED BY <2>3, UlebBytes
  <2>5. r[c] \in Seq(Nat) /\ Len(r[c]) = 2 + Len(v) /\ r[c][1] = Last(m)
        /\ \A j \in 1 .. Len(v) : r[c][2 + j] = v[j]
    BY <2>3 DEF IsRecord
  <2>6. out[at[c]] = Last(m)
    <3>1. 1 \in 1 .. Len(r[c]) /\ at[c] + 1 - 1 = at[c]
      BY <2>1, <2>4, <2>5
    <3>2. out[at[c] + 1 - 1] = r[c][1]
      BY <2>2, <3>1 DEF Placed
    <3> QED BY <2>5, <3>1, <3>2
  <2>7. Placed(out, at[c] + 2, v)
    <3> HIDE DEF v, at
    <3>1. Len(r[c]) \in Nat /\ 2 + Len(v) <= Len(r[c]) /\ 2 \in Nat
      BY <2>4, <2>5
    <3> QED BY <2>2, <2>4, <2>5, <3>1, PlacedPart, Zenon
  <2>8. ReadUleb(out, at[c] + 2) = offset[m] /\ NextNumber(out, at[c] + 2) = at[c] + 2 + Len(v)
    <3> HIDE DEF m, at
    <3> QED BY <2>3, <2>7, NumberIsRead
  <2>9. ASSUME c < k PROVE at[c + 1] = at[c] + 2 + Len(v)
    <3>1. c + 1 \in 1 .. k /\ (c + 1) - 1 = c /\ c - 1 \in 0 .. k
      BY <1>2, <2>9
    <3>2. at[c + 1] = q + L[c]
      BY <3>1
    <3>3. L[c] = L[c - 1] + (2 + Len(v)) /\ L[c - 1] \in Nat
      BY <1>6, <2>5, <3>1
    <3>4. \A x, y, l \in Nat : x + (y + (2 + l)) = (x + y) + 2 + l
      OBVIOUS
    <3> HIDE DEF at, v
    <3>5. q \in Nat /\ Len(v) \in Nat /\ L[c - 1] \in Nat
      BY <1>4, <2>4, <3>3
    <3>6. q + L[c] = (q + L[c - 1]) + 2 + Len(v)
      <4>1. q + (L[c - 1] + (2 + Len(v))) = (q + L[c - 1]) + 2 + Len(v)
        BY <3>4, <3>5
      <4>2. L[c] = L[c - 1] + (2 + Len(v))
        BY <3>3
      <4> QED BY <4>1, <4>2
    <3> QED BY <2>1, <3>2, <3>6, Zenon
  <2> QED BY <2>6, <2>8, <2>9
<1>9. AtChildren(n, k, at)
  <2> HIDE DEF at
  <2> QED BY <1>2, <1>7, <1>8 DEF AtChildren, k
<1>10. k > 0 => at[1] = q
  <2> SUFFICES ASSUME k > 0 PROVE at[1] = q
    OBVIOUS
  <2>1. 1 \in 1 .. k /\ 1 - 1 = 0
    BY <1>2
  <2> QED BY <1>4, <1>6, <2>1
<1> QED BY <1>9, <1>10 DEF k

ChildStep(bytes, p, at) ==
  LET count == NextNumber(bytes, p) + ReadUleb(bytes, p)
  IN at = [c \in 1 .. bytes[count] |->
             IF c = 1 THEN count + 1 ELSE NextNumber(bytes, at[c - 1] + 2)]

\* dyld finds the records of the children.
LEMMA ChildRecordsAre ==
  ASSUME LaidOut, pc = "done", NEW n \in TrieNodes(exports)
  PROVE  AtChildren(n, Len(Children(n)), ChildRecords(out, offset[n] + 1))
<1> DEFINE p == offset[n] + 1
           k == Len(Children(n))
           count == NextNumber(out, p) + ReadUleb(out, p)
           q == count + 1
<1>1. /\ out[count] = k /\ Placed(out, q, FlattenSeq(RecordsOf(Children(n), offset)))
  <2>1. AtNode(n, p)
    BY NodeIsRead
  <2> DEFINE u == Len(Uleb(Len(Terminal(n))))
             t == Len(Terminal(n))
  <2>2. /\ p \in Nat /\ u \in Nat /\ t \in Nat /\ ReadUleb(out, p) = t
           /\ NextNumber(out, p) = p + u
        /\ out[p + u + t] = k
        /\ Placed(out, p + u + t + 1, FlattenSeq(RecordsOf(Children(n), offset)))
    BY <2>1 DEF AtNode
  <2> HIDE DEF p, u, t, k
  <2>3. count = p + u + t
    BY <2>2
  <2> QED BY <2>2, <2>3
<1>2. PICK W : AtChildren(n, k, W) /\ (k > 0 => W[1] = q)
  <2> HIDE DEF q
  <2> QED BY <1>1, RecordsAreRead
<1>3. k \in Nat /\ W \in [1 .. k -> Nat \ {0}]
      /\ \A c \in 1 .. k : c < k => W[c + 1] = NextNumber(out, W[c] + 2)
  BY <1>2 DEF AtChildren
<1> HIDE DEF p, k
<1>4. ChildStep(out, p, W)
  <2>1. ASSUME NEW c \in 1 .. k
        PROVE  W[c] = IF c = 1 THEN count + 1 ELSE NextNumber(out, W[c - 1] + 2)
    <3>1. CASE c = 1
      BY <1>2, <1>3, <3>1
    <3>2. CASE c # 1
      <4>1. c - 1 \in 1 .. k /\ c - 1 < k /\ (c - 1) + 1 = c
        BY <1>3, <3>2
      <4>2. W[(c - 1) + 1] = NextNumber(out, W[c - 1] + 2)
        BY <1>3, <4>1
      <4> QED BY <3>2, <4>1, <4>2
    <3> QED BY <3>1, <3>2
  <2>2. W = [c \in 1 .. k |-> W[c]]
    BY <1>3
  <2> HIDE DEF count
  <2>3. W = [c \in 1 .. k |-> IF c = 1 THEN count + 1 ELSE NextNumber(out, W[c - 1] + 2)]
    BY <2>1, <2>2, Zenon
  <2> QED BY <1>1, <2>3 DEF ChildStep, count
<1> DEFINE g == CHOOSE at : ChildStep(out, p, at)
<1>5. ChildRecords(out, p) = g
  BY DEF ChildRecords, ChildStep
<1>6. ChildStep(out, p, g)
  BY <1>4, Zenon
<1> HIDE DEF g
<1>7. g = [c \in 1 .. k |-> IF c = 1 THEN count + 1 ELSE NextNumber(out, g[c - 1] + 2)]
  BY <1>1, <1>6, Zenon DEF ChildStep
<1> DEFINE S == {c \in Nat : c \in 1 .. k => g[c] = W[c]}
<1> HIDE DEF count
<1>8. ASSUME NEW c \in Nat, \A m \in 0 .. c - 1 : m \in S PROVE c \in S
  <2> SUFFICES ASSUME c \in 1 .. k PROVE g[c] = W[c]
    OBVIOUS
  <2>1. g[c] = IF c = 1 THEN count + 1 ELSE NextNumber(out, g[c - 1] + 2)
    BY <1>7
  <2>2. W[c] = IF c = 1 THEN count + 1 ELSE NextNumber(out, W[c - 1] + 2)
    <3>1. W = [d \in 1 .. k |-> IF d = 1 THEN count + 1 ELSE NextNumber(out, W[d - 1] + 2)]
      BY <1>1, <1>4 DEF ChildStep, count
    <3> QED BY <3>1
  <2>3. c # 1 => g[c - 1] = W[c - 1]
    <3> SUFFICES ASSUME c # 1 PROVE g[c - 1] = W[c - 1]
      OBVIOUS
    <3>1. c - 1 \in 0 .. c - 1 /\ c - 1 \in 1 .. k
      BY <1>3
    <3> QED BY <1>8, <3>1
  <2> QED BY <2>1, <2>2, <2>3
<1>9. \A c \in 1 .. k : g[c] = W[c]
  <2> HIDE DEF S
  <2>1. \A c \in Nat : c \in S
    BY <1>8, NatDescent
  <2>2. \A c \in 1 .. k : c \in Nat
    BY <1>3
  <2> QED BY <2>1, <2>2 DEF S
<1>10. g = W
  <2>1. DOMAIN g = 1 .. k /\ DOMAIN W = 1 .. k
    BY <1>3, <1>7
  <2>2. g = [c \in 1 .. k |-> g[c]] /\ W = [c \in 1 .. k |-> W[c]]
    BY <1>3, <1>7
  <2> QED BY <1>9, <2>2, Zenon
<1> QED BY <1>2, <1>5, <1>10 DEF p, k

\* A child is its parent with one more character.
LEMMA ChildIs ==
  ASSUME NEW n \in Seq(Nat), NEW m \in Seq(Nat)
  PROVE  Len(m) = Len(n) + 1 /\ IsPrefix(n, m) <=> m # <<>> /\ m = Append(n, Last(m))
<1>1. ASSUME Len(m) = Len(n) + 1, IsPrefix(n, m) PROVE m # <<>> /\ m = Append(n, Last(m))
  <2>1. \A j \in 1 .. Len(n) : n[j] = m[j]
    BY <1>1, PrefixByCharacter
  <2>2. Len(n) \in Nat /\ Len(m) \in Nat /\ m # <<>>
    BY <1>1
  <2>3. Last(m) = m[Len(m)] /\ Last(m) \in Nat
    <3>1. Len(m) \in 1 .. Len(m)
      BY <1>1, <2>2
    <3> QED BY <3>1, Elements DEF Last
  <2> DEFINE a == Append(n, Last(m))
  <2>4. a \in Seq(Nat) /\ Len(a) = Len(n) + 1 /\ a[Len(n) + 1] = Last(m)
        /\ \A j \in 1 .. Len(n) : a[j] = n[j]
    BY <2>3
  <2> HIDE DEF a
  <2>5. \A j \in 1 .. Len(m) : m[j] = a[j]
    <3> TAKE j \in 1 .. Len(m)
    <3>1. j \in 1 .. Len(n) \/ j = Len(n) + 1
      BY <1>1, <2>2
    <3> QED BY <1>1, <2>1, <2>3, <2>4, <3>1
  <2>6. m = a
    BY <1>1, <2>4, <2>5, SeqEqual
  <2> QED BY <2>2, <2>6 DEF a
<1>2. ASSUME m # <<>>, m = Append(n, Last(m)) PROVE Len(m) = Len(n) + 1 /\ IsPrefix(n, m)
  <2>1. Len(m) \in Nat /\ Len(n) \in Nat /\ Len(m) # 0
    BY <1>2
  <2>2. Last(m) \in Nat
    <3>1. Len(m) \in 1 .. Len(m)
      BY <2>1
    <3> QED BY <3>1, Elements DEF Last
  <2> DEFINE ch == Last(m)
  <2>3. m = Append(n, ch) /\ ch \in Nat
    BY <1>2, <2>2
  <2> HIDE DEF ch
  <2>4. Len(m) = Len(n) + 1 /\ \A j \in 1 .. Len(n) : n[j] = m[j]
    BY <2>3
  <2>5. Len(n) <= Len(m)
    BY <2>1, <2>4
  <2> QED BY <2>4, <2>5, PrefixByCharacter
<1> QED BY <1>1, <1>2

\* The place of a name's node, if it has one.
NodeOf(s) == IF s \in TrieNodes(exports) THEN offset[s] + 1 ELSE None

\* One character of the walk.
LEMMA DescendIs ==
  ASSUME LaidOut, pc = "done", NEW n \in TrieNodes(exports), NEW ch \in Nat
  PROVE  Descend(out, offset[n] + 1, ch) = NodeOf(Append(n, ch))
<1> DEFINE kids == Children(n)
           k == Len(kids)
           at == ChildRecords(out, offset[n] + 1)
           here == {c \in DOMAIN at : out[at[c]] = ch}
           m == Append(n, ch)
<1>1. exports \in ExportSets /\ nodes = Visit(exports) /\ offset \in [TrieNodes(exports) -> Nat]
  BY DEF LaidOut, TrieTypes
<1>2. TrieNodes(exports) \in SUBSET Seq(Nat)
  BY <1>1, TrieNodesAre
<1>3. /\ k \in Nat /\ \A c \in 1 .. k : kids[c] \in Kids(n)
      /\ \A c, d \in 1 .. k : kids[c] = kids[d] => c = d
      /\ \A o \in Kids(n) : \E c \in 1 .. k : kids[c] = o
  BY <1>1, ChildrenAre
<1>4. /\ k \in Nat /\ at \in [1 .. k -> Nat \ {0}]
      /\ \A c \in 1 .. k : out[at[c]] = Last(kids[c])
         /\ ReadUleb(out, at[c] + 2) = offset[kids[c]]
  <2>1. AtChildren(n, k, at)
    BY ChildRecordsAre
  <2> HIDE DEF k, kids, at
  <2> QED BY <2>1 DEF AtChildren, k, kids
<1> HIDE DEF kids, at
<1>5. \A c \in 1 .. k : kids[c] \in TrieNodes(exports) /\ kids[c] = Append(n, Last(kids[c]))
  <2> TAKE c \in 1 .. k
  <2>1. kids[c] \in Kids(n)
    BY <1>3
  <2>2. kids[c] \in TrieNodes(exports) /\ Len(kids[c]) = Len(n) + 1 /\ IsPrefix(n, kids[c])
    BY <1>2, <2>1 DEF Kids
  <2>3. kids[c] \in Seq(Nat) /\ n \in Seq(Nat)
    BY <1>2, <2>2
  <2> QED BY <2>2, <2>3, ChildIs
<1>6. DOMAIN at = 1 .. k
  BY <1>4
<1>7. Descend(out, offset[n] + 1, ch) = IF here = {} THEN None
        ELSE ReadUleb(out, at[Min(here)] + 2) + 1
  BY DEF Descend, at
<1>8. CASE m \in TrieNodes(exports)
  <2>1. m \in Seq(Nat) /\ n \in Seq(Nat) /\ m # <<>> /\ Last(m) = ch
    <3>1. n \in Seq(Nat)
      BY <1>2
    <3>2. m \in Seq(Nat) /\ Len(m) = Len(n) + 1 /\ m[Len(n) + 1] = ch /\ Len(n) \in Nat
      BY <3>1
    <3>3. m # <<>>
      BY <3>2
    <3> QED BY <3>1, <3>2, <3>3 DEF Last
  <2>2. m \in Kids(n)
    <3>1. m # <<>> /\ m = Append(n, Last(m))
      BY <2>1
    <3> HIDE DEF m
    <3>2. Len(m) = Len(n) + 1 /\ IsPrefix(n, m)
      BY <2>1, <3>1, ChildIs
    <3> QED BY <1>2, <1>8, <3>2 DEF Kids
  <2>3. PICK c \in 1 .. k : kids[c] = m
    <3> HIDE DEF m
    <3> QED BY <1>3, <2>2
  <2>4. c \in here
    <3> HIDE DEF m
    <3> QED BY <1>4, <1>6, <2>1, <2>3
  <2>5. \A d \in here : d = c
    <3> TAKE d \in here
    <3>1. d \in 1 .. k /\ Last(kids[d]) = ch
      BY <1>4, <1>6
    <3>2. kids[d] = m
      BY <1>5, <3>1
    <3> HIDE DEF m
    <3> QED BY <1>3, <2>3, <3>1, <3>2
  <2>6. here = {c}
    <3> HIDE DEF here
    <3> QED BY <2>4, <2>5
  <2>7. Min(here) = c
    <3> HIDE DEF here
    <3>1. c <= c
      BY <1>4
    <3> QED BY <2>6, <3>1, Zenon DEF Min
  <2> HIDE DEF here, m
  <2>8. Descend(out, offset[n] + 1, ch) = offset[m] + 1
    <3>1. ReadUleb(out, at[c] + 2) = offset[m]
      BY <1>4, <2>3
    <3>2. here # {}
      BY <2>6
    <3> QED BY <1>7, <2>7, <3>1, <3>2
  <2> QED BY <1>8, <2>8 DEF NodeOf, m
<1>9. CASE m \notin TrieNodes(exports)
  <2>1. here = {}
    <3> SUFFICES ASSUME NEW d \in here PROVE FALSE
      OBVIOUS
    <3>1. d \in 1 .. k /\ Last(kids[d]) = ch
      BY <1>4, <1>6
    <3> QED BY <1>5, <1>9, <3>1
  <2> HIDE DEF here
  <2> QED BY <1>7, <1>9, <2>1 DEF NodeOf
<1> QED BY <1>8, <1>9

FindStep(bytes, name, at) ==
  at = [k \in 0 .. Len(name) |->
          IF k = 0 THEN 1
          ELSE LET p == at[k - 1] IN IF p = None THEN None ELSE Descend(bytes, p, name[k])]

\* The beginnings of a name are nodes as far as its nodes go.
LEMMA NodeStep ==
  ASSUME exports \in ExportSets, NEW s \in Seq(Nat), NEW k \in 1 .. Len(s)
  PROVE  /\ SubSeq(s, 1, k) = Append(SubSeq(s, 1, k - 1), s[k])
         /\ SubSeq(s, 1, k) \in TrieNodes(exports) => SubSeq(s, 1, k - 1) \in TrieNodes(exports)
<1> DEFINE a == SubSeq(s, 1, k)
           b == SubSeq(s, 1, k - 1)
           c == Append(b, s[k])
<1>0. Len(s) \in Nat /\ k \in 0 .. Len(s) /\ k - 1 \in 0 .. Len(s) /\ s[k] \in Nat
      /\ k - 1 \in Nat
  <2>1. Len(s) \in Nat /\ s[k] \in Nat
    BY Elements
  <2> QED BY <2>1
<1>1. a \in Seq(Nat) /\ Len(a) = k /\ \A j \in 1 .. k : a[j] = s[j]
  BY <1>0, Beginning
<1>2. b \in Seq(Nat) /\ Len(b) = k - 1 /\ \A j \in 1 .. k - 1 : b[j] = s[j]
  BY <1>0, Beginning
<1> HIDE DEF a, b
<1>3. c \in Seq(Nat) /\ Len(c) = k /\ c[k] = s[k] /\ \A j \in 1 .. k - 1 : c[j] = b[j]
  <2>1. Len(b) + 1 = k
    BY <1>0, <1>2
  <2>2. c \in Seq(Nat) /\ Len(c) = Len(b) + 1 /\ c[Len(b) + 1] = s[k]
        /\ \A j \in 1 .. Len(b) : c[j] = b[j]
    BY <1>0, <1>2
  <2> HIDE DEF c
  <2> QED BY <1>2, <2>1, <2>2
<1> HIDE DEF c
<1>4. \A j \in 1 .. Len(a) : a[j] = c[j]
  <2> TAKE j \in 1 .. Len(a)
  <2>1. j \in 1 .. k - 1 \/ j = k
    BY <1>0, <1>1
  <2> QED BY <1>0, <1>1, <1>2, <1>3, <2>1
<1>5. a = c
  BY <1>1, <1>3, <1>4, SeqEqual
<1>6. ASSUME a \in TrieNodes(exports) PROVE b \in TrieNodes(exports)
  <2>1. SubSeq(a, 1, k - 1) \in TrieNodes(exports)
    <3>1. k - 1 \in 0 .. Len(a)
      BY <1>0, <1>1
    <3> QED BY <1>6, <3>1, TrieNodesAre
  <2>2. k - 1 \in 0 .. Len(a)
    BY <1>0, <1>1
  <2> DEFINE d == SubSeq(a, 1, k - 1)
  <2>3. d \in Seq(Nat) /\ Len(d) = k - 1 /\ \A j \in 1 .. k - 1 : d[j] = a[j]
    BY <1>1, <2>2, Beginning
  <2> HIDE DEF d
  <2>4. \A j \in 1 .. Len(d) : d[j] = b[j]
    <3> TAKE j \in 1 .. Len(d)
    <3>1. j \in 1 .. k - 1 /\ j \in 1 .. k
      BY <1>0, <2>3
    <3> QED BY <1>1, <1>2, <2>3, <3>1
  <2>5. d = b
    BY <1>2, <2>3, <2>4, SeqEqual
  <2> QED BY <2>1, <2>5 DEF d
<1> QED BY <1>5, <1>6 DEF a, b, c

\* The walk ends at the node of the name.
LEMMA FindIs ==
  ASSUME LaidOut, pc = "done", NEW s \in Seq(Nat)
  PROVE  Find(out, s) = NodeOf(s)
<1> DEFINE W == [k \in 0 .. Len(s) |-> NodeOf(SubSeq(s, 1, k))]
           g == CHOOSE at : FindStep(out, s, at)
<1>1. /\ exports \in ExportSets /\ nodes = Visit(exports)
         /\ offset \in [TrieNodes(exports) -> Nat]
      /\ offset[nodes[1]] = 0
  BY DEF LaidOut, TrieTypes, Ahead
<1>2. Len(s) \in Nat /\ <<>> \in TrieNodes(exports) /\ nodes[1] = <<>>
  BY <1>1, TrieNodesAre, VisitIs
<1>3. ASSUME NEW k \in 0 .. Len(s)
      PROVE  W[k] = IF k = 0 THEN 1
                    ELSE LET p == W[k - 1] IN IF p = None THEN None ELSE Descend(out, p, s[k])
  <2>1. CASE k = 0
    <3>1. SubSeq(s, 1, 0) = <<>>
      OBVIOUS
    <3>2. NodeOf(<<>>) = 1
      BY <1>1, <1>2 DEF NodeOf
    <3> QED BY <2>1, <3>1, <3>2
  <2>2. CASE k # 0
    <3> DEFINE a == SubSeq(s, 1, k)
               b == SubSeq(s, 1, k - 1)
    <3>1. k \in 1 .. Len(s) /\ k - 1 \in 0 .. Len(s) /\ s[k] \in Nat
      BY <1>2, <2>2, Elements
    <3>2. a = Append(b, s[k]) /\ (a \in TrieNodes(exports) => b \in TrieNodes(exports))
      BY <1>1, <3>1, NodeStep
    <3>3. W[k] = NodeOf(a) /\ W[k - 1] = NodeOf(b)
      BY <3>1
    <3> HIDE DEF a, b, W
    <3>4. CASE b \in TrieNodes(exports)
      <4>1. Descend(out, offset[b] + 1, s[k]) = NodeOf(a)
        BY <3>1, <3>2, <3>4, DescendIs
      <4>2. offset[b] + 1 # None
        BY <1>1, <3>4 DEF None
      <4>3. W[k - 1] = offset[b] + 1
        BY <3>3, <3>4 DEF NodeOf
      <4> QED BY <2>2, <3>3, <4>1, <4>2, <4>3
    <3>5. CASE b \notin TrieNodes(exports)
      <4>1. W[k - 1] = None /\ W[k] = None
        BY <3>2, <3>3, <3>5 DEF NodeOf
      <4> QED BY <2>2, <4>1
    <3> QED BY <3>4, <3>5
  <2> QED BY <2>1, <2>2
<1>4. DOMAIN W = 0 .. Len(s) /\ W[Len(s)] = NodeOf(s)
  <2>1. SubSeq(s, 1, Len(s)) = s
    OBVIOUS
  <2>2. Len(s) \in 0 .. Len(s)
    BY <1>2
  <2>3. W[Len(s)] = NodeOf(SubSeq(s, 1, Len(s)))
    BY <2>2
  <2> QED BY <2>1, <2>3
<1>5. W = [k \in 0 .. Len(s) |-> W[k]]
  OBVIOUS
<1> HIDE DEF W
<1>6. FindStep(out, s, W)
  BY <1>3, <1>5, Zenon DEF FindStep
<1>7. Find(out, s) = g[Len(s)]
  BY DEF Find, FindStep
<1>8. FindStep(out, s, g)
  BY <1>6, Zenon
<1> HIDE DEF g
<1> DEFINE S == {k \in Nat : k \in 0 .. Len(s) => g[k] = W[k]}
<1>9. ASSUME NEW k \in Nat, \A m \in 0 .. k - 1 : m \in S PROVE k \in S
  <2> SUFFICES ASSUME k \in 0 .. Len(s) PROVE g[k] = W[k]
    OBVIOUS
  <2>1. g[k] = IF k = 0 THEN 1
               ELSE LET p == g[k - 1] IN IF p = None THEN None ELSE Descend(out, p, s[k])
    <3>1. g = [j \in 0 .. Len(s) |->
                 IF j = 0 THEN 1
                 ELSE LET p == g[j - 1] IN IF p = None THEN None ELSE Descend(out, p, s[j])]
      BY <1>8 DEF FindStep
    <3> QED BY <3>1
  <2>2. k # 0 => g[k - 1] = W[k - 1]
    <3> SUFFICES ASSUME k # 0 PROVE g[k - 1] = W[k - 1]
      OBVIOUS
    <3>1. k - 1 \in 0 .. k - 1 /\ k - 1 \in 0 .. Len(s)
      BY <1>2
    <3> QED BY <1>9, <3>1
  <2> QED BY <1>3, <2>1, <2>2
<1>10. Len(s) \in S
  <2> HIDE DEF S
  <2> QED BY <1>2, <1>9, NatDescent
<1>11. g[Len(s)] = W[Len(s)]
  BY <1>2, <1>10
<1> QED BY <1>4, <1>7, <1>11

\* What dyld answers for any name.
LEMMA LookupIs ==
  ASSUME LaidOut, pc = "done", NEW s \in Seq(Nat)
  PROVE  Lookup(out, s) = IF s \in DOMAIN exports THEN exports[s] ELSE None
<1> DEFINE p == offset[s] + 1
           t == Terminal(s)
           u == Len(Uleb(Len(t)))
<1>1. exports \in ExportSets /\ offset \in [TrieNodes(exports) -> Nat]
  BY DEF LaidOut, TrieTypes
<1>2. DOMAIN exports \in SUBSET TrieNodes(exports)
  BY <1>1, TrieNodesAre
<1>3. CASE s \notin TrieNodes(exports)
  <2>1. Find(out, s) = None
    BY <1>3, FindIs DEF NodeOf
  <2>2. s \notin DOMAIN exports
    BY <1>2, <1>3
  <2> QED BY <2>1, <2>2 DEF Lookup
<1>4. CASE s \in TrieNodes(exports)
  <2>1. Find(out, s) = p /\ p # None
    <3>1. offset[s] \in Nat
      BY <1>1, <1>4
    <3> QED BY <1>4, <3>1, FindIs DEF NodeOf, None
  <2>2. /\ ReadUleb(out, p) = Len(t) /\ NextNumber(out, p) = p + u /\ Placed(out, p + u, t)
    BY <1>4, NodeIsRead DEF AtNode
  <2>3. CASE s \notin DOMAIN exports
    <3>1. t = <<>>
      BY <2>3 DEF Terminal, TerminalOf
    <3>2. ReadUleb(out, p) = 0
      BY <2>2, <3>1
    <3> HIDE DEF p, t, u
    <3> QED BY <2>1, <2>3, <3>2 DEF Lookup
  <2>4. CASE s \in DOMAIN exports
    <3> DEFINE flags == Uleb(0)
               address == Uleb(exports[s])
    <3>1. exports[s] \in Nat
      BY <1>1, <2>4, TrieAssumption
    <3>2. /\ flags \in Seq(Nat) /\ Len(flags) \in Nat \ {0}
          /\ address \in Seq(Nat) /\ Len(address) \in Nat \ {0}
      BY <3>1, UlebBytes
    <3>3. t = flags \o address
      BY <2>4 DEF Terminal, TerminalOf
    <3> HIDE DEF p, t, u, flags, address
    <3>4. Len(t) = Len(flags) + Len(address) /\ Len(t) # 0
      BY <3>2, <3>3
    <3>5. Placed(out, p + u, flags) /\ Placed(out, p + u + Len(flags), address)
      BY <2>2, <3>2, <3>3, PlacedParts
    <3>6. NextNumber(out, p + u) = p + u + Len(flags)
      BY <3>5, NumberIsRead DEF flags
    <3>7. ReadUleb(out, p + u + Len(flags)) = exports[s]
      BY <3>1, <3>5, NumberIsRead DEF address
    <3>8. ReadUleb(out, p) # 0
      BY <2>2, <3>4
    <3>9. NextNumber(out, NextNumber(out, p)) = p + u + Len(flags)
      BY <2>2, <3>6
    <3>10. Lookup(out, s) = ReadUleb(out, NextNumber(out, NextNumber(out, p)))
      BY <2>1, <3>8, Zenon DEF Lookup
    <3> QED BY <2>4, <3>7, <3>9, <3>10
  <2> QED BY <2>3, <2>4
<1> QED BY <1>3, <1>4

\* dyld finds the exported names, and no others: in any state of the invariant.
LEMMA ExportsThen == TrieInv => ExportsFound
<1> SUFFICES ASSUME TrieInv, pc = "done", NEW n \in TrieNodes(exports),
                    NEW s \in {n} \cup {Append(n, ch) : ch \in Alphabet}
             PROVE  Lookup(out, s) = IF s \in DOMAIN exports THEN exports[s] ELSE None
  BY DEF ExportsFound
<1>1. LaidOut /\ exports \in ExportSets
  BY DEF TrieInv, Unvisited, LaidOut, TrieTypes
<1>2. TrieNodes(exports) \in SUBSET Seq(Nat) /\ DOMAIN exports \in SUBSET TrieNodes(exports)
  BY <1>1, TrieNodesAre
<1>3. ASSUME NEW ch \in Alphabet PROVE ch \in Nat
  <2>1. PICK m \in DOMAIN exports : ch \in Range(m)
    BY DEF Alphabet
  <2>2. m \in Seq(Nat)
    BY <1>2, <2>1
  <2> QED BY <2>1, <2>2, Elements DEF Range
<1>4. s \in Seq(Nat)
  BY <1>2, <1>3, SMTT(30)
<1> QED BY <1>1, <1>4, LookupIs

\* dyld finds every exported name with its address in the bytes that
\* _build_export_trie returns, and no other name.
THEOREM ExportsAreFound == TrieSpec => []ExportsFound
BY TrieInvariant, ExportsThen, PTL

-----------------------------------------------------------------------------
(* The verdict.  The layout loop updates the offsets in place: a node that *)
(* is placed reads only the offsets of its children, and these come later, *)
(* so each round computes the next of the layouts.                         *)

\* Where the i-th node begins, by the layout off.
Place(e, off, i) == Len(FlattenSeq([k \in 1 .. i - 1 |-> NodeBytes(e, off, Visit(e)[k])]))

\* One more sequence makes the concatenation longer by its length.
LEMMA OneMore ==
  ASSUME NEW n \in Nat, NEW front \in [1 .. n -> Seq(Nat)], NEW seqs \in [1 .. n + 1 -> Seq(Nat)],
         \A k \in 1 .. n : front[k] = seqs[k]
  PROVE  /\ Len(FlattenSeq(front)) \in Nat
         /\ Len(FlattenSeq(seqs)) = Len(FlattenSeq(front)) + Len(seqs[n + 1])
<1>1. PICK a : /\ Starts(front, n, a) /\ FlattenSeq(front) \in Seq(Nat)
               /\ Len(FlattenSeq(front)) = a[n] /\ AllThere(front, n, a, FlattenSeq(front))
  BY FlattenPlaces, Zenon
<1>2. PICK b : /\ Starts(seqs, n + 1, b) /\ FlattenSeq(seqs) \in Seq(Nat)
               /\ Len(FlattenSeq(seqs)) = b[n + 1]
               /\ AllThere(seqs, n + 1, b, FlattenSeq(seqs))
  <2>1. n + 1 \in Nat
    OBVIOUS
  <2> QED BY <2>1, FlattenPlaces, Zenon
<1>3. /\ a \in [0 .. n -> Nat] /\ a[0] = 0 /\ \A i \in 1 .. n : a[i] = a[i - 1] + Len(front[i])
      /\ b[0] = 0 /\ \A i \in 1 .. n + 1 : b[i] = b[i - 1] + Len(seqs[i])
  BY <1>1, <1>2 DEF Starts
<1> DEFINE S == {m \in Nat : m <= n => a[m] = b[m]}
<1>4. ASSUME NEW m \in Nat, \A k \in 0 .. m - 1 : k \in S PROVE m \in S
  <2>1. CASE m = 0
    BY <1>3, <2>1
  <2>2. CASE m # 0 /\ m <= n
    <3>1. m \in 1 .. n /\ m \in 1 .. n + 1 /\ m - 1 \in 0 .. m - 1 /\ m - 1 <= n
      BY <2>2
    <3>2. a[m - 1] = b[m - 1] /\ front[m] = seqs[m]
      BY <1>4, <3>1
    <3> QED BY <1>3, <3>1, <3>2
  <2>3. CASE ~(m <= n)
    BY <2>3
  <2> QED BY <2>1, <2>2, <2>3
<1>5. a[n] = b[n]
  <2>1. n \in S
    <3> HIDE DEF S
    <3> QED BY <1>4, NatDescent
  <2> QED BY <2>1
<1>6. b[n + 1] = b[n] + Len(seqs[n + 1]) /\ a[n] \in Nat
  <2>1. n + 1 \in 1 .. n + 1 /\ (n + 1) - 1 = n /\ n \in 0 .. n
    OBVIOUS
  <2> QED BY <1>3, <2>1
<1> QED BY <1>1, <1>2, <1>5, <1>6

\* The places are the sums of the lengths of the nodes.
LEMMA PlacesAre ==
  ASSUME exports \in ExportSets, nodes = Visit(exports),
         NEW off \in [TrieNodes(exports) -> Nat]
  PROVE  /\ Place(exports, off, 1) = 0
         /\ \A i \in 1 .. Len(nodes) :
              /\ Place(exports, off, i) \in Nat
              /\ Place(exports, off, i + 1)
                   = Place(exports, off, i) + Len(EncodeWith(nodes[i], off))
<1> DEFINE bytes(k) == NodeBytes(exports, off, nodes[k])
           seqs(i) == [k \in 1 .. i - 1 |-> bytes(k)]
<1>1. Len(nodes) \in Nat /\ \A i \in 1 .. Len(nodes) : nodes[i] \in TrieNodes(exports)
  BY VisitIs
<1>2. \A k \in 1 .. Len(nodes) : bytes(k) = EncodeWith(nodes[k], off)
  BY DEF NodeBytes, EncodeWith, HeadOf, RecordsOf, Children, Terminal
<1>3. \A k \in 1 .. Len(nodes) : bytes(k) \in Seq(Nat)
  <2> TAKE k \in 1 .. Len(nodes)
  <2>1. EncodeWith(nodes[k], off) \in Seq(Nat)
    BY <1>1, EncodeIs
  <2> QED BY <1>2, <2>1
<1>4. \A i : Place(exports, off, i) = Len(FlattenSeq(seqs(i)))
  BY DEF Place
<1> HIDE DEF bytes
<1>5. Place(exports, off, 1) = 0
  <2>1. seqs(1) \in [1 .. 0 -> Seq(Nat)] /\ 0 \in Nat
    OBVIOUS
  <2> HIDE DEF seqs
  <2>2. PICK a : Starts(seqs(1), 0, a) /\ Len(FlattenSeq(seqs(1))) = a[0]
    BY <2>1, FlattenPlaces
  <2> QED BY <1>4, <2>2 DEF Starts
<1>6. ASSUME NEW i \in 1 .. Len(nodes)
      PROVE  /\ Place(exports, off, i) \in Nat
             /\ Place(exports, off, i + 1) = Place(exports, off, i) + Len(bytes(i))
  <2>1. i - 1 \in Nat /\ (i - 1) + 1 = i /\ (i + 1) - 1 = i
    BY <1>1
  <2>2. seqs(i) \in [1 .. i - 1 -> Seq(Nat)] /\ seqs(i + 1) \in [1 .. (i - 1) + 1 -> Seq(Nat)]
        /\ (\A k \in 1 .. i - 1 : seqs(i)[k] = seqs(i + 1)[k]) /\ seqs(i + 1)[i] = bytes(i)
    BY <1>1, <1>3, <2>1
  <2> HIDE DEF seqs
  <2>3. /\ Len(FlattenSeq(seqs(i))) \in Nat
        /\ Len(FlattenSeq(seqs(i + 1))) = Len(FlattenSeq(seqs(i))) + Len(seqs(i + 1)[(i - 1) + 1])
    BY <2>1, <2>2, OneMore
  <2> QED BY <1>4, <2>1, <2>2, <2>3
<1> QED BY <1>2, <1>5, <1>6

\* The next layout puts every node at its place.
LEMMA NextLayoutIs ==
  ASSUME exports \in ExportSets, nodes = Visit(exports),
         NEW off \in [TrieNodes(exports) -> Nat]
  PROVE  /\ NextLayout(exports, off) \in [TrieNodes(exports) -> Nat]
         /\ \A i \in 1 .. Len(nodes) : NextLayout(exports, off)[nodes[i]] = Place(exports, off, i)
<1> DEFINE at(n) == CHOOSE i \in DOMAIN nodes : nodes[i] = n
<1>1. /\ DOMAIN nodes = 1 .. Len(nodes)
      /\ \A i \in 1 .. Len(nodes) : nodes[i] \in TrieNodes(exports)
      /\ \A i, j \in 1 .. Len(nodes) : nodes[i] = nodes[j] => i = j
      /\ \A n \in TrieNodes(exports) : \E i \in 1 .. Len(nodes) : nodes[i] = n
  BY VisitIs DEF Range
<1>2. NextLayout(exports, off) = [n \in TrieNodes(exports) |-> Place(exports, off, at(n))]
  BY DEF NextLayout, Place
<1>3. \A n \in TrieNodes(exports) : at(n) \in 1 .. Len(nodes) /\ nodes[at(n)] = n
  BY <1>1
<1>4. \A i \in 1 .. Len(nodes) : at(nodes[i]) = i
  BY <1>1, <1>3
<1> HIDE DEF at
<1>5. \A n \in TrieNodes(exports) : Place(exports, off, at(n)) \in Nat
  BY <1>3, PlacesAre
<1> QED BY <1>1, <1>2, <1>4, <1>5

\* The layouts of all rounds are a recursion that exists.
LEMMA LayoutsAre ==
  ASSUME exports \in ExportSets, nodes = Visit(exports)
  PROVE  /\ Layouts(exports)[0] = [n \in TrieNodes(exports) |-> 0]
         /\ \A r \in Nat : /\ Layouts(exports)[r] \in [TrieNodes(exports) -> Nat]
                           /\ Layouts(exports)[r + 1] = NextLayout(exports, Layouts(exports)[r])
<1> DEFINE X == [TrieNodes(exports) -> Nat]
           zero == [n \in TrieNodes(exports) |-> 0]
           nxt == [r \in Nat |-> IF r = 0 THEN 0 ELSE r - 1]
           mu == [r \in Nat |-> r]
           a == [r \in Nat |-> zero]
           b == [p \in Nat \X X |-> NextLayout(exports, p[2])]
           L == Layouts(exports)
           Is(g) == g = [r \in Nat |-> IF r = 0 THEN zero ELSE NextLayout(exports, g[r - 1])]
<1>1. \A off \in X : NextLayout(exports, off) \in X
  BY NextLayoutIs
<1>2. zero \in X
  OBVIOUS
<1>3. L = CHOOSE g : Is(g)
  BY DEF Layouts
<1> HIDE DEF X, zero, L
<1>4. /\ nxt \in [Nat -> Nat] /\ mu \in [Nat -> Nat] /\ a \in [Nat -> X]
      /\ b \in [Nat \X X -> X] /\ \A r \in Nat \ {0} : mu[nxt[r]] < mu[r]
  BY <1>1, <1>2
<1> HIDE DEF nxt, mu, a, b
<1>5. PICK f \in [Nat -> X] : Recursion(Nat, {0}, nxt, a, b, f)
  BY <1>4, RecursionExists
<1>6. \A r \in Nat : f[r] = IF r = 0 THEN zero ELSE NextLayout(exports, f[r - 1])
  <2> TAKE r \in Nat
  <2>1. f[r] = IF r \in {0} THEN a[r] ELSE b[<<r, f[nxt[r]]>>]
    BY <1>5 DEF Recursion
  <2>2. nxt[r] \in Nat /\ (r # 0 => nxt[r] = r - 1) /\ f[nxt[r]] \in X
    BY <1>4, <1>5 DEF nxt
  <2>3. a[r] = zero /\ b[<<r, f[nxt[r]]>>] = NextLayout(exports, f[nxt[r]])
    BY <2>2 DEF a, b
  <2> QED BY <2>1, <2>2, <2>3
<1>7. f = [r \in Nat |-> IF r = 0 THEN zero ELSE NextLayout(exports, f[r - 1])]
  <2>1. f = [r \in Nat |-> f[r]]
    BY <1>5
  <2> QED BY <1>6, <2>1, Zenon
<1>8. Is(L)
  <2>1. Is(f)
    BY <1>7
  <2> HIDE DEF Is
  <2> QED BY <1>3, <2>1, Zenon
<1>9. \A r \in Nat : L[r] = IF r = 0 THEN zero ELSE NextLayout(exports, L[r - 1])
  <2>1. L = [r \in Nat |-> IF r = 0 THEN zero ELSE NextLayout(exports, L[r - 1])]
    BY <1>8
  <2> HIDE DEF Is
  <2> QED BY <2>1, Zenon
<1> HIDE DEF Is
<1> DEFINE S == {r \in Nat : L[r] \in X}
<1>10. ASSUME NEW r \in Nat, \A q \in 0 .. r - 1 : q \in S PROVE r \in S
  <2>1. CASE r = 0
    BY <1>2, <1>9, <2>1
  <2>2. CASE r # 0
    <3>1. r - 1 \in 0 .. r - 1
      BY <2>2
    <3>2. L[r - 1] \in X
      BY <1>10, <3>1
    <3>3. L[r] = NextLayout(exports, L[r - 1])
      BY <1>9, <2>2
    <3> QED BY <1>1, <3>2, <3>3
  <2> QED BY <2>1, <2>2
<1>11. \A r \in Nat : L[r] \in X
  <2>1. \A r \in Nat : r \in S
    <3> HIDE DEF S
    <3> QED BY <1>10, NatDescent
  <2> QED BY <2>1
<1>12. \A r \in Nat : L[r + 1] = NextLayout(exports, L[r])
  <2> TAKE r \in Nat
  <2>1. r + 1 \in Nat /\ r + 1 # 0 /\ (r + 1) - 1 = r
    OBVIOUS
  <2> QED BY <1>9, <2>1
<1>13. L[0] = zero
  BY <1>9
<1> QED BY <1>11, <1>12, <1>13 DEF L, X, zero

\* A node's bytes depend on the offsets of its children alone.
LEMMA EncodeSame ==
  ASSUME exports \in ExportSets, nodes = Visit(exports), NEW n \in TrieNodes(exports),
         NEW off, NEW far, \A m \in Kids(n) : off[m] = far[m]
  PROVE  EncodeWith(n, off) = EncodeWith(n, far)
<1> DEFINE ch == Children(n)
<1>1. DOMAIN ch = 1 .. Len(ch) /\ \A c \in 1 .. Len(ch) : ch[c] \in Kids(n)
  BY ChildrenAre
<1> HIDE DEF ch
<1>2. \A c \in DOMAIN ch : off[ch[c]] = far[ch[c]]
  BY <1>1
<1>3. RecordsOf(ch, off) = RecordsOf(ch, far)
  BY <1>2 DEF RecordsOf
<1> QED BY <1>3 DEF EncodeWith, ch

\* The children of a node are listed behind it.
LEMMA ChildrenLater ==
  ASSUME exports \in ExportSets, nodes = Visit(exports),
         NEW i \in 1 .. Len(nodes), NEW j \in 1 .. Len(nodes), nodes[j] \in Kids(nodes[i])
  PROVE  i < j
<1> DEFINE N == TrieNodes(exports)
           c == Cardinality(N)
           m == nodes[i]
           n == nodes[j]
<1>1. N \in SUBSET Seq(Nat) /\ IsFiniteSet(N) /\ nodes = InOrder(N)
  BY TrieNodesAre DEF Visit
<1>2. m \in N /\ n \in N /\ Len(nodes) \in Nat
  BY VisitIs
<1>3. Len(n) = Len(m) + 1 /\ IsPrefix(m, n)
  BY DEF Kids
<1>4. c \in Nat /\ nodes \in [1 .. c -> N]
      /\ \A k, l \in 1 .. c : k < l => Before(nodes[k], nodes[l])
  <2> HIDE DEF N, c
  <2> QED BY <1>1, InOrderIs DEF c
<1> HIDE DEF N, c
<1>5. Len(nodes) = c
  BY <1>4
<1>6. m \in Seq(Nat) /\ n \in Seq(Nat)
  BY <1>1, <1>2
<1>7. m # n
  <2>1. Len(m) \in Nat
    BY <1>6
  <2> QED BY <1>3, <2>1
<1>8. Before(m, n)
  BY <1>3, <1>7 DEF Before, IsStrictPrefix
<1>9. ~(j < i)
  <2> SUFFICES ASSUME j < i PROVE FALSE
    OBVIOUS
  <2>1. Before(n, m)
    BY <1>4, <1>5
  <2> HIDE DEF m, n
  <2>2. Before(m, m)
    BY <1>6, <1>8, <2>1, BeforeTransitive
  <2> QED BY <1>6, <2>2, BeforeIrreflexive
<1>10. i # j
  BY <1>7
<1> QED BY <1>9, <1>10

\* In round r of the layout of e, in front of the p-th node: the nodes before it
\* are where this round's layout has them and fit their byte, the others where
\* the last round's left them, and no earlier round moved nothing.
RoundIs(e, nds, off, r, p, cur, chg) ==
  LET last == Layouts(e)[r - 1]
      now == Layouts(e)[r]
  IN /\ Visitable(e) /\ r \in 1 .. MaxRounds
     /\ \A q \in 1 .. r - 1 : Layouts(e)[q] # Layouts(e)[q - 1]
     /\ \A k \in 1 .. p - 1 : off[nds[k]] = now[nds[k]] /\ Len(ChildrenOf(e, nds[k])) <= MaxChildren
     /\ \A k \in p .. Len(nds) : off[nds[k]] = last[nds[k]]
     /\ cur = Place(e, last, p)
     /\ chg <=> \E k \in 1 .. p - 1 : now[nds[k]] # last[nds[k]]

\* The layout in the middle of a round, in the state as it is.
Round == RoundIs(exports, nodes, offset, round, pos, cursor, changed)

VerdictInv == \/ Unvisited /\ round = 1 /\ (pc = "error" => ~Visitable(exports))
              \/ LaidOut /\ pc # "visit" /\ (pc = "error" => ~Builds(exports)) /\ Round

\* The first round begins.
LEMMA FirstRound == Visited /\ round = 1 /\ Visitable(exports) => Round
<1> SUFFICES ASSUME Visited, round = 1, Visitable(exports) PROVE Round
  OBVIOUS
<1> DEFINE zero == [n \in TrieNodes(exports) |-> 0]
<1>1. /\ exports \in ExportSets /\ nodes = Visit(exports) /\ offset = zero
      /\ pos = 1 /\ cursor = 0 /\ ~changed
  BY DEF Visited
<1>2. /\ Layouts(exports)[0] = zero /\ zero \in [TrieNodes(exports) -> Nat]
  BY <1>1, LayoutsAre
<1>3. Place(exports, zero, 1) = 0
  <2>1. zero \in [TrieNodes(exports) -> Nat]
    BY <1>2
  <2> HIDE DEF zero
  <2> QED BY <1>1, <2>1, PlacesAre
<1>4. round - 1 = 0 /\ pos - 1 = 0 /\ 1 \in 1 .. MaxRounds
  BY <1>1, TrieAssumption
<1> HIDE DEF zero
<1> QED BY <1>1, <1>2, <1>3, <1>4 DEF Round, RoundIs

\* The list of nodes is made, and the first round begins.
LEMMA VerdictVisit == VerdictInv /\ VisitNodes => VerdictInv'
<1> SUFFICES ASSUME VerdictInv, VisitNodes PROVE VerdictInv'
  OBVIOUS
<1>1. /\ pc = "visit" /\ pc' = "layout" /\ nodes' = Visit(exports) /\ Visitable(exports)
      /\ UNCHANGED <<exports, offset, round, pos, cursor, changed>>
  BY DEF VisitNodes
<1>2. /\ exports \in ExportSets /\ offset = [n \in TrieNodes(exports) |-> 0]
      /\ pos = 1 /\ cursor = 0 /\ ~changed /\ round = 1
  BY <1>1 DEF VerdictInv, Unvisited
<1>3. Visited'
  BY <1>1, <1>2 DEF Visited
<1>4. LaidOut'
  BY <1>3, LayoutStart, PTL
<1>5. (Visited /\ round = 1 /\ Visitable(exports))'
  BY <1>1, <1>2, <1>3
<1>6. Round'
  BY <1>5, FirstRound, PTL
<1>7. pc' # "visit" /\ pc' # "error"
  BY <1>1
<1> QED BY <1>4, <1>6, <1>7 DEF VerdictInv

\* A node that is placed goes where this round's layout has it.
LEMMA RoundPlaces ==
  ASSUME LaidOut, Round, LayoutNode
  PROVE  Round'
<1> DEFINE last == Layouts(exports)[round - 1]
           now == Layouts(exports)[round]
           x == nodes[pos]
<1>1. /\ exports \in ExportSets /\ nodes = Visit(exports)
      /\ offset \in [TrieNodes(exports) -> Nat] /\ TrieTypes /\ Ahead
  BY DEF LaidOut, TrieTypes
<1>2. /\ UNCHANGED <<exports, nodes, round>> /\ pos \in 1 .. Len(nodes) /\ pos' = pos + 1
      /\ offset'[x] = cursor
      /\ \A j \in 1 .. Len(nodes) : j # pos => offset'[nodes[j]] = offset[nodes[j]]
      /\ cursor' = cursor + Len(EncodeNode(x))
      /\ changed' = (changed \/ offset[x] # cursor)
      /\ Len(ChildrenOf(exports, x)) <= MaxChildren
  BY <1>1, PlacedOffset DEF LayoutNode, Encodable
<1>3. /\ Visitable(exports) /\ round \in 1 .. MaxRounds
      /\ \A q \in 1 .. round - 1 : Layouts(exports)[q] # Layouts(exports)[q - 1]
      /\ \A k \in 1 .. pos - 1 : offset[nodes[k]] = now[nodes[k]]
                                 /\ Len(ChildrenOf(exports, nodes[k])) <= MaxChildren
      /\ \A k \in pos .. Len(nodes) : offset[nodes[k]] = last[nodes[k]]
      /\ cursor = Place(exports, last, pos)
      /\ changed <=> \E k \in 1 .. pos - 1 : now[nodes[k]] # last[nodes[k]]
  BY DEF Round, RoundIs
<1>4. /\ Len(nodes) \in Nat /\ x \in TrieNodes(exports)
      /\ \A i \in 1 .. Len(nodes) : nodes[i] \in TrieNodes(exports)
      /\ \A n \in TrieNodes(exports) : \E i \in 1 .. Len(nodes) : nodes[i] = n
  BY <1>1, <1>2, VisitIs DEF Range
<1>5. last \in [TrieNodes(exports) -> Nat] /\ now = NextLayout(exports, last)
  <2>1. round - 1 \in Nat /\ (round - 1) + 1 = round
    BY <1>3, TrieAssumption
  <2>2. Layouts(exports)[(round - 1) + 1] = NextLayout(exports, Layouts(exports)[round - 1])
        /\ Layouts(exports)[round - 1] \in [TrieNodes(exports) -> Nat]
    BY <1>1, <2>1, LayoutsAre
  <2> QED BY <2>1, <2>2
<1> HIDE DEF last, now
<1>6. now[x] = cursor
  BY <1>1, <1>2, <1>3, <1>5, NextLayoutIs
<1>7. EncodeNode(x) = EncodeWith(x, last)
  <2>1. \A m \in Kids(x) : offset[m] = last[m]
    <3> TAKE m \in Kids(x)
    <3>1. m \in TrieNodes(exports)
      BY DEF Kids
    <3>2. PICK j \in 1 .. Len(nodes) : nodes[j] = m
      BY <1>4, <3>1
    <3>3. pos < j
      BY <1>1, <1>2, <3>2, ChildrenLater
    <3>4. j \in pos .. Len(nodes)
      BY <1>2, <1>4, <3>3
    <3> QED BY <1>3, <3>2, <3>4
  <2>2. EncodeWith(x, offset) = EncodeWith(x, last)
    <3> HIDE DEF x
    <3> QED BY <1>1, <1>4, <2>1, EncodeSame
  <2> QED BY <2>2, EncodeNodeIs
<1>8. cursor' = Place(exports, last, pos + 1)
  <2>1. Place(exports, last, pos + 1) = Place(exports, last, pos) + Len(EncodeWith(x, last))
    BY <1>1, <1>2, <1>5, PlacesAre
  <2> QED BY <1>2, <1>3, <1>7, <2>1
<1>9. ASSUME NEW k \in 1 .. pos
      PROVE offset'[nodes[k]] = now[nodes[k]] /\ Len(ChildrenOf(exports, nodes[k])) <= MaxChildren
  <2>1. CASE k = pos
    BY <1>2, <1>6, <2>1
  <2>2. CASE k # pos
    <3>1. k \in 1 .. pos - 1 /\ k \in 1 .. Len(nodes)
      BY <1>2, <1>4, <2>2
    <3> QED BY <1>2, <1>3, <2>2, <3>1
  <2> QED BY <2>1, <2>2
<1>10. ASSUME NEW k \in pos + 1 .. Len(nodes) PROVE offset'[nodes[k]] = last[nodes[k]]
  <2>1. k \in pos .. Len(nodes) /\ k \in 1 .. Len(nodes) /\ k # pos
    BY <1>2, <1>4
  <2> QED BY <1>2, <1>3, <2>1
<1>11. changed' <=> \E k \in 1 .. pos : now[nodes[k]] # last[nodes[k]]
  <2>1. offset[x] = last[x]
    <3>1. pos \in pos .. Len(nodes)
      BY <1>2, <1>4
    <3> QED BY <1>3, <3>1
  <2>2. changed' <=> changed \/ last[x] # now[x]
    BY <1>2, <1>6, <2>1
  <2>3. (\E k \in 1 .. pos : now[nodes[k]] # last[nodes[k]])
        <=> (\E k \in 1 .. pos - 1 : now[nodes[k]] # last[nodes[k]]) \/ now[x] # last[x]
    <3>1. pos \in Nat \ {0}
      BY <1>2, <1>4
    <3>2. \A k : k \in 1 .. pos <=> k \in 1 .. pos - 1 \/ k = pos
      BY <3>1
    <3> QED BY <3>2
  <2> QED BY <1>3, <2>2, <2>3
<1>12. pos' - 1 = pos
  BY <1>2, <1>4
<1>13. RoundIs(exports, nodes, offset', round, pos', cursor', changed')
  <2> HIDE DEF x
  <2> QED BY <1>2, <1>3, <1>8, <1>9, <1>10, <1>11, <1>12 DEF RoundIs, last, now
<1> QED BY <1>2, <1>13 DEF Round

\* When all nodes are placed the offsets are this round's layout.
LEMMA RoundOver ==
  ASSUME LaidOut, Round, pos > Len(nodes)
  PROVE  LET last == Layouts(exports)[round - 1]
             now == Layouts(exports)[round]
         IN /\ offset = now /\ now = NextLayout(exports, last) /\ (~changed <=> now = last)
            /\ Visitable(exports) /\ Countable(exports) /\ round \in 1 .. MaxRounds
            /\ \A q \in 1 .. round - 1 : Layouts(exports)[q] # Layouts(exports)[q - 1]
<1> DEFINE last == Layouts(exports)[round - 1]
           now == Layouts(exports)[round]
           N == TrieNodes(exports)
<1>1. /\ exports \in ExportSets /\ nodes = Visit(exports)
      /\ offset \in [N -> Nat] /\ pos \in 1 .. Len(nodes) + 1
  BY DEF LaidOut, TrieTypes
<1>2. /\ Len(nodes) \in Nat
      /\ \A i \in 1 .. Len(nodes) : nodes[i] \in N
      /\ \A n \in N : \E i \in 1 .. Len(nodes) : nodes[i] = n
  BY <1>1, VisitIs DEF Range
<1>3. pos - 1 = Len(nodes)
  BY <1>1, <1>2
<1>4. /\ Visitable(exports) /\ round \in 1 .. MaxRounds
      /\ \A q \in 1 .. round - 1 : Layouts(exports)[q] # Layouts(exports)[q - 1]
      /\ \A k \in 1 .. Len(nodes) : offset[nodes[k]] = now[nodes[k]]
                                    /\ Len(ChildrenOf(exports, nodes[k])) <= MaxChildren
      /\ changed <=> \E k \in 1 .. Len(nodes) : now[nodes[k]] # last[nodes[k]]
  BY <1>3 DEF Round, RoundIs
<1>5. last \in [N -> Nat] /\ now \in [N -> Nat] /\ now = NextLayout(exports, last)
  <2>1. round - 1 \in Nat /\ (round - 1) + 1 = round /\ round \in Nat
    BY <1>4, TrieAssumption
  <2>2. Layouts(exports)[(round - 1) + 1] = NextLayout(exports, Layouts(exports)[round - 1])
        /\ Layouts(exports)[round - 1] \in [N -> Nat] /\ Layouts(exports)[round] \in [N -> Nat]
    BY <1>1, <2>1, LayoutsAre
  <2> QED BY <2>1, <2>2
<1> HIDE DEF last, now
<1>6. Countable(exports)
  BY <1>2, <1>4 DEF Countable
<1> HIDE DEF N
<1>7. ASSUME NEW n \in N PROVE offset[n] = now[n]
  <2>1. PICK i \in 1 .. Len(nodes) : nodes[i] = n
    BY <1>2
  <2>2. offset[nodes[i]] = now[nodes[i]]
    BY <1>4
  <2> QED BY <2>1, <2>2
<1>same. \A f, g \in [N -> Nat] : f = g <=> \A n \in N : f[n] = g[n]
  <2> TAKE f, g \in [N -> Nat]
  <2>1. f = [n \in N |-> f[n]] /\ g = [n \in N |-> g[n]]
    OBVIOUS
  <2> QED BY <2>1, Zenon
<1>8. offset = now
  BY <1>1, <1>5, <1>7, <1>same, Zenon
<1>9. ~changed <=> \A n \in N : now[n] = last[n]
  <2>1. ASSUME ~changed, NEW n \in N PROVE now[n] = last[n]
    <3>1. PICK i \in 1 .. Len(nodes) : nodes[i] = n
      BY <1>2
    <3>2. now[nodes[i]] = last[nodes[i]]
      BY <1>4, <2>1
    <3> QED BY <3>1, <3>2
  <2>2. ASSUME \A n \in N : now[n] = last[n] PROVE ~changed
    BY <1>2, <1>4, <2>2, Zenon
  <2> QED BY <2>1, <2>2
<1>10. now = last <=> \A n \in N : now[n] = last[n]
  BY <1>5, <1>same, Zenon
<1> QED BY <1>4, <1>5, <1>6, <1>8, <1>9, <1>10 DEF last, now

\* The next round begins where this one's layout has the nodes.
LEMMA RoundBegins ==
  ASSUME LaidOut, Round, EndRound
  PROVE  Round'
<1> DEFINE now == Layouts(exports)[round]
<1>1. /\ UNCHANGED <<exports, nodes, offset>> /\ round' = round + 1 /\ pos' = 1 /\ cursor' = 0
      /\ changed' = FALSE /\ changed /\ pos > Len(nodes) /\ round < MaxRounds
  BY DEF EndRound
<1>2. /\ offset = now /\ now # Layouts(exports)[round - 1] /\ Visitable(exports)
      /\ round \in 1 .. MaxRounds
      /\ \A q \in 1 .. round - 1 : Layouts(exports)[q] # Layouts(exports)[q - 1]
  BY <1>1, RoundOver
<1>3. exports \in ExportSets /\ nodes = Visit(exports) /\ offset \in [TrieNodes(exports) -> Nat]
  BY DEF LaidOut, TrieTypes
<1> HIDE DEF now
<1>4. Place(exports, now, 1) = 0
  BY <1>2, <1>3, PlacesAre
<1>5. round + 1 \in 1 .. MaxRounds /\ (round + 1) - 1 = round /\ 1 - 1 = 0
  BY <1>1, <1>2, TrieAssumption
<1>6. \A q \in 1 .. round : Layouts(exports)[q] # Layouts(exports)[q - 1]
  <2> TAKE q \in 1 .. round
  <2>1. q = round \/ q \in 1 .. round - 1
    BY <1>2, TrieAssumption
  <2> QED BY <1>2, <2>1 DEF now
<1>7. 1 .. 1 - 1 = {} /\ Layouts(exports)[(round + 1) - 1] = now
  BY <1>5 DEF now
<1>8. RoundIs(exports, nodes, offset, round + 1, 1, 0, FALSE)
  BY <1>2, <1>4, <1>5, <1>6, <1>7, Zenon DEF RoundIs
<1>9. RoundIs(exports, nodes, offset, round', pos', cursor', changed')
  BY <1>1, <1>8, Zenon
<1> QED BY <1>1, <1>9, Zenon DEF Round

\* What raises in the layout is no map of Builds.
LEMMA RaisedRightly ==
  ASSUME LaidOut, Round, RaiseLayout
  PROVE  ~Builds(exports)
<1>1. exports \in ExportSets /\ nodes = Visit(exports) /\ pos \in 1 .. Len(nodes) + 1
  BY DEF LaidOut, TrieTypes
<1>2. /\ Len(nodes) \in Nat
      /\ \A i \in 1 .. Len(nodes) : nodes[i] \in TrieNodes(exports)
  BY <1>1, VisitIs
<1>3. CASE pos <= Len(nodes)
  <2>1. nodes[pos] \in TrieNodes(exports)
    BY <1>1, <1>2, <1>3
  <2>2. ~(Len(ChildrenOf(exports, nodes[pos])) <= MaxChildren)
    BY <1>3 DEF RaiseLayout, Encodable
  <2> QED BY <2>1, <2>2 DEF Builds, Countable
<1>4. CASE ~(pos <= Len(nodes))
  <2>1. changed /\ round = MaxRounds /\ pos > Len(nodes)
    BY <1>1, <1>2, <1>4 DEF RaiseLayout
  <2>2. /\ Layouts(exports)[round] # Layouts(exports)[round - 1] /\ round \in 1 .. MaxRounds
        /\ \A q \in 1 .. round - 1 : Layouts(exports)[q] # Layouts(exports)[q - 1]
    BY <2>1, RoundOver
  <2>3. \A q \in 1 .. MaxRounds : Layouts(exports)[q] # Layouts(exports)[q - 1]
    <3> TAKE q \in 1 .. MaxRounds
    <3>1. q = round \/ q \in 1 .. round - 1
      BY <2>1, <2>2, TrieAssumption
    <3> QED BY <2>2, <3>1
  <2> QED BY <2>3, Zenon DEF Builds, Settles
<1> QED BY <1>3, <1>4

\* No step spoils what is known of the rounds, whichever of them ends or raises.
LEMMA VerdictStep == VerdictInv /\ [TrieNext]_trieVars => VerdictInv'
<1> SUFFICES ASSUME VerdictInv, [TrieNext]_trieVars PROVE VerdictInv'
  OBVIOUS
<1>1. CASE VisitNodes
  BY <1>1, VerdictVisit
<1>2. CASE RaiseVisit
  <2>1. /\ pc = "visit" /\ pc' = "error" /\ ~Visitable(exports)
        /\ UNCHANGED <<exports, nodes, offset, round, pos, cursor, changed>>
    BY <1>2 DEF RaiseVisit
  <2>2. Unvisited /\ round = 1
    BY <2>1 DEF VerdictInv
  <2>3. Unvisited'
    BY <2>1, <2>2 DEF Unvisited
  <2> QED BY <2>1, <2>2, <2>3 DEF VerdictInv
<1>3. CASE LayoutNode \/ EndRound \/ RaiseLayout \/ Emit
  <2>1. pc = "layout" /\ pc' # "visit" /\ exports' = exports
    BY <1>3 DEF LayoutNode, EndRound, RaiseLayout, Emit
  <2>2. LaidOut /\ Round
    BY <2>1 DEF VerdictInv, Unvisited
  <2>3. LaidOut'
    BY <1>3, <2>2, LaidOutStep
  <2>4. Round' /\ (pc' = "error" => ~Builds(exports))
    <3>1. CASE LayoutNode
      BY <2>1, <2>2, <3>1, RoundPlaces DEF LayoutNode
    <3>2. CASE EndRound
      BY <2>1, <2>2, <3>2, RoundBegins DEF EndRound
    <3>3. CASE RaiseLayout \/ Emit
      <4>1. UNCHANGED <<exports, nodes, offset, round, pos, cursor, changed>>
        BY <3>3 DEF RaiseLayout, Emit
      <4>2. Round'
        BY <2>2, <4>1 DEF Round
      <4>3. Emit => pc' = "done"
        BY DEF Emit
      <4> QED BY <2>2, <3>3, <4>2, <4>3, RaisedRightly
    <3> QED BY <1>3, <3>1, <3>2, <3>3
  <2> QED BY <2>1, <2>3, <2>4 DEF VerdictInv
<1>4. CASE UNCHANGED trieVars
  <2>1. UNCHANGED <<exports, nodes, offset, pc, round, pos, cursor, changed>>
    BY <1>4 DEF trieVars
  <2>2. CASE Unvisited /\ round = 1 /\ (pc = "error" => ~Visitable(exports))
    <3>1. Unvisited'
      BY <2>1, <2>2 DEF Unvisited
    <3> QED BY <2>1, <2>2, <3>1 DEF VerdictInv
  <2>3. CASE LaidOut /\ pc # "visit" /\ (pc = "error" => ~Builds(exports)) /\ Round
    <3>1. LaidOut'
      BY <1>4, <2>3, LaidOutStep
    <3>2. Round'
      BY <2>1, <2>3 DEF Round
    <3> QED BY <2>1, <2>3, <3>1, <3>2 DEF VerdictInv
  <2> QED BY <2>2, <2>3 DEF VerdictInv
<1> QED BY <1>1, <1>2, <1>3, <1>4 DEF TrieNext

\* What the invariant says when the function returns or raises.
LEMMA VerdictThen == VerdictInv => TrieVerdict
<1> SUFFICES ASSUME VerdictInv PROVE TrieVerdict
  OBVIOUS
<1>1. ASSUME pc = "error" PROVE ~Builds(exports)
  BY <1>1 DEF VerdictInv, Builds
<1>2. ASSUME pc = "done" PROVE Builds(exports) /\ offset = NextLayout(exports, offset)
  <2>1. LaidOut /\ Round
    BY <1>2 DEF VerdictInv, Unvisited
  <2>2. pos > Len(nodes) /\ ~changed
    BY <1>2, <2>1 DEF LaidOut, Finished
  <2>3. /\ offset = Layouts(exports)[round] /\ Layouts(exports)[round] = Layouts(exports)[round - 1]
        /\ Layouts(exports)[round] = NextLayout(exports, Layouts(exports)[round - 1])
        /\ Visitable(exports) /\ Countable(exports) /\ round \in 1 .. MaxRounds
    BY <2>1, <2>2, RoundOver
  <2>4. Settles(exports)
    BY <2>3, Zenon DEF Settles
  <2> QED BY <2>3, <2>4, Zenon DEF Builds
<1> QED BY <1>1, <1>2 DEF TrieVerdict

\* _build_export_trie returns for exactly the sets of names that Builds describes,
\* and with a layout that another round would not move; it raises for all others.
THEOREM TrieVerdictKept == TrieSpec => []TrieVerdict
<1>1. TrieInit => VerdictInv
  BY DEF TrieInit, VerdictInv, Unvisited
<1> QED BY <1>1, VerdictStep, VerdictThen, PTL DEF TrieSpec
=============================================================================
