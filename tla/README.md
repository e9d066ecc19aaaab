# A TLA+ model of il2cppapk2ios

il2cppapk2ios turns the native code of a Unity IL2CPP Android app into an iOS
dylib. An AArch64 ELF object is copied into a Mach-O file, its relocations
become dyld rebase and bind opcodes, and its Bionic imports are bound to a shim
library, generated from C templates, that translates Android's ABI to Darwin's.

Three kinds of things can go wrong that tests hardly reach: a pointer of the
loaded image that depends on a rare layout or on the order of the relocations
(the translators); an interleaving of threads, signals or clocks inside the shim
(the templates); and an app that is made of files of two objects, because
commands that meet only in a directory were repeated or have failed (the
pipeline). The project models all three. Paths below are relative to
`src/src/il2cppapk2ios/` unless they start with `src/`.

## Inventory

| Part | State | Operations | What makes it correct |
|---|---|---|---|
| Phase 3 translator (`phase3.py`) | segment list, output image, rebases, bindings | lay out, copy, patch and record each relocation, write | the image dyld makes of the dylib is the one the Android linker makes of the ELF; what cannot be translated is refused |
| Phase 4 translator (`phase4.py`) | the dylib read back, the export trie | add exports, stretch segments, rewrite the header | nothing of Phase 3 is lost; no gaps between segments; dlsym agrees with the object's own pointers |
| LEB128 encoders (`phase3.py`, `phase4.py`) | none | encode | dyld reads what was written |
| ELF reader (`elf.py`) | parsed tables | parse, report | no relocation and no symbol of a readable table is lost |
| pthread_once (`templates/pthread_compat.c`) | the once word | once | one run, nobody returns before it has ended, everybody returns |
| mutexes and conditions (same file) | `g_objects`, host objects | init, destroy, lock, unlock, wait, timed wait, signal, broadcast | one host object per Android object, never used after it is freed; exclusion; the type asked for; a timed wait ends, and not early |
| thread-specific data (same file) | `g_keys` | create, delete, get, set, destructors | a key means what its creator made of it, while slots and host keys are recycled |
| pthread attributes, threads (same file) | none | conversions | |
| semaphores (`templates/posix_compat.c`) | `g_sems`, value, mirrored count | init, wait, post, getvalue | a counting semaphore; no lost wake-up |
| POSIX structures, flags (same file) | none | conversions | |
| futex (`templates/runtime_compat.c`) | `g_futexes` | FUTEX_WAIT, FUTEX_WAKE | no lost wake-up; a timeout ends the wait, and not early |
| signals (`templates/signal_compat.c`) | `g_actions`, host dispositions | sigaction, signal, tgkill, trampoline | table, host and delivery agree |
| network (`templates/network_compat.c`) | none | address, option and resolver conversions | the resolver frees what it has when an allocation fails |
| stdio, objects (`templates/`) | none | tables, forwarding | |
| shim generator (`shimgen.py`) | the scaffold's files | classify imports, write sources, build | it links, and every symbol that Phase 3 binds is defined; its program headers are those of the image |
| Phase 2 (`translate.py`) | output image, unresolved imports | static translation | as Phase 3, without fixups; imports are left as they are |
| APK extraction, command line, build script (`apk.py`, `cli.py`, `src/scripts/`) | the output directory | extract, translate, generate, build, assemble | an app is made of one APK |
| host probe (`src/ios_host/main.m`) | none | load, look up, call | it reaches `il2cpp_init` or says where it stopped |
| Mach-O smoke test (`macho.py`) | none | write a constant file | |

The components meet in four places. Phase 4 calls Phase 3 and rewrites its
output. dyld runs the opcodes both have written. The commands leave files for
each other in the output directory, and the dylib imports from the shim that was
generated for its ELF. The shim's functions are called by the translated code on
any thread, and the host's signals enter it anywhere. The files of the output
directory are all that outlives a command; the translators are sequential, and
all concurrency is in the shim.

`PROJECT.json` lists the hazards line by line, each with the properties that
would catch it, or why none does.

## Modules

Translators:

* `Phase3` - `Phase3Translator`. One action per step of `translate`: `LayoutText`
  and `LayoutLoad` (`_layout_segments`, one PT_LOAD each), `CopyLoads`, one of
  `PatchRelative`, `PatchInternal`, `BindExternal` or `RejectReloc` per
  relocation, and `WriteDylib` or `RejectOutput`. `RebaseStream` and `BindStream`
  are the opcode programs. A word of the file is one pointer, so sizes and
  offsets are counted in pointers, and arithmetic on words is modulo `WordMod`.
  Each rejection of the code is a disjunct that leads to `pc = "error"`.
* `Dyld` - dyld as far as the dylibs use it (external): map the segments, later
  ones over earlier ones, and run the opcodes. The registers of the bind program
  (segment, offset, symbol, addend) keep their values from one binding to the
  next, as dyld's do.
* `Phase3Load` - a translation followed by a load at any of `Bases`;
  `BionicPointer` says what the Android linker would have put in a place.
* `Phase4` - `Phase4Translator.translate` behind Phase 3 (`Reject4`, `Rewrite`)
  and a load of either phase's dylib. The export trie is the map it encodes; that it
  cannot be built (`TrieBuilds`) is one of the phase's refusals, besides load commands
  that do not fit and the refusals of Phase 3.
* `Phase2` - `Phase2Translator.translate` (`MapAndCopy`, then one of `PatchRelative2`,
  `PatchInternal2`, `LeaveUnresolved` or `RejectReloc2` per relocation, then
  `WriteDylib2` or `RejectHeader2`), and the choice of the phase an ELF is given to.
* `ElfFile` - the section walk of `elf.py` and of `_iter_relocations`: which
  relocations and symbols of a file the rest of the system sees.
* `TranslatorContract` - what each phase promises: an ELF it accepts is
  translated once, with every relocation accounted for in the report; any other
  is refused as a whole. `Accepts2`, `Accepts3` and `Accepts4` of `Phase2` say
  which ELFs, in terms of the ELF alone; `Accepts4` includes `TrieBuilds`.
* `TrieLayout` - `_build_export_trie` as operators on the names and addresses it is
  given: nodes in `visit`'s order, their bytes, the layouts of the rounds, and whether the
  function returns (`Builds`). It raises when a name is longer than `visit`'s recursion goes down
  (`MaxDepth`; Python's limit is 1000 frames, and there is one per character), when a node has
  more children than a byte counts (`MaxChildren`), and when no round leaves the
  offsets as they were (`MaxRounds`).
* `ExportTrie` - the same function step by step: one action per node of a round
  (`LayoutNode`), the end of a round, the errors (`RaiseVisit`, `RaiseLayout`), and dyld's
  walk of the result (external). `TrieVerdict` ties the two together: the steps end with bytes exactly
  when `Builds` holds.
* `Leb128` - the encoders and dyld's readers, as recursive functions.

Shim:

* `PthreadOnce` - every atomic access of `a2i_pthread_once` is a step.
  `OnceContract` is what POSIX promises.
* `Semaphore` - what runs under `node->mutex` or `g_sem_lock` is a step; the
  publication of the count by `sem_init`, outside the lock, is another.
  `SemaphoreContract` is a counting semaphore.
* `Futex` - the word is stored by its owners without the node's mutex, so each
  load of the word, the sleep and the relock are steps.
* `PthreadObjects` - the registry of host mutexes and conditions. A lookup is one
  step under `g_objects_lock`, the use of the node it found is a later step.
  Nodes are heap blocks that can be freed and allocated again.
* `PthreadKeys` - the key table; the host key that was looked up is used in a later
  step, when slot and host key may have been recycled. `Destruct` is the host's call
  of a destructor at thread exit. `TlsContract` is POSIX's thread-specific data.
* `Deadline` - the timed waits: each clock read is a step, time passes and the
  realtime clock is set between them. `PthreadObjects` and `Futex` let a timed wait
  end at any time; this module says when.
* `Sigaction` - `a2i_sigaction`'s store and its call of the host are steps, and so
  are delivery, the trampoline's copy of the action, and the handler's call. A copy
  that races the store is any mixture of old and new fields (`Torn`).

Pipeline:

* `Shimgen` - `generate_shim_scaffold`: the category of an import, what each source
  of the scaffold defines and refers to, and the program headers that
  `a2i_dl_iterate_phdr` reports. A table of names is represented by a name or two.
* `Bundle` - the output directory. `extract`, `translate-phase4`, `generate-shim` and
  `build.sh` are run by hand in any order (`ByHand`) or by
  `build_real_ios_bundle.sh` (`ScriptStart` to `Assemble`); a command raises before
  it writes, succeeds, or fails at one of its writes (`Fault`); `Probe` is the
  host app. The content of a file is the name of the library it was made from.

`MCPhase3`, `MCTranslate`, `MCExportTrie`, `MCPthreadKeys`, `MCSigaction` and `MCBundle`
define the inputs and symmetries of the runs. The eight modules whose names
end in `Proofs` hold the theorems.
A definition whose comment begins "Mutant of" is a plausible bug of the definition it
names; each property of a passing run is violated when one of them is put in place.

## Runs

| Run | Bounds | Shows |
|---|---|---|
| `once` | 3 threads | one run of the initialiser (`OnceInv`), the contract is implemented, everybody returns |
| `semaphore` | 4 threads, values up to 2 | no lost wake-up (`SemInv`), the mirrored count follows the value, the contract is implemented, a waiter with a permit gets it |
| `futex` | 3 threads, word of 2 values | a wait whose word has changed and been woken returns, wherever the store fell (`FutexInv`, `ChangedWordReleases`) |
| `keys` | 2 threads, 2 slots, 3 host keys, 2 destructors | `KeysInv`, and the table implements `TlsContract`: a value left behind goes once to the destructor of the key it was set through |
| `objects` | 3 threads, 1 mutex, 1 condition, 3 blocks | one node per object and no use after free (`ObjectsInv`), exclusion, the right type, broadcasts reach all |
| `deadline` | 3 ticks to a second, timeouts up to 7 ticks, three offsets between the clocks, 2 settings, a waiter held up for 3 ticks, a futex's waiter woken for nothing twice | no timed wait ends early, nor with EINVAL, except by what the realtime clock was put forward after the conversion, and no wake-up puts a wait off (`OnTime`); every timed wait ends |
| `sigaction` | 2 threads, SIGKILL and SIGCHLD | host and asked-for action agree between calls, and so does the table but for refused signals and used-up SA_RESETHAND handlers (`DispositionsAgree`); a delivery that no sigaction overlaps runs the right handler |
| `translate` | ELFs of up to 3 loads and 3 relocations (and up to 5 loads), export tries at and beyond each of their limits, image base of 2 pages, all phases | loaded pointers, imports up to stale addends, contents, fixups, layout; every phase implements `TranslatorContract` (`KeepContract`), Phase 2 keeps what it leaves unresolved; Phase 4's segments are contiguous and its exports agree with rebased pointers |
| `bundle` | 6 APKs with 4 libraries, 5 commands by hand, any number of script runs, 1 failing write | a finished app is made of one APK (`BundleCoherent`); a scaffold links and its library has every import of the dylib but the known blockers (`ScaffoldServes`); `dl_iterate_phdr` describes the image; no relocation of a plain table is lost (`TablesRead`) |
| `export_trie` | chains of up to 16 nodes, sets of short names, every address up to 300; 3 children under a node that holds 2, names of 16 and 17 levels where 16 are possible; digits of 2 bits | the layout settles within 32 rounds, the function returns exactly when the contract of Phase 4 says so (`TrieVerdict`), nodes only move back, dyld reads back every number and finds exactly the exports |

The following runs state what a line of the repository says and TLC refutes:

| Run | Shows |
|---|---|
| `phase3_addend` | an import without an addend that is bound after one with an addend gets that addend: `_bind_stream` emits no opcode for 0, and dyld's register keeps its value |
| `phase3_overlap` | loads that meet in a 16 KiB page (the object of `src/tests/test_phase3.py` has such loads) become segments that overlap in memory, and contents are lost |

More deviations were met that no run refutes: they are excluded by what the
model's callers do or by what the properties ask, or lie outside the model.

Shim:

* A futex waiter that was woken goes back to sleep when the word has its expected
  value again (`templates/runtime_compat.c:72`); Linux returns.
  `ChangedWordReleases` therefore only speaks of a word that stays changed.
* FUTEX_WAKE returns its count argument (`templates/runtime_compat.c:116`); Linux
  returns the number of waiters woken.
* A node of `g_objects` is found by address alone: storage reused without a destroy
  gives the new object the old one's type (`templates/pthread_compat.c:120`). In
  the model `StaticInit` needs an address without a node.
* `a2i_sigaction` stores into `g_actions` before it calls the host
  (`templates/signal_compat.c:213`). A signal in between runs the trampoline with
  the new action, and with SIG_DFL it vanishes. `CleanDelivery` speaks of
  deliveries that no sigaction overlaps.
* A timed wait on the monotonic clock, or on a futex, is early when the realtime
  clock is put forward while it waits, and late when it is put back
  (`templates/pthread_compat.c:344`): the host has no wait on another clock.
  `OnTime` bounds the error by the change.
* sem_post has no EOVERFLOW: a post beyond 2^32 - 1 makes the value 0
  (`templates/posix_compat.c:306`), and one beyond SEM_VALUE_MAX succeeds. In the model
  callers do not post beyond `MaxValue`.
* sem_init writes the count after it has released `g_sem_lock` (`templates/posix_compat.c:277`).
  A post in between would be overwritten; in the model callers wait for sem_init to return
  (`Usable`).
* `g_actions` keeps an action that the host refuses, for SIGKILL and SIGSTOP
  (`templates/signal_compat.c:231`), and a handler that SA_RESETHAND has used up
  (`templates/signal_compat.c:151`); the next sigaction returns them as the old action.
  `TableAgrees` exempts exactly these two, `HostAgrees` does not.
* A delivery that a sigaction on another thread overlaps can run with the fields of two
  actions (`templates/signal_compat.c:165`). The copies are modelled (`Torn`), but no promise
  holds of them.

Translators and pipeline:

* Phase 4 declares no `__mod_init_func` and no `__eh_frame`: `_special_sections` and
  `_segment_with_sections` are never called (`phase4.py:342`), although
  `src/tests/test_phase4.py:56` asserts the section. The load commands are modelled
  as the code writes them.
* Packed relocation sections (SHT_ANDROID_RELA, SHT_RELR) are passed over, and a
  table that runs past the end of the file is cut short in silence
  (`phase3.py:341`). `TablesRead` excepts both.
* A data object that no template has, and a relocation against the nameless symbol
  0, have no definition in the shim, and dlopen of the dylib fails (`Blockers`).
* Two relocations of one place would both be slid by dyld (`phase3.py:453`), and
  contents that are shorter than a program header says shrink the image
  (`phase3.py:425`). Linkers emit neither, and `ElfsAssumption` excludes the second.
* The PowerShell scripts neither clear the output directory nor stop when a native
  command fails; an APK without libil2cpp.so extracts without an error
  (`apk.py:92`), so the library of another APK can be translated, and a scaffold of which
  one write has failed (`shimgen.py:499`) can be built from the sources of two objects. By hand
  the commands can leave any of these mixtures. `BundleCoherent` is about the shell script,
  which clears the directory and stops; `ScaffoldServes` about scaffolds written for one ELF.
* A name of some 1000 characters, as mangled C++ names can be, ends Phase 4 with
  RecursionError rather than the Phase3Error of its other refusals (`phase4.py:82`).
* `src/scripts/sign_ios_bundle.sh` signs the dylibs directly in the app, and the build
  script puts them in `Frameworks`.

### Why the bounds are enough

Threads: each hazard needs one thread in a window, one that acts in it and, for
lost wake-ups, one more that sleeps or stores back; the semaphore has four because
two posts may meet two sleepers. Blocks and host keys are one more than are in
use at once, so that freed ones come back. Pages have 4 words and the reserve 8,
so that a load can start and end anywhere in a page, fill it, or leave a gap;
word arithmetic wraps at 256, above every address of the instance. Three loads
are a first, a middle and a last one; at four a relocation's segment is beyond
`MaxOpcodeSegments` (16 in the code) and Phase 4's load commands, at five Phase 3's
too, are beyond the header reserve. Three relocations are what it takes to have a stale addend, one
that sets it and one before both. The export trie's digits have 2 bits rather
than 7, so that offsets of one to four bytes occur in tries of a few nodes, and
with them several rounds of the layout. `sigaction` has threads that are alike
(symmetry), and callers that do not change one signal at the same time; the threads,
host keys, values and destructors of `keys` are alike too.

Five commands by hand are enough to make every file from one APK and overwrite
any of them from another, and the script can follow and be repeated. The six APKs
have two versions of a game that differ in their imports and program headers, one
of them without metadata too, a library cut short, one that no phase supports, and no library. Three
ticks to a second let every subtraction borrow and every addition carry or not;
the last tick is late enough for the latest deadline on the slowest clock. Two wake-ups in
vain are one more than it takes to sleep again with a deadline that is not the first one's.

In `translate` the trie of an ELF has at most 3 children to a node, 5 levels and 3 rounds
(255, about 1000 and 32 in the code), and the ELFs have names that meet each limit and
names that exceed it.

### Fairness

* `once`: weak fairness of each caller's steps. The winner is a running thread and
  its initialiser returns (as POSIX requires of callers); losers call
  `sched_yield` and load again.
* `semaphore`: weak fairness of the steps inside a call. Sleeping is not a step
  that must end, so a wake-up has to come from a post; that a waiter with a
  permit *does* run needs only that threads run.
* `futex`: weak fairness of running steps, strong fairness of acquiring the host's
  mutex: Darwin's mutexes do not starve a waiter forever while others come and
  go. Callers need not store or wake.
* `deadline`: weak fairness of the waiter's steps (its clock reads, and the test of the word
  after a wake-up), of the host ending a wait whose time has come, and of time. Nobody need
  signal, and the word need not change.
* `export_trie`: weak fairness of the one thread.

The other runs check safety only.

## Proofs

All theorems hold for every value of the constants under the named assumptions,
which TLC evaluates in the runs.

* `PthreadProofs`, once. `OnceInvariant`: `OnceInv` is inductive; besides the types it
  says that the word is 0 exactly before the first run and 1 exactly while some
  thread is in the initialiser or about to publish, which is what makes the
  exchange decide. `OnceRefinement`: the code implements `OnceContract`; each step
  maps to a step of the contract or to a stutter, given the invariant.
* `SemaphoreProofs`. `SemInvariant`: `NoLostWakeup`, that while anybody sleeps there
  are as many threads on their way to the value as there are permits, is not
  inductive alone; it needs `BeforeNode`, that nobody is in a wait or a post before
  the node exists. `MirrorInvariant` adds that the mirrored count is the value
  whenever no `sem_init` is about to publish (`CountMirrorsValue`), which needs
  `PublishAlone`, that nobody else is in the semaphore while one is, and
  `PostsFit`, that the threads inside posts cannot carry the value past
  `ValueMod`. `SemRefinement`: the code implements `SemaphoreContract`, for
  callers that do not post beyond `MaxValue`.
  The argument counts finite sets of threads (`FiniteSetTheorems`).
* `WaitProofs`, futex. `FutexInvariant`: `NoLostWakeup`, that whoever sleeps or has decided to
  sleep on a changed word has a storer's wake-up still to come, needs `MutexHeld`
  (when a wake has the mutex nobody is between the last load and the sleep),
  `WakesOwed` (a storer's wake is for everybody) and `Waiting` (a wake that fails
  for want of a node has nobody to wake).
* `PthreadProofs`, keys. `KeysInvariant`: `KeysInv` is inductive as it stands. Slots in
  use have live host keys, different ones (`SlotsApart`), and so do threads between
  the release of a slot and the host's `pthread_key_delete` (`DeletersApart`); what a
  thread has looked up is still the host key of its slot, as callers do not delete
  a key that is being used (`LookupsFresh`). `KeysRefinement`: the table implements `TlsContract`, step by step;
  `NoHostKeyLeaks` and `DeadKeysBlank` are what makes a recycled host key a new one.
* `PthreadObjectsProofs`. `ObjectsInvariant`: `ObjectsInv` is inductive. `PointersLive`, that
  a node a thread has found is still linked and its own object's, needs `OneNode`
  and `MakersAlone` (who initialises or destroys an object is alone with it), and
  exclusion needs `OwnersAgree` and `HoldersInside`. From it follow
  `MutualExclusion`, `AttributesInUse`, and the action property
  `BroadcastReaches`.
* `SigactionProofs`. `SigactionInvariant`: the host has what was asked for between
  calls, and so has the table but for refused signals and used-up handlers. It needs `CallsApart` (a call is the only one on its signal, and what it has
  stored is still there when it asks the host); the host numbers of different
  Android signals differ, so a call disturbs no other signal. `DeliveriesAreClean`: a delivery that no sigaction
  overlaps runs the handler that was asked for, with its mask and flags.
* `WaitProofs`, timed waits. `WaitsAreOnTime`: `OnTime` holds, because a converted deadline,
  on the realtime clock as the conversion has seen it, is no earlier than what was
  asked for, and no later than by the delay of the conversion (`Converted`): the two clocks
  are read in the order that makes it late, and the loop of a futex sleeps with the deadline
  that was made in front of it. The lemmas show that the one borrow and the one carry of the
  code are enough to make a timespec of any sum, so the host never answers EINVAL.
* `Phase3Proofs`. `Phase3Invariant`: `Phase3Inv` is inductive for every set of
  well-formed ELFs, every page size and every reserve that is a multiple of it.
  `LayoutProgress` (which loads are laid out, and that the cursor is behind them)
  carries the layout's induction; the arithmetic of pages is in the lemmas
  `FloorFacts` to `AlignLeast`, which rest on `\div` and `%` only.

  The second part is about Phase 3, Phase 4 and dyld together (`Spec4`), from the ELF
  to the loaded object. `EndToEndInvariant` is the inductive invariant, along the way
  that a pointer takes:
  `LoopInv` (what the image and the two lists are after so many relocations),
  `Written` and `Rewritten` (what is in the dylib of each phase),
  `Suits` (what dyld needs of a dylib, which both phases' have: the same programs,
  segments that are in order and hold at least what Phase 3 gave them),
  `RegInv` (dyld's registers in front of every opcode: after relocation i's opcodes
  they point at relocation i's place, with the addend of the last binding that had
  one), and `MemInv` (the memory in front of every opcode: slid up to here, bound up
  to here, and otherwise as mapped). That the opcode programs are concatenations, and
  that the rebases are sorted, is proved from the least place where it would fail,
  since no induction over data is at hand.
* `TranslateProofs`. The three phases in the order of the command (`SpecAll`, which the
  run `translate` checks). `PhasesInvariant`: `PhasesInv` is inductive. To the invariants
  of Phase 3 and Phase 4 it adds, for Phase 2, `Loop2Inv` (the image after so many
  relocations: the loads' words, and Bionic's pointers at the places behind the
  loop), `Report2Inv` (its counts are the relocations behind it), `Written2` (what is
  in its dylib) and `Dyld2Inv` (what dyld has mapped of it). The theorems that follow state every
  invariant of that run, for any number of loads and relocations at any load address:
  `TypesKept`, `LayoutIsSound` (one slide for all loads, no overlap in the file, and
  none in memory for page-separated loads), `FixupsAreTheRelocs`,
  `LocationsAgreeAlways` (the word patched in the file is the word dyld fixes up),
  `InternalPointersAll`, `ImportedPointersAll`, `ContentsPreservedAll`,
  `UnresolvedImportsKept`, `FaultsAreTextRelocsAll`, `SegmentsContiguousAll` and
  `ExportsAgreeAll`.

  They have the conditions they need and no more. `PageSeparated` (no two
  loads in one page): without it `phase3_overlap` is the counterexample.
  `PlacesApart` (no two relocations of one place): without it a place is slid twice.
  `NamesApart` (no two exported symbols of one name): without it the trie has the
  last one only. `SegmentsContiguousAll` has no condition. The ELFs of `translate`
  meet all the conditions; those of `phase3_overlap` are not page-separated.

  `ContractKept`: each phase implements `TranslatorContract` (`KeepContract`), without
  conditions. The mapping (`Outcome`) is "pending" until a phase has ended, then "refused"
  or its tally. What has to be known is in `ContractInv`: a phase has refused only
  what it must (`Refused2`, `Refused4` and the last line of `Report3Inv`), which needs that the loads a
  relocation falls into, the room the commands take and the names exported are decided by the ELF
  alone; and the counts are the relocations behind the loop (`Report2Inv`,
  `Report3Inv`). That the opcodes of the dylib say the same as the report is counted on the
  streams: `_bind_stream` names each symbol as often as there are bindings for it
  (`SymbolsOfBindStream`), whatever the order they are sorted into, and
  `_rebase_stream` has a rebase for each place (`RebasesInStream`).
* `Phase4Proofs`, the pipeline. `BundleInvariant`: `BundleInv` is inductive for any APKs, any sequence of
  commands and any writes that fail. `DiskFits` says what each file of the directory can hold
  whoever wrote it, cut short or not; that carries no relation between two files,
  which is right: commands by hand leave any mixture. `Progress` says
  what the directory holds of the script's own APK in front of each of its commands; it
  holds because the script clears the directory and stops at the first failure.
  `BundleCoherence` and `PhdrsDescribed` follow. `ScaffoldServed` needs that no name is in
  two tables and that every table's names are defined by the source that the
  scaffold puts them in, which is proved from the tables themselves. `TablesAreRead`:
  the entries of the relocation tables are the relocations that a translation resolves or
  leaves to an import; a sum over tables and one over names are both shown to be the size of a
  union of disjoint sets (`SumIsCount`).
* `Phase4Proofs`, the export trie, for any names, addresses and even radix and any number
  of rounds. `TrieInvariant`: `TrieInv` is inductive. `Ahead` says that no node's offset is
  beyond where the nodes before it push it, in this round or in the last one: it holds since
  larger offsets make no shorter encodings (`EncodeLonger`), and from it `OffsetsOnlyGrow`
  follows. `Exact` says that as long as a round has changed nothing, the nodes it has passed
  are without gaps at their present offsets; a node's length depends on the offsets of
  children that come later, so this needs that a round without changes ends with the
  offsets it began with. At the end every node's bytes are at its offset (`OutHolds`), and
  `ExportsAreFound` follows dyld from there: the head of a node (`NodeIsRead`), the records of
  its children (`ChildRecordsAre`), one character (`DescendIs`), a whole name (`FindIs`). It is
  proved for every name over any characters (`LookupIs`), of which `ExportsFound` names those
  near the exported ones. `TrieVerdictKept` says that the function returns exactly when
  `Builds` holds: the offsets in the middle of a round are the last round's or the next one's,
  and since children come after their parents a node's bytes are those of the last round when
  they are counted (`Round`). `NumbersAreReadBack` rests on `UlebIsReadBack` and
  `SlebIsReadBack`, for every natural number and every integer.

  The encoders and readers are recursive functions. That such a function exists is proved
  once (`RecursionExists`, `RecursionUnique`: a recursion along which a measure falls); what
  it computes is proved by descent, from the least argument where it would not
  (`NatDescent`), since the library's induction theorems cannot be instantiated.

Assumptions on the constants: `ElfsAssumption` (well-formed ELFs: contents inside
the load, relocations and symbols of the right types), `LayoutAssumption` (a
positive page size, and a reserve and image base that are multiples of it),
`BasesAssumption`, `Phase2Assumption` and `Phase4Assumption` (load addresses and sizes
are numbers), `ApksAssumption` (what an APK has, and no library is called as the
constant content of the templates) and `FilesAssumption` (tables are lists, and no more
entries are inside the file than there are),
`SemAssumption` (finitely many threads, values below `SEM_VALUE_MAX`) and
`RoomAssumption` (an unsigned has room for one post per thread beyond that),
`FutexAssumption` (numbers, and a name for no thread), `KeysAssumption` and
`ObjectsAssumption` (NULL is no host key; mutexes and conditions are different
addresses), `SignalAssumption` and `AsksAssumption` (64 signals; handlers are neither
SIG_DFL nor SIG_IGN, and the shim's trampoline is none of the two; what callers ask
for is an action), `DeadlineAssumption` (a second has some ticks), `RadixAssumption` (the
radix is even, for the sign bit), `TrieAssumption` (finitely many names, each a sequence
of characters other than NUL, and addresses that are numbers) and `SpellingAssumption`
(exported names have characters, and different names different ones).

Only model-checked is everything about liveness, since fairness and ENABLED are beyond the
prover: that calls return, that a permit, a wake-up or a deadline ends a wait, and that the
layout of a trie settles within its rounds (`LayoutSettles`). Every invariant and every
action property of a passing run is a theorem.

## Not modelled

* The decoding of bytes into the fields of headers, symbols and relocations: an ELF
  is its parsed tables.
* `posix_compat.c` outside semaphores, `network_compat.c`, `stdio_compat.c`,
  `objects_compat.c`, and the attributes and threads of `pthread_compat.c`:
  conversions without state, each a table or a record copied field by field. The
  clean-up of `a2i_getaddrinfo` when an allocation fails is one sequential loop.
* `runtime_compat.S` (setjmp), which is about registers.
* `special.c` of the scaffold: clock numbers, errno and properties, forwarded.
* `macho.py`, which writes a constant file; signing, packaging and CI.
* The reports of `apk.py` and `cli.py`, the manifest and the README of the scaffold:
  nothing reads them.

## Plan

Done, in this order: once, Phase 3 with dyld, semaphores, futex, keys, objects,
signals, LEB128, export trie, Phase 4; the first proofs (once, Phase 3,
semaphores, futex); then the section walk,
Phase 2 and the contract of the phases, the shim generator and the pipeline, the
deadlines, and the destructors of keys.

Then the proofs of the shim's invariants (keys, objects, signals, deadlines, the
mirrored count), the refinements of `TlsContract` and `SemaphoreContract`, and the
end-to-end theorems of Phase 3 and Phase 4.

After these, the theorems over all three phases, the refinement of
`TranslatorContract`, the pipeline, and the export trie with its numbers. Left:
`network_compat.c` and `stdio_compat.c`, should they come to keep state, and the host's
table of signals when two threads change one signal at the same time.
