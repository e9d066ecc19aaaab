-------------------------------- MODULE Dyld --------------------------------
(***************************************************************************)
(* The part of Apple's dyld that the dylibs of this project are written    *)
(* for (external: modelled from the segments and the opcodes phase3.py     *)
(* emits).  Segments are mapped at their unslid address plus a base chosen *)
(* at load time, then the rebase opcodes and the bind opcodes are run, one *)
(* per step.  The registers of an opcode program keep their values until   *)
(* an opcode sets them.                                                    *)
(***************************************************************************)
EXTENDS Integers, Sequences, FiniteSetsExt

CONSTANTS WordMod,        \* the number of values of one pointer
          Bases,          \* the load addresses ASLR may choose
          SymbolAddress   \* where the shim library defines each symbol

VARIABLES lib,      \* the dylib being loaded, once it is mapped
          stage,    \* "closed", "rebase", "bind", "loaded" or "fault"
          base,     \* the load address
          mem,      \* the mapped pointers, indexed by unslid address
          ip, reg   \* the next opcode and the interpreter's registers

vars == <<lib, stage, base, mem, ip, reg>>

ClearRegisters == [seg |-> 0, off |-> 0, symbol |-> "", addend |-> 0]

Init == /\ lib = <<>> /\ stage = "closed" /\ base = 0 /\ mem = <<>>
        /\ ip = 1 /\ reg = ClearRegisters

Covers(seg, a) == seg.vmaddr <= a /\ a < seg.vmaddr + seg.vmsize

\* Segments are mapped in order, each over what is there, zero beyond its file
\* contents.
MappedWord(dylib, a) ==
  LET over == {i \in DOMAIN dylib.segments : Covers(dylib.segments[i], a)}
      seg  == dylib.segments[Max(over)]
      o    == a - seg.vmaddr
  IN IF over = {} \/ o >= seg.filesize THEN 0 ELSE dylib.file[seg.fileoff + o]

Open(dylib) ==
  /\ stage = "closed"
  /\ lib' = dylib /\ stage' = "rebase"
  /\ base' \in Bases
  /\ mem' = LET top == Max({s.vmaddr + s.vmsize : s \in Range(dylib.segments)})
            IN [a \in 0 .. top - 1 |-> MappedWord(dylib, a)]
  /\ UNCHANGED <<ip, reg>>

Seg     == lib.segments[reg.seg + 1]
Address == Seg.vmaddr + reg.off

\* A fixup outside a writable segment is fatal.
Fixable == Covers(Seg, Address) /\ "w" \in Seg.prot

\* One opcode of the rebase or of the bind program.
Step(program, next) ==
  LET o == program[ip] IN
  \/ /\ o.op \in {"type", "ordinal"}
     /\ ip' = ip + 1 /\ UNCHANGED <<stage, mem, reg>>
  \/ /\ o.op = "segment"
     /\ reg' = [reg EXCEPT !.seg = o.seg, !.off = o.off]
     /\ ip' = ip + 1 /\ UNCHANGED <<stage, mem>>
  \/ /\ o.op = "symbol"
     /\ reg' = [reg EXCEPT !.symbol = o.symbol]
     /\ ip' = ip + 1 /\ UNCHANGED <<stage, mem>>
  \/ /\ o.op = "addend"
     /\ reg' = [reg EXCEPT !.addend = o.addend]
     /\ ip' = ip + 1 /\ UNCHANGED <<stage, mem>>
  \/ /\ o.op \in {"rebase", "bind"} /\ ~Fixable
     /\ stage' = "fault" /\ UNCHANGED <<mem, ip, reg>>
  \/ /\ o.op = "rebase" /\ Fixable
     /\ mem' = [mem EXCEPT ![Address] = (@ + base) % WordMod]
     /\ reg' = [reg EXCEPT !.off = @ + 1]
     /\ ip' = ip + 1 /\ UNCHANGED stage
  \/ /\ o.op = "bind" /\ Fixable
     /\ mem' = [mem EXCEPT ![Address] =
                  (SymbolAddress[reg.symbol] + reg.addend) % WordMod]
     /\ reg' = [reg EXCEPT !.off = @ + 1]
     /\ ip' = ip + 1 /\ UNCHANGED stage
  \/ /\ o.op = "done"
     /\ stage' = next /\ ip' = 1 /\ reg' = ClearRegisters
     /\ UNCHANGED mem

Rebase == /\ stage = "rebase" /\ Step(lib.rebase, "bind")
          /\ UNCHANGED <<lib, base>>
Bind   == /\ stage = "bind" /\ Step(lib.bind, "loaded")
          /\ UNCHANGED <<lib, base>>

Next == Rebase \/ Bind
=============================================================================
