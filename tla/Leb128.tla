------------------------------- MODULE Leb128 -------------------------------
(***************************************************************************)
(* The variable-length integers of dyld's opcode streams and export trie:  *)
(* the encoders of phase3.py and phase4.py, and dyld's readers (external). *)
(* A byte is a digit below Radix, plus Radix when another byte follows.    *)
(***************************************************************************)
EXTENDS Integers, Sequences, FiniteSetsExt

CONSTANT Radix      \* 128 in the code

ASSUME RadixAssumption == Radix \in Nat /\ Radix > 1 /\ Radix % 2 = 0

Uleb(value) ==
  LET f[v \in Nat] == IF v < Radix THEN <<v>>
                      ELSE <<(v % Radix) + Radix>> \o f[v \div Radix]
  IN f[value]

\* The sign bit of a digit.
Sign(byte) == (byte % Radix) >= Radix \div 2

\* Mutant of Sleb: the sign bit of the last byte is not looked at.
SlebUnsigned(value) ==
  LET f[v \in Int] == IF v \div Radix \in {0, -1} THEN <<v % Radix>>
                      ELSE <<(v % Radix) + Radix>> \o f[v \div Radix]
  IN f[value]

Sleb(value) ==
  LET f[v \in Int] ==
        LET byte == v % Radix
            next == v \div Radix
        IN IF next = (IF Sign(byte) THEN -1 ELSE 0) THEN <<byte>>
           ELSE <<byte + Radix>> \o f[next]
  IN f[value]

\* dyld's readers: the last byte of the number that begins at p, its digits
\* from the least significant, and the sign extension of the signed form.
LastByte(bytes, p) == Min({q \in DOMAIN bytes : q >= p /\ bytes[q] < Radix})

ReadUleb(bytes, p) ==
  LET f[q \in DOMAIN bytes] ==
        IF bytes[q] < Radix \/ q = Len(bytes) THEN bytes[q] % Radix
        ELSE (bytes[q] % Radix) + Radix * f[q + 1]
  IN f[p]

Power[n \in Nat] == IF n = 0 THEN 1 ELSE Radix * Power[n - 1]

ReadSleb(bytes, p) ==
  LET last == LastByte(bytes, p)
  IN ReadUleb(bytes, p) - IF Sign(bytes[last]) THEN Power[last - p + 1] ELSE 0

\* What a reader finds at the front of a stream, whatever follows: the number
\* and its end; and no shorter encoding has room for the number.
Behind == <<Radix + 1, 1>>

UlebReadBack(n) ==
  /\ ReadUleb(Uleb(n) \o Behind, 1) = n
  /\ LastByte(Uleb(n) \o Behind, 1) = Len(Uleb(n))
  /\ Len(Uleb(n)) > 1 => n >= Power[Len(Uleb(n)) - 1]

SlebReadBack(n) ==
  /\ ReadSleb(Sleb(n) \o Behind, 1) = n
  /\ LastByte(Sleb(n) \o Behind, 1) = Len(Sleb(n))
  /\ LET half == Power[Len(Sleb(n)) - 1] \div 2
     IN Len(Sleb(n)) > 1 => n \notin -half .. half - 1
=============================================================================
