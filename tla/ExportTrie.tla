----------------------------- MODULE ExportTrie -----------------------------
(***************************************************************************)
(* _build_export_trie of phase4.py, step by step: the exported names       *)
(* become the bytes of a Mach-O export trie, one edge per character.  A    *)
(* node holds the offsets of its children, whose encoded lengths depend on *)
(* the offsets, so the layout is repeated until no offset changes.         *)
(***************************************************************************)
EXTENDS TrieLayout

CONSTANT ExportSets    \* the maps from names to addresses to be encoded

ASSUME TrieAssumption ==
  /\ MaxDepth \in Nat /\ MaxChildren \in Nat /\ MaxRounds \in Nat \ {0}
  /\ \A e \in ExportSets :
       IsFiniteSet(DOMAIN e) /\ \A s \in DOMAIN e : s \in Seq(Nat \ {0}) /\ e[s] \in Nat

VARIABLES exports,
          nodes,      \* the list of nodes that visit makes
          offset,     \* node.offset
          pc, round,  \* the layout loop
          pos, cursor, changed,
          out         \* the bytes returned

trieVars == <<exports, nodes, offset, pc, round, pos, cursor, changed, out>>

TrieInit == /\ exports \in ExportSets
            /\ nodes = <<>> /\ offset = [n \in TrieNodes(exports) |-> 0]
            /\ pc = "visit" /\ round = 1
            /\ pos = 1 /\ cursor = 0 /\ changed = FALSE /\ out = <<>>

\* The names are in the trie, and visit, which calls itself for each child,
\* lists the nodes.
VisitNodes == /\ pc = "visit" /\ Visitable(exports)
              /\ nodes' = Visit(exports) /\ pc' = "layout"
              /\ UNCHANGED <<exports, offset, round, pos, cursor, changed, out>>

\* RecursionError: a name has more characters than visit can go down.
RaiseVisit == /\ pc = "visit" /\ ~Visitable(exports)
              /\ pc' = "error"
              /\ UNCHANGED <<exports, nodes, offset, round, pos, cursor, changed, out>>

EncodeNode(n) == NodeBytes(exports, offset, n)

\* Mutant of Encodable: a node with as many children as one byte can count is
\* refused.
EncodableBelow(n) == Len(ChildrenOf(exports, n)) < MaxChildren

Encodable(n) == Len(ChildrenOf(exports, n)) <= MaxChildren

\* Mutant of LayoutNode: the round counts as changed whatever it found.
LayoutNodeChanged ==
  /\ pc = "layout" /\ pos <= Len(nodes) /\ Encodable(nodes[pos])
  /\ offset' = [offset EXCEPT ![nodes[pos]] = cursor]
  /\ changed' = TRUE
  /\ cursor' = cursor + Len(EncodeNode(nodes[pos]))
  /\ pos' = pos + 1
  /\ UNCHANGED <<exports, nodes, pc, round, out>>

\* One node of one round.
LayoutNode ==
  /\ pc = "layout" /\ pos <= Len(nodes) /\ Encodable(nodes[pos])
  /\ offset' = [offset EXCEPT ![nodes[pos]] = cursor]
  /\ changed' = (changed \/ offset[nodes[pos]] # cursor)
  /\ cursor' = cursor + Len(EncodeNode(nodes[pos]))
  /\ pos' = pos + 1
  /\ UNCHANGED <<exports, nodes, pc, round, out>>

\* Phase3Error: a node with too many children, or offsets that still change
\* in the last round.
RaiseLayout ==
  /\ pc = "layout"
  /\ IF pos <= Len(nodes) THEN ~Encodable(nodes[pos]) ELSE changed /\ round = MaxRounds
  /\ pc' = "error"
  /\ UNCHANGED <<exports, nodes, offset, round, pos, cursor, changed, out>>

\* Mutant of EndRound: each round starts from nothing.
EndRoundResets ==
  /\ pc = "layout" /\ pos > Len(nodes) /\ changed /\ round < MaxRounds
  /\ round' = round + 1 /\ pos' = 1 /\ cursor' = 0 /\ changed' = FALSE
  /\ offset' = [n \in DOMAIN offset |-> 0]
  /\ UNCHANGED <<exports, nodes, pc, out>>

EndRound ==
  /\ pc = "layout" /\ pos > Len(nodes) /\ changed /\ round < MaxRounds
  /\ round' = round + 1 /\ pos' = 1 /\ cursor' = 0 /\ changed' = FALSE
  /\ UNCHANGED <<exports, nodes, offset, pc, out>>

Emit == /\ pc = "layout" /\ pos > Len(nodes) /\ ~changed
        /\ out' = FlattenSeq([k \in DOMAIN nodes |-> EncodeNode(nodes[k])])
        /\ pc' = "done"
        /\ UNCHANGED <<exports, nodes, offset, round, pos, cursor, changed>>

TrieNext == VisitNodes \/ RaiseVisit \/ LayoutNode \/ EndRound \/ RaiseLayout \/ Emit

TrieSpec     == TrieInit /\ [][TrieNext]_trieVars
FairTrieSpec == TrieSpec /\ WF_trieVars(TrieNext)
-----------------------------------------------------------------------------
\* dyld's walk of the trie (external), by the bytes alone.  None: not there.
None == -1

NextNumber(bytes, p) == LastByte(bytes, p) + 1

\* Where the records of the children of the node at byte p begin.
ChildRecords(bytes, p) ==
  LET count == NextNumber(bytes, p) + ReadUleb(bytes, p)
      at[c \in 1 .. bytes[count]] ==
        IF c = 1 THEN count + 1 ELSE NextNumber(bytes, at[c - 1] + 2)
  IN at

Descend(bytes, p, ch) ==
  LET at == ChildRecords(bytes, p)
      here == {c \in DOMAIN at : bytes[at[c]] = ch}
  IN IF here = {} THEN None ELSE ReadUleb(bytes, at[Min(here)] + 2) + 1

Find(bytes, name) ==
  LET at[k \in 0 .. Len(name)] ==
        IF k = 0 THEN 1
        ELSE LET p == at[k - 1] IN IF p = None THEN None ELSE Descend(bytes, p, name[k])
  IN at[Len(name)]

Lookup(bytes, name) ==
  LET p == Find(bytes, name)
  IN IF p = None THEN None
     ELSE IF ReadUleb(bytes, p) = 0 THEN None
     ELSE ReadUleb(bytes, NextNumber(bytes, NextNumber(bytes, p)))

Alphabet == UNION {Range(n) : n \in DOMAIN exports}

\* Every exported name, and no other, is found by dyld, with its address:
\* prefixes of names, names one character longer and names that part from a
\* name in the middle included.
ExportsFound ==
  pc = "done" =>
    \A n \in TrieNodes(exports) : \A s \in {n} \cup {Append(n, ch) : ch \in Alphabet} :
      Lookup(out, s) = IF s \in DOMAIN exports THEN exports[s] ELSE None

\* Addresses and offsets, and as addends (of either sign) in the bind stream,
\* numbers of every length are read back by dyld as they were encoded.
NumbersReadBack ==
  \A n \in Range(exports) \cup Range(offset) :
    UlebReadBack(n) /\ SlebReadBack(n) /\ SlebReadBack(-n)

\* From round to round a node only moves towards the end, so the lengths of
\* the offsets only grow and the rounds must come to an end.
OffsetsGrow == [][\A n \in DOMAIN offset : offset'[n] >= offset[n]]_trieVars

\* The function returns exactly for the sets of names that Builds describes, on
\* which Phase 4's own success depends: a round that updates the offsets in
\* place is one that reads only the last round's, the function stops at the
\* first round that moves nothing, with the offsets where this leaves them, and
\* it raises for no other reason than depth, width or lack of rounds.
TrieVerdict ==
  /\ pc = "done"  => Builds(exports) /\ offset = NextLayout(exports, offset)
  /\ pc = "error" => ~Builds(exports)

\* The layout settles before the rounds run out, for every set of names that
\* visit can list and the format can hold.
LayoutSettles == Visitable(exports) /\ Countable(exports) => <>(pc = "done")
=============================================================================
