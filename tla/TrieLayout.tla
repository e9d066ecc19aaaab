----------------------------- MODULE TrieLayout -----------------------------
(***************************************************************************)
(* What _build_export_trie of phase4.py computes, as operators on the map  *)
(* e from names to addresses that is to be encoded: the nodes of the trie, *)
(* their bytes for given offsets, the layout of every round, and whether   *)
(* the function returns or raises.  Module ExportTrie runs it step by      *)
(* step; module Phase4 asks whether it returns.                            *)
(*                                                                         *)
(* A name is a sequence of characters, a node of the trie a prefix.        *)
(***************************************************************************)
EXTENDS Leb128, SequencesExt

CONSTANTS MaxDepth,      \* levels that visit can go down: what Python's recursion
                         \* limit (1000) leaves below the frames of the callers
          MaxChildren,   \* children that one byte can count (255)
          MaxRounds      \* how often the layout is tried (32)

\* A node comes before its children, and these come in the order of their
\* characters.
Before(m, n) == \/ IsStrictPrefix(m, n)
                \/ \E k \in 1 .. Len(m) : /\ k <= Len(n) /\ m[k] < n[k]
                                          /\ \A j \in 1 .. k - 1 : m[j] = n[j]

InOrder(S) ==
  [k \in 1 .. Cardinality(S) |->
     CHOOSE n \in S : Cardinality({m \in S : Before(m, n)}) = k - 1]

TrieNodes(e) == {<<>>} \cup UNION {Prefixes(s) : s \in DOMAIN e}

\* The insertion of the sorted names, and visit.
Visit(e) == InOrder(TrieNodes(e))

ChildrenOf(e, n) == InOrder({m \in TrieNodes(e) : Len(m) = Len(n) + 1 /\ IsPrefix(n, m)})

\* Mutant of TerminalOf: the flags in front of the address are forgotten.
TerminalNoFlags(e, n) == IF n \in DOMAIN e THEN Uleb(e[n]) ELSE <<>>

TerminalOf(e, n) == IF n \in DOMAIN e THEN Uleb(0) \o Uleb(e[n]) ELSE <<>>

\* encode_node: the terminal with its length, then per child its character, a
\* NUL and its offset.
NodeBytes(e, offset, n) ==
  LET children == ChildrenOf(e, n)
  IN Uleb(Len(TerminalOf(e, n))) \o TerminalOf(e, n) \o <<Len(children)>>
     \o FlattenSeq([c \in DOMAIN children |->
                      <<Last(children[c]), 0>> \o Uleb(offset[children[c]])])

\* One round: every node goes behind the bytes of the nodes before it, which
\* are as long as the last round's offsets make them.
NextLayout(e, offset) ==
  LET nodes == Visit(e)
      place(i) == Len(FlattenSeq([k \in 1 .. i - 1 |-> NodeBytes(e, offset, nodes[k])]))
  IN [n \in TrieNodes(e) |-> place(CHOOSE i \in DOMAIN nodes : nodes[i] = n)]

\* The layouts of all rounds.  No node has an offset before the first.
Layouts(e) ==
  LET f[r \in Nat] == IF r = 0 THEN [n \in TrieNodes(e) |-> 0] ELSE NextLayout(e, f[r - 1])
  IN f

\* visit does not run out of frames.
Visitable(e) == \A n \in TrieNodes(e) : Len(n) <= MaxDepth

Countable(e) == \A n \in TrieNodes(e) : Len(ChildrenOf(e, n)) <= MaxChildren

\* One of the rounds changes nothing.
Settles(e) == \E r \in 1 .. MaxRounds : Layouts(e)[r] = Layouts(e)[r - 1]

\* The function returns.
Builds(e) == Visitable(e) /\ Countable(e) /\ Settles(e)
=============================================================================
