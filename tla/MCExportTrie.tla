---------------------------- MODULE MCExportTrie ----------------------------
(***************************************************************************)
(* Export sets: none, one, two or three names of up to three characters,   *)
(* prefixes of each other and siblings among them; long chains; all the    *)
(* names at once; a node with more children than can be counted; a name of *)
(* the greatest depth and one beyond it; and one name at every address up  *)
(* to a bound.                                                             *)
(***************************************************************************)
EXTENDS ExportTrie

CONSTANTS Chars, MaxChain,
          MaxAddress   \* bound: encodings of up to five digits

\* The address of a name depends on its length, so that short and long
\* encodings are mixed.
Addresses  == <<2, 9, 40>>
Address(s) == Addresses[(Len(s) % 3) + 1]

Words  == {<<a>> : a \in Chars} \cup (Chars \X Chars) \cup (Chars \X Chars \X Chars)
Chains == {[k \in 1 .. len |-> 1] : len \in 4 .. MaxChain}

NameSets == {{}, Words} \cup {{a, b, c} : a, b, c \in Words}
            \cup {{c, <<1, 2>>} : c \in Chains}
            \cup {{<<k>> : k \in 1 .. MaxChildren + 1}}
            \cup {{[k \in 1 .. len |-> 1]} : len \in {MaxDepth, MaxDepth + 1}}

MCExportSets == {[s \in names |-> Address(s)] : names \in NameSets}
                \cup {[s \in {<<1>>} |-> a] : a \in 0 .. MaxAddress}
=============================================================================
