\* Two characters, nodes of at most two children and at most sixteen levels; digits
\* of two bits, so that offsets of one to four bytes occur.
CONSTANTS
  Radix = 4
  MaxDepth = 16
  MaxChildren = 2
  MaxRounds = 32
  Chars = {1, 2}
  MaxChain = 16
  MaxAddress = 300
  ExportSets <- MCExportSets
SPECIFICATION FairTrieSpec
INVARIANT ExportsFound
INVARIANT NumbersReadBack
INVARIANT TrieVerdict
PROPERTY OffsetsGrow
PROPERTY LayoutSettles
\* The function returns or raises.
CHECK_DEADLOCK FALSE
