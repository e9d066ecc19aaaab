\* Page-separated ELFs, translated by Phase 3 and by Phase 4 and loaded with and
\* without ASLR.  The image base is two pages, so that offsets from the header and
\* addresses differ.  With four loads Phase 3's load commands fit in the reserve
\* and Phase 4's do not.  The export trie has at most three children to a node,
\* five levels and three rounds, so that each of its limits is met.
CONSTANTS
  PageSize = 4
  HeaderReserve = 8
  ImageBase = 8
  WordMod = 256
  MaxOpcodeSegments = 3
  FixedCommandSize = 4
  SegmentCommandSize = 1
  SymtabCommandSize = 1
  Radix = 8
  MaxDepth = 5
  MaxChildren = 3
  MaxRounds = 3
  Spelling <- MCSpelling
  FixedCommandSize2 = 0
  SegmentCommandSize2 = 1
  Bases = {0, 64}
  Elfs <- MCElfs4
  SymbolAddress <- MCSymbolAddress
SPECIFICATION SpecAll
INVARIANT InternalPointersRight
INVARIANT ImportsRightUpToAddend
INVARIANT ContentsPreserved
INVARIANT UnresolvedKept
INVARIANT FaultsOnlyOnTextRelocs
INVARIANT TypeOK
INVARIANT LayoutSound
INVARIANT LocationsAgree
INVARIANT FixupsMatchRelocs
INVARIANT SegmentsContiguous
INVARIANT ExportsAgree
PROPERTY KeepContract
\* A translation ends in a written dylib or an error, a load in a loaded image.
CHECK_DEADLOCK FALSE
