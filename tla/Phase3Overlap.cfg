\* The load layout of the test-suite object, which shares a 16 KiB page.
CONSTANTS
  PageSize = 4
  HeaderReserve = 8
  ImageBase = 0
  WordMod = 256
  MaxOpcodeSegments = 3
  FixedCommandSize = 4
  SegmentCommandSize = 1
  Bases = {0, 64}
  Elfs <- TestElfs
  SymbolAddress <- MCSymbolAddress
SPECIFICATION LoadSpec
INVARIANT ContentsPreserved
\* A translation ends in a written dylib or an error, a load in a loaded image.
CHECK_DEADLOCK FALSE
