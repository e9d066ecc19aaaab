\* The ELFs of the two phases' run, asked for every imported pointer of Phase 3.
CONSTANTS
  PageSize = 4
  HeaderReserve = 8
  ImageBase = 0
  WordMod = 256
  MaxOpcodeSegments = 3
  FixedCommandSize = 4
  SegmentCommandSize = 1
  Bases = {0, 64}
  Elfs <- MCElfs
  SymbolAddress <- MCSymbolAddress
SPECIFICATION LoadSpec
INVARIANT ImportedPointersRight
\* A translation ends in a written dylib or an error, a load in a loaded image.
CHECK_DEADLOCK FALSE
