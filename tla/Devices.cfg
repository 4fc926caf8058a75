SPECIFICATION Spec
CONSTANTS
  BufferSize = 8
  Triggers = {0, 1}
  MemoryWords = 2
  Selects = {0, 1}
  Words <- MCWords
  FifoDepth = 4
  Trail = 2
  Enough = 4
  Bitstreams <- MCBitstreams
  Shapes <- MCShapes
  BufferBytes = 16
  CountBase = 2
  MaxCount = 6
INVARIANTS
  TypeOK
  BitstreamsInPlace
  WordsComeBack
  RowsAreTheSamples
  DumpIsTheBuffer
  ReadsAreTheWrites
  CountIsCoherent
PROPERTIES
  Completes
