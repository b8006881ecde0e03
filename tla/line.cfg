SPECIFICATION LineSpec
CONSTANTS
  None = None
  Frame = 2
  ChunkSizes = {1, 3}
  MaxChunks = 2
  MaxLines = 3
INVARIANTS
  SequenceKept
  AudioInOrder
  ClearCutsClean
  MarkClosesLine
CHECK_DEADLOCK FALSE
