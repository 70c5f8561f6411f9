CONSTANTS
  ChunkId = {c1, c2, c3}
  NoChunk = NoChunk
  Value = {0, 1}
  Junk = 0
  debugmode = FALSE
  blockmax = 2
  blockSizeWanted = 1
  MaxCount = 3
  MaxDepth = 4
SYMMETRY Addresses
SPECIFICATION Spec
INVARIANT NoChunkLost
INVARIANT FramesInChain
PROPERTY ImplementsFrameStack
CHECK_DEADLOCK FALSE
