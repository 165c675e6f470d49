CONSTANTS
  NumberCluster = 4
  PerSector = 8
  PerCluster = 1
  RootSizes = {1, 2}
  NFile = 2
  Days = {"d1", "d2"}
  Typed = {"d1"}
  NoName = "none"
  Sectors = {1, 2}
  Values = {0, 1}
  NumBuf = 2
  Callers = {"u1", "u2"}
  NoSector = NoSector
  NoBuffer = NoBuffer
SPECIFICATION CardSpec
INVARIANT CheckFs
INVARIANT FilesTrue
INVARIANT FlushedKept
INVARIANT FullIsFull
PROPERTY ImplementsBlocks
