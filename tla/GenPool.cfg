SPECIFICATION FairSpec
CONSTANTS
  Threads = {t1, t2}
  NoThread = NoThread
  ChunkBits <- MCChunkBits
  Requests <- MCRequests
INVARIANTS PoolSound NoOverlap
PROPERTIES FirstFits ScanEnds ImplementsExtents
CHECK_DEADLOCK FALSE
