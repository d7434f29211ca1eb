SPECIFICATION Spec
CONSTANTS
  Kinds = {"kmap", "dmap"}
  Buffers = {b1, b2}
  Handles = {h1, h2, h3}
  Null = Null
  MaxCount = 2
  MaxLost = 1
SYMMETRY Symmetry
INVARIANTS CountsSound  LeaksOnlyByDestroy
CHECK_DEADLOCK FALSE
