SPECIFICATION Spec
CONSTANTS
  p1 = p1
  p2 = p2
  t1 = t1
  t2 = t2
  Procs = {p1, p2}
  Threads = {t1, t2}
  Proc <- OneThreadEach
  MaxBufs = 1
  MaxHandles = 2
  MaxClients = 3
  MaxFiles = 3
  MaxVmas = 1
  MaxRefs = 2
  MaxMaps = 1
INVARIANTS RefsExact  ReachablePinned NothingLeft
CHECK_DEADLOCK FALSE
