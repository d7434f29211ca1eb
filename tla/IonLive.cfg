SPECIFICATION FairSpec
CONSTANTS
  p1 = p1
  p2 = p2
  t1 = t1
  t2 = t2
  Procs = {p1, p2}
  Threads = {t1, t2}
  Proc <- OneThreadEach
  MaxBufs = 1
  MaxHandles = 1
  MaxClients = 2
  MaxFiles = 3
  MaxVmas = 2
  MaxRefs = 1
  MaxMaps = 1
PROPERTIES CallsEnd 
CHECK_DEADLOCK FALSE
