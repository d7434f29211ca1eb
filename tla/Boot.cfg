SPECIFICATION Spec
CONSTANTS
  Environments <- MCEnvironments
  PvrReaders = {r1, r2}
  PvrNodes = 2
  FileLines = 3
  Palette <- MCPalette
  Counters <- MCCounters
  Capacities <- MCCapacities
  Inputs <- MCInputs
  Backlights <- MCBacklights
  BootLeds <- MCBootLeds
INVARIANTS  HookTransparent ModeFollowsFile LedAgrees 
CHECK_DEADLOCK FALSE
