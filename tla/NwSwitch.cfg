SPECIFICATION SwitchFairSpec
CONSTANTS
  MaxEvents = 6
  MaxQueue = 2
INVARIANT SettledAgrees
PROPERTY ComesUp
CHECK_DEADLOCK FALSE
