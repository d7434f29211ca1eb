SPECIFICATION FairSpec
CONSTANTS
  AnimationTicks = 1
  LongPressTicks = 2
  BrightTicks = 10
  DimTicks = 20
  MaxKeys = 2
INVARIANTS AlarmsFitDisplay LongPressIsHeld
PROPERTIES GoesDark LitShutsDown
CHECK_DEADLOCK FALSE
