SPECIFICATION Spec
CONSTANTS
  Modes <- MCSharing
  Cables = {"usb", "factory"}
  MaxWaiting = 3
  MaxRequests = 2
INVARIANTS  AppInformed 
CHECK_DEADLOCK FALSE
