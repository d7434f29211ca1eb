SPECIFICATION FairSpec
CONSTANTS
  Modes <- MCSharing
  Cables = {"usb", "factory"}
  MaxWaiting = 2
  MaxRequests = 2
PROPERTY RequestStarts
CHECK_DEADLOCK FALSE
