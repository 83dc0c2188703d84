SPECIFICATION Spec

CONSTANTS
  CharIsSigned = FALSE
  Broadcast <- MCBroadcast
  Marker = 123
  Calls <- WrongSSID
  Preludes <- MCPreludes
  OtherBytes <- MCOther
  MaxFrames = 1
  MaxOther = 0
  MaxTimeouts = 0

INVARIANTS
  OnlyBroadcast

\* All frames have been sent and read.
CHECK_DEADLOCK FALSE
