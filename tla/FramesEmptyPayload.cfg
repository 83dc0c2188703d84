SPECIFICATION Spec

CONSTANTS
  CharIsSigned = FALSE
  Broadcast <- MCBroadcast
  Marker = 123
  Calls <- EmptyPayload
  Preludes <- MCPreludes
  OtherBytes <- MCOther
  MaxFrames = 1
  MaxOther = 0
  MaxTimeouts = 0

INVARIANTS
  LoopGoesOn

\* All frames have been sent and read.
CHECK_DEADLOCK FALSE
