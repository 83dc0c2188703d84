SPECIFICATION Spec

CONSTANTS
  CharIsSigned = FALSE
  Broadcast <- MCBroadcast
  Marker = 123
  Calls <- Traffic
  Preludes <- MCPreludes
  OtherBytes <- MCOther
  MaxFrames = 2
  MaxOther = 1
  MaxTimeouts = 1

INVARIANTS
  NothingToEscape
  TypeOK
  FramesInOrder
  NoFrameSkipped
  OnlyEighthRefused

PROPERTIES
  ImplementsFrameLink

\* All frames have been sent and read.
CHECK_DEADLOCK FALSE
