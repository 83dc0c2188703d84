SPECIFICATION FairSpec

CONSTANTS
  Chars <- MCChars
  Broadcast <- MCBroadcast
  Marker = "{"
  Greetings <- MCGreetings
  Answer <- MCAnswer
  Lines <- MCLines
  MaxLineLength = 11
  MaxLines = 5

INVARIANTS
  TypeOK
  NoPacketSkipped

PROPERTIES
  ImplementsFrameLink
  PacketsArrive

\* The session may end, and the server may have sent all its lines.
CHECK_DEADLOCK FALSE
