SPECIFICATION FairSpec

CONSTANTS
  r1 = r1
  f1 = f1
  n1 = n1
  Absent = Absent
  Garbled = Garbled
  File = {f1}
  Name = {n1}
  TransferIds = {0, 1, 2, 3, 4, 5, 6, 7}
  IdSpace = 8
  Stations = {r1}
  PayloadIds = {0, 1, 2, 3, 4, 5, 6, 7}
  Packet <- RunPackets
  Outbox <- PacketsInOrder
  Noise = {}
  FileOf <- OneFile
  SizeOf <- SevenBytes
  NameOf <- OneName
  MaxChunkSize = 2
  Directed = {}
  After <- AtOnce
  WriteMayFail = FALSE
  Size <- HeaderInTwo
  FirstId <- WrapAround
  RetransmitCount <- Twice
  MaxPacketSize = 2
  MaxLosses = 1
  MaxRestarts = 1

INVARIANTS
  ArrivesInOrder
  TrackersHaveIdsFromStart

PROPERTIES
  ImplementsFileCopy
  SentFileIsSaved

\* Every run of the sender ends and the radio falls silent.
CHECK_DEADLOCK FALSE
