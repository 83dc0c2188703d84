SPECIFICATION Spec

CONSTANTS
  r1 = r1
  r2 = r2
  f1 = f1
  f2 = f2
  n1 = n1
  n2 = n2
  Absent = Absent
  File = {f1, f2}
  Name = {n1, n2}
  TransferIds = {0, 1, 2, 3}
  IdSpace = 4
  Runs = {r1, r2}
  FileOf <- OneFile
  SizeOf <- SevenBytes
  NameOf <- OwnName
  MaxChunkSize = 2
  Directed = {}
  After <- Concurrent
  Order = "header first"
  WriteMayFail = FALSE
  Strays <- NoStrays
  MaxRestarts = 2

INVARIANTS
  TrackersHaveIds
  CompleteIsWhole
  DeliveredMeansSaved

PROPERTIES
  ImplementsFileTransfer

\* Every run of the sender ends and everything is delivered.
CHECK_DEADLOCK FALSE
