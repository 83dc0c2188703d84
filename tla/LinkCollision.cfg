SPECIFICATION Spec

CONSTANTS
  p1 = p1
  p2 = p2
  p3 = p3
  p4 = p4
  s1 = s1
  s2 = s2
  s3 = s3
  Packet = {p1, p2, p3, p4}
  Stations = {s1, s2, s3}
  Size <- TwoPieces
  Outbox <- TwoForFirst
  FirstId <- WrapInto
  PayloadIds = {0, 1, 2, 3}
  IdSpace = 4
  RetransmitCount <- LastNever
  MaxPacketSize = 2
  Noise <- NoNoise
  MaxLosses = 1
  MaxRestarts = 1
  Garbled = Garbled

INVARIANTS
  StationIdsDistinct
  AtMostOnce
  NoStrandedTracker
  TrackersSorted

\* Every station finishes and the air falls silent.
CHECK_DEADLOCK FALSE
