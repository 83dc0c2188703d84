SPECIFICATION Spec

CONSTANTS
  Interval = 10
  Transmissions = 3
  Calls = 2
  Mantissa = 5
  TimerSpace = 64
  StartTimes <- MCStartTimes
  SendTimes <- MCSendTimes
  Delays <- MCDelays
  MaxExponent = 5

INVARIANTS
  PaceKept

PROPERTIES
  PauseBounded

\* The calls have returned.
CHECK_DEADLOCK FALSE
