------------------------------- MODULE Pacing -------------------------------
(***************************************************************************)
(* The clock side of SendBroadcastPacket: when each transmission of a      *)
(* sending process begins.  The due time is an unsigned number of          *)
(* microseconds to which the interval, a float, is added: the sum is       *)
(* computed with the few bits of a float's mantissa and converted back.    *)
(* Integers stand for the values; TimerSpace and Mantissa keep the widths. *)
(***************************************************************************)
EXTENDS Integers, Sequences, FiniteSetsExt

CONSTANTS
  Interval,           \* config_.transmit_interval_s * kUsPerS
  Transmissions,      \* the transmissions of one call, of all fragments
  Calls,              \* the calls of SendBroadcastPacket
  Mantissa,           \* the bits of a float's mantissa (24)
  TimerSpace,         \* the number of values of useconds_t (2^32)
  StartTimes,         \* what the steady clock may show at the first call
  SendTimes,          \* how long a transmission and the code after it take
  Delays,             \* how much later than it should a sleep may end
  MaxExponent         \* bound: exponents of the floats that occur

ASSUME PacingAssumption ==
  /\ Interval \in Nat \ {0}
  /\ Transmissions \in Nat \ {0}
  /\ Calls \in Nat
  /\ Mantissa \in Nat \ {0}
  /\ TimerSpace \in Nat \ {0}
  /\ StartTimes \subseteq Nat
  /\ SendTimes \subseteq Nat
  /\ Delays \subseteq Nat
  /\ \E latest \in Delays : \A late \in Delays : late <= latest
  /\ MaxExponent \in Nat

VARIABLES
  clock,              \* GetTimeNowUs
  due,                \* next_packet_time_us
  phase,              \* "idle", at a transmission or asleep inside a call
  left,               \* transmissions left of the call
  calls,              \* calls so far
  sent_at             \* history: when each transmission began

vars == <<clock, due, phase, left, calls, sent_at>>

-----------------------------------------------------------------------------
\* The distance of neighbouring floats at n.
Ulp(n) == 2 ^ Max({k \in 0..MaxExponent : k = 0 \/ n >= 2 ^ (k + Mantissa - 1)})

\* The float next to n; of two, the one whose mantissa is even.
Round(n) ==
  LET u == Ulp(n)
      below == n \div u
      rest == 2 * (n % u)
  IN  IF rest < u \/ (rest = u /\ below % 2 = 0) THEN u * below ELSE u * (below + 1)

\* due += interval: a uint64_t converted to float and back.
PlusInterval(n) == Round(Round(n) + Interval)

-----------------------------------------------------------------------------
Init ==
  /\ clock \in StartTimes
  /\ due = 0
  /\ phase = "idle"
  /\ left = 0
  /\ calls = 0
  /\ sent_at = <<>>

CallSendBroadcastPacket ==
  /\ phase = "idle"
  /\ calls < Calls
  /\ calls' = calls + 1
  /\ due' = clock
  /\ left' = Transmissions
  /\ phase' = "sending"
  /\ UNCHANGED <<clock, sent_at>>

SendPacketChunk ==
  /\ phase = "sending"
  /\ sent_at' = Append(sent_at, clock)
  /\ \E t \in SendTimes : clock' = clock + t
  /\ due' = PlusInterval(due)
  /\ phase' = "sleeping"
  /\ UNCHANGED <<left, calls>>

\* Send returns false: the call does, and the process ends.
SendFails ==
  /\ phase = "sending"
  /\ phase' = "failed"
  /\ UNCHANGED <<clock, due, left, calls, sent_at>>

\* Mutants: the comparison reversed; no comparison.
SleepUntilReversed(end) ==
  IF end < clock
  THEN \E late \in Delays : clock' = clock + ((end - clock) % TimerSpace) + late
  ELSE UNCHANGED clock
SleepUntilUnchecked(end) ==
  \E late \in Delays : clock' = clock + ((end - clock) % TimerSpace) + late

\* usleep takes an unsigned number of 32 bits.
SleepUntil(end) ==
  IF end > clock
  THEN \E late \in Delays : clock' = clock + ((end - clock) % TimerSpace) + late
  ELSE UNCHANGED clock

Sleep ==
  /\ phase = "sleeping"
  /\ SleepUntil(due)
  /\ left' = left - 1
  /\ phase' = IF left = 1 THEN "idle" ELSE "sending"
  /\ UNCHANGED <<due, calls, sent_at>>

Next == CallSendBroadcastPacket \/ SendPacketChunk \/ SendFails \/ Sleep

Spec == Init /\ [][Next]_vars

-----------------------------------------------------------------------------
\* "The interval in seconds between transmissions" (aprs_interface.h:39) is
\* kept on average, within the precision of a float at that time: a slow
\* transmission lets later ones follow one another faster, but never earlier
\* than if none had been slow, and a new call does not start over early.
PaceKept ==
  \A i \in DOMAIN sent_at :
    sent_at[i] - sent_at[1] >= (i - 1) * (Interval - Ulp(sent_at[i]))

\* However late the process is, no pause is longer than the interval: the
\* unsigned difference in SleepUntil never wraps.
PauseBounded ==
  [][phase = "sleeping" => clock' <= clock + Interval + Ulp(due) + Max(Delays)]_vars
=============================================================================
