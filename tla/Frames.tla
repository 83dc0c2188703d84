------------------------------- MODULE Frames -------------------------------
(***************************************************************************)
(* The formats of tnc_aprs_interface.cc: AX.25 addresses and UI frames,    *)
(* and the KISS encoding in which a TNC takes and gives them.  A byte is a *)
(* number below 256, a callsign [callsign, ssid] has a sequence of bytes.  *)
(***************************************************************************)
EXTENDS Integers, Sequences, FiniteSetsExt, SequencesExt

CONSTANT CharIsSigned \* whether char is signed, as gcc has it on x86

Byte == 0..255
Space == 32

FEND == 192
FESC == 219
TFEND == 220
TFESC == 221

-----------------------------------------------------------------------------
(* AX.25.                                                                  *)

\* What EncodeAX25Callsign accepts; LOGFATAL ends the process otherwise.
Encodable(c) == c.ssid \in 0..15 /\ Len(c.callsign) <= 6

\* The bits 0x60 of the seventh byte, which the decoder checks.
SSIDMask == 96

\* Mutant: 0xc0 for 0x60, the bits one place too high.
EncodeAX25CallsignHigh(c, last) ==
  [i \in 1..7 |-> CASE i = 7 -> 2 * SSIDMask + 2 * c.ssid + (IF last THEN 1 ELSE 0)
                    [] i <= Len(c.callsign) -> (2 * c.callsign[i]) % 256
                    [] OTHER -> 2 * Space]

EncodeAX25Callsign(c, last) ==
  [i \in 1..7 |-> CASE i = 7 -> SSIDMask + 2 * c.ssid + (IF last THEN 1 ELSE 0)
                    [] i <= Len(c.callsign) -> (2 * c.callsign[i]) % 256
                    [] OTHER -> 2 * Space]

\* The frame Send builds: destination, source, digipeaters, UI, no layer 3.
EncodeAX25Frame(call) ==
  LET addresses == <<call.destination, call.source>> \o call.digipeaters
  IN  FlattenSeq([i \in DOMAIN addresses |->
                    EncodeAX25Callsign(addresses[i], i > 1 /\ i = Len(addresses))])
        \o <<3, 240>> \o call.payload

\* The k-th address of a frame, counting from 0, as DecodeAX25Callsign finds it.
Address(frame, k) == SubSeq(frame, 7 * k + 1, 7 * k + 7)

Decodable(frame, k) ==
  /\ 7 * (k + 1) <= Len(frame)
  /\ (frame[7 * (k + 1)] \div 32) % 4 = 3

IsLast(frame, k) == 7 * (k + 1) <= Len(frame) /\ frame[7 * (k + 1)] % 2 = 1

\* (byte & 0x17) >> 1, which drops the third of the four bits of an SSID.
SSID(byte) == (byte % 8) \div 2 + 8 * ((byte \div 16) % 2)

DecodeAX25Callsign(frame, k) ==
  LET chars == [i \in 1..6 |-> Address(frame, k)[i] \div 2]
      length == Max({n \in 0..6 : \A i \in 1..n : chars[i] # Space})
  IN  [callsign |-> SubSeq(chars, 1, length), ssid |-> SSID(Address(frame, k)[7])]

\* How many digipeaters the loop of Receive takes: up to the address marked
\* last, 8 at most.
DigipeaterCount(frame) ==
  LET ends == {k \in 1..9 : IsLast(frame, k)}
  IN  IF ends = {} THEN 8 ELSE Min(ends) - 1

\* Mutant: an eighth digipeater is taken.
IsReceivedEighth(frame) ==
  LET n == DigipeaterCount(frame)
      offset == 7 * (n + 2)
  IN  /\ \A k \in 0..(n + 1) : Decodable(frame, k)
      /\ offset + 2 <= Len(frame)
      /\ frame[offset + 1] = 3
      /\ frame[offset + 2] = 240

\* Receive returns true: all addresses can be decoded, an eighth digipeater
\* is not the last address, and the frame is a UI frame without layer 3.
IsReceived(frame) ==
  LET n == DigipeaterCount(frame)
      offset == 7 * (n + 2)
  IN  /\ \A k \in 0..(n + 1) : Decodable(frame, k)
      /\ ~(n = 8 /\ IsLast(frame, 9))
      /\ offset + 2 <= Len(frame)
      /\ frame[offset + 1] = 3
      /\ frame[offset + 2] = 240

\* What it stores for the caller.
ReceivedFrame(frame) ==
  [source |-> DecodeAX25Callsign(frame, 1),
   destination |-> DecodeAX25Callsign(frame, 0),
   payload |-> SubSeq(frame, 7 * (DigipeaterCount(frame) + 2) + 3, Len(frame))]

-----------------------------------------------------------------------------
(* KISS.                                                                   *)

\* A signed char never equals 0xc0 or 0xdb, so its build escapes nothing.
Escape(byte) ==
  CASE byte = FEND /\ ~CharIsSigned -> <<FESC, TFEND>>
    [] byte = FESC /\ ~CharIsSigned -> <<FESC, TFESC>>
    [] OTHER -> <<byte>>

EncodeKISSFrame(frame) ==
  <<FEND, 0>> \o FlattenSeq([i \in DOMAIN frame |-> Escape(frame[i])]) \o <<FEND>>
=============================================================================
