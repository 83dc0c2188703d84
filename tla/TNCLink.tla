------------------------------ MODULE TNCLink ------------------------------
(***************************************************************************)
(* TNCAPRSInterface at both ends of the radio: calls of Send, and          *)
(* the process that connects to its TNC, reads the frames byte by byte     *)
(* (DecodeKISSFrame), takes them apart (Receive) and passes them on        *)
(* (ReceiveBroadcastPacket).  Every error of the socket ends it.           *)
(*                                                                         *)
(* The TNCs and the radio are external: they hand on the KISS frames they  *)
(* were given, whole and in the order of reception, and may add others.    *)
(***************************************************************************)
EXTENDS BroadcastReceive, Frames

CONSTANTS
  Calls,              \* calls of Send, of this program and of others
  Preludes,           \* what the socket may hold when it is opened
  OtherBytes,         \* what a TNC may give that is no data frame
  MaxFrames,          \* bound: frames on the socket
  MaxOther,           \* bound: pieces of OtherBytes on the socket
  MaxTimeouts         \* bound: timeouts of Receive; 0 where timeout_ms is 0

\* What a caller of Send may give it.
CallsignConfig == [callsign : Seq(Byte), ssid : Int]
Call == [source : CallsignConfig, destination : CallsignConfig,
         digipeaters : Seq(CallsignConfig), payload : Seq(Byte)]

ASSUME TNCAssumption ==
  /\ Calls \subseteq Call
  /\ CharIsSigned \in BOOLEAN
  /\ MaxTimeouts \in Nat
  /\ MaxFrames \in Nat
  /\ MaxOther \in Nat
  /\ Preludes \subseteq Seq(Byte)
  /\ OtherBytes \subseteq Seq(Byte)

VARIABLES
  connected,          \* whether the socket is open, from the constructor on
  wire,               \* the bytes the receiver's TNC has given and nobody read
  others, timeouts,   \* pieces of OtherBytes and timeouts so far
  put,                \* history: the calls whose frames came on the wire
  heard,              \* history: the frames DecodeKISSFrame returned
  frame, in_frame, in_escape, next_byte_is_header   \* its locals

decoderVars == <<frame, in_frame, in_escape, next_byte_is_header>>
vars == <<dispatchVars, connected, wire, others, timeouts, put, heard, decoderVars>>

-----------------------------------------------------------------------------
Init ==
  /\ DispatchInit
  /\ connected = FALSE
  /\ wire = <<>>
  /\ others = 0
  /\ timeouts = 0
  /\ put = <<>>
  /\ heard = <<>>
  /\ frame = <<>>
  /\ in_frame = FALSE
  /\ in_escape = FALSE
  /\ next_byte_is_header = FALSE

\* The constructor.  LOGFATAL ends the process when the host cannot be
\* resolved or the socket not be opened or watched.
Connect ==
  /\ running
  /\ ~connected
  /\ \/ /\ connected' = TRUE
        /\ wire' \in Preludes
        /\ UNCHANGED dispatchVars
     \/ /\ running' = FALSE
        /\ UNCHANGED <<pushed, connected, wire>>
  /\ UNCHANGED <<others, timeouts, put, heard, decoderVars>>

\* Watching or reading the socket fails: LOGFATAL.
ConnectionLost ==
  /\ running
  /\ connected
  /\ connected' = FALSE
  /\ running' = FALSE
  /\ UNCHANGED <<pushed, wire, others, timeouts, put, heard, decoderVars>>

\* Send, and the way of its frame to the receiver's socket.  A frame that was
\* lost, on the air or on a broken connection that Send does not notice, is
\* one nobody put there.
Send(call) ==
  /\ running /\ connected
  /\ Len(put) < MaxFrames
  /\ Len(call.digipeaters) <= 8
  /\ Encodable(call.source) /\ Encodable(call.destination)
  /\ \A i \in DOMAIN call.digipeaters : Encodable(call.digipeaters[i])
  /\ wire' = wire \o EncodeKISSFrame(EncodeAX25Frame(call))
  /\ put' = Append(put, call)
  /\ UNCHANGED <<dispatchVars, connected, others, timeouts, heard, decoderVars>>

GiveOther(bytes) ==
  /\ running /\ connected
  /\ others < MaxOther
  /\ others' = others + 1
  /\ wire' = wire \o bytes
  /\ UNCHANGED <<dispatchVars, connected, timeouts, put, heard, decoderVars>>

-----------------------------------------------------------------------------
(* DecodeKISSFrame, one byte of the socket at a time.                      *)

Take(byte) ==
  /\ running
  /\ wire # <<>>
  /\ byte = Head(wire)
  /\ wire' = Tail(wire)
  /\ UNCHANGED <<connected, others, timeouts, put>>

Reading == UNCHANGED <<dispatchVars, heard>>

\* The locals of a new call.
Restarted ==
  /\ frame' = <<>>
  /\ in_frame' = FALSE
  /\ in_escape' = FALSE
  /\ next_byte_is_header' = FALSE

\* The frame is returned, and Receive returns at once.
ReadEnd ==
  /\ Take(FEND)
  /\ frame # <<>>
  /\ heard' = Append(heard, frame)
  /\ Restarted
  /\ \/ IsReceived(frame) /\ Dispatch(ReceivedFrame(frame))
     \/ ~IsReceived(frame) /\ UNCHANGED dispatchVars

\* Mutant: a second delimiter closes what the first opened.
ReadStartToggling ==
  /\ Take(FEND)
  /\ frame = <<>>
  /\ next_byte_is_header' = ~next_byte_is_header
  /\ Reading
  /\ UNCHANGED <<frame, in_frame, in_escape>>

\* A frame starts; delimiters may follow one another.
ReadStart ==
  /\ Take(FEND)
  /\ frame = <<>>
  /\ next_byte_is_header' = TRUE
  /\ Reading
  /\ UNCHANGED <<frame, in_frame, in_escape>>

\* A command other than data leaves in_frame as it was.
ReadHeader ==
  /\ \E byte \in Byte \ {FEND} :
       /\ Take(byte)
       /\ in_frame' = (in_frame \/ byte % 16 = 0)
  /\ next_byte_is_header
  /\ next_byte_is_header' = FALSE
  /\ Reading
  /\ UNCHANGED <<frame, in_escape>>

ReadOutOfFrame ==
  /\ \E byte \in Byte \ {FEND} : Take(byte)
  /\ ~next_byte_is_header
  /\ ~in_frame
  /\ Reading
  /\ UNCHANGED decoderVars

\* A byte after the header of a data frame.
InBody(byte) ==
  /\ Take(byte)
  /\ ~next_byte_is_header
  /\ in_frame
  /\ Reading
  /\ UNCHANGED next_byte_is_header

\* A second escape drops what was read, but the frame goes on.
ReadEscape ==
  /\ InBody(FESC)
  /\ in_escape' = ~in_escape
  /\ frame' = IF in_escape THEN <<>> ELSE frame
  /\ UNCHANGED in_frame

ReadEscaped ==
  /\ \/ InBody(TFEND) /\ frame' = Append(frame, FEND)
     \/ InBody(TFESC) /\ frame' = Append(frame, FESC)
  /\ in_escape
  /\ in_escape' = FALSE
  /\ UNCHANGED in_frame

\* Mutants: the frame is kept; in_frame is kept.
ReadBadEscapeKeeping ==
  /\ \E byte \in Byte \ {FEND, FESC, TFEND, TFESC} : InBody(byte)
  /\ in_escape
  /\ in_escape' = FALSE
  /\ in_frame' = FALSE
  /\ UNCHANGED frame
ReadBadEscapeStaying ==
  /\ \E byte \in Byte \ {FEND, FESC, TFEND, TFESC} : InBody(byte)
  /\ in_escape
  /\ in_escape' = FALSE
  /\ frame' = <<>>
  /\ UNCHANGED in_frame

\* The frame is dropped, and so is what follows up to the next header.
ReadBadEscape ==
  /\ \E byte \in Byte \ {FEND, FESC, TFEND, TFESC} : InBody(byte)
  /\ in_escape
  /\ in_escape' = FALSE
  /\ in_frame' = FALSE
  /\ frame' = <<>>

ReadData ==
  /\ \E byte \in Byte \ {FEND, FESC} :
       InBody(byte) /\ frame' = Append(frame, byte)
  /\ ~in_escape
  /\ UNCHANGED <<in_frame, in_escape>>

ReadByte ==
  \/ ReadEnd
  \/ ReadStart
  \/ ReadHeader
  \/ ReadOutOfFrame
  \/ ReadEscape
  \/ ReadEscaped
  \/ ReadBadEscape
  \/ ReadData

\* The call returns nothing, and so does Receive; the caller calls again.
Timeout ==
  /\ running
  /\ connected
  /\ timeouts < MaxTimeouts
  /\ timeouts' = timeouts + 1
  /\ Restarted
  /\ UNCHANGED <<dispatchVars, connected, wire, others, put, heard>>

Next ==
  \/ Connect
  \/ ConnectionLost
  \/ \E call \in Calls : Send(call)
  \/ \E bytes \in OtherBytes : GiveOther(bytes)
  \/ ReadByte
  \/ Timeout

Spec == Init /\ [][Next]_vars

-----------------------------------------------------------------------------
TypeOK ==
  /\ connected \in BOOLEAN
  /\ wire \in Seq(Byte)
  /\ others \in 0..MaxOther
  /\ timeouts \in 0..MaxTimeouts
  /\ put \in Seq(Calls)
  /\ heard \in Seq(Seq(Byte))
  /\ frame \in Seq(Byte)
  /\ in_frame \in BOOLEAN
  /\ in_escape \in BOOLEAN
  /\ next_byte_is_header \in BOOLEAN
  /\ running \in BOOLEAN
  /\ \A i \in DOMAIN pushed : pushed[i].text \in Seq(Byte)
  /\ in_escape => in_frame
  /\ frame # <<>> => in_frame /\ ~next_byte_is_header

\* Nothing on the wire is passed over: when all has been read and no call
\* timed out, all data frames have been returned.
AllRead == running /\ wire = <<>> /\ timeouts = 0
NoFrameSkipped == AllRead => Len(heard) = Len(put)

\* Send takes eight digipeaters, Receive takes seven: it refuses a frame whose
\* eighth is the last address.
Passable(call) == call.destination = Broadcast /\ Len(call.digipeaters) <= 7

\* What PushPacketChunk should get of a broadcast frame: its source, and its
\* text without the first byte.
HasText(call) == Passable(call) /\ call.payload # <<>>
CallText(call) == [source |-> call.source, text |-> Tail(call.payload)]

TextsOf(calls) ==
  LET first[n \in 0..Len(calls)] ==
        IF n = 0 THEN <<>>
        ELSE IF HasText(calls[n]) THEN Append(first[n - 1], CallText(calls[n]))
        ELSE first[n - 1]
  IN  first[Len(calls)]

\* Those that came on the wire.
Broadcasts == TextsOf(put)

Interface == INSTANCE FrameLink WITH
  MayDrop <- MaxTimeouts > 0,
  sent <- Broadcasts,
  passed <- pushed

\* "Decodes a KISS TNC frame" (tnc_aprs_interface.h:68): what is returned are
\* whole frames that came on the wire, each once and in their order, whatever
\* else the TNC gave and wherever a call timed out.
FramesInOrder == Interface!InOrder(heard, [i \in DOMAIN put |-> EncodeAX25Frame(put[i])])

\* With Receive and the loop around it, a TNC is what FrameLink says: only
\* frames to the broadcast callsign, whole, each once and in order; of those,
\* all that Receive takes, which are the ones without an eighth digipeater.
ImplementsFrameLink == Interface!Spec

\* "Return true if two callsign configs are equal" (callsign.h:42): what goes
\* on was sent to the broadcast callsign with its SSID.
OnlyBroadcast == pushed # <<>> => \E k \in DOMAIN put : put[k].destination = Broadcast

\* Of the frames to the broadcast callsign Receive refuses those with an eighth
\* digipeater, which Send takes (tnc_aprs_interface.cc:63 and :122), and no
\* other: seven digipeaters go on.
OnlyEighthRefused ==
  AllRead => Len(pushed) = Cardinality({k \in DOMAIN put : Passable(put[k])})

\* A payload that is not of this program is skipped and the loop goes on
\* ("invalid payload", aprs_interface.cc:100) for as long as the socket is open.
LoopGoesOn == connected => running

\* The encoder's comparisons never match on a build with signed chars, which
\* is sound as long as no frame of this program holds a byte to escape.
NothingToEscape ==
  \A k \in DOMAIN put : put[k].payload # <<>> /\ put[k].payload[1] = Marker =>
    Range(EncodeAX25Frame(put[k])) \cap {FEND, FESC} = {}
=============================================================================
