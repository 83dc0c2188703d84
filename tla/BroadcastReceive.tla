-------------------------- MODULE BroadcastReceive --------------------------
(***************************************************************************)
(* One turn of the loop of ReceiveBroadcastPacket: what becomes of a frame *)
(* that Receive has taken apart, whichever interface it came from.         *)
(*                                                                         *)
(* A frame is [source, destination, payload]; a payload is a sequence of   *)
(* bytes whose first one marks the packets of this program ("{").          *)
(***************************************************************************)
EXTENDS Integers, Sequences

CONSTANTS
  Broadcast,          \* kBroadcastDestination
  Marker              \* the byte that SendPacketChunk puts first

VARIABLES
  pushed,             \* the texts decoded for PushPacketChunk, oldest first
  running             \* FALSE once an exception has ended the process

dispatchVars == <<pushed, running>>

\* The payload in which SendPacketChunk sends the text of a fragment.
PayloadOf(text) == <<Marker>> \o text

DispatchInit == pushed = <<>> /\ running = TRUE

\* Mutant: the SSID of the destination is not compared.
IsBroadcastCallsign(f) == f.destination.callsign = Broadcast.callsign
IsBroadcast(f) == f.destination = Broadcast

\* The payload goes on without its first byte.  A first byte other than the
\* marker is logged and goes the same way.
PushText(f) ==
  /\ IsBroadcast(f)
  /\ f.payload # <<>>
  /\ pushed' = Append(pushed, [source |-> f.source, text |-> Tail(f.payload)])
  /\ UNCHANGED running

\* substr(1) of an empty payload throws and nothing catches it.
ExitOnEmpty(f) ==
  /\ IsBroadcast(f)
  /\ f.payload = <<>>
  /\ running' = FALSE
  /\ UNCHANGED pushed

SkipFrame(f) == ~IsBroadcast(f) /\ UNCHANGED dispatchVars

Dispatch(f) == PushText(f) \/ ExitOnEmpty(f) \/ SkipFrame(f)
=============================================================================
