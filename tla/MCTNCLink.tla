----------------------------- MODULE MCTNCLink -----------------------------
(***************************************************************************)
(* Small instances of TNCLink.  The broadcast callsign is cut to one       *)
(* letter, the others to two, and payloads to one or two bytes.            *)
(***************************************************************************)
EXTENDS TNCLink

MCBroadcast == [callsign |-> <<65>>, ssid |-> 0]
Station == [callsign |-> <<78, 48>>, ssid |-> 0]
Relay(n) == [callsign |-> <<87>>, ssid |-> n]

CallTo(destination, digipeaters, payload) ==
  [source |-> Station, destination |-> destination, digipeaters |-> digipeaters,
   payload |-> payload]

\* Packets to the broadcast callsign, through no, seven and eight
\* digipeaters; frames of others: one whose payload needs both escapes to a
\* callsign that differs in its SSID, and one without a payload.
Traffic ==
  {CallTo(MCBroadcast, <<>>, PayloadOf(<<70>>)),
   CallTo(MCBroadcast, [i \in 1..7 |-> Relay(i)], PayloadOf(<<71>>)),
   CallTo([callsign |-> <<65>>, ssid |-> 8], <<>>, <<192, 219>>),
   CallTo(MCBroadcast, [i \in 1..8 |-> Relay(i)], PayloadOf(<<72>>)),
   CallTo(MCBroadcast, <<>>, <<>>)}

\* A destination that differs from the broadcast callsign in its SSID only.
WrongSSID == {CallTo([callsign |-> <<65>>, ssid |-> 4], <<>>, PayloadOf(<<n>>)) : n \in 70..72}

EmptyPayload == {CallTo(MCBroadcast, <<>>, <<>>)}

\* The rest of a frame, when the socket was opened in the middle of one.
MCPreludes == {<<>>, <<9, 219, 220, 192>>}

\* An idle delimiter, another command, a frame with a bad escape and bytes
\* between frames.
MCOther == {<<192>>, <<192, 6, 1, 192>>, <<192, 0, 5, 219, 7, 9, 192>>, <<7, 7>>}
=============================================================================
