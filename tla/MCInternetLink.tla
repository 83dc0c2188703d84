--------------------------- MODULE MCInternetLink ---------------------------
(***************************************************************************)
(* Small instances of InternetLink: the callsign A for the broadcast one,  *)
(* lines of 11 characters with their end.                                  *)
(***************************************************************************)
EXTENDS InternetLink

MCChars ==
  {">", ",", ":", "\r", "\n", "#", " ", "-", "{",
   "A", "B", "M", "N", "Q", "5", "b", "h", "l", "t", "v", "w", "y", "z"}

MCBroadcast == [callsign |-> <<"A">>, ssid |-> 0]

P(source, destination, payload) ==
  [kind |-> "packet", source |-> source, destination |-> destination, path |-> <<"Q">>, payload |-> payload]

Other(text) == [P(<<>>, <<>>, text) EXCEPT !.kind = "other"]

\* A packet as long as a line may be, one from a callsign with an SSID, one
\* to another callsign.
MCPackets ==
  {P(<<"N">>, <<"A">>, <<"{", "y">>),
   P(<<"M", "-", "5">>, <<"A">>, <<"{">>),
   P(<<"N">>, <<"B">>, <<"{", "w">>)}

\* The greeting of an APRS-IS server, and that of some other server.
MCGreetings == {Other(<<"#", " ", "v">>), Other(<<"h">>)}
MCAnswer == Other(<<"#", "l">>)

\* A message, an empty line, no packet, a line that is too long, and one that
\* the limit cuts between "\r" and "\n": the packet behind it gets the "\n",
\* and the longest one is lost.
MCOthers ==
  {Other(<<"#", " ", "t">>), Other(<<>>), Other(<<"N", ">", "A">>),
   Other([i \in 1..13 |-> "b"]), Other([i \in 1..11 |-> "b"])}

MCLines == MCPackets \cup MCOthers

\* The theorems apply to this server.
ASSUME MCServerIsSound == ServerIsSound
=============================================================================
