-------------------------- MODULE MCBroadcastLink --------------------------
(***************************************************************************)
(* Small instances of BroadcastLink.  With MaxPacketSize 2 a packet of     *)
(* five bytes is three fragments, the last one short, one of three bytes   *)
(* is two and one of two bytes is one.                                     *)
(***************************************************************************)
EXTENDS BroadcastLink

CONSTANTS p1, p2, p3, p4, s1, s2, s3

ThreePieces == [p \in Packet |-> IF p = p1 THEN 5 ELSE 2]
TwoPieces == [p \in Packet |-> 3]

\* One packet for each of two stations; two for the first of three.
OneEach == [s \in Stations |-> IF s = s1 THEN <<p1>> ELSE <<p2>>]
TwoForFirst ==
  [s \in Stations |-> CASE s = s1 -> <<p1, p2>> [] s = s2 -> <<p3>> [] s = s3 -> <<p4>>]

\* Counters that stay apart; and one that wraps to the value of another, so
\* that p2 and p3 have one id.
Apart == [s \in Stations |-> IF s = s1 THEN 3 ELSE 1]
WrapInto == [s \in Stations |-> CASE s = s1 -> 3 [] s = s2 -> 1 [] s = s3 -> 2]

Twice == [s \in Stations |-> 2]
FirstTwice == [s \in Stations |-> IF s = s1 THEN 2 ELSE 1]
LastNever == [s \in Stations |-> IF s = s3 THEN 0 ELSE 1]

\* The fragments other programs put on the frequency: the first lacks its
\* total size, the second its payload id.
MCNoise ==
  {[has |-> {"payload_id", "chunk_id", "payload"}, payload_id |-> 1,
    chunk_id |-> 1, total_payload_size |-> 0, payload |-> {}],
   [has |-> {"chunk_id", "payload"}, payload_id |-> 0,
    chunk_id |-> 2, total_payload_size |-> 0, payload |-> {}]}
OneNoise == {c \in MCNoise : c.payload_id = 1}
NoNoise == {}
=============================================================================
