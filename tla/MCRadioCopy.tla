---------------------------- MODULE MCRadioCopy ----------------------------
(***************************************************************************)
(* Small instances of RadioCopy.  A file of seven bytes in chunks of two   *)
(* is four chunks; a header is two fragments, a chunk one.                 *)
(***************************************************************************)
EXTENDS RadioCopy

CONSTANTS r1, f1, n1

RunPackets == Sender!PacketIds
PacketsInOrder == [r \in Stations |-> PacketsOf(r)]

OneFile == [r \in Stations |-> f1]
OneName == [f \in File |-> n1]
SevenBytes == [f \in File |-> 7]
AtOnce == [r \in Stations |-> {}]

HeaderInTwo == [p \in Packet |-> IF p[2] = 0 THEN 3 ELSE 2]

\* The payload ids of the run are 6, 7, 1, 2 and 3.
WrapAround == [r \in Stations |-> 6]

Twice == [r \in Stations |-> 2]
Once == [r \in Stations |-> 1]
=============================================================================
