----------------------------- MODULE PacketLink -----------------------------
(***************************************************************************)
(* What APRSInterface promises a caller of SendBroadcastPacket and         *)
(* ReceiveBroadcastPacket, whatever the radio does underneath: a packet is *)
(* delivered only after somebody broadcast it, whole, and at most once in  *)
(* the life of the receiving process.  It promises neither delivery nor    *)
(* order.                                                                  *)
(***************************************************************************)
EXTENDS Naturals

CONSTANT Packet      \* the packets the stations may broadcast

VARIABLES
  sent,               \* the packets whose broadcast has begun
  delivered           \* how often each packet was delivered since the
                      \* receiving process started

vars == <<sent, delivered>>

Init ==
  /\ sent = {}
  /\ delivered = [p \in Packet |-> 0]

Broadcast(p) ==
  /\ p \notin sent
  /\ sent' = sent \cup {p}
  /\ UNCHANGED delivered

Deliver(p) ==
  /\ p \in sent
  /\ delivered[p] = 0
  /\ delivered' = [delivered EXCEPT ![p] = 1]
  /\ UNCHANGED sent

\* The receiving process is started again and remembers nothing.
Restart ==
  /\ delivered' = [p \in Packet |-> 0]
  /\ UNCHANGED sent

Next ==
  \/ \E p \in Packet : Broadcast(p) \/ Deliver(p)
  \/ Restart

Spec == Init /\ [][Next]_vars
=============================================================================
