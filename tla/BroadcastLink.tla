--------------------------- MODULE BroadcastLink ---------------------------
(***************************************************************************)
(* SendBroadcastPacket on every station, the radio channel, and the        *)
(* PacketChunkReceiver of one receiving process.                           *)
(*                                                                         *)
(* A station sends the packets of its outbox one after the other.  Each is *)
(* cut into fragments and the whole series is sent retransmit_count times; *)
(* nothing is acknowledged.  SleepUntil separates two transmissions, so    *)
(* one transmission and the loop control after it are one step.            *)
(*                                                                         *)
(* The channel loses, delays, reorders and repeats frames.                 *)
(***************************************************************************)
EXTENDS PacketChunkReceiver

CONSTANTS
  Stations,           \* sending processes
  Outbox,             \* the packets each station broadcasts, in order
  FirstId,            \* next_payload_id_ of each station at its start
  IdSpace,            \* the number of values of a payload id (2^32)
  RetransmitCount,    \* config_.retransmit_count of each station
  MaxPacketSize,      \* config_.max_packet_size
  Noise,              \* malformed fragments some other program transmitted
  MaxLosses,          \* bound: copies of one fragment the channel loses
  MaxRestarts         \* bound: restarts of the receiving process

ASSUME LinkAssumption ==
  /\ IdSpace \in Nat \ {0, 1}
  /\ PayloadIds = 0..(IdSpace - 1)
  /\ Outbox \in [Stations -> Seq(Packet)]
  /\ FirstId \in [Stations -> PayloadIds]
  /\ RetransmitCount \in [Stations -> Nat]
  /\ MaxPacketSize \in Nat \ {0}
  /\ Noise \subseteq Chunk
  /\ \A c \in Noise : Malformed(c)
  /\ MaxLosses \in Nat
  /\ MaxRestarts \in Nat

\* Every entry of every outbox is a packet of its own.
ASSUME OutboxAssumption ==
  \A s, t \in Stations : \A j \in DOMAIN Outbox[s], k \in DOMAIN Outbox[t] :
    Outbox[s][j] = Outbox[t][k] => s = t /\ j = k

VARIABLES
  phase,              \* "idle", inside SendBroadcastPacket, or ended
  position,           \* the entry of the outbox that is next or being sent
  next_payload_id,    \* next_payload_id_
  loop,               \* the locals of the loops of SendBroadcastPacket
  air,                \* the frames a receiver may still hear
  lost,               \* the frames that were lost
  assigned,           \* history: the packets broadcast under each payload id
  restarts            \* restarts of the receiving process so far

senderVars == <<phase, position, next_payload_id, loop, assigned>>
channelVars == <<air, lost>>
vars == <<receiverVars, senderVars, channelVars, restarts>>

\* A frame on the air: a fragment and the retransmit_id of this copy of it.
Frame == [chunk : Chunk, copy : Nat]

\* The locals at the top of SendBroadcastPacket's loops.
LoopStart(id) == [payload_id |-> id, retransmit |-> 1, chunk_id |-> 1, offset |-> 0]

Init ==
  /\ ReceiverInit
  /\ phase = [s \in Stations |-> "idle"]
  /\ position = [s \in Stations |-> 1]
  /\ next_payload_id = FirstId
  /\ loop = [s \in Stations |-> LoopStart(0)]
  /\ air = {[chunk |-> c, copy |-> 0] : c \in Noise}
  /\ lost = {}
  /\ assigned = [id \in PayloadIds |-> {}]
  /\ restarts = 0

-----------------------------------------------------------------------------
(* The stations.                                                           *)

Current(s) == Outbox[s][position[s]]

\* The first lines of SendBroadcastPacket: serialize, take an id.  With a
\* retransmit_count of 0 the loop has no iteration and the call returns.
StartBroadcast(s) ==
  LET id == NextId(next_payload_id[s], IdSpace)
  IN  /\ phase[s] = "idle"
      /\ position[s] \in DOMAIN Outbox[s]
      /\ next_payload_id' =
           [next_payload_id EXCEPT ![s] = CounterAfter(@, IdSpace)]
      /\ assigned' = [assigned EXCEPT ![id] = @ \cup {Current(s)}]
      /\ \/ /\ RetransmitCount[s] > 0
            /\ phase' = [phase EXCEPT ![s] = "sending"]
            /\ loop' = [loop EXCEPT ![s] = LoopStart(id)]
            /\ UNCHANGED position
         \/ /\ RetransmitCount[s] = 0
            /\ position' = [position EXCEPT ![s] = @ + 1]
            /\ UNCHANGED <<phase, loop>>
      /\ UNCHANGED <<receiverVars, channelVars, restarts>>

\* The fragment at the loop's offset; only the first one tells the total.
NextChunk(s) ==
  LET l == loop[s]
      size == Size[Current(s)]
  IN  [has |-> IF l.offset = 0 THEN Fields ELSE Fields \ {"total_payload_size"},
       payload_id |-> l.payload_id,
       chunk_id |-> l.chunk_id,
       total_payload_size |-> IF l.offset = 0 THEN size ELSE 0,
       payload |-> Piece(Current(s), size, l.offset, MaxPacketSize)]

\* The loop's offset after the transmission.
NextOffset(s) ==
  loop[s].offset + PieceLength(Size[Current(s)], loop[s].offset, MaxPacketSize)

Transmit(s) ==
  /\ phase[s] = "sending"
  /\ air' = air \cup {[chunk |-> NextChunk(s), copy |-> loop[s].retransmit]}
  /\ UNCHANGED <<receiverVars, next_payload_id, lost, assigned, restarts>>

\* The inner loop goes on with the next fragment.
TransmitPiece(s) ==
  /\ Transmit(s)
  /\ NextOffset(s) < Size[Current(s)]
  /\ loop' = [loop EXCEPT ![s].chunk_id = @ + 1, ![s].offset = NextOffset(s)]
  /\ UNCHANGED <<phase, position>>

\* The inner loop ends and the outer one starts another retransmission.
TransmitLastPiece(s) ==
  /\ Transmit(s)
  /\ NextOffset(s) = Size[Current(s)]
  /\ loop[s].retransmit < RetransmitCount[s]
  /\ loop' = [loop EXCEPT ![s].retransmit = @ + 1, ![s].chunk_id = 1, ![s].offset = 0]
  /\ UNCHANGED <<phase, position>>

\* Mutant: the outer loop runs while i < retransmit_count.
FinishBroadcastEarly(s) ==
  /\ Transmit(s)
  /\ NextOffset(s) = Size[Current(s)]
  /\ loop[s].retransmit + 1 >= RetransmitCount[s]
  /\ phase' = [phase EXCEPT ![s] = "idle"]
  /\ position' = [position EXCEPT ![s] = @ + 1]
  /\ UNCHANGED loop

\* Both loops end: SendBroadcastPacket returns true.
FinishBroadcast(s) ==
  /\ Transmit(s)
  /\ NextOffset(s) = Size[Current(s)]
  /\ loop[s].retransmit = RetransmitCount[s]
  /\ phase' = [phase EXCEPT ![s] = "idle"]
  /\ position' = [position EXCEPT ![s] = @ + 1]
  /\ UNCHANGED loop

\* Send returns false, so does SendBroadcastPacket, and the caller gives up.
TransmitFails(s) ==
  /\ phase[s] = "sending"
  /\ phase' = [phase EXCEPT ![s] = "failed"]
  /\ UNCHANGED <<receiverVars, position, next_payload_id, loop, assigned,
                 channelVars, restarts>>

StationStep(s) ==
  \/ StartBroadcast(s)
  \/ TransmitPiece(s)
  \/ TransmitLastPiece(s)
  \/ FinishBroadcast(s)
  \/ TransmitFails(s)

-----------------------------------------------------------------------------
(* The channel and the receiving process.                                  *)

\* A frame reaches the receiver; a digipeater may repeat it later.
Hear(f) ==
  /\ PushPacketChunk(f.chunk)
  /\ air' \in {air, air \ {f}}
  /\ UNCHANGED <<senderVars, lost, restarts>>

Lose(f) ==
  /\ Cardinality({g \in lost : g.chunk = f.chunk}) < MaxLosses
  /\ air' = air \ {f}
  /\ lost' = lost \cup {f}
  /\ UNCHANGED <<receiverVars, senderVars, restarts>>

\* The receiving process ends, or was killed, and is started again.
RestartReceiver ==
  /\ restarts < MaxRestarts
  /\ restarts' = restarts + 1
  /\ packets' = [id \in PayloadIds |-> <<>>]
  /\ completed_packets' = {}
  /\ returned' = [p \in Packet \cup {Garbled} |-> 0]
  /\ running' = TRUE
  /\ UNCHANGED <<senderVars, channelVars>>

Listen == \E f \in air : Hear(f)

Next ==
  \/ \E s \in Stations : StationStep(s)
  \/ Listen
  \/ \E f \in air : Lose(f)
  \/ RestartReceiver

Spec == Init /\ [][Next]_vars

-----------------------------------------------------------------------------
TypeOK ==
  /\ ReceiverTypeOK
  /\ phase \in [Stations -> {"idle", "sending", "failed"}]
  /\ position \in [Stations -> Nat \ {0}]
  /\ next_payload_id \in [Stations -> PayloadIds]
  /\ loop \in [Stations -> [payload_id : PayloadIds, retransmit : Nat \ {0},
                            chunk_id : Nat \ {0}, offset : Nat]]
  /\ air \subseteq Frame
  /\ lost \subseteq Frame
  /\ assigned \in [PayloadIds -> SUBSET Packet]
  /\ restarts \in 0..MaxRestarts

\* No two packets were broadcast under one payload id.  The ids come from
\* clocks, so nothing in the code makes this true between stations.
NoCollision ==
  \A id \in PayloadIds : \A p, q \in assigned[id] : p = q

\* completed_packets_ (packet_chunk_receiver.h:51) keeps retransmissions and
\* repeated frames from delivering a packet a second time.
AtMostOnce == \A p \in Packet : returned[p] <= 1

\* What IsComplete reassembles is exactly what a station serialized: no mix
\* of two packets, no missing or repeated piece, no parse that ends the
\* process, however the channel orders and repeats the fragments.
DeliveredAsSent ==
  /\ running
  /\ returned[Garbled] = 0
  /\ \A p \in Packet : returned[p] > 0 => \E id \in PayloadIds : p \in assigned[id]

\* A payload is either being collected or completed, and no tracker waits
\* with all of a packet in hand: the check runs after every fragment.
NoStrandedTracker ==
  \A id \in PayloadIds :
    /\ id \in completed_packets => packets[id] = <<>>
    /\ packets[id] # <<>> => ~IsComplete(packets[id])

\* The trackers' vectors are sorted and hold each chunk_id once, which the
\* concatenation in IsComplete relies on.
TrackersSorted ==
  \A id \in PayloadIds : \A i, j \in DOMAIN packets[id] :
    i < j => Before(packets[id][i], packets[id][j])

\* Across the wrap of the 32-bit counter a station neither uses the id 0 nor
\* repeats one (GetNextPayloadId).
StationIdsDistinct ==
  /\ assigned[0] = {}
  /\ \A id \in PayloadIds : \A s \in Stations : \A j, k \in DOMAIN Outbox[s] :
       {Outbox[s][j], Outbox[s][k]} \subseteq assigned[id] => j = k

\* Retransmission hides losses: once SendBroadcastPacket has returned true,
\* none of the packet is on the air any more and the channel has lost fewer
\* copies of each fragment than were sent, the packet was delivered.
ReliableBroadcastArrives ==
  \A s \in Stations : \A k \in DOMAIN Outbox[s] :
    LET p == Outbox[s][k]
    IN  /\ RetransmitCount[s] > MaxLosses
        /\ position[s] > k
        /\ \A f \in air : f.chunk.payload \cap BytesOf(p, Size[p]) = {}
        /\ restarts = 0
        => returned[p] > 0

\* Nothing empties packets_ and completed_packets_ (the TODO at
\* packet_chunk_receiver.cc:82), so what enters them matters: only payload
\* ids under which a station broadcast a packet, no malformed fragment's.
OccupiedByBroadcasts ==
  \A id \in PayloadIds :
    packets[id] # <<>> \/ id \in completed_packets => assigned[id] # {}

\* The link implements what APRSInterface promises, and since nobody
\* broadcasts Garbled it never delivers it.
Link == INSTANCE PacketLink WITH
  Packet <- Packet \cup {Garbled},
  sent <- UNION {assigned[id] : id \in PayloadIds},
  delivered <- returned

ImplementsPacketLink == Link!Spec
=============================================================================
