------------------------ MODULE BroadcastLink_proofs ------------------------
(***************************************************************************)
(* Proofs about BroadcastLink for every number of stations, packets,       *)
(* fragments, retransmissions, losses and restarts: that a packet is       *)
(* delivered whole and once while ids do not collide, what enters the      *)
(* receiver's tables, that a station's ids are distinct, and that enough   *)
(* retransmissions make up for the losses.                                 *)
(***************************************************************************)
EXTENDS BroadcastLink, Chunking_proofs

-----------------------------------------------------------------------------
(* The inductive invariant.  TypeOK alone is not inductive: that a fragment *)
(* is well formed rests on the station being inside its outbox, and that a  *)
(* packet is delivered once rests on where each byte in the receiver came   *)
(* from.                                                                    *)

\* The k-th fragment of the packet p broadcast under the payload id id.
FragmentOf(p, id, k) ==
  [has |-> IF k = 1 THEN Fields ELSE Fields \ {"total_payload_size"},
   payload_id |-> id,
   chunk_id |-> k,
   total_payload_size |-> IF k = 1 THEN Size[p] ELSE 0,
   payload |-> Piece(p, Size[p], (k - 1) * MaxPacketSize, MaxPacketSize)]

\* A fragment some station cut from a packet it broadcast.
Genuine(c) ==
  /\ c.payload_id \in PayloadIds
  /\ \E p \in assigned[c.payload_id], k \in Nat \ {0} :
       /\ (k - 1) * MaxPacketSize < Size[p]
       /\ c = FragmentOf(p, c.payload_id, k)

\* A station inside SendBroadcastPacket is at a fragment boundary of the
\* packet it took the payload id for.
StationsInsidePacket ==
  \A s \in Stations : phase[s] # "idle" =>
    /\ position[s] \in DOMAIN Outbox[s]
    /\ Current(s) \in assigned[loop[s].payload_id]
    /\ loop[s].offset = (loop[s].chunk_id - 1) * MaxPacketSize
    /\ loop[s].offset < Size[Current(s)]

\* Only packets the stations have come to have payload ids.
AssignedWereReached ==
  \A id \in PayloadIds : \A p \in assigned[id] :
    \E s \in Stations : \E k \in DOMAIN Outbox[s] :
      /\ Outbox[s][k] = p
      /\ k < position[s] \/ (k = position[s] /\ phase[s] # "idle")

\* A packet is broadcast under one payload id.
AssignedOnce ==
  \A i, j \in PayloadIds : \A p \in assigned[i] : p \in assigned[j] => i = j

AirIsGenuine == \A f \in air : f.chunk \in Noise \/ Genuine(f.chunk)

TrackersAreGenuine ==
  \A id \in PayloadIds : \A i \in 1..Len(packets[id]) :
    Genuine(packets[id][i]) /\ packets[id][i].payload_id = id

\* A packet was returned at most once, and then its payload id is completed.
ReturnedOnce ==
  \A p \in Packet :
    /\ returned[p] <= 1
    /\ returned[p] > 0 => \E id \in completed_packets : p \in assigned[id]

IInv ==
  /\ TypeOK
  /\ StationsInsidePacket
  /\ AssignedWereReached
  /\ AssignedOnce
  /\ AirIsGenuine
  /\ TrackersAreGenuine
  /\ TrackersSorted
  /\ NoStrandedTracker
  /\ ReturnedOnce

-----------------------------------------------------------------------------
(* Lemmas about the operators.                                             *)

LEMMA ChunkFields ==
  ASSUME NEW c \in Chunk
  PROVE  /\ c.has \in SUBSET Fields
         /\ c.payload_id \in PayloadIds
         /\ c.chunk_id \in Nat
         /\ c.total_payload_size \in Nat
         /\ c.payload \in SUBSET (Packet \X Nat)
BY DEF Chunk

\* What a station cuts at its loop's offset is a fragment of its packet.
LEMMA NextChunkIsFragment ==
  ASSUME TypeOK, StationsInsidePacket, NEW s \in Stations, phase[s] # "idle"
  PROVE  /\ Current(s) \in Packet
         /\ Size[Current(s)] \in Nat \ {0}
         /\ NextChunk(s) \in Chunk
         /\ NextChunk(s) = FragmentOf(Current(s), loop[s].payload_id, loop[s].chunk_id)
         /\ Genuine(NextChunk(s))
<1>1. Current(s) \in Packet /\ Size[Current(s)] \in Nat \ {0}
  BY PacketAssumption, LinkAssumption, ElementOfSeq, LenProperties
  DEF StationsInsidePacket, Current
<1> DEFINE k == loop[s].chunk_id
<1>2. /\ loop[s].payload_id \in PayloadIds
      /\ k \in Nat \ {0}
      /\ loop[s].offset \in Nat
      /\ loop[s].offset = (k - 1) * MaxPacketSize
      /\ (k - 1) * MaxPacketSize < Size[Current(s)]
      /\ Current(s) \in assigned[loop[s].payload_id]
  BY DEF TypeOK, StationsInsidePacket
<1>3. loop[s].offset = 0 <=> k = 1
  BY <1>2, LinkAssumption
<1>4. Piece(Current(s), Size[Current(s)], loop[s].offset, MaxPacketSize)
        \in SUBSET (Packet \X Nat)
  BY <1>1, <1>2 DEF Piece
<1>5. NextChunk(s) \in Chunk
  BY <1>1, <1>2, <1>4 DEF NextChunk, Chunk, Fields
<1>6. NextChunk(s) = FragmentOf(Current(s), loop[s].payload_id, k)
  BY <1>2, <1>3 DEF NextChunk, FragmentOf
<1>7. NextChunk(s).payload_id = loop[s].payload_id
  BY DEF NextChunk
<1> HIDE DEF k
<1>8. Genuine(NextChunk(s))
  BY <1>2, <1>6, <1>7 DEF Genuine
<1> QED
  BY <1>1, <1>5, <1>6, <1>8 DEF k

\* A fragment stays genuine while packets are given payload ids.
LEMMA GenuineStays ==
  ASSUME NEW c, Genuine(c),
         \A id \in PayloadIds : assigned[id] \subseteq assigned'[id]
  PROVE  Genuine(c)'
BY DEF Genuine, FragmentOf

\* Every byte a genuine fragment carries belongs to a packet broadcast under
\* its payload id, and it carries at least one.
LEMMA GenuineBytes ==
  ASSUME NEW c \in Chunk, Genuine(c),
         assigned \in [PayloadIds -> SUBSET Packet]
  PROVE  /\ c.payload # {}
         /\ \A b \in c.payload : b[1] \in assigned[c.payload_id]
<1>1. PICK p \in assigned[c.payload_id], k \in Nat \ {0} :
        /\ (k - 1) * MaxPacketSize < Size[p]
        /\ c = FragmentOf(p, c.payload_id, k)
  BY DEF Genuine
<1> DEFINE o == (k - 1) * MaxPacketSize
<1>2. p \in Packet /\ Size[p] \in Nat /\ o \in Nat /\ o < Size[p]
  BY <1>1, PacketAssumption, LinkAssumption DEF Genuine
<1>3. c.payload = Piece(p, Size[p], o, MaxPacketSize)
  BY <1>1 DEF FragmentOf
<1> HIDE DEF o
<1>4. c.payload = {p} \X ((o + 1)..(o + PieceLength(Size[p], o, MaxPacketSize)))
  BY <1>3 DEF Piece
<1>5. PieceLength(Size[p], o, MaxPacketSize) \in Nat \ {0}
  BY <1>2, LinkAssumption DEF PieceLength
<1>6. <<p, o + 1>> \in c.payload
  BY <1>2, <1>4, <1>5
<1> QED
  BY <1>4, <1>6

-----------------------------------------------------------------------------
(* Steps of a station.  None touches the receiver, and none takes a payload *)
(* id away from a packet.                                                  *)

\* The conjuncts that speak of the receiver, and of what is on the air, stand
\* as long as no packet loses its payload id.
LEMMA ReceiverStands ==
  ASSUME IInv, UNCHANGED receiverVars, assigned' \in [PayloadIds -> SUBSET Packet],
         \A id \in PayloadIds : assigned[id] \subseteq assigned'[id]
  PROVE  /\ ReceiverTypeOK'
         /\ TrackersAreGenuine'
         /\ TrackersSorted'
         /\ NoStrandedTracker'
         /\ ReturnedOnce'
<1> USE DEF IInv, receiverVars
<1>1. ReceiverTypeOK'
  BY DEF TypeOK, ReceiverTypeOK
<1>2. TrackersAreGenuine'
  BY GenuineStays DEF TrackersAreGenuine
<1>3. TrackersSorted'
  BY DEF TrackersSorted
<1>4. NoStrandedTracker'
  BY DEF NoStrandedTracker
<1>5. ReturnedOnce'
  <2>1. completed_packets \subseteq PayloadIds
    BY DEF TypeOK, ReceiverTypeOK
  <2> QED
    BY <2>1 DEF ReturnedOnce
<1> QED
  BY <1>1, <1>2, <1>3, <1>4, <1>5

LEMMA StartBroadcastStep ==
  ASSUME IInv, NEW s \in Stations, StartBroadcast(s)
  PROVE  IInv'
<1> DEFINE id == NextId(next_payload_id[s], IdSpace)
<1> USE DEF IInv
<1>1. /\ id \in PayloadIds
      /\ CounterAfter(next_payload_id[s], IdSpace) \in PayloadIds
  <2>1. next_payload_id[s] \in 0..(IdSpace - 1)
    BY LinkAssumption DEF TypeOK
  <2> QED
    BY <2>1, LinkAssumption, NextIdIsAnId, SMTT(30)
<1> HIDE DEF id
<1>2. /\ phase[s] = "idle"
      /\ position[s] \in DOMAIN Outbox[s]
      /\ next_payload_id' =
           [next_payload_id EXCEPT ![s] = CounterAfter(@, IdSpace)]
      /\ assigned' = [assigned EXCEPT ![id] = @ \cup {Current(s)}]
      /\ UNCHANGED <<receiverVars, channelVars, restarts>>
      /\ \/ /\ phase' = [phase EXCEPT ![s] = "sending"]
            /\ loop' = [loop EXCEPT ![s] = LoopStart(id)]
            /\ UNCHANGED position
         \/ /\ position' = [position EXCEPT ![s] = @ + 1]
            /\ UNCHANGED <<phase, loop>>
  BY DEF StartBroadcast, id
<1>3. Current(s) \in Packet /\ Size[Current(s)] \in Nat \ {0}
  BY <1>2, PacketAssumption, LinkAssumption, ElementOfSeq, LenProperties DEF Current
<1>4. /\ assigned \in [PayloadIds -> SUBSET Packet]
      /\ assigned' \in [PayloadIds -> SUBSET Packet]
      /\ \A i \in PayloadIds : assigned[i] \subseteq assigned'[i]
      /\ \A i \in PayloadIds :
           assigned'[i] = IF i = id THEN assigned[i] \cup {Current(s)} ELSE assigned[i]
  BY <1>1, <1>2, <1>3 DEF TypeOK
<1>5. TypeOK'
  <2>1. LoopStart(id) \in [payload_id : PayloadIds, retransmit : Nat \ {0},
                           chunk_id : Nat \ {0}, offset : Nat]
    BY <1>1 DEF LoopStart
  <2>2. ReceiverTypeOK' /\ air' \subseteq Frame /\ lost' \subseteq Frame /\ restarts' \in 0..MaxRestarts
    BY <1>2 DEF TypeOK, ReceiverTypeOK, receiverVars, channelVars
  <2>3. next_payload_id' \in [Stations -> PayloadIds]
    BY <1>1, <1>2 DEF TypeOK
  <2>4. phase' \in [Stations -> {"idle", "sending", "failed"}]
    BY <1>2 DEF TypeOK
  <2>5. position' \in [Stations -> Nat \ {0}]
    BY <1>2 DEF TypeOK
  <2>6. loop' \in [Stations -> [payload_id : PayloadIds, retransmit : Nat \ {0},
                               chunk_id : Nat \ {0}, offset : Nat]]
    BY <1>2, <2>1 DEF TypeOK
  <2> QED
    BY <1>4, <2>2, <2>3, <2>4, <2>5, <2>6 DEF TypeOK
<1>6. StationsInsidePacket'
  <2> SUFFICES ASSUME NEW t \in Stations, phase'[t] # "idle"
               PROVE  /\ position'[t] \in DOMAIN Outbox[t]
                      /\ Current(t)' \in assigned'[loop'[t].payload_id]
                      /\ loop'[t].offset = (loop'[t].chunk_id - 1) * MaxPacketSize
                      /\ loop'[t].offset < Size[Current(t)']
    BY DEF StationsInsidePacket
  <2>1. CASE t = s
    <3>1. loop'[s] = LoopStart(id) /\ position' = position
      BY <1>2, <2>1 DEF TypeOK
    <3> QED
      BY <1>1, <1>2, <1>3, <1>4, <2>1, <3>1, LinkAssumption DEF LoopStart, Current
  <2>2. CASE t # s
    <3>1. phase'[t] = phase[t] /\ position'[t] = position[t] /\ loop'[t] = loop[t]
      BY <1>2, <2>2 DEF TypeOK
    <3>2. loop[t].payload_id \in PayloadIds
      BY DEF TypeOK
    <3> QED
      BY <1>4, <3>1, <3>2 DEF StationsInsidePacket, Current
  <2> QED
    BY <2>1, <2>2
<1>7. AssignedWereReached'
  <2> SUFFICES ASSUME NEW i \in PayloadIds, NEW p \in assigned'[i]
               PROVE  \E t \in Stations : \E k \in DOMAIN Outbox[t] :
                        /\ Outbox[t][k] = p
                        /\ k < position'[t] \/ (k = position'[t] /\ phase'[t] # "idle")
    BY DEF AssignedWereReached
  <2>1. CASE p \in assigned[i]
    <3>1. PICK t \in Stations : \E k \in DOMAIN Outbox[t] :
            /\ Outbox[t][k] = p
            /\ k < position[t] \/ (k = position[t] /\ phase[t] # "idle")
      BY <2>1 DEF AssignedWereReached
    <3>2. PICK k \in DOMAIN Outbox[t] :
            /\ Outbox[t][k] = p
            /\ k < position[t] \/ (k = position[t] /\ phase[t] # "idle")
      BY <3>1
    <3>3. k \in Nat
      BY LinkAssumption, LenProperties
    <3>4. CASE t = s
      BY <1>2, <3>2, <3>3, <3>4 DEF TypeOK
    <3>5. CASE t # s
      BY <1>2, <3>2, <3>5 DEF TypeOK
    <3> QED
      BY <3>4, <3>5
  <2>2. CASE p = Current(s)
    <3>1. position[s] < position'[s] \/ (position[s] = position'[s] /\ phase'[s] # "idle")
      BY <1>2 DEF TypeOK
    <3> QED
      BY <1>2, <2>2, <3>1 DEF Current
  <2> QED
    BY <1>4, <2>1, <2>2
<1>8. AssignedOnce'
  <2>1. \A i \in PayloadIds : Current(s) \notin assigned[i]
    <3> SUFFICES ASSUME NEW i \in PayloadIds, Current(s) \in assigned[i] PROVE FALSE
      OBVIOUS
    <3>1. PICK t \in Stations : \E k \in DOMAIN Outbox[t] :
            /\ Outbox[t][k] = Current(s)
            /\ k < position[t] \/ (k = position[t] /\ phase[t] # "idle")
      BY DEF AssignedWereReached
    <3>2. PICK k \in DOMAIN Outbox[t] :
            /\ Outbox[t][k] = Current(s)
            /\ k < position[t] \/ (k = position[t] /\ phase[t] # "idle")
      BY <3>1
    <3>3. t = s /\ k = position[s]
      BY <1>2, <3>2, OutboxAssumption DEF Current
    <3> QED
      BY <1>2, <3>2, <3>3 DEF TypeOK
  <2> QED
    BY <1>4, <2>1 DEF AssignedOnce
<1>9. AirIsGenuine'
  BY <1>2, <1>4, GenuineStays DEF AirIsGenuine, channelVars
<1>10. TrackersAreGenuine' /\ TrackersSorted' /\ NoStrandedTracker' /\ ReturnedOnce'
  BY <1>2, <1>4, ReceiverStands
<1> QED
  BY <1>5, <1>6, <1>7, <1>8, <1>9, <1>10

\* A step of a station that hands out no payload id: it preserves the
\* invariant if the station stays inside its packet, or leaves it, and what
\* it transmits is a fragment of the packet.
LEMMA SendingStep ==
  ASSUME IInv, NEW s \in Stations, phase[s] # "idle",
         UNCHANGED <<receiverVars, next_payload_id, assigned, lost, restarts>>,
         air' = air \/ air' = air \cup {[chunk |-> NextChunk(s), copy |-> loop[s].retransmit]},
         NEW f \in {"idle", "sending", "failed"}, NEW n \in Nat \ {0},
         NEW l \in [payload_id : {loop[s].payload_id}, retransmit : Nat \ {0},
                    chunk_id : Nat \ {0}, offset : Nat],
         phase' = [phase EXCEPT ![s] = f],
         position' = [position EXCEPT ![s] = n],
         loop' = [loop EXCEPT ![s] = l],
         \/ f = "idle" /\ n = position[s] + 1
         \/ /\ f # "idle" /\ n = position[s]
            /\ l.offset = (l.chunk_id - 1) * MaxPacketSize
            /\ l.offset < Size[Current(s)]
  PROVE  IInv'
<1> USE DEF IInv
<1>1. /\ assigned \in [PayloadIds -> SUBSET Packet]
      /\ assigned' = assigned
      /\ loop[s] \in [payload_id : PayloadIds, retransmit : Nat \ {0},
                      chunk_id : Nat \ {0}, offset : Nat]
      /\ position[s] \in Nat \ {0}
  BY DEF TypeOK
<1>2. /\ NextChunk(s) \in Chunk
      /\ Genuine(NextChunk(s))
  BY NextChunkIsFragment
<1>3. air' \subseteq Frame
  BY <1>1, <1>2 DEF TypeOK, Frame
<1>4. TypeOK'
  <2>1. phase' \in [Stations -> {"idle", "sending", "failed"}]
    BY DEF TypeOK
  <2>2. position' \in [Stations -> Nat \ {0}]
    BY DEF TypeOK
  <2>3. l \in [payload_id : PayloadIds, retransmit : Nat \ {0},
               chunk_id : Nat \ {0}, offset : Nat]
    BY <1>1
  <2>4. loop' \in [Stations -> [payload_id : PayloadIds, retransmit : Nat \ {0},
                               chunk_id : Nat \ {0}, offset : Nat]]
    BY <2>3 DEF TypeOK
  <2>5. ReceiverTypeOK'
    BY <1>1, ReceiverStands
  <2> QED
    BY <1>3, <2>1, <2>2, <2>4, <2>5 DEF TypeOK
<1>5. StationsInsidePacket'
  <2> SUFFICES ASSUME NEW t \in Stations, phase'[t] # "idle"
               PROVE  /\ position'[t] \in DOMAIN Outbox[t]
                      /\ Current(t)' \in assigned[loop'[t].payload_id]
                      /\ loop'[t].offset = (loop'[t].chunk_id - 1) * MaxPacketSize
                      /\ loop'[t].offset < Size[Current(t)']
    BY <1>1 DEF StationsInsidePacket
  <2>1. CASE t = s
    <3>1. /\ phase'[s] = f /\ loop'[s] = l /\ position'[s] = n
          /\ n = position[s]
          /\ l.payload_id = loop[s].payload_id
      BY <2>1 DEF TypeOK
    <3> QED
      BY <2>1, <3>1 DEF StationsInsidePacket, Current
  <2>2. CASE t # s
    <3>1. phase'[t] = phase[t] /\ position'[t] = position[t] /\ loop'[t] = loop[t]
      BY <2>2 DEF TypeOK
    <3> QED
      BY <3>1 DEF StationsInsidePacket, Current
  <2> QED
    BY <2>1, <2>2
<1>6. AssignedWereReached'
  <2> SUFFICES ASSUME NEW i \in PayloadIds, NEW p \in assigned[i]
               PROVE  \E t \in Stations : \E k \in DOMAIN Outbox[t] :
                        /\ Outbox[t][k] = p
                        /\ k < position'[t] \/ (k = position'[t] /\ phase'[t] # "idle")
    BY <1>1 DEF AssignedWereReached
  <2>1. PICK t \in Stations : \E k \in DOMAIN Outbox[t] :
          /\ Outbox[t][k] = p
          /\ k < position[t] \/ (k = position[t] /\ phase[t] # "idle")
    BY DEF AssignedWereReached
  <2>2. PICK k \in DOMAIN Outbox[t] :
          /\ Outbox[t][k] = p
          /\ k < position[t] \/ (k = position[t] /\ phase[t] # "idle")
    BY <2>1
  <2>3. k \in Nat
    BY LinkAssumption, LenProperties, SMTT(30)
  <2>4. CASE t = s
    <3>1. phase'[s] = f /\ position'[s] = n
      BY DEF TypeOK
    <3>2. k < n \/ (k = n /\ f # "idle")
      BY <1>1, <2>2, <2>3, <2>4
    <3> QED
      BY <2>2, <2>4, <3>1, <3>2
  <2>5. CASE t # s
    <3>1. phase'[t] = phase[t] /\ position'[t] = position[t]
      BY <2>5 DEF TypeOK
    <3> QED
      BY <2>2, <3>1
  <2> QED
    BY <2>4, <2>5
<1>7. AssignedOnce'
  BY <1>1 DEF AssignedOnce
<1>8. AirIsGenuine'
  <2>1. \A g \in air : g.chunk \in Noise \/ Genuine(g.chunk)'
    BY <1>1, GenuineStays DEF AirIsGenuine
  <2>2. PICK c : c = NextChunk(s) /\ Genuine(c)
    BY <1>2
  <2>3. Genuine(c)'
    BY <1>1, <2>2, GenuineStays
  <2>4. \A g \in air' : g \in air \/ g.chunk = c
    BY <2>2
  <2> QED
    BY <2>1, <2>3, <2>4 DEF AirIsGenuine
<1>9. TrackersAreGenuine' /\ TrackersSorted' /\ NoStrandedTracker' /\ ReturnedOnce'
  BY <1>1, ReceiverStands
<1> QED
  BY <1>4, <1>5, <1>6, <1>7, <1>8, <1>9

LEMMA TransmitPieceStep ==
  ASSUME IInv, NEW s \in Stations, TransmitPiece(s)
  PROVE  IInv'
<1> DEFINE l == [loop[s] EXCEPT !.chunk_id = @ + 1, !.offset = NextOffset(s)]
<1>1. /\ phase[s] = "sending"
      /\ phase \in [Stations -> {"idle", "sending", "failed"}]
      /\ position \in [Stations -> Nat \ {0}]
      /\ loop \in [Stations -> [payload_id : PayloadIds, retransmit : Nat \ {0},
                                chunk_id : Nat \ {0}, offset : Nat]]
  BY DEF IInv, TypeOK, TransmitPiece, Transmit
<1>2. /\ loop[s].offset = (loop[s].chunk_id - 1) * MaxPacketSize
      /\ Size[Current(s)] \in Nat
  BY <1>1, NextChunkIsFragment DEF IInv, StationsInsidePacket
<1>3. NextOffset(s) < Size[Current(s)]
  BY DEF TransmitPiece
<1>4. PieceLength(Size[Current(s)], loop[s].offset, MaxPacketSize) = MaxPacketSize
  BY <1>1, <1>2, <1>3, LinkAssumption, SMTT(30) DEF NextOffset, PieceLength
<1>5. NextOffset(s) = loop[s].offset + MaxPacketSize
  BY <1>4 DEF NextOffset
<1>6. NextOffset(s) = (loop[s].chunk_id + 1 - 1) * MaxPacketSize
  BY <1>1, <1>2, <1>5, LinkAssumption
<1>7. /\ l \in [payload_id : {loop[s].payload_id}, retransmit : Nat \ {0},
                chunk_id : Nat \ {0}, offset : Nat]
      /\ l.chunk_id = loop[s].chunk_id + 1
      /\ l.offset = NextOffset(s)
  <2>1. loop[s] \in [payload_id : PayloadIds, retransmit : Nat \ {0},
                    chunk_id : Nat \ {0}, offset : Nat]
    BY <1>1
  <2>2. loop[s].chunk_id + 1 \in Nat \ {0}
    BY <2>1
  <2>3. NextOffset(s) \in Nat
    BY <2>1, <1>5, LinkAssumption
  <2> QED
    BY <2>1, <2>2, <2>3
<1>8. /\ phase' = [phase EXCEPT ![s] = "sending"]
      /\ position' = [position EXCEPT ![s] = position[s]]
      /\ loop' = [loop EXCEPT ![s] = l]
      /\ UNCHANGED <<receiverVars, next_payload_id, assigned, lost, restarts>>
      /\ air' = air \cup {[chunk |-> NextChunk(s), copy |-> loop[s].retransmit]}
  BY <1>1 DEF TransmitPiece, Transmit
<1> HIDE DEF l
<1>9. l.offset = (l.chunk_id - 1) * MaxPacketSize /\ l.offset < Size[Current(s)]
  <2>1. l.chunk_id - 1 = loop[s].chunk_id + 1 - 1
    BY <1>1, <1>7
  <2> QED
    BY <2>1, <1>3, <1>6, <1>7
<1> QED
  BY <1>1, <1>7, <1>8, <1>9, SendingStep

LEMMA TransmitLastPieceStep ==
  ASSUME IInv, NEW s \in Stations, TransmitLastPiece(s)
  PROVE  IInv'
<1> DEFINE l == [loop[s] EXCEPT !.retransmit = @ + 1, !.chunk_id = 1, !.offset = 0]
<1>1. /\ phase[s] = "sending"
      /\ phase \in [Stations -> {"idle", "sending", "failed"}]
      /\ position \in [Stations -> Nat \ {0}]
      /\ loop \in [Stations -> [payload_id : PayloadIds, retransmit : Nat \ {0},
                                chunk_id : Nat \ {0}, offset : Nat]]
  BY DEF IInv, TypeOK, TransmitLastPiece, Transmit
<1>2. Size[Current(s)] \in Nat \ {0}
  BY <1>1, NextChunkIsFragment DEF IInv
<1>3. /\ l \in [payload_id : {loop[s].payload_id}, retransmit : Nat \ {0},
                chunk_id : Nat \ {0}, offset : Nat]
      /\ l.chunk_id = 1
      /\ l.offset = 0
  <2>1. loop[s] \in [payload_id : PayloadIds, retransmit : Nat \ {0},
                    chunk_id : Nat \ {0}, offset : Nat]
    BY <1>1
  <2>2. loop[s].retransmit + 1 \in Nat \ {0}
    BY <2>1
  <2>3. l \in [payload_id : {loop[s].payload_id}, retransmit : Nat \ {0},
              chunk_id : Nat \ {0}, offset : Nat]
    <3>1. ASSUME NEW r \in [payload_id : PayloadIds, retransmit : Nat \ {0},
                            chunk_id : Nat \ {0}, offset : Nat],
                 NEW n \in Nat \ {0}, NEW k \in Nat \ {0}, NEW o \in Nat
          PROVE  [r EXCEPT !.retransmit = n, !.chunk_id = k, !.offset = o]
                   \in [payload_id : {r.payload_id}, retransmit : Nat \ {0},
                        chunk_id : Nat \ {0}, offset : Nat]
      OBVIOUS
    <3>2. 1 \in Nat \ {0} /\ 0 \in Nat
      OBVIOUS
    <3> QED
      BY <2>1, <2>2, <3>1, <3>2
  <2>4. l.chunk_id = 1
    BY <2>1
  <2>5. l.offset = 0
    BY <2>1
  <2> QED
    BY <2>3, <2>4, <2>5
<1>4. /\ phase' = [phase EXCEPT ![s] = "sending"]
      /\ position' = [position EXCEPT ![s] = position[s]]
      /\ loop' = [loop EXCEPT ![s] = l]
      /\ UNCHANGED <<receiverVars, next_payload_id, assigned, lost, restarts>>
      /\ air' = air \cup {[chunk |-> NextChunk(s), copy |-> loop[s].retransmit]}
  BY <1>1 DEF TransmitLastPiece, Transmit
<1> HIDE DEF l
<1>5. l.offset = (l.chunk_id - 1) * MaxPacketSize /\ l.offset < Size[Current(s)]
  BY <1>2, <1>3, LinkAssumption
<1> QED
  BY <1>1, <1>3, <1>4, <1>5, SendingStep

LEMMA FinishBroadcastStep ==
  ASSUME IInv, NEW s \in Stations, FinishBroadcast(s)
  PROVE  IInv'
<1>1. /\ phase[s] = "sending"
      /\ position \in [Stations -> Nat \ {0}]
      /\ loop \in [Stations -> [payload_id : PayloadIds, retransmit : Nat \ {0},
                                chunk_id : Nat \ {0}, offset : Nat]]
  BY DEF IInv, TypeOK, FinishBroadcast, Transmit
<1>2. /\ phase' = [phase EXCEPT ![s] = "idle"]
      /\ position' = [position EXCEPT ![s] = position[s] + 1]
      /\ loop' = [loop EXCEPT ![s] = loop[s]]
      /\ UNCHANGED <<receiverVars, next_payload_id, assigned, lost, restarts>>
      /\ air' = air \cup {[chunk |-> NextChunk(s), copy |-> loop[s].retransmit]}
  BY <1>1 DEF FinishBroadcast, Transmit
<1>3. /\ loop[s] \in [payload_id : {loop[s].payload_id}, retransmit : Nat \ {0},
                      chunk_id : Nat \ {0}, offset : Nat]
      /\ position[s] + 1 \in Nat \ {0}
  BY <1>1
<1> QED
  BY <1>1, <1>2, <1>3, SendingStep

LEMMA TransmitFailsStep ==
  ASSUME IInv, NEW s \in Stations, TransmitFails(s)
  PROVE  IInv'
<1>1. /\ phase[s] = "sending"
      /\ position \in [Stations -> Nat \ {0}]
      /\ loop \in [Stations -> [payload_id : PayloadIds, retransmit : Nat \ {0},
                                chunk_id : Nat \ {0}, offset : Nat]]
  BY DEF IInv, TypeOK, TransmitFails
<1>2. /\ phase' = [phase EXCEPT ![s] = "failed"]
      /\ position' = [position EXCEPT ![s] = position[s]]
      /\ loop' = [loop EXCEPT ![s] = loop[s]]
      /\ UNCHANGED <<receiverVars, next_payload_id, assigned, lost, restarts>>
      /\ air' = air
  BY <1>1 DEF TransmitFails, channelVars
<1>3. /\ loop[s] \in [payload_id : {loop[s].payload_id}, retransmit : Nat \ {0},
                      chunk_id : Nat \ {0}, offset : Nat]
      /\ position[s] \in Nat \ {0}
  BY <1>1
<1>4. /\ loop[s].offset = (loop[s].chunk_id - 1) * MaxPacketSize
      /\ loop[s].offset < Size[Current(s)]
  BY <1>1 DEF IInv, StationsInsidePacket
<1> QED
  BY <1>1, <1>2, <1>3, <1>4, SendingStep

-----------------------------------------------------------------------------
(* Steps of the channel and of the receiving process.                      *)

\* They leave the stations alone and put nothing new on the air, so what is
\* left to show is about the receiver.
LEMMA StationsStand ==
  ASSUME IInv, UNCHANGED senderVars, air' \subseteq air, lost' \subseteq Frame,
         restarts' \in 0..MaxRestarts, ReceiverTypeOK', TrackersAreGenuine',
         TrackersSorted', NoStrandedTracker', ReturnedOnce'
  PROVE  IInv'
<1> USE DEF IInv, senderVars
<1>1. TypeOK'
  BY DEF TypeOK
<1>2. StationsInsidePacket'
  BY DEF StationsInsidePacket, Current
<1>3. AssignedWereReached'
  BY DEF AssignedWereReached
<1>4. AssignedOnce'
  BY DEF AssignedOnce
<1>5. AirIsGenuine'
  BY GenuineStays DEF AirIsGenuine
<1> QED
  BY <1>1, <1>2, <1>3, <1>4, <1>5

\* SortedInsertSorts for a vector of fragments.
LEMMA FragmentInserted ==
  ASSUME NEW old \in Seq(Chunk), NEW c \in Chunk,
         \A i, j \in 1..Len(old) : i < j => Before(old[i], old[j]),
         \A i \in 1..Len(old) : old[i].chunk_id # c.chunk_id
  PROVE  LET t == SortedInsert(old, c)
         IN  /\ t \in Seq(Chunk)
             /\ Len(t) = Len(old) + 1
             /\ \A i, j \in 1..Len(t) : i < j => Before(t[i], t[j])
             /\ \A i \in 1..Len(t) :
                  t[i] = c \/ \E j \in 1..Len(old) : t[i] = old[j]
             /\ \E i \in 1..Len(t) : t[i] = c
             /\ \A j \in 1..Len(old) : \E i \in 1..Len(t) : t[i] = old[j]
<1>1. \A a \in Chunk : a.chunk_id \in Nat
  BY ChunkFields
<1> QED
  BY <1>1, SortedInsertSorts

\* The vector with the new fragment in its place.
LEMMA NewVector ==
  ASSUME IInv, NEW c \in Chunk, Genuine(c), ~Ignored(c),
         NEW t, t = SortedInsert(packets[c.payload_id], c)
  PROVE  /\ t \in Seq(Chunk)
         /\ Len(t) \in Nat \ {0}
         /\ DOMAIN t = 1..Len(t)
         /\ \A i \in 1..Len(t) : t[i] \in Chunk
         /\ \A i, j \in 1..Len(t) : i < j => Before(t[i], t[j])
         /\ \A i \in 1..Len(t) : Genuine(t[i]) /\ t[i].payload_id = c.payload_id
<1> DEFINE old == packets[c.payload_id]
<1>1. /\ c.payload_id \in PayloadIds
      /\ old \in Seq(Chunk)
      /\ Len(old) \in Nat
      /\ DOMAIN old = 1..Len(old)
  BY ChunkFields, LenProperties DEF IInv, TypeOK, ReceiverTypeOK
<1>2. \A i, j \in 1..Len(old) : i < j => Before(old[i], old[j])
  BY <1>1 DEF IInv, TrackersSorted
<1>3. \A i \in 1..Len(old) : old[i].chunk_id # c.chunk_id
  BY <1>1 DEF Ignored
<1>4. \A i \in 1..Len(old) : Genuine(old[i]) /\ old[i].payload_id = c.payload_id
  BY <1>1 DEF IInv, TrackersAreGenuine
<1> HIDE DEF old
<1>6. t = SortedInsert(old, c)
  BY DEF old
<1>7. /\ t \in Seq(Chunk)
      /\ Len(t) = Len(old) + 1
      /\ \A i, j \in 1..Len(t) : i < j => Before(t[i], t[j])
      /\ \A i \in 1..Len(t) :
           t[i] = c \/ \E j \in 1..Len(old) : t[i] = old[j]
  <2>1. LET u == SortedInsert(old, c)
        IN  /\ u \in Seq(Chunk)
            /\ Len(u) = Len(old) + 1
            /\ \A i, j \in 1..Len(u) : i < j => Before(u[i], u[j])
            /\ \A i \in 1..Len(u) :
                 u[i] = c \/ \E j \in 1..Len(old) : u[i] = old[j]
            /\ \E i \in 1..Len(u) : u[i] = c
            /\ \A j \in 1..Len(old) : \E i \in 1..Len(u) : u[i] = old[j]
    BY <1>1, <1>2, <1>3, FragmentInserted
  <2> QED
    BY ONLY <1>6, <2>1, Zenon
<1>8. \A i \in 1..Len(t) : Genuine(t[i]) /\ t[i].payload_id = c.payload_id
  BY <1>4, <1>7
<1>9. /\ Len(t) \in Nat \ {0}
      /\ DOMAIN t = 1..Len(t)
      /\ \A i \in 1..Len(t) : t[i] \in Chunk
  BY <1>1, <1>7, LenProperties, ElementOfSeq
<1> QED
  BY <1>7, <1>8, <1>9

\* A packet parsed from genuine fragments of one payload id was broadcast
\* under it.
LEMMA ParsedWasAssigned ==
  ASSUME TypeOK, NEW id \in PayloadIds, NEW t \in Seq(Chunk), t # <<>>,
         \A i \in 1..Len(t) : Genuine(t[i]) /\ t[i].payload_id = id,
         NEW p \in Parsed(t)
  PROVE  p \in Packet \cup {Garbled} /\ (p \in Packet => p \in assigned[id])
<1>1. CASE p \notin Packet
  BY <1>1 DEF Parsed
<1>2. CASE p \in Packet
  <2>1. ConcatIs(Blocks(t), p, Size[p])
    BY <1>2, PacketAssumption DEF Parsed
  <2>2. 1 \in 1..Len(t) /\ DOMAIN t = 1..Len(t) /\ t[1] \in Chunk
    BY EmptySeq, LenProperties, ElementOfSeq
  <2>3. PICK b \in t[1].payload : b[1] \in assigned[id]
    BY <2>2, GenuineBytes DEF TypeOK
  <2>4. b \in UNION {Blocks(t)[i] : i \in DOMAIN Blocks(t)}
    BY <2>2, <2>3 DEF Blocks
  <2>5. b \in {p} \X (1..Size[p])
    BY <2>1, <2>4 DEF ConcatIs, BytesOf
  <2>6. b[1] = p
    BY <2>5
  <2> QED
    BY <1>2, <2>3, <2>6
<1> QED
  BY <1>1, <1>2

LEMMA HoldStep ==
  ASSUME IInv, NEW c \in Chunk, Genuine(c), Hold(c), UNCHANGED assigned
  PROVE  /\ ReceiverTypeOK'
         /\ TrackersAreGenuine'
         /\ TrackersSorted'
         /\ NoStrandedTracker'
         /\ ReturnedOnce'
<1> USE DEF IInv
<1>1. PICK t : t = SortedInsert(packets[c.payload_id], c)
  OBVIOUS
<1>2. /\ ~Ignored(c)
      /\ ~IsComplete(t)
      /\ packets' = [packets EXCEPT ![c.payload_id] = t]
      /\ UNCHANGED <<completed_packets, returned, running>>
  BY <1>1 DEF Hold
<1>3. /\ t \in Seq(Chunk)
      /\ Len(t) \in Nat \ {0}
      /\ DOMAIN t = 1..Len(t)
      /\ \A i, j \in 1..Len(t) : i < j => Before(t[i], t[j])
      /\ \A i \in 1..Len(t) : Genuine(t[i]) /\ t[i].payload_id = c.payload_id
  BY <1>1, <1>2, NewVector
<1>4. /\ c.payload_id \in PayloadIds
      /\ c.payload_id \notin completed_packets
      /\ packets \in [PayloadIds -> Seq(Chunk)]
  BY <1>2, ChunkFields DEF Ignored, TypeOK, ReceiverTypeOK
<1>5. \A id \in PayloadIds :
        packets'[id] = IF id = c.payload_id THEN t ELSE packets[id]
  BY <1>2, <1>4
<1>6. ReceiverTypeOK'
  BY <1>2, <1>3, <1>4 DEF TypeOK, ReceiverTypeOK
<1>7. TrackersAreGenuine'
  <2>1. \A id \in PayloadIds : \A i \in 1..Len(packets'[id]) :
          Genuine(packets'[id][i]) /\ packets'[id][i].payload_id = id
    BY <1>3, <1>5 DEF TrackersAreGenuine
  <2> QED
    BY <2>1, GenuineStays DEF TrackersAreGenuine
<1>8. TrackersSorted'
  BY <1>3, <1>5 DEF TrackersSorted
<1>9. NoStrandedTracker'
  <2>1. \A id \in PayloadIds :
          /\ id \in completed_packets => packets'[id] = <<>>
          /\ packets'[id] # <<>> => ~IsComplete(packets'[id])
    BY <1>2, <1>4, <1>5 DEF NoStrandedTracker
  <2> QED
    BY <1>2, <2>1 DEF NoStrandedTracker
<1>10. ReturnedOnce'
  BY <1>2 DEF ReturnedOnce
<1> QED
  BY <1>6, <1>7, <1>8, <1>9, <1>10

LEMMA CompleteStep ==
  ASSUME IInv, NEW c \in Chunk, Genuine(c), Complete(c), UNCHANGED assigned
  PROVE  /\ ReceiverTypeOK'
         /\ TrackersAreGenuine'
         /\ TrackersSorted'
         /\ NoStrandedTracker'
         /\ ReturnedOnce'
<1> USE DEF IInv
<1>1. PICK t : t = SortedInsert(packets[c.payload_id], c)
  OBVIOUS
<1>2. /\ ~Ignored(c)
      /\ \E p \in Parsed(t) : returned' = [returned EXCEPT ![p] = @ + 1]
      /\ completed_packets' = completed_packets \cup {c.payload_id}
      /\ packets' = [packets EXCEPT ![c.payload_id] = <<>>]
      /\ UNCHANGED running
  BY <1>1 DEF Complete
<1>3. /\ t \in Seq(Chunk)
      /\ Len(t) \in Nat \ {0}
      /\ \A i \in 1..Len(t) : Genuine(t[i]) /\ t[i].payload_id = c.payload_id
  BY <1>1, <1>2, NewVector
<1>4. /\ c.payload_id \in PayloadIds
      /\ c.payload_id \notin completed_packets
      /\ packets \in [PayloadIds -> Seq(Chunk)]
      /\ returned \in [Packet \cup {Garbled} -> Nat]
      /\ completed_packets \subseteq PayloadIds
      /\ running \in BOOLEAN
  BY <1>2, ChunkFields DEF Ignored, TypeOK, ReceiverTypeOK
<1>5. \A id \in PayloadIds :
        packets'[id] = IF id = c.payload_id THEN <<>> ELSE packets[id]
  BY <1>2, <1>4
<1>6. PICK p \in Parsed(t) : returned' = [returned EXCEPT ![p] = @ + 1]
  BY <1>2
<1>7. p \in Packet \cup {Garbled} /\ (p \in Packet => p \in assigned[c.payload_id])
  <2>1. t # <<>>
    BY <1>3, EmptySeq
  <2> QED
    BY <1>3, <1>4, <1>6, <2>1, ParsedWasAssigned
<1>8. ReceiverTypeOK'
  <2>1. returned' \in [Packet \cup {Garbled} -> Nat]
    BY <1>4, <1>6, <1>7
  <2>2. packets' \in [PayloadIds -> Seq(Chunk)]
    BY <1>2, <1>4
  <2> QED
    BY <1>2, <1>4, <2>1, <2>2 DEF ReceiverTypeOK
<1>9. TrackersAreGenuine'
  <2>1. \A id \in PayloadIds : \A i \in 1..Len(packets'[id]) :
          Genuine(packets'[id][i]) /\ packets'[id][i].payload_id = id
    BY <1>5, EmptySeq DEF TrackersAreGenuine
  <2> QED
    BY <2>1, GenuineStays DEF TrackersAreGenuine
<1>10. TrackersSorted'
  BY <1>5 DEF TrackersSorted
<1>11. NoStrandedTracker'
  <2>1. \A id \in PayloadIds :
          /\ id \in completed_packets' => packets'[id] = <<>>
          /\ packets'[id] # <<>> => ~IsComplete(packets'[id])
    BY <1>2, <1>5 DEF NoStrandedTracker
  <2> QED
    BY <2>1 DEF NoStrandedTracker
<1>12. ReturnedOnce'
  <2> SUFFICES ASSUME NEW q \in Packet
               PROVE  /\ returned'[q] <= 1
                      /\ returned'[q] > 0 =>
                           \E id \in completed_packets' : q \in assigned[id]
    BY DEF ReturnedOnce
  <2>1. returned[q] <= 1 /\ returned[q] \in Nat
    BY <1>4 DEF ReturnedOnce
  <2>2. CASE q # p
    <3>1. returned'[q] = returned[q]
      BY <1>4, <1>6, <2>2
    <3> QED
      BY <1>2, <2>1, <3>1 DEF ReturnedOnce
  <2>3. CASE q = p
    <3>1. q \in assigned[c.payload_id]
      BY <1>7, <2>3
    <3>2. ~(returned[q] > 0)
      <4> SUFFICES ASSUME returned[q] > 0 PROVE FALSE
        OBVIOUS
      <4>1. PICK id \in completed_packets : q \in assigned[id]
        BY DEF ReturnedOnce
      <4>2. id = c.payload_id
        BY <1>4, <3>1, <4>1 DEF AssignedOnce
      <4> QED
        BY <1>4, <4>1, <4>2
    <3>3. returned'[q] = 1
      BY <1>4, <1>6, <2>1, <2>3, <3>2
    <3> QED
      BY <1>2, <3>1, <3>3
  <2> QED
    BY <2>2, <2>3
<1> QED
  BY <1>8, <1>9, <1>10, <1>11, <1>12

LEMMA HearStep ==
  ASSUME IInv, NEW f \in air, Hear(f)
  PROVE  IInv'
<1> DEFINE c == f.chunk
<1>1. /\ PushPacketChunk(c)
      /\ air' \subseteq air
      /\ UNCHANGED <<senderVars, lost, restarts>>
  BY DEF Hear
<1>2. /\ c \in Chunk
      /\ lost' \subseteq Frame
      /\ restarts' \in 0..MaxRestarts
      /\ assigned' = assigned
      /\ assigned \in [PayloadIds -> SUBSET Packet]
  BY <1>1 DEF IInv, TypeOK, Frame, senderVars
<1>3. CASE Ignore(c) \/ FailToParse(c)
  <2>1. UNCHANGED <<packets, completed_packets, returned>> /\ running' \in BOOLEAN
    BY <1>3 DEF Ignore, FailToParse, receiverVars, IInv, TypeOK, ReceiverTypeOK
  <2>2. ReceiverTypeOK'
    BY <2>1 DEF IInv, TypeOK, ReceiverTypeOK
  <2>3. TrackersAreGenuine'
    BY <1>2, <2>1, GenuineStays DEF IInv, TrackersAreGenuine
  <2>4. TrackersSorted' /\ NoStrandedTracker' /\ ReturnedOnce'
    BY <1>2, <2>1 DEF IInv, TrackersSorted, NoStrandedTracker, ReturnedOnce
  <2> QED
    BY <1>1, <1>2, <2>2, <2>3, <2>4, StationsStand
<1>4. CASE Hold(c) \/ Complete(c)
  <2>1. ~Malformed(c)
    BY <1>4 DEF Hold, Complete, Ignored
  <2>2. Genuine(c)
    BY <2>1, LinkAssumption DEF IInv, AirIsGenuine
  <2> HIDE DEF c
  <2> QED
    BY <1>1, <1>2, <1>4, <2>2, HoldStep, CompleteStep, StationsStand
<1> QED
  BY <1>1, <1>3, <1>4 DEF PushPacketChunk

LEMMA LoseStep ==
  ASSUME IInv, NEW f \in air, Lose(f)
  PROVE  IInv'
<1>1. /\ air' \subseteq air
      /\ lost' \subseteq Frame
      /\ UNCHANGED <<receiverVars, senderVars, restarts>>
  BY DEF Lose, IInv, TypeOK
<1>2. restarts' \in 0..MaxRestarts /\ assigned' = assigned
      /\ assigned \in [PayloadIds -> SUBSET Packet]
  BY <1>1 DEF IInv, TypeOK, senderVars
<1> QED
  BY <1>1, <1>2, ReceiverStands, StationsStand

LEMMA RestartReceiverStep ==
  ASSUME IInv, RestartReceiver
  PROVE  IInv'
<1>1. /\ UNCHANGED <<senderVars, channelVars>>
      /\ restarts' = restarts + 1
      /\ restarts < MaxRestarts
      /\ packets' = [id \in PayloadIds |-> <<>>]
      /\ completed_packets' = {}
      /\ returned' = [p \in Packet \cup {Garbled} |-> 0]
      /\ running' = TRUE
  BY DEF RestartReceiver
<1>2. /\ restarts' \in 0..MaxRestarts
      /\ lost' \subseteq Frame
      /\ air' = air
  BY <1>1, LinkAssumption DEF IInv, TypeOK, channelVars
<1>3. ReceiverTypeOK'
  BY <1>1, EmptySeq DEF ReceiverTypeOK
<1>4. TrackersAreGenuine' /\ TrackersSorted'
  BY <1>1 DEF TrackersAreGenuine, TrackersSorted
<1>5. NoStrandedTracker' /\ ReturnedOnce'
  BY <1>1 DEF NoStrandedTracker, ReturnedOnce
<1> QED
  BY <1>1, <1>2, <1>3, <1>4, <1>5, StationsStand

-----------------------------------------------------------------------------
(* The theorems.                                                           *)

LEMMA InitIInv == Init => IInv
<1> SUFFICES ASSUME Init PROVE IInv
  OBVIOUS
<1> USE DEF Init, ReceiverInit
<1>1. ReceiverTypeOK
  BY EmptySeq DEF ReceiverTypeOK
<1>2. air \subseteq Frame
  BY LinkAssumption DEF Frame
<1>3. TypeOK
  <2>1. LoopStart(0) \in [payload_id : PayloadIds, retransmit : Nat \ {0},
                          chunk_id : Nat \ {0}, offset : Nat]
    BY LinkAssumption DEF LoopStart
  <2>2. loop \in [Stations -> [payload_id : PayloadIds, retransmit : Nat \ {0},
                              chunk_id : Nat \ {0}, offset : Nat]]
    BY <2>1
  <2> QED
    BY <1>1, <1>2, <2>2, LinkAssumption DEF TypeOK
<1>4. StationsInsidePacket /\ AssignedWereReached /\ AssignedOnce
  BY DEF StationsInsidePacket, AssignedWereReached, AssignedOnce
<1>5. AirIsGenuine
  BY DEF AirIsGenuine
<1>6. TrackersAreGenuine /\ TrackersSorted /\ NoStrandedTracker /\ ReturnedOnce
  BY DEF TrackersAreGenuine, TrackersSorted, NoStrandedTracker, ReturnedOnce
<1> QED
  BY <1>3, <1>4, <1>5, <1>6 DEF IInv

LEMMA StutterIInv ==
  ASSUME IInv, UNCHANGED vars
  PROVE  IInv'
<1>1. UNCHANGED <<receiverVars, senderVars, channelVars, restarts>>
  BY DEF vars
<1>2. /\ air' \subseteq air
      /\ lost' \subseteq Frame
      /\ restarts' \in 0..MaxRestarts
      /\ assigned' = assigned
      /\ assigned \in [PayloadIds -> SUBSET Packet]
  BY <1>1 DEF IInv, TypeOK, channelVars, senderVars
<1> QED
  BY <1>1, <1>2, ReceiverStands, StationsStand

LEMMA NextIInv == IInv /\ [Next]_vars => IInv'
<1> SUFFICES ASSUME IInv, [Next]_vars PROVE IInv'
  OBVIOUS
<1>1. ASSUME NEW s \in Stations, StartBroadcast(s) PROVE IInv'
  BY <1>1, StartBroadcastStep
<1>2. ASSUME NEW s \in Stations, TransmitPiece(s) PROVE IInv'
  BY <1>2, TransmitPieceStep
<1>3. ASSUME NEW s \in Stations, TransmitLastPiece(s) PROVE IInv'
  BY <1>3, TransmitLastPieceStep
<1>4. ASSUME NEW s \in Stations, FinishBroadcast(s) PROVE IInv'
  BY <1>4, FinishBroadcastStep
<1>5. ASSUME NEW s \in Stations, TransmitFails(s) PROVE IInv'
  BY <1>5, TransmitFailsStep
<1>6. ASSUME NEW f \in air, Hear(f) PROVE IInv'
  BY <1>6, HearStep
<1>7. ASSUME NEW f \in air, Lose(f) PROVE IInv'
  BY <1>7, LoseStep
<1>8. CASE RestartReceiver
  BY <1>8, RestartReceiverStep
<1>9. CASE UNCHANGED vars
  BY <1>9, StutterIInv
<1> QED
  BY <1>1, <1>2, <1>3, <1>4, <1>5, <1>6, <1>7, <1>8, <1>9
  DEF Next, StationStep, Listen

LEMMA Invariance == Spec => []IInv
<1>1. IInv /\ [Next]_vars => IInv'
  BY NextIInv
<1> QED
  BY <1>1, InitIInv, PTL DEF Spec

\* Every variable keeps its type: a fragment cut anywhere in any packet is a
\* well-formed chunk and the counters stay in their range.
THEOREM TypeCorrect == Spec => []TypeOK
<1>1. IInv => TypeOK
  BY DEF IInv
<1> QED
  BY <1>1, Invariance, PTL

\* No packet is delivered twice by one receiving process, however often it is
\* retransmitted, repeated or reordered, and even when stations collide on a
\* payload id.
THEOREM DeliveredAtMostOnce == Spec => []AtMostOnce
<1>1. IInv => AtMostOnce
  BY DEF IInv, ReturnedOnce, AtMostOnce
<1> QED
  BY <1>1, Invariance, PTL

\* The vectors IsComplete concatenates are strictly sorted by chunk_id.
THEOREM TrackersStaySorted == Spec => []TrackersSorted
<1>1. IInv => TrackersSorted
  BY DEF IInv
<1> QED
  BY <1>1, Invariance, PTL

\* No tracker waits with a whole packet in it, and none is open for a
\* completed payload.
THEOREM NoTrackerStranded == Spec => []NoStrandedTracker
<1>1. IInv => NoStrandedTracker
  BY DEF IInv
<1> QED
  BY <1>1, Invariance, PTL

-----------------------------------------------------------------------------
(* What is delivered is what was sent, as long as the stations' clocks give *)
(* no two packets one payload id.                                          *)

\* Where the bytes of a fragment lie in its packet.
LEMMA FragmentBytes ==
  ASSUME NEW p \in Packet, NEW id, NEW k \in Nat \ {0},
         (k - 1) * MaxPacketSize < Size[p],
         NEW c, c = FragmentOf(p, id, k)
  PROVE  /\ c.payload \subseteq BytesOf(p, Size[p])
         /\ \A b \in c.payload : /\ b[2] \in Nat
                                 /\ (k - 1) * MaxPacketSize < b[2]
                                 /\ b[2] <= k * MaxPacketSize
<1> DEFINE o == (k - 1) * MaxPacketSize
           n == Size[p]
<1>1. n \in Nat /\ o \in Nat /\ o < n /\ MaxPacketSize \in Nat \ {0}
  BY PacketAssumption, LinkAssumption
<1>2. k * MaxPacketSize = o + MaxPacketSize
  BY LinkAssumption
<1>3. c.payload = Piece(p, n, o, MaxPacketSize)
  BY DEF FragmentOf
<1> HIDE DEF o, n
<1>4. /\ PieceLength(n, o, MaxPacketSize) \in Nat
      /\ o + PieceLength(n, o, MaxPacketSize) <= n
      /\ PieceLength(n, o, MaxPacketSize) <= MaxPacketSize
  BY <1>1 DEF PieceLength
<1>5. c.payload = {p} \X ((o + 1)..(o + PieceLength(n, o, MaxPacketSize)))
  BY <1>3 DEF Piece
<1>6. c.payload \subseteq BytesOf(p, n)
  BY <1>1, <1>4, <1>5 DEF BytesOf
<1>7. \A b \in c.payload : b[2] \in Nat /\ o < b[2] /\ b[2] <= o + MaxPacketSize
  BY <1>1, <1>4, <1>5
<1> QED
  BY <1>2, <1>6, <1>7 DEF o, n

\* Fragments with different chunk_ids lie apart.
LEMMA FragmentsApart ==
  ASSUME NEW k \in Nat, NEW l \in Nat, k < l
  PROVE  k * MaxPacketSize <= (l - 1) * MaxPacketSize
<1>1. PICK d \in Nat : l - 1 = k + d
  <2>1. l - 1 - k \in Nat /\ l - 1 = k + (l - 1 - k)
    OBVIOUS
  <2> QED
    BY <2>1
<1>2. MaxPacketSize \in Nat /\ d * MaxPacketSize \in Nat
  BY LinkAssumption
<1>3. (l - 1) * MaxPacketSize = k * MaxPacketSize + d * MaxPacketSize
  BY <1>1, <1>2
<1> QED
  BY <1>2, <1>3

\* When the bytes received are as many as the first fragment tells, they are
\* one packet that was broadcast under the payload id, whole and in order.
LEMMA CompleteIsWhole ==
  ASSUME TypeOK, NoCollision, NEW id \in PayloadIds, NEW t \in Seq(Chunk), t # <<>>,
         \A i, j \in 1..Len(t) : i < j => Before(t[i], t[j]),
         \A i \in 1..Len(t) : Genuine(t[i]) /\ t[i].payload_id = id,
         IsComplete(t)
  PROVE  \E p \in assigned[id] : ConcatIs(Blocks(t), p, Size[p])
<1>1. /\ Len(t) \in Nat /\ 1 \in 1..Len(t) /\ DOMAIN t = 1..Len(t)
      /\ assigned \in [PayloadIds -> SUBSET Packet]
  BY EmptySeq, LenProperties DEF TypeOK
<1>2. PICK p \in assigned[id], k1 \in Nat \ {0} :
        /\ (k1 - 1) * MaxPacketSize < Size[p]
        /\ t[1] = FragmentOf(p, id, k1)
  BY <1>1 DEF Genuine
<1>3. p \in Packet /\ Size[p] \in Nat
  BY <1>1, PacketAssumption
<1>4. t[1].total_payload_size = Size[p]
  <2>1. "total_payload_size" \in t[1].has
    BY DEF IsComplete
  <2>2. k1 = 1
    BY <1>2, <2>1 DEF FragmentOf
  <2> QED
    BY <1>2, <2>2 DEF FragmentOf
<1>5. \A i \in 1..Len(t) :
        /\ t[i].chunk_id \in Nat \ {0}
        /\ (t[i].chunk_id - 1) * MaxPacketSize < Size[p]
        /\ t[i] = FragmentOf(p, id, t[i].chunk_id)
  <2> SUFFICES ASSUME NEW i \in 1..Len(t)
               PROVE  /\ t[i].chunk_id \in Nat \ {0}
                      /\ (t[i].chunk_id - 1) * MaxPacketSize < Size[p]
                      /\ t[i] = FragmentOf(p, id, t[i].chunk_id)
    OBVIOUS
  <2>1. PICK q \in assigned[id], k \in Nat \ {0} :
          (k - 1) * MaxPacketSize < Size[q] /\ t[i] = FragmentOf(q, id, k)
    BY DEF Genuine
  <2>2. q = p
    BY <1>2, <2>1 DEF NoCollision
  <2>3. t[i].chunk_id = k
    BY <2>1 DEF FragmentOf
  <2> QED
    BY <2>1, <2>2, <2>3
<1> DEFINE blocks == Blocks(t)
<1>6. DOMAIN blocks = 1..Len(t) /\ \A i \in 1..Len(t) : blocks[i] = t[i].payload
  BY <1>1 DEF Blocks
<1>7. ConcatLength(blocks) = Size[p]
  BY <1>4 DEF IsComplete
<1> HIDE DEF blocks
<1>8. \A i \in 1..Len(t) :
        /\ blocks[i] \subseteq BytesOf(p, Size[p])
        /\ \A b \in blocks[i] : /\ b[2] \in Nat
                                /\ (t[i].chunk_id - 1) * MaxPacketSize < b[2]
                                /\ b[2] <= t[i].chunk_id * MaxPacketSize
  BY <1>3, <1>5, <1>6, FragmentBytes
<1>9. \A i, j \in 1..Len(t) :
        i < j => \A a \in blocks[i], b \in blocks[j] : a[2] < b[2]
  <2> SUFFICES ASSUME NEW i \in 1..Len(t), NEW j \in 1..Len(t), i < j,
                      NEW a \in blocks[i], NEW b \in blocks[j]
               PROVE  a[2] < b[2]
    OBVIOUS
  <2> DEFINE m == t[i].chunk_id * MaxPacketSize
             o == (t[j].chunk_id - 1) * MaxPacketSize
  <2>1. t[i].chunk_id < t[j].chunk_id
    BY DEF Before
  <2>2. m <= o
    BY <1>5, <2>1, FragmentsApart
  <2>3. a[2] \in Nat /\ b[2] \in Nat /\ a[2] <= m /\ o < b[2]
    BY <1>8
  <2>4. m \in Int /\ o \in Int
    BY <1>5, LinkAssumption
  <2> HIDE DEF m, o
  <2> QED
    BY <2>2, <2>3, <2>4
<1>10. ConcatIs(blocks, p, Size[p])
  BY <1>1, <1>3, <1>6, <1>7, <1>8, <1>9, ConcatIsWhole
<1> QED
  BY <1>10 DEF blocks

\* What becomes of a frame while no payload ids collide: it is ignored, held,
\* or completes the first delivery of a packet broadcast under its id.
LEMMA HearCases ==
  ASSUME IInv, NoCollision, NEW f \in air, Hear(f), NEW c, c = f.chunk
  PROVE  /\ assigned' = assigned
         /\ c \in Chunk
         /\ \/ Ignore(c)
            \/ Genuine(c) /\ Hold(c)
            \/ /\ Genuine(c) /\ Complete(c)
               /\ \E p \in assigned[c.payload_id] :
                    /\ p \in Packet
                    /\ returned[p] = 0
                    /\ returned' = [returned EXCEPT ![p] = 1]
<1>1. /\ PushPacketChunk(c)
      /\ assigned' = assigned
      /\ c \in Chunk
  BY DEF Hear, senderVars, IInv, TypeOK, Frame
<1>2. ASSUME Hold(c) PROVE Genuine(c)
  BY <1>2, LinkAssumption DEF IInv, AirIsGenuine, Hold, Ignored
<1>3. CASE Complete(c) \/ FailToParse(c)
  <2>1. PICK t : t = SortedInsert(packets[c.payload_id], c)
    OBVIOUS
  <2>2. ~Ignored(c) /\ IsComplete(t)
    BY <1>3, <2>1 DEF Complete, FailToParse
  <2>3. Genuine(c)
    BY <2>2, LinkAssumption DEF IInv, AirIsGenuine, Ignored
  <2>4. /\ t \in Seq(Chunk) /\ t # <<>>
        /\ \A i, j \in 1..Len(t) : i < j => Before(t[i], t[j])
        /\ \A i \in 1..Len(t) : Genuine(t[i]) /\ t[i].payload_id = c.payload_id
    <3>1. c \in Chunk /\ Genuine(c) /\ ~Ignored(c)
      BY <1>1, <2>2, <2>3
    <3>2. /\ t \in Seq(Chunk) /\ Len(t) \in Nat \ {0}
          /\ \A i, j \in 1..Len(t) : i < j => Before(t[i], t[j])
          /\ \A i \in 1..Len(t) : Genuine(t[i]) /\ t[i].payload_id = c.payload_id
      BY ONLY IInv, <2>1, <3>1, NewVector, ZenonT(30)
    <3>3. t # <<>>
      BY <3>2, EmptySeq
    <3> QED
      BY <3>2, <3>3
  <2>5. /\ c.payload_id \in PayloadIds
        /\ c.payload_id \notin completed_packets
        /\ assigned \in [PayloadIds -> SUBSET Packet]
        /\ returned \in [Packet \cup {Garbled} -> Nat]
        /\ completed_packets \subseteq PayloadIds
    BY <1>1, <2>2, ChunkFields DEF Ignored, IInv, TypeOK, ReceiverTypeOK
  <2>6. PICK q \in assigned[c.payload_id] : ConcatIs(Blocks(t), q, Size[q])
    BY <2>2, <2>4, <2>5, CompleteIsWhole DEF IInv
  <2>7. \A p \in Parsed(t) : p \in Packet /\ p \in assigned[c.payload_id]
    <3>1. \A p \in Parsed(t) : p \in Packet
      BY <2>5, <2>6 DEF Parsed
    <3> QED
      BY <2>4, <2>5, <3>1, ParsedWasAssigned DEF IInv
  <2>8. ~ParseFails(t)
    <3>1. Garbled \notin Parsed(t)
      BY <2>7, PacketAssumption
    <3> QED
      BY <3>1 DEF ParseFails
  <2>9. Complete(c)
    BY <1>3, <2>1, <2>8 DEF FailToParse
  <2>10. PICK p \in Parsed(t) : returned' = [returned EXCEPT ![p] = @ + 1]
    BY <2>1, <2>9 DEF Complete
  <2>11. returned[p] = 0
    <3>1. returned[p] \in Nat
      BY <2>5, <2>7, <2>10
    <3>2. ~(returned[p] > 0)
      <4> SUFFICES ASSUME returned[p] > 0 PROVE FALSE
        OBVIOUS
      <4>1. PICK id \in completed_packets : p \in assigned[id]
        BY <2>7 DEF IInv, ReturnedOnce
      <4>2. id = c.payload_id
        BY <2>5, <2>7, <4>1 DEF IInv, AssignedOnce
      <4> QED
        BY <2>5, <4>1, <4>2
    <3> QED
      BY <3>1, <3>2
  <2>12. returned' = [returned EXCEPT ![p] = 1]
    BY <2>10, <2>11
  <2> QED
    BY <1>1, <2>3, <2>7, <2>9, <2>11, <2>12
<1> QED
  BY <1>1, <1>2, <1>3 DEF PushPacketChunk

\* The caller sees nothing of it, or the first delivery of such a packet.
LEMMA HearOutcome ==
  ASSUME IInv, NoCollision, NEW f \in air, Hear(f)
  PROVE  /\ assigned' = assigned
         /\ running' = running
         /\ \/ returned' = returned
            \/ \E id \in PayloadIds : \E p \in assigned[id] :
                 /\ p \in Packet
                 /\ returned[p] = 0
                 /\ returned' = [returned EXCEPT ![p] = 1]
<1>1. PICK c : c = f.chunk
  OBVIOUS
<1>2. /\ assigned' = assigned
      /\ c \in Chunk
      /\ \/ Ignore(c)
         \/ Genuine(c) /\ Hold(c)
         \/ /\ Genuine(c) /\ Complete(c)
            /\ \E p \in assigned[c.payload_id] :
                 /\ p \in Packet
                 /\ returned[p] = 0
                 /\ returned' = [returned EXCEPT ![p] = 1]
  BY <1>1, HearCases
<1>3. c.payload_id \in PayloadIds
  BY <1>2, ChunkFields
<1> QED
  BY <1>2, <1>3 DEF Ignore, Hold, Complete, receiverVars

\* A station broadcasts a packet that nobody has broadcast.
LEMMA StartedPacketIsNew ==
  ASSUME IInv, NEW s \in Stations, StartBroadcast(s)
  PROVE  /\ UNCHANGED <<returned, running>>
         /\ Current(s) \in Packet
         /\ \A i \in PayloadIds : Current(s) \notin assigned[i]
         /\ \E id \in PayloadIds : assigned' = [assigned EXCEPT ![id] = @ \cup {Current(s)}]
<1> DEFINE id == NextId(next_payload_id[s], IdSpace)
<1>1. id \in PayloadIds
  <2>1. next_payload_id[s] \in 0..(IdSpace - 1)
    BY LinkAssumption DEF IInv, TypeOK
  <2> QED
    BY <2>1, LinkAssumption, NextIdIsAnId, SMTT(30)
<1>2. /\ phase[s] = "idle"
      /\ position[s] \in DOMAIN Outbox[s]
      /\ assigned' = [assigned EXCEPT ![id] = @ \cup {Current(s)}]
      /\ UNCHANGED <<returned, running>>
  BY DEF StartBroadcast, receiverVars
<1> HIDE DEF id
<1>3. Current(s) \in Packet
  BY <1>2, LinkAssumption, ElementOfSeq, LenProperties DEF Current
<1>4. ASSUME NEW i \in PayloadIds, Current(s) \in assigned[i] PROVE FALSE
  <2>1. PICK t \in Stations : \E k \in DOMAIN Outbox[t] :
          /\ Outbox[t][k] = Current(s)
          /\ k < position[t] \/ (k = position[t] /\ phase[t] # "idle")
    BY <1>4 DEF IInv, AssignedWereReached
  <2>2. PICK k \in DOMAIN Outbox[t] :
          /\ Outbox[t][k] = Current(s)
          /\ k < position[t] \/ (k = position[t] /\ phase[t] # "idle")
    BY <2>1
  <2>3. t = s /\ k = position[s]
    BY <1>2, <2>2, OutboxAssumption DEF Current
  <2> QED
    BY <1>2, <2>2, <2>3 DEF IInv, TypeOK
<1> QED
  BY <1>1, <1>2, <1>3, <1>4

\* A step of a station hands a payload id to a packet that never had one, or
\* to none; the receiver is not concerned.
LEMMA StationOutcome ==
  ASSUME IInv, NEW s \in Stations, StationStep(s)
  PROVE  /\ UNCHANGED <<returned, running>>
         /\ \/ assigned' = assigned
            \/ \E id \in PayloadIds, p \in Packet :
                 /\ \A i \in PayloadIds : p \notin assigned[i]
                 /\ assigned' = [assigned EXCEPT ![id] = @ \cup {p}]
<1>1. CASE StartBroadcast(s)
  BY <1>1, StartedPacketIsNew
<1>2. CASE TransmitPiece(s) \/ TransmitLastPiece(s) \/ FinishBroadcast(s)
  BY <1>2 DEF TransmitPiece, TransmitLastPiece, FinishBroadcast, Transmit, receiverVars
<1>3. CASE TransmitFails(s)
  BY <1>3 DEF TransmitFails, receiverVars
<1> QED
  BY <1>1, <1>2, <1>3 DEF StationStep

LEMMA NextDeliveredAsSent ==
  IInv /\ NoCollision /\ DeliveredAsSent /\ [Next]_vars => DeliveredAsSent'
<1> SUFFICES ASSUME IInv, NoCollision, DeliveredAsSent, [Next]_vars
             PROVE  DeliveredAsSent'
  OBVIOUS
<1>0. /\ assigned \in [PayloadIds -> SUBSET Packet]
      /\ returned \in [Packet \cup {Garbled} -> Nat]
  BY DEF IInv, TypeOK, ReceiverTypeOK
<1>1. ASSUME NEW s \in Stations, StationStep(s) PROVE DeliveredAsSent'
  <2>1. /\ UNCHANGED <<returned, running>>
        /\ \A id \in PayloadIds : assigned[id] \subseteq assigned'[id]
    BY <1>0, <1>1, StationOutcome
  <2> QED
    BY <2>1 DEF DeliveredAsSent
<1>2. ASSUME NEW f \in air, Hear(f) PROVE DeliveredAsSent'
  <2>1. /\ assigned' = assigned
        /\ running' = running
        /\ \/ returned' = returned
           \/ \E id \in PayloadIds : \E p \in assigned[id] :
                /\ p \in Packet
                /\ returned' = [returned EXCEPT ![p] = 1]
    BY <1>2, HearOutcome
  <2> QED
    BY <1>0, <2>1, PacketAssumption DEF DeliveredAsSent
<1>3. ASSUME NEW f \in air, Lose(f) PROVE DeliveredAsSent'
  BY <1>3 DEF Lose, receiverVars, senderVars, DeliveredAsSent
<1>4. CASE RestartReceiver
  BY <1>4 DEF RestartReceiver, senderVars, DeliveredAsSent
<1>5. CASE UNCHANGED vars
  BY <1>5 DEF vars, receiverVars, senderVars, DeliveredAsSent
<1> QED
  BY <1>1, <1>2, <1>3, <1>4, <1>5 DEF Next, Listen

\* While no two packets share a payload id, what the receiving process
\* returns is exactly what stations broadcast, and it never ends itself over
\* a payload that does not parse.
THEOREM DeliveredIsWhatWasSent == Spec /\ []NoCollision => []DeliveredAsSent
<1>1. Init => DeliveredAsSent
  BY DEF Init, ReceiverInit, DeliveredAsSent
<1> QED
  BY <1>1, Invariance, NextDeliveredAsSent, PTL DEF Spec

\* While no two packets share a payload id, the link implements PacketLink:
\* whole packets, each at most once, and only those that were broadcast.
THEOREM LinkRefinement == Spec /\ []NoCollision => ImplementsPacketLink
<1>1. Init => Link!Init
  <2> SUFFICES ASSUME Init PROVE Link!Init
    OBVIOUS
  <2>1. UNION {assigned[id] : id \in PayloadIds} = {}
    BY DEF Init
  <2>2. returned = [p \in Packet \cup {Garbled} |-> 0]
    BY DEF Init, ReceiverInit
  <2> QED
    BY <2>1, <2>2 DEF Link!Init
<1>2. IInv /\ NoCollision /\ [Next]_vars => [Link!Next]_Link!vars
  <2> SUFFICES ASSUME IInv, NoCollision, [Next]_vars
               PROVE  [Link!Next]_Link!vars
    OBVIOUS
  <2>0. /\ assigned \in [PayloadIds -> SUBSET Packet]
        /\ returned \in [Packet \cup {Garbled} -> Nat]
    BY DEF IInv, TypeOK, ReceiverTypeOK
  <2> DEFINE sent == UNION {assigned[id] : id \in PayloadIds}
  <2>1. ASSUME NEW s \in Stations, StationStep(s) PROVE [Link!Next]_Link!vars
    <3>1. CASE assigned' = assigned /\ returned' = returned
      BY <3>1 DEF Link!vars
    <3>2. ASSUME NEW id \in PayloadIds, NEW p \in Packet,
                 \A i \in PayloadIds : p \notin assigned[i],
                 assigned' = [assigned EXCEPT ![id] = @ \cup {p}],
                 returned' = returned
          PROVE  [Link!Next]_Link!vars
      <4>1. p \notin sent
        BY <3>2
      <4>2. sent' = sent \cup {p}
        BY <2>0, <3>2
      <4>3. Link!Broadcast(p)
        BY <3>2, <4>1, <4>2 DEF Link!Broadcast
      <4> QED
        BY <4>3 DEF Link!Next
    <3> QED
      BY <2>1, <3>1, <3>2, StationOutcome
  <2>2. ASSUME NEW f \in air, Hear(f) PROVE [Link!Next]_Link!vars
    <3>1. assigned' = assigned
      BY <2>2, HearOutcome
    <3>2. CASE returned' = returned
      BY <3>1, <3>2 DEF Link!vars
    <3>3. ASSUME NEW id \in PayloadIds, NEW p \in assigned[id], p \in Packet,
                 returned[p] = 0, returned' = [returned EXCEPT ![p] = 1]
          PROVE  [Link!Next]_Link!vars
      <4>1. Link!Deliver(p)
        BY <3>1, <3>3 DEF Link!Deliver
      <4> QED
        BY <3>3, <4>1 DEF Link!Next
    <3> QED
      BY <2>2, <3>2, <3>3, HearOutcome
  <2>3. ASSUME NEW f \in air, Lose(f) PROVE [Link!Next]_Link!vars
    BY <2>3 DEF Lose, receiverVars, senderVars, Link!vars
  <2>4. CASE RestartReceiver
    BY <2>4 DEF RestartReceiver, senderVars, Link!Next, Link!Restart
  <2>5. CASE UNCHANGED vars
    BY <2>5 DEF vars, receiverVars, senderVars, Link!vars
  <2> QED
    BY <2>1, <2>2, <2>3, <2>4, <2>5 DEF Next, Listen
<1> QED
  BY <1>1, <1>2, Invariance, PTL DEF Spec, ImplementsPacketLink, Link!Spec

-----------------------------------------------------------------------------
(* What enters packets_ and completed_packets_.                            *)

\* Payload ids only ever gain packets.
LEMMA AssignedGrows ==
  ASSUME IInv, [Next]_vars
  PROVE  /\ assigned \in [PayloadIds -> SUBSET Packet]
         /\ \A id \in PayloadIds : assigned[id] \subseteq assigned'[id]
<1>1. assigned \in [PayloadIds -> SUBSET Packet]
  BY DEF IInv, TypeOK
<1>2. ASSUME NEW s \in Stations, StationStep(s)
      PROVE  \A id \in PayloadIds : assigned[id] \subseteq assigned'[id]
  BY <1>1, <1>2, StationOutcome
<1>4. CASE ~(\E s \in Stations : StationStep(s))
  <2>1. assigned' = assigned
    BY <1>4 DEF Next, Listen, Hear, Lose, RestartReceiver, vars, senderVars
  <2> QED
    BY <1>1, <2>1
<1> QED
  BY <1>1, <1>2, <1>4

\* A completed payload id is one under which a packet was broadcast.
CompletedWereAssigned == \A id \in completed_packets : assigned[id] # {}

LEMMA NextCompletedWereAssigned ==
  IInv /\ CompletedWereAssigned /\ [Next]_vars => CompletedWereAssigned'
<1> SUFFICES ASSUME IInv, CompletedWereAssigned, [Next]_vars
             PROVE  CompletedWereAssigned'
  OBVIOUS
<1>1. /\ completed_packets \subseteq PayloadIds
      /\ \A id \in PayloadIds : assigned[id] \subseteq assigned'[id]
  BY AssignedGrows DEF IInv, TypeOK, ReceiverTypeOK
<1>2. CASE completed_packets' \subseteq completed_packets
  BY <1>1, <1>2 DEF CompletedWereAssigned
<1>3. ASSUME NEW s \in Stations, StationStep(s) PROVE CompletedWereAssigned'
  <2>1. completed_packets' = completed_packets
    BY <1>3 DEF StationStep, StartBroadcast, TransmitPiece, TransmitLastPiece,
                FinishBroadcast, TransmitFails, Transmit, receiverVars
  <2> QED
    BY <1>2, <2>1
<1>4. ASSUME NEW f \in air, Hear(f) PROVE CompletedWereAssigned'
  <2>1. PICK c : c = f.chunk
    OBVIOUS
  <2>2. PushPacketChunk(c)
    BY <1>4, <2>1 DEF Hear
  <2>3. CASE Ignore(c) \/ Hold(c) \/ FailToParse(c)
    BY <1>2, <2>3 DEF Ignore, Hold, FailToParse, receiverVars
  <2>4. CASE Complete(c)
    <3>1. ~Malformed(c) /\ completed_packets' = completed_packets \cup {c.payload_id}
      BY <2>4 DEF Complete, Ignored
    <3>2. Genuine(c)
      BY <2>1, <3>1, LinkAssumption DEF IInv, AirIsGenuine
    <3>3. c.payload_id \in PayloadIds /\ assigned[c.payload_id] # {}
      BY <3>2 DEF Genuine
    <3> QED
      BY <1>1, <3>1, <3>3 DEF CompletedWereAssigned
  <2> QED
    BY <2>2, <2>3, <2>4 DEF PushPacketChunk
<1>5. ASSUME NEW f \in air, Lose(f) PROVE CompletedWereAssigned'
  BY <1>2, <1>5 DEF Lose, receiverVars
<1>6. CASE RestartReceiver
  BY <1>2, <1>6 DEF RestartReceiver
<1>7. CASE UNCHANGED vars
  BY <1>2, <1>7 DEF vars, receiverVars
<1> QED
  BY <1>3, <1>4, <1>5, <1>6, <1>7 DEF Next, Listen

LEMMA CompletedWereAssignedAlways == Spec => []CompletedWereAssigned
<1>1. Init => CompletedWereAssigned
  BY DEF Init, ReceiverInit, CompletedWereAssigned
<1> QED
  BY <1>1, Invariance, NextCompletedWereAssigned, PTL DEF Spec

\* Noise never takes a place in the tables that nothing empties: whatever is
\* collected or remembered as complete belongs to a broadcast of a station.
THEOREM TablesHoldBroadcasts == Spec => []OccupiedByBroadcasts
<1>1. IInv /\ CompletedWereAssigned => OccupiedByBroadcasts
  <2> SUFFICES ASSUME IInv, CompletedWereAssigned, NEW id \in PayloadIds,
                      packets[id] # <<>>
               PROVE  assigned[id] # {}
    BY DEF OccupiedByBroadcasts, CompletedWereAssigned
  <2>1. packets[id] \in Seq(Chunk) /\ 1 \in 1..Len(packets[id])
    BY EmptySeq, LenProperties DEF IInv, TypeOK, ReceiverTypeOK
  <2> QED
    BY <2>1 DEF IInv, TrackersAreGenuine, Genuine
<1> QED
  BY <1>1, Invariance, CompletedWereAssignedAlways, PTL

-----------------------------------------------------------------------------
(* The ids of one station.  GetNextPayloadId counts from the first id of a *)
(* station to the last one there is, and on from 1.                        *)

\* The packets a station has taken ids for.
Handed(s) == IF phase[s] = "idle" THEN position[s] - 1 ELSE position[s]

\* The id of the k-th of them.
IdOf(s, k) ==
  LET id == NextId(FirstId[s], IdSpace) + k - 1
  IN  IF id < IdSpace THEN id ELSE id - (IdSpace - 1)

\* The counter hands out the next id of this series, and the packets have
\* the ids of their places in the outbox.
IdsFollow ==
  /\ \A s \in Stations :
       /\ position[s] <= Len(Outbox[s]) + 1
       /\ NextId(next_payload_id[s], IdSpace) = IdOf(s, Handed(s) + 1)
  /\ \A id \in PayloadIds : \A s \in Stations : \A k \in DOMAIN Outbox[s] :
       Outbox[s][k] \in assigned[id] => id = IdOf(s, k)

\* No outbox is as long as the id space: a station that broadcasts more
\* packets than that must use an id again.
OutboxesFitIds == \A s \in Stations : Len(Outbox[s]) < IdSpace

LEMMA IdOfSteps ==
  ASSUME OutboxesFitIds, NEW s \in Stations, NEW n \in 0..(IdSpace - 1),
         NEW k \in 1..Len(Outbox[s]), NextId(n, IdSpace) = IdOf(s, k)
  PROVE  NextId(CounterAfter(n, IdSpace), IdSpace) = IdOf(s, k + 1)
<1>1. /\ IdSpace \in Nat \ {0, 1}
      /\ FirstId[s] \in 0..(IdSpace - 1)
      /\ Len(Outbox[s]) \in Nat
      /\ Len(Outbox[s]) < IdSpace
  BY LinkAssumption, LenProperties DEF OutboxesFitIds
<1>2. PICK first : first = NextId(FirstId[s], IdSpace)
  OBVIOUS
<1>3. first \in 1..(IdSpace - 1)
  BY <1>1, <1>2, NextIdIsAnId
<1>4. PICK id : id = NextId(n, IdSpace)
  OBVIOUS
<1>5. id \in 1..(IdSpace - 1)
  BY <1>1, <1>4, NextIdIsAnId
<1>6. CounterAfter(n, IdSpace) = IF id + 1 = IdSpace THEN 0 ELSE id + 1
  <2>1. CASE n = 0
    <3>1. id = 1
      BY <1>1, <1>4, <2>1 DEF NextId
    <3>2. CounterAfter(n, IdSpace) = 2 % IdSpace
      BY <2>1 DEF CounterAfter
    <3> QED
      BY <1>1, <3>1, <3>2
  <2>2. CASE n # 0
    <3>1. id = n /\ CounterAfter(n, IdSpace) = (n + 1) % IdSpace
      BY <1>4, <2>2 DEF NextId, CounterAfter
    <3> QED
      BY <1>1, <1>5, <3>1
  <2> QED
    BY <2>1, <2>2
<1>7. NextId(CounterAfter(n, IdSpace), IdSpace) = IF id + 1 = IdSpace THEN 1 ELSE id + 1
  BY <1>1, <1>5, <1>6 DEF NextId
<1>8. /\ IdOf(s, k) = IF first + k - 1 < IdSpace THEN first + k - 1
                      ELSE first + k - 1 - (IdSpace - 1)
      /\ IdOf(s, k + 1) = IF first + (k + 1) - 1 < IdSpace THEN first + (k + 1) - 1
                          ELSE first + (k + 1) - 1 - (IdSpace - 1)
  BY <1>1, <1>2, <1>3 DEF IdOf
<1> QED
  BY <1>1, <1>3, <1>4, <1>5, <1>7, <1>8

LEMMA IdsDiffer ==
  ASSUME OutboxesFitIds, NEW s \in Stations,
         NEW j \in 1..Len(Outbox[s]), NEW k \in 1..Len(Outbox[s]),
         IdOf(s, j) = IdOf(s, k)
  PROVE  j = k /\ IdOf(s, k) # 0
<1>1. /\ IdSpace \in Nat \ {0, 1}
      /\ FirstId[s] \in 0..(IdSpace - 1)
      /\ Len(Outbox[s]) \in Nat
      /\ Len(Outbox[s]) < IdSpace
  BY LinkAssumption, LenProperties DEF OutboxesFitIds
<1>2. PICK first : first = NextId(FirstId[s], IdSpace)
  OBVIOUS
<1>3. first \in 1..(IdSpace - 1)
  BY <1>1, <1>2, NextIdIsAnId
<1>4. PICK a, b : a = IdOf(s, j) /\ b = IdOf(s, k)
  OBVIOUS
<1>5. j \in Nat \ {0} /\ k \in Nat \ {0} /\ j < IdSpace /\ k < IdSpace
  BY <1>1
<1>6. /\ a = IF first + j - 1 < IdSpace THEN first + j - 1
                      ELSE first + j - 1 - (IdSpace - 1)
      /\ b = IF first + k - 1 < IdSpace THEN first + k - 1
                      ELSE first + k - 1 - (IdSpace - 1)
  BY ONLY <1>1, <1>2, <1>3, <1>4, <1>5 DEF IdOf
<1>7. b # 0 /\ (a = b => j = k)
  BY ONLY <1>1, <1>3, <1>5, <1>6
<1> QED
  BY <1>4, <1>7

LEMMA NextIdsFollow ==
  ASSUME OutboxesFitIds
  PROVE  IInv /\ IdsFollow /\ [Next]_vars => IdsFollow'
<1> SUFFICES ASSUME IInv, IdsFollow, [Next]_vars PROVE IdsFollow'
  OBVIOUS
<1>1. /\ assigned \in [PayloadIds -> SUBSET Packet]
      /\ position \in [Stations -> Nat \ {0}]
      /\ phase \in [Stations -> {"idle", "sending", "failed"}]
      /\ next_payload_id \in [Stations -> 0..(IdSpace - 1)]
      /\ PayloadIds = 0..(IdSpace - 1)
      /\ IdSpace \in Nat \ {0, 1}
  BY LinkAssumption DEF IInv, TypeOK
<1>2. \A s \in Stations : Len(Outbox[s]) \in Nat /\ DOMAIN Outbox[s] = 1..Len(Outbox[s])
  BY LinkAssumption, LenProperties
<1>3. ASSUME UNCHANGED <<phase, position, next_payload_id, assigned>> PROVE IdsFollow'
  BY <1>3 DEF IdsFollow, Handed
<1>4. ASSUME NEW s \in Stations, StartBroadcast(s) PROVE IdsFollow'
  <2>1. PICK id : id = NextId(next_payload_id[s], IdSpace)
    OBVIOUS
  <2>2. PICK k : k = position[s]
    OBVIOUS
  <2>3. /\ phase[s] = "idle"
        /\ k \in 1..Len(Outbox[s])
        /\ next_payload_id' =
             [next_payload_id EXCEPT ![s] = CounterAfter(@, IdSpace)]
        /\ assigned' = [assigned EXCEPT ![id] = @ \cup {Outbox[s][k]}]
        /\ \/ phase' = [phase EXCEPT ![s] = "sending"] /\ position' = position
           \/ phase' = phase /\ position' = [position EXCEPT ![s] = @ + 1]
    BY <1>2, <1>4, <2>1, <2>2 DEF StartBroadcast, Current
  <2>4. id = IdOf(s, k) /\ id \in PayloadIds
    <3>1. Handed(s) + 1 = k
      BY <1>1, <2>2, <2>3 DEF Handed
    <3>2. id \in 1..(IdSpace - 1)
      BY <1>1, <2>1, NextIdIsAnId
    <3> QED
      BY <1>1, <2>1, <3>1, <3>2 DEF IdsFollow
  <2>5. ASSUME NEW t \in Stations
        PROVE  /\ position'[t] <= Len(Outbox[t]) + 1
               /\ NextId(next_payload_id'[t], IdSpace) = IdOf(t, Handed(t)' + 1)
    <3>1. CASE t = s
      <4>1. position'[t] <= Len(Outbox[t]) + 1 /\ Handed(t)' = k
        BY <1>1, <1>2, <2>2, <2>3, <3>1 DEF Handed, IdsFollow
      <4>2. next_payload_id'[t] = CounterAfter(next_payload_id[s], IdSpace)
        BY <1>1, <2>3, <3>1
      <4>3. next_payload_id[s] \in 0..(IdSpace - 1)
        BY <1>1
      <4> QED
        BY <2>1, <2>3, <2>4, <3>1, <4>1, <4>2, <4>3, IdOfSteps
    <3>2. CASE t # s
      <4>1. /\ position'[t] = position[t] /\ phase'[t] = phase[t]
            /\ next_payload_id'[t] = next_payload_id[t]
        BY <1>1, <2>3, <3>2
      <4> QED
        BY <4>1 DEF IdsFollow, Handed
    <3> QED
      BY <3>1, <3>2
  <2>6. ASSUME NEW i \in PayloadIds, NEW t \in Stations, NEW l \in DOMAIN Outbox[t],
               Outbox[t][l] \in assigned'[i]
        PROVE  i = IdOf(t, l)
    <3>1. CASE Outbox[t][l] \in assigned[i]
      BY <3>1 DEF IdsFollow
    <3>2. CASE i = id /\ Outbox[t][l] = Outbox[s][k]
      <4>1. t = s /\ l = k
        BY <1>2, <2>3, <3>2, OutboxAssumption
      <4> QED
        BY <2>4, <3>2, <4>1
    <3> QED
      BY <1>1, <2>3, <2>4, <2>6, <3>1, <3>2
  <2> QED
    BY <2>5, <2>6 DEF IdsFollow
<1>5. ASSUME NEW s \in Stations, TransmitPiece(s) \/ TransmitLastPiece(s) PROVE IdsFollow'
  BY <1>3, <1>5 DEF TransmitPiece, TransmitLastPiece, Transmit
<1>6. ASSUME NEW s \in Stations, FinishBroadcast(s) \/ TransmitFails(s) PROVE IdsFollow'
  <2>1. /\ phase[s] = "sending"
        /\ next_payload_id' = next_payload_id /\ assigned' = assigned
        /\ \/ phase' = [phase EXCEPT ![s] = "idle"] /\ position' = [position EXCEPT ![s] = @ + 1]
           \/ phase' = [phase EXCEPT ![s] = "failed"] /\ position' = position
    BY <1>6 DEF FinishBroadcast, Transmit, TransmitFails
  <2>2. position[s] \in 1..Len(Outbox[s])
    BY <1>2, <2>1 DEF IInv, StationsInsidePacket
  <2>3. ASSUME NEW t \in Stations
        PROVE  /\ position'[t] <= Len(Outbox[t]) + 1
               /\ Handed(t)' = Handed(t)
    <3>1. CASE t = s
      BY <1>1, <1>2, <2>1, <2>2, <3>1 DEF Handed, IdsFollow
    <3>2. CASE t # s
      BY <1>1, <2>1, <3>2 DEF Handed, IdsFollow
    <3> QED
      BY <3>1, <3>2
  <2> QED
    BY <2>1, <2>3 DEF IdsFollow
<1>7. ASSUME NEW f \in air, Hear(f) \/ Lose(f) PROVE IdsFollow'
  BY <1>3, <1>7 DEF Hear, Lose, senderVars
<1>8. CASE RestartReceiver \/ UNCHANGED vars
  BY <1>3, <1>8 DEF RestartReceiver, vars, senderVars
<1> QED
  BY <1>4, <1>5, <1>6, <1>7, <1>8 DEF Next, StationStep, Listen

LEMMA InitIdsFollow == Init => IdsFollow
<1> SUFFICES ASSUME Init PROVE IdsFollow
  OBVIOUS
<1>1. ASSUME NEW s \in Stations
      PROVE  /\ position[s] <= Len(Outbox[s]) + 1
             /\ NextId(next_payload_id[s], IdSpace) = IdOf(s, Handed(s) + 1)
  <2>1. /\ Len(Outbox[s]) \in Nat /\ position[s] = 1 /\ phase[s] = "idle"
        /\ next_payload_id[s] = FirstId[s] /\ FirstId[s] \in 0..(IdSpace - 1)
        /\ IdSpace \in Nat \ {0, 1}
    BY LinkAssumption, LenProperties DEF Init
  <2>2. NextId(FirstId[s], IdSpace) \in 1..(IdSpace - 1)
    BY <2>1, NextIdIsAnId
  <2> QED
    BY <2>1, <2>2 DEF Handed, IdOf
<1> QED
  BY <1>1 DEF IdsFollow, Init

\* Across the wrap of the counter a station neither uses the id 0 nor uses
\* an id again, as long as it has fewer packets than there are ids.
THEOREM IdsStayDistinct ==
  ASSUME OutboxesFitIds
  PROVE  Spec => []StationIdsDistinct
<1>1. IInv /\ IdsFollow => StationIdsDistinct
  <2> SUFFICES ASSUME IInv, IdsFollow PROVE StationIdsDistinct
    OBVIOUS
  <2>1. ASSUME NEW p \in assigned[0] PROVE FALSE
    <3>1. 0 \in PayloadIds
      BY LinkAssumption
    <3>2. PICK s \in Stations : \E k \in DOMAIN Outbox[s] : Outbox[s][k] = p
      BY <2>1, <3>1 DEF IInv, AssignedWereReached
    <3>3. PICK k \in 1..Len(Outbox[s]) : Outbox[s][k] = p
      BY <3>2, LinkAssumption, LenProperties
    <3>4. 0 = IdOf(s, k)
      BY <2>1, <3>1, <3>3, LinkAssumption, LenProperties DEF IdsFollow
    <3> QED
      BY <3>4, IdsDiffer
  <2>2. ASSUME NEW id \in PayloadIds, NEW s \in Stations,
               NEW j \in DOMAIN Outbox[s], NEW k \in DOMAIN Outbox[s],
               {Outbox[s][j], Outbox[s][k]} \subseteq assigned[id]
        PROVE  j = k
    <3>1. IdOf(s, j) = IdOf(s, k)
      BY <2>2 DEF IdsFollow
    <3>2. DOMAIN Outbox[s] = 1..Len(Outbox[s])
      BY LinkAssumption, LenProperties
    <3> QED
      BY <3>1, <3>2, IdsDiffer
  <2> QED
    BY <2>1, <2>2 DEF StationIdsDistinct
<1> QED
  BY <1>1, InitIdsFollow, Invariance, NextIdsFollow, PTL DEF Spec

-----------------------------------------------------------------------------
(* Retransmission hides losses.  What went on the air is still there, was  *)
(* lost, or reached the receiver, and of each fragment few copies are lost. *)

\* The copy r of the k-th fragment of p, as it goes on the air.
FrameOf(p, id, k, r) == [chunk |-> FragmentOf(p, id, k), copy |-> r]

\* The k-th fragment of a packet exists.
IsPart(p, k) == k \in Nat \ {0} /\ (k - 1) * MaxPacketSize < Size[p]

\* The receiving process has got what the fragment carries.
Known(c) ==
  \/ c.payload_id \in completed_packets
  \/ \E i \in 1..Len(packets[c.payload_id]) :
       packets[c.payload_id][i].chunk_id = c.chunk_id

\* The station has transmitted copy r of the j-th fragment of its k-th packet.
Transmitted(s, k, j, r) ==
  \/ k < position[s]
  \/ /\ k = position[s]
     /\ phase[s] # "idle"
     /\ \/ r < loop[s].retransmit
        \/ r = loop[s].retransmit /\ j < loop[s].chunk_id

Accounted(p, id, j, r) ==
  FrameOf(p, id, j, r) \in air \cup lost \/ Known(FragmentOf(p, id, j))

\* Nothing that was transmitted has vanished, before the receiver restarts.
EveryCopyWent ==
  restarts = 0 =>
    \A s \in Stations : \A k \in DOMAIN Outbox[s] : \A id \in PayloadIds :
      Outbox[s][k] \in assigned[id] =>
        \A j \in Nat \ {0}, r \in 1..RetransmitCount[s] :
          IsPart(Outbox[s][k], j) /\ Transmitted(s, k, j, r)
            => Accounted(Outbox[s][k], id, j, r)

\* The copies of a fragment that were lost.
Losses(c) == {g \in lost : g.chunk = c}

LossesBounded ==
  \A c \in Chunk : IsFiniteSet(Losses(c)) /\ Cardinality(Losses(c)) <= MaxLosses

\* Every packet a station has come to has a payload id.
ReachedWereAssigned ==
  \A s \in Stations : \A k \in DOMAIN Outbox[s] :
    k < position[s] \/ (k = position[s] /\ phase[s] # "idle")
      => \E id \in PayloadIds : Outbox[s][k] \in assigned[id]

\* A packet whose payload id is completed was handed over.
CompletedWereReturned ==
  \A id \in completed_packets : \A p \in assigned[id] : returned[p] > 0

ReliableInv == EveryCopyWent /\ LossesBounded /\ ReachedWereAssigned /\ CompletedWereReturned

LEMMA FragmentFields ==
  ASSUME NEW p, NEW id, NEW k, NEW c, c = FragmentOf(p, id, k)
  PROVE  c.payload_id = id /\ c.chunk_id = k
BY DEF FragmentOf

\* A genuine fragment is well formed.
LEMMA GenuineIsWellFormed ==
  ASSUME NEW c, Genuine(c)
  PROVE  ~Malformed(c)
<1>1. PICK p \in assigned[c.payload_id], k \in Nat \ {0} : c = FragmentOf(p, c.payload_id, k)
  BY DEF Genuine
<1>2. c.has = (IF k = 1 THEN Fields ELSE Fields \ {"total_payload_size"}) /\ c.chunk_id = k
  BY <1>1 DEF FragmentOf
<1> QED
  BY <1>2 DEF Malformed, Fields

\* Hold keeps what the tracker held and adds the new fragment.
LEMMA HoldKeeps ==
  ASSUME IInv, NEW c \in Chunk, Hold(c)
  PROVE  /\ \E i \in 1..Len(packets'[c.payload_id]) : packets'[c.payload_id][i] = c
         /\ \A j \in 1..Len(packets[c.payload_id]) :
              \E i \in 1..Len(packets'[c.payload_id]) :
                packets'[c.payload_id][i] = packets[c.payload_id][j]
<1>1. PICK old : old = packets[c.payload_id]
  OBVIOUS
<1>2. PICK t : t = SortedInsert(old, c)
  OBVIOUS
<1>3. /\ c.payload_id \in PayloadIds
      /\ packets \in [PayloadIds -> Seq(Chunk)]
  BY ChunkFields DEF IInv, TypeOK, ReceiverTypeOK
<1>4. /\ packets' = [packets EXCEPT ![c.payload_id] = t]
      /\ ~Ignored(c)
  BY <1>1, <1>2 DEF Hold
<1>5. /\ old \in Seq(Chunk)
      /\ \A i, j \in 1..Len(old) : i < j => Before(old[i], old[j])
      /\ \A i \in 1..Len(old) : old[i].chunk_id # c.chunk_id
  <2>1. old \in Seq(Chunk) /\ DOMAIN old = 1..Len(old)
    BY <1>1, <1>3, LenProperties
  <2> QED
    BY <1>1, <1>3, <1>4, <2>1 DEF IInv, TrackersSorted, Ignored
<1>6. LET u == SortedInsert(old, c)
      IN  /\ u \in Seq(Chunk)
          /\ Len(u) = Len(old) + 1
          /\ \A i, j \in 1..Len(u) : i < j => Before(u[i], u[j])
          /\ \A i \in 1..Len(u) :
               u[i] = c \/ \E j \in 1..Len(old) : u[i] = old[j]
          /\ \E i \in 1..Len(u) : u[i] = c
          /\ \A j \in 1..Len(old) : \E i \in 1..Len(u) : u[i] = old[j]
  BY <1>5, FragmentInserted
<1>7. /\ \E i \in 1..Len(t) : t[i] = c
      /\ \A j \in 1..Len(old) : \E i \in 1..Len(t) : t[i] = old[j]
  BY ONLY <1>2, <1>6, Zenon
<1>8. packets'[c.payload_id] = t
  BY <1>3, <1>4
<1> QED
  BY <1>1, <1>7, <1>8

\* What the receiving process knows it does not forget, and after it heard a
\* fragment it knows it.
LEMMA HearingTeaches ==
  ASSUME IInv, NoCollision, NEW f \in air, Hear(f)
  PROVE  /\ \A d : d.payload_id \in PayloadIds /\ Known(d) => Known(d)'
         /\ Genuine(f.chunk) => Known(f.chunk)'
<1>1. PICK c : c = f.chunk
  OBVIOUS
<1>2. /\ c \in Chunk
      /\ \/ Ignore(c)
         \/ Genuine(c) /\ Hold(c)
         \/ Complete(c)
  BY <1>1, HearCases
<1>3. c.payload_id \in PayloadIds /\ packets \in [PayloadIds -> Seq(Chunk)]
  BY <1>2, ChunkFields DEF IInv, TypeOK, ReceiverTypeOK
<1>4. CASE Ignore(c)
  <2>1. UNCHANGED <<packets, completed_packets>> /\ Ignored(c)
    BY <1>4 DEF Ignore, receiverVars
  <2>2. ASSUME Genuine(c) PROVE Known(c)
    <3>1. ~Malformed(c)
      BY <2>2, GenuineIsWellFormed
    <3>2. DOMAIN packets[c.payload_id] = 1..Len(packets[c.payload_id])
      BY <1>3, LenProperties
    <3> QED
      BY <2>1, <3>1, <3>2 DEF Ignored, Known
  <2> QED
    BY <1>1, <2>1, <2>2 DEF Known
<1>5. CASE Hold(c)
  <2>1. /\ completed_packets' = completed_packets
        /\ \A id \in PayloadIds : id # c.payload_id => packets'[id] = packets[id]
    BY <1>3, <1>5 DEF Hold
  <2>2. Known(c)'
    BY <1>2, <1>5, HoldKeeps DEF Known
  <2>3. ASSUME NEW d, d.payload_id \in PayloadIds, Known(d) PROVE Known(d)'
    <3>1. CASE d.payload_id # c.payload_id \/ d.payload_id \in completed_packets
      BY <2>1, <2>3, <3>1 DEF Known
    <3>2. CASE d.payload_id = c.payload_id /\ d.payload_id \notin completed_packets
      <4>1. PICK j \in 1..Len(packets[c.payload_id]) :
              packets[c.payload_id][j].chunk_id = d.chunk_id
        BY <2>3, <3>2 DEF Known
      <4>2. PICK i \in 1..Len(packets'[c.payload_id]) :
              packets'[c.payload_id][i] = packets[c.payload_id][j]
        BY <1>2, <1>5, HoldKeeps
      <4> QED
        BY <3>2, <4>1, <4>2 DEF Known
    <3> QED
      BY <3>1, <3>2
  <2> QED
    BY <1>1, <2>2, <2>3
<1>6. CASE Complete(c)
  <2>1. /\ completed_packets' = completed_packets \cup {c.payload_id}
        /\ \A id \in PayloadIds : id # c.payload_id => packets'[id] = packets[id]
    BY <1>3, <1>6 DEF Complete
  <2> QED
    BY <1>1, <2>1 DEF Known
<1> QED
  BY <1>2, <1>4, <1>5, <1>6

\* The channel loses no more than its share of the copies of a fragment.
LEMMA NextLossesBounded ==
  IInv /\ LossesBounded /\ [Next]_vars => LossesBounded'
<1> SUFFICES ASSUME IInv, LossesBounded, [Next]_vars PROVE LossesBounded'
  OBVIOUS
<1>1. CASE lost' = lost
  BY <1>1 DEF LossesBounded, Losses
<1>2. ASSUME NEW f \in air, Lose(f) PROVE LossesBounded'
  <2>1. /\ Cardinality(Losses(f.chunk)) < MaxLosses
        /\ lost' = lost \cup {f}
    BY <1>2 DEF Lose, Losses
  <2> SUFFICES ASSUME NEW c \in Chunk
               PROVE  IsFiniteSet(Losses(c)') /\ Cardinality(Losses(c)') <= MaxLosses
    BY DEF LossesBounded
  <2>2. IsFiniteSet(Losses(c)) /\ Cardinality(Losses(c)) <= MaxLosses
    BY DEF LossesBounded
  <2>3. Cardinality(Losses(c)) \in Nat /\ MaxLosses \in Nat
    BY <2>2, FS_CardinalityType, LinkAssumption
  <2>4. CASE f.chunk = c
    <3>1. Losses(c)' = Losses(c) \cup {f}
      BY <2>1, <2>4 DEF Losses
    <3>2. /\ IsFiniteSet(Losses(c) \cup {f})
          /\ Cardinality(Losses(c) \cup {f}) =
               IF f \in Losses(c) THEN Cardinality(Losses(c)) ELSE Cardinality(Losses(c)) + 1
      BY <2>2, FS_AddElement
    <3>3. Cardinality(Losses(c)) < MaxLosses
      BY <2>1, <2>4
    <3> QED
      BY <2>3, <3>1, <3>2, <3>3
  <2>5. CASE f.chunk # c
    <3>1. Losses(c)' = Losses(c)
      BY <2>1, <2>5 DEF Losses
    <3> QED
      BY <2>2, <3>1
  <2> QED
    BY <2>4, <2>5
<1>3. CASE ~(\E f \in air : Lose(f))
  BY <1>1, <1>3 DEF Next, StationStep, StartBroadcast, TransmitPiece, TransmitLastPiece,
                    FinishBroadcast, TransmitFails, Transmit, Listen, Hear,
                    RestartReceiver, vars, channelVars
<1> QED
  BY <1>2, <1>3

LEMMA NextReachedWereAssigned ==
  IInv /\ ReachedWereAssigned /\ [Next]_vars => ReachedWereAssigned'
<1> SUFFICES ASSUME IInv, ReachedWereAssigned, [Next]_vars,
                    NEW t \in Stations, NEW k \in DOMAIN Outbox[t],
                    k < position'[t] \/ (k = position'[t] /\ phase'[t] # "idle")
             PROVE  \E id \in PayloadIds : Outbox[t][k] \in assigned'[id]
  BY DEF ReachedWereAssigned
<1>1. \A id \in PayloadIds : assigned[id] \subseteq assigned'[id]
  BY AssignedGrows
<1>2. /\ position \in [Stations -> Nat \ {0}]
      /\ phase \in [Stations -> {"idle", "sending", "failed"}]
      /\ k \in Nat
  BY LinkAssumption, LenProperties DEF IInv, TypeOK
<1>3. CASE k < position[t] \/ (k = position[t] /\ phase[t] # "idle")
  BY <1>1, <1>3 DEF ReachedWereAssigned
<1>4. CASE UNCHANGED <<position, phase>>
  BY <1>3, <1>4
<1>5. ASSUME NEW s \in Stations, StartBroadcast(s)
      PROVE  \E id \in PayloadIds : Outbox[t][k] \in assigned'[id]
  <2>1. PICK id : id = NextId(next_payload_id[s], IdSpace)
    OBVIOUS
  <2>2. id \in PayloadIds
    <3>1. next_payload_id[s] \in 0..(IdSpace - 1)
      BY LinkAssumption DEF IInv, TypeOK
    <3>2. IdSpace \in Nat \ {0, 1} /\ PayloadIds = 0..(IdSpace - 1)
      BY LinkAssumption
    <3>3. NextId(next_payload_id[s], IdSpace) \in 1..(IdSpace - 1)
      BY <3>1, <3>2, NextIdIsAnId
    <3> QED
      BY <2>1, <3>2, <3>3
  <2>3. /\ phase[s] = "idle"
        /\ assigned' = [assigned EXCEPT ![id] = @ \cup {Outbox[s][position[s]]}]
        /\ \/ phase' = [phase EXCEPT ![s] = "sending"] /\ position' = position
           \/ phase' = phase /\ position' = [position EXCEPT ![s] = @ + 1]
    BY <1>5, <2>1 DEF StartBroadcast, Current
  <2>4. CASE t = s /\ k = position[s]
    <3>1. assigned'[id] = assigned[id] \cup {Outbox[s][position[s]]}
      BY <2>2, <2>3, AssignedGrows
    <3> QED
      BY <2>2, <2>4, <3>1
  <2>5. CASE ~(t = s /\ k = position[s])
    <3>1. k < position[t] \/ (k = position[t] /\ phase[t] # "idle")
      BY <1>2, <2>3, <2>5
    <3> QED
      BY <1>3, <3>1
  <2> QED
    BY <2>4, <2>5
<1>6. ASSUME NEW s \in Stations, FinishBroadcast(s) \/ TransmitFails(s)
      PROVE  k < position[t] \/ (k = position[t] /\ phase[t] # "idle")
  <2>1. /\ phase[s] = "sending"
        /\ \/ phase' = [phase EXCEPT ![s] = "idle"] /\ position' = [position EXCEPT ![s] = @ + 1]
           \/ phase' = [phase EXCEPT ![s] = "failed"] /\ position' = position
    BY <1>6 DEF FinishBroadcast, Transmit, TransmitFails
  <2>2. CASE t = s
    BY <1>2, <2>1, <2>2
  <2>3. CASE t # s
    BY <1>2, <2>1, <2>3
  <2> QED
    BY <2>2, <2>3
<1>7. ASSUME NEW s \in Stations, TransmitPiece(s) \/ TransmitLastPiece(s)
      PROVE  UNCHANGED <<position, phase>>
  BY <1>7 DEF TransmitPiece, TransmitLastPiece
<1>8. ASSUME NEW f \in air, Hear(f) \/ Lose(f)
      PROVE  UNCHANGED <<position, phase>>
  BY <1>8 DEF Hear, Lose, senderVars
<1>9. CASE RestartReceiver \/ UNCHANGED vars
  BY <1>4, <1>9 DEF RestartReceiver, vars, senderVars
<1> QED
  BY <1>3, <1>4, <1>5, <1>6, <1>7, <1>8, <1>9 DEF Next, StationStep, Listen

\* No packet is given the id of a completed one, and the fragment that
\* completes an id hands its packet over.
LEMMA NextCompletedWereReturned ==
  /\ IInv /\ NoCollision /\ NoCollision' /\ CompletedWereAssigned
  /\ CompletedWereReturned /\ [Next]_vars
  => CompletedWereReturned'
<1> SUFFICES ASSUME IInv, NoCollision, NoCollision', CompletedWereAssigned,
                    CompletedWereReturned, [Next]_vars
             PROVE  CompletedWereReturned'
  OBVIOUS
<1>1. /\ completed_packets \subseteq PayloadIds
      /\ assigned \in [PayloadIds -> SUBSET Packet]
      /\ returned \in [Packet \cup {Garbled} -> Nat]
  BY DEF IInv, TypeOK, ReceiverTypeOK
<1>2. CASE UNCHANGED <<completed_packets, assigned, returned>>
  BY <1>2 DEF CompletedWereReturned
<1>3. ASSUME NEW s \in Stations, StationStep(s) PROVE CompletedWereReturned'
  <2>1. UNCHANGED <<completed_packets, returned>>
    BY <1>3 DEF StationStep, StartBroadcast, TransmitPiece, TransmitLastPiece,
                FinishBroadcast, TransmitFails, Transmit, receiverVars
  <2>2. ASSUME NEW id \in PayloadIds, NEW p \in Packet,
               \A i \in PayloadIds : p \notin assigned[i],
               assigned' = [assigned EXCEPT ![id] = @ \cup {p}]
        PROVE  CompletedWereReturned'
    <3>1. CASE id \in completed_packets
      <4>1. PICK q \in assigned[id] : TRUE
        BY <3>1 DEF CompletedWereAssigned
      <4>2. q \in assigned'[id] /\ p \in assigned'[id]
        BY <1>1, <2>2, <4>1
      <4>3. q = p
        BY <4>2 DEF NoCollision
      <4> QED
        BY <2>2, <4>1, <4>3
    <3>2. CASE id \notin completed_packets
      <4>1. \A i \in completed_packets : assigned'[i] = assigned[i]
        BY <1>1, <2>2, <3>2
      <4> QED
        BY <2>1, <4>1 DEF CompletedWereReturned
    <3> QED
      BY <3>1, <3>2
  <2> QED
    BY <1>2, <1>3, <2>1, <2>2, StationOutcome
<1>4. ASSUME NEW f \in air, Hear(f) PROVE CompletedWereReturned'
  <2>1. PICK c : c = f.chunk
    OBVIOUS
  <2>2. /\ assigned' = assigned
        /\ c \in Chunk
        /\ \/ Ignore(c)
           \/ Genuine(c) /\ Hold(c)
           \/ /\ Genuine(c) /\ Complete(c)
              /\ \E p \in assigned[c.payload_id] :
                   /\ p \in Packet
                   /\ returned[p] = 0
                   /\ returned' = [returned EXCEPT ![p] = 1]
    BY <1>4, <2>1, HearCases
  <2>3. CASE Ignore(c) \/ Hold(c)
    BY <1>2, <2>2, <2>3 DEF Ignore, Hold, receiverVars
  <2>4. ASSUME Complete(c), NEW p \in assigned[c.payload_id], p \in Packet,
               returned' = [returned EXCEPT ![p] = 1]
        PROVE  CompletedWereReturned'
    <3>1. completed_packets' = completed_packets \cup {c.payload_id}
      BY <2>4 DEF Complete
    <3>2. c.payload_id \in PayloadIds
      BY <2>2, ChunkFields
    <3>3. \A q \in Packet : returned[q] > 0 \/ q = p => returned'[q] > 0
      BY <1>1, <2>4
    <3>4. \A q \in assigned[c.payload_id] : q = p
      BY <2>4, <3>2 DEF NoCollision
    <3> QED
      BY <1>1, <2>2, <3>1, <3>2, <3>3, <3>4 DEF CompletedWereReturned
  <2> QED
    BY <2>2, <2>3, <2>4
<1>5. ASSUME NEW f \in air, Lose(f) PROVE CompletedWereReturned'
  BY <1>2, <1>5 DEF Lose, receiverVars, senderVars
<1>6. CASE RestartReceiver
  BY <1>6 DEF RestartReceiver, CompletedWereReturned
<1>7. CASE UNCHANGED vars
  BY <1>2, <1>7 DEF vars, receiverVars, senderVars
<1> QED
  BY <1>3, <1>4, <1>5, <1>6, <1>7 DEF Next, Listen

-----------------------------------------------------------------------------
(* Steps and EveryCopyWent.                                                *)

\* The fragment that ends the inner loop is the last of its packet.
LEMMA LastPieceIsLast ==
  ASSUME IInv, NEW s \in Stations, phase[s] # "idle",
         NextOffset(s) = Size[Current(s)], NEW j, IsPart(Current(s), j)
  PROVE  j <= loop[s].chunk_id
<1> DEFINE n == Size[Current(s)]
           o == loop[s].offset
           k == loop[s].chunk_id
           end == k * MaxPacketSize
           start == (j - 1) * MaxPacketSize
<1>1. /\ n \in Nat /\ o \in Nat /\ k \in Nat \ {0} /\ j \in Nat \ {0}
      /\ MaxPacketSize \in Nat \ {0}
      /\ o = (k - 1) * MaxPacketSize
  BY NextChunkIsFragment, LinkAssumption DEF IInv, TypeOK, StationsInsidePacket, IsPart
<1>2. end = o + MaxPacketSize /\ end \in Nat /\ start \in Nat
  BY <1>1
<1>3. o + PieceLength(n, o, MaxPacketSize) = n
  BY DEF NextOffset
<1>4. start < n
  BY DEF IsPart
<1>5. k < j => end <= start
  BY <1>1, FragmentsApart
<1> HIDE DEF n, o, k, end, start
<1>6. n <= end
  BY <1>1, <1>2, <1>3 DEF PieceLength
<1> QED
  BY <1>1, <1>2, <1>4, <1>5, <1>6 DEF k

\* A transmission adds one copy of one fragment to those transmitted.
LEMMA TransmittedGrows ==
  ASSUME IInv, NEW s \in Stations,
         TransmitPiece(s) \/ TransmitLastPiece(s) \/ FinishBroadcast(s),
         NEW k \in DOMAIN Outbox[s], NEW j, IsPart(Outbox[s][k], j),
         NEW r \in 1..RetransmitCount[s], Transmitted(s, k, j, r)'
  PROVE  \/ Transmitted(s, k, j, r)
         \/ k = position[s] /\ j = loop[s].chunk_id /\ r = loop[s].retransmit
<1>0. /\ k \in Nat /\ j \in Nat \ {0} /\ r \in Nat \ {0}
      /\ RetransmitCount[s] \in Nat
  <2>1. RetransmitCount[s] \in Nat /\ Outbox[s] \in Seq(Packet)
    BY LinkAssumption
  <2>2. DOMAIN Outbox[s] = 1..Len(Outbox[s]) /\ Len(Outbox[s]) \in Nat
    BY <2>1, LenProperties
  <2> QED
    BY <2>1, <2>2 DEF IsPart
<1>1. /\ phase[s] = "sending"
      /\ position \in [Stations -> Nat \ {0}]
      /\ phase \in [Stations -> {"idle", "sending", "failed"}]
      /\ loop \in [Stations -> [payload_id : PayloadIds, retransmit : Nat \ {0},
                                chunk_id : Nat \ {0}, offset : Nat]]
  BY DEF IInv, TypeOK, TransmitPiece, TransmitLastPiece, FinishBroadcast, Transmit
<1>2. PICK c, q : c = loop[s].chunk_id /\ q = loop[s].retransmit
  OBVIOUS
<1>3. c \in Nat \ {0} /\ q \in Nat \ {0}
  BY <1>0, <1>1, <1>2
<1>4. Transmitted(s, k, j, r) <=>
        k < position[s] \/ (k = position[s] /\ (r < q \/ (r = q /\ j < c)))
  BY <1>0, <1>1, <1>2 DEF Transmitted
<1>5. k = position[s] => Outbox[s][k] = Current(s)
  BY DEF Current
<1>6. CASE TransmitPiece(s)
  <2>1. /\ position'[s] = position[s] /\ phase'[s] = "sending"
        /\ loop'[s].chunk_id = c + 1 /\ loop'[s].retransmit = q
    BY <1>0, <1>1, <1>2, <1>6 DEF TransmitPiece
  <2>2. k < position[s] \/ (k = position[s] /\ (r < q \/ (r = q /\ j < c + 1)))
    BY <2>1 DEF Transmitted
  <2> QED
    BY <1>0, <1>1, <1>2, <1>3, <1>4, <2>2
<1>7. CASE TransmitLastPiece(s)
  <2>1. /\ position'[s] = position[s] /\ phase'[s] = "sending"
        /\ loop'[s].chunk_id = 1 /\ loop'[s].retransmit = q + 1
        /\ NextOffset(s) = Size[Current(s)]
    BY <1>0, <1>1, <1>2, <1>7 DEF TransmitLastPiece
  <2>2. k < position[s] \/ (k = position[s] /\ (r < q + 1 \/ (r = q + 1 /\ j < 1)))
    BY <2>1 DEF Transmitted
  <2>3. k = position[s] => j <= c
    BY <1>0, <1>1, <1>2, <1>5, <2>1, LastPieceIsLast
  <2> QED
    BY <1>0, <1>1, <1>2, <1>3, <1>4, <2>2, <2>3
<1>8. CASE FinishBroadcast(s)
  <2>1. /\ position'[s] = position[s] + 1 /\ phase'[s] = "idle"
        /\ q = RetransmitCount[s]
        /\ NextOffset(s) = Size[Current(s)]
    BY <1>0, <1>1, <1>2, <1>8 DEF FinishBroadcast
  <2>2. k < position[s] + 1
    BY <2>1 DEF Transmitted
  <2>3. k = position[s] => j <= c
    BY <1>0, <1>1, <1>2, <1>5, <2>1, LastPieceIsLast
  <2>4. r <= q
    BY <1>0, <1>1, <2>1
  <2>5. CASE k < position[s]
    BY <1>4, <2>5
  <2>6. CASE k = position[s]
    <3>1. r < q \/ (r = q /\ j < c) \/ (r = q /\ j = c)
      BY <1>0, <1>3, <2>3, <2>4, <2>6
    <3> QED
      BY <1>2, <1>4, <2>6, <3>1
  <2>7. position[s] \in Nat
    BY <1>1
  <2> QED
    BY <1>0, <2>2, <2>5, <2>6, <2>7
<1> QED
  BY <1>6, <1>7, <1>8

\* A broadcast that starts has transmitted nothing yet.
LEMMA NothingTransmittedAtStart ==
  ASSUME IInv, NEW s \in Stations, StartBroadcast(s),
         NEW t \in Stations, NEW k \in DOMAIN Outbox[t], NEW j \in Nat \ {0},
         NEW r \in 1..RetransmitCount[t], Transmitted(t, k, j, r)'
  PROVE  Transmitted(t, k, j, r) /\ ~(t = s /\ k = position[s])
<1>0. k \in Nat /\ r \in Nat \ {0} /\ RetransmitCount[t] \in Nat
  <2>1. RetransmitCount[t] \in Nat /\ Outbox[t] \in Seq(Packet)
    BY LinkAssumption
  <2>2. DOMAIN Outbox[t] = 1..Len(Outbox[t]) /\ Len(Outbox[t]) \in Nat
    BY <2>1, LenProperties
  <2> QED
    BY <2>1, <2>2
<1>1. /\ phase[s] = "idle"
      /\ position \in [Stations -> Nat \ {0}]
      /\ phase \in [Stations -> {"idle", "sending", "failed"}]
      /\ loop \in [Stations -> [payload_id : PayloadIds, retransmit : Nat \ {0},
                                chunk_id : Nat \ {0}, offset : Nat]]
  BY DEF IInv, TypeOK, StartBroadcast
<1>2. PICK id : id = NextId(next_payload_id[s], IdSpace)
  OBVIOUS
<1>3. \/ /\ phase' = [phase EXCEPT ![s] = "sending"]
         /\ loop' = [loop EXCEPT ![s] = LoopStart(id)]
         /\ position' = position
      \/ /\ RetransmitCount[s] = 0
         /\ position' = [position EXCEPT ![s] = @ + 1]
         /\ phase' = phase /\ loop' = loop
  BY <1>2 DEF StartBroadcast
<1>4. CASE t # s
  <2>1. position'[t] = position[t] /\ phase'[t] = phase[t] /\ loop'[t] = loop[t]
    BY <1>0, <1>1, <1>3, <1>4
  <2> QED
    BY <1>4, <2>1 DEF Transmitted
<1>5. CASE t = s
  <2>1. ~(RetransmitCount[s] = 0)
    BY <1>0, <1>1, <1>5
  <2>2. /\ position'[s] = position[s] /\ phase'[s] = "sending"
        /\ loop'[s].retransmit = 1 /\ loop'[s].chunk_id = 1
    BY <1>0, <1>1, <1>3, <2>1 DEF LoopStart
  <2>3. k < position[s] \/ (k = position[s] /\ (r < 1 \/ (r = 1 /\ j < 1)))
    BY <1>5, <2>2 DEF Transmitted
  <2>4. k < position[s]
    BY <1>0, <1>1, <2>3
  <2> QED
    BY <1>0, <1>1, <1>5, <2>4 DEF Transmitted
<1> QED
  BY <1>4, <1>5

LEMMA StationCopies ==
  ASSUME IInv, EveryCopyWent, NEW s \in Stations, StationStep(s)
  PROVE  EveryCopyWent'
<1> SUFFICES ASSUME restarts' = 0,
                    NEW t \in Stations, NEW k \in DOMAIN Outbox[t], NEW id \in PayloadIds,
                    Outbox[t][k] \in assigned'[id],
                    NEW j \in Nat \ {0}, NEW r \in 1..RetransmitCount[t],
                    IsPart(Outbox[t][k], j), Transmitted(t, k, j, r)'
             PROVE  Accounted(Outbox[t][k], id, j, r)'
  BY DEF EveryCopyWent, IsPart
<1>1. /\ UNCHANGED <<packets, completed_packets, restarts, lost>>
      /\ air \subseteq air'
  BY DEF StationStep, StartBroadcast, TransmitPiece, TransmitLastPiece,
         FinishBroadcast, TransmitFails, Transmit, receiverVars, channelVars
<1>2. ASSUME Outbox[t][k] \in assigned[id], Transmitted(t, k, j, r)
      PROVE  Accounted(Outbox[t][k], id, j, r)'
  <2>1. Accounted(Outbox[t][k], id, j, r)
    BY <1>1, <1>2 DEF EveryCopyWent
  <2> QED
    BY <1>1, <2>1 DEF Accounted, Known, FrameOf, FragmentOf
<1>3. CASE StartBroadcast(s)
  <2>1. Transmitted(t, k, j, r) /\ ~(t = s /\ k = position[s])
    BY <1>3, NothingTransmittedAtStart
  <2>2. /\ assigned' = [assigned EXCEPT ![NextId(next_payload_id[s], IdSpace)] = @ \cup {Outbox[s][position[s]]}]
        /\ position[s] \in DOMAIN Outbox[s]
        /\ assigned \in [PayloadIds -> SUBSET Packet]
    BY <1>3 DEF StartBroadcast, Current, IInv, TypeOK
  <2>3. Outbox[t][k] # Outbox[s][position[s]]
    BY <2>1, <2>2, OutboxAssumption
  <2>4. Outbox[t][k] \in assigned[id]
    BY <2>2, <2>3
  <2> QED
    BY <1>2, <2>1, <2>4
<1>4. CASE TransmitPiece(s) \/ TransmitLastPiece(s) \/ FinishBroadcast(s)
  <2>1. /\ phase[s] = "sending"
        /\ assigned' = assigned
        /\ air' = air \cup {[chunk |-> NextChunk(s), copy |-> loop[s].retransmit]}
        /\ \A u \in Stations : u # s =>
             position'[u] = position[u] /\ phase'[u] = phase[u] /\ loop'[u] = loop[u]
    BY <1>4 DEF TransmitPiece, TransmitLastPiece, FinishBroadcast, Transmit, IInv, TypeOK
  <2>2. CASE t # s
    <3>1. Transmitted(t, k, j, r)
      BY <2>1, <2>2 DEF Transmitted
    <3> QED
      BY <1>2, <2>1, <3>1
  <2>3. CASE t = s /\ Transmitted(t, k, j, r)
    BY <1>2, <2>1, <2>3
  <2>4. CASE t = s /\ k = position[s] /\ j = loop[s].chunk_id /\ r = loop[s].retransmit
    <3>1. /\ Outbox[t][k] = Current(s)
          /\ NextChunk(s) = FragmentOf(Current(s), loop[s].payload_id, loop[s].chunk_id)
          /\ Current(s) \in assigned[loop[s].payload_id]
          /\ loop[s].payload_id \in PayloadIds
      BY <2>1, <2>4, NextChunkIsFragment DEF IInv, TypeOK, StationsInsidePacket, Current
    <3>2. id = loop[s].payload_id
      BY <2>1, <3>1 DEF IInv, AssignedOnce
    <3>3. FrameOf(Outbox[t][k], id, j, r) \in air'
      BY <2>1, <2>4, <3>1, <3>2 DEF FrameOf
    <3> QED
      BY <3>3 DEF Accounted, FrameOf, FragmentOf
  <2> QED
    BY <1>4, <2>2, <2>3, <2>4, TransmittedGrows
<1>5. CASE TransmitFails(s)
  <2>1. /\ assigned' = assigned /\ position' = position /\ loop' = loop
        /\ phase[s] = "sending" /\ phase' = [phase EXCEPT ![s] = "failed"]
        /\ phase \in [Stations -> {"idle", "sending", "failed"}]
    BY <1>5 DEF TransmitFails, IInv, TypeOK
  <2>2. Transmitted(t, k, j, r)
    BY <2>1 DEF Transmitted
  <2> QED
    BY <1>2, <2>1, <2>2
<1> QED
  BY <1>3, <1>4, <1>5 DEF StationStep

\* A frame that leaves the air was heard or lost.
LEMMA ChannelCopies ==
  ASSUME IInv, NoCollision, EveryCopyWent, NEW f \in air, Hear(f) \/ Lose(f)
  PROVE  EveryCopyWent'
<1>1. UNCHANGED senderVars /\ restarts' = restarts
  BY DEF Hear, Lose
<1> SUFFICES ASSUME restarts = 0,
                    NEW t \in Stations, NEW k \in DOMAIN Outbox[t], NEW id \in PayloadIds,
                    Outbox[t][k] \in assigned[id],
                    NEW j \in Nat \ {0}, NEW r \in 1..RetransmitCount[t],
                    IsPart(Outbox[t][k], j), Transmitted(t, k, j, r)
             PROVE  Accounted(Outbox[t][k], id, j, r)'
  BY <1>1 DEF EveryCopyWent, IsPart, Transmitted, senderVars
<1>2. PICK g, c : g = FrameOf(Outbox[t][k], id, j, r) /\ c = FragmentOf(Outbox[t][k], id, j)
  OBVIOUS
<1>3. g \in air \cup lost \/ Known(c)
  BY <1>2 DEF EveryCopyWent, Accounted
<1>4. Accounted(Outbox[t][k], id, j, r)' <=> g \in air' \cup lost' \/ Known(c)'
  BY <1>2 DEF Accounted, Known, FrameOf, FragmentOf
<1>5. g.chunk = c /\ c.payload_id = id
  BY <1>2 DEF FrameOf, FragmentOf
<1>6. Genuine(c)
  BY <1>2, <1>5 DEF Genuine, IsPart
<1>7. CASE Hear(f)
  <2>1. air \ {f} \subseteq air' /\ lost' = lost
    BY <1>7 DEF Hear
  <2>2. Known(c) => Known(c)'
    BY <1>5, <1>7, HearingTeaches
  <2>3. g = f => Known(c)'
    BY <1>5, <1>6, <1>7, HearingTeaches
  <2> QED
    BY <1>3, <1>4, <2>1, <2>2, <2>3
<1>8. CASE Lose(f)
  <2>1. /\ air' = air \ {f} /\ lost' = lost \cup {f}
        /\ packets' = packets /\ completed_packets' = completed_packets
    BY <1>8 DEF Lose, receiverVars
  <2>2. Known(c) => Known(c)'
    BY <2>1 DEF Known
  <2> QED
    BY <1>3, <1>4, <2>1, <2>2
<1> QED
  BY <1>7, <1>8

LEMMA NextEveryCopyWent ==
  IInv /\ NoCollision /\ EveryCopyWent /\ [Next]_vars => EveryCopyWent'
<1> SUFFICES ASSUME IInv, NoCollision, EveryCopyWent, [Next]_vars
             PROVE  EveryCopyWent'
  OBVIOUS
<1>1. CASE RestartReceiver
  <2>1. restarts' # 0
    BY <1>1 DEF RestartReceiver, IInv, TypeOK
  <2> QED
    BY <2>1 DEF EveryCopyWent
<1>2. CASE UNCHANGED vars
  BY <1>2 DEF vars, receiverVars, senderVars, channelVars, EveryCopyWent,
              Accounted, Transmitted, Known, FrameOf, FragmentOf
<1> QED
  BY <1>1, <1>2, StationCopies, ChannelCopies DEF Next, Listen

-----------------------------------------------------------------------------
(* What follows once the air is silent.                                    *)

\* A silent air and fewer losses than copies: the receiver has the fragment.
LEMMA SomeCopyArrived ==
  ASSUME IInv, EveryCopyWent, LossesBounded, restarts = 0,
         NEW s \in Stations, RetransmitCount[s] > MaxLosses,
         NEW k \in DOMAIN Outbox[s], position[s] > k,
         NEW p, p = Outbox[s][k],
         \A f \in air : f.chunk.payload \cap BytesOf(p, Size[p]) = {},
         NEW id \in PayloadIds, p \in assigned[id],
         NEW j, IsPart(p, j)
  PROVE  Known(FragmentOf(p, id, j))
<1>1. PICK c : c = FragmentOf(p, id, j)
  OBVIOUS
<1>2. /\ p \in Packet /\ Size[p] \in Nat \ {0}
      /\ MaxPacketSize \in Nat \ {0} /\ MaxLosses \in Nat
      /\ j \in Nat \ {0} /\ (j - 1) * MaxPacketSize < Size[p]
      /\ RetransmitCount[s] \in Nat
      /\ assigned \in [PayloadIds -> SUBSET Packet]
  BY PacketAssumption, LinkAssumption DEF IInv, TypeOK, IsPart
<1>3. c.payload_id = id /\ c.chunk_id = j /\ Genuine(c)
  BY <1>1, <1>2 DEF FragmentOf, Genuine
<1>4. c \in Chunk
  <2>1. Piece(p, Size[p], (j - 1) * MaxPacketSize, MaxPacketSize) \in SUBSET (Packet \X Nat)
    <3>1. PICK o : o = (j - 1) * MaxPacketSize
      OBVIOUS
    <3>2. o \in Nat
      BY <1>2, <3>1
    <3>3. Piece(p, Size[p], o, MaxPacketSize) \in SUBSET (Packet \X Nat)
      BY <1>2, <3>2 DEF Piece
    <3> QED
      BY <3>1, <3>3
  <2>2. IF j = 1 THEN Size[p] \in Nat ELSE 0 \in Nat
    BY <1>2
  <2> QED
    BY <1>1, <1>2, <2>1, <2>2 DEF FragmentOf, Chunk, Fields
<1>5. \A f \in air : f.chunk # c
  <2>1. c.payload # {} /\ c.payload \subseteq BytesOf(p, Size[p])
    BY <1>1, <1>2, <1>3, <1>4, GenuineBytes, FragmentBytes
  <2> QED
    BY <2>1
<1> SUFFICES ASSUME ~Known(c) PROVE FALSE
  BY <1>1
<1>6. \A r \in 1..RetransmitCount[s] : FrameOf(p, id, j, r) \in Losses(c)
  <2> SUFFICES ASSUME NEW r \in 1..RetransmitCount[s]
               PROVE  FrameOf(p, id, j, r) \in Losses(c)
    OBVIOUS
  <2>1. Transmitted(s, k, j, r)
    BY DEF Transmitted
  <2>2. Accounted(p, id, j, r)
    BY <1>2, <2>1 DEF EveryCopyWent
  <2>3. FrameOf(p, id, j, r).chunk = c
    BY <1>1 DEF FrameOf
  <2> QED
    BY <1>1, <1>5, <2>2, <2>3 DEF Accounted, Losses
<1>7. IsFiniteSet(Losses(c)) /\ Cardinality(Losses(c)) <= MaxLosses
  BY <1>4 DEF LossesBounded
<1> DEFINE copy == [r \in 1..RetransmitCount[s] |-> FrameOf(p, id, j, r)]
<1>8. copy \in [1..RetransmitCount[s] -> Losses(c)]
  BY <1>6
<1>9. \A r, q \in 1..RetransmitCount[s] : copy[r] = copy[q] => r = q
  BY DEF FrameOf
<1> HIDE DEF copy
<1>10. /\ IsFiniteSet(1..RetransmitCount[s])
       /\ Cardinality(1..RetransmitCount[s]) = RetransmitCount[s]
  BY <1>2, FirstN
<1>11. Cardinality(Losses(c)) \in Nat
  BY <1>7, FS_CardinalityType
<1>12. Cardinality(Losses(c)) < Cardinality(1..RetransmitCount[s])
  BY <1>2, <1>7, <1>10, <1>11
<1>13. \E r, q \in 1..RetransmitCount[s] : r # q /\ copy[r] = copy[q]
  BY ONLY <1>7, <1>8, <1>10, <1>12, FS_PigeonHole, ZenonT(120)
<1> QED
  BY <1>9, <1>13

\* A tracker with every fragment of a packet is complete.
LEMMA AllKnownIsComplete ==
  ASSUME IInv, NoCollision, NEW id \in PayloadIds, NEW p \in assigned[id],
         id \notin completed_packets,
         \A j : IsPart(p, j) => Known(FragmentOf(p, id, j))
  PROVE  packets[id] # <<>> /\ IsComplete(packets[id])
<1>1. PICK t : t = packets[id]
  OBVIOUS
<1>2. /\ t \in Seq(Chunk) /\ Len(t) \in Nat /\ DOMAIN t = 1..Len(t)
      /\ assigned \in [PayloadIds -> SUBSET Packet]
  BY <1>1, LenProperties DEF IInv, TypeOK, ReceiverTypeOK
<1>3. /\ p \in Packet /\ Size[p] \in Nat \ {0} /\ MaxPacketSize \in Nat \ {0}
  BY <1>2, PacketAssumption, LinkAssumption
<1>4. \A i, j \in 1..Len(t) : i < j => t[i].chunk_id < t[j].chunk_id
  BY <1>1, <1>2 DEF IInv, TrackersSorted, Before
<1>5. \A i \in 1..Len(t) :
        /\ IsPart(p, t[i].chunk_id)
        /\ t[i] = FragmentOf(p, id, t[i].chunk_id)
  <2> SUFFICES ASSUME NEW i \in 1..Len(t)
               PROVE  /\ IsPart(p, t[i].chunk_id)
                      /\ t[i] = FragmentOf(p, id, t[i].chunk_id)
    OBVIOUS
  <2>1. Genuine(t[i]) /\ t[i].payload_id = id
    BY <1>1 DEF IInv, TrackersAreGenuine
  <2>2. PICK q \in assigned[id], k \in Nat \ {0} :
          (k - 1) * MaxPacketSize < Size[q] /\ t[i] = FragmentOf(q, id, k)
    BY <2>1 DEF Genuine
  <2>3. q = p
    BY <2>2 DEF NoCollision
  <2>4. t[i].chunk_id = k
    BY <2>2 DEF FragmentOf
  <2> QED
    BY <2>2, <2>3, <2>4 DEF IsPart
<1>6. ASSUME NEW j, IsPart(p, j)
      PROVE  \E i \in 1..Len(t) : t[i].chunk_id = j /\ t[i] = FragmentOf(p, id, j)
  <2>1. PICK c : c = FragmentOf(p, id, j)
    OBVIOUS
  <2>2. Known(c) /\ c.payload_id = id /\ c.chunk_id = j
    BY <1>6, <2>1 DEF FragmentOf
  <2>3. PICK i \in 1..Len(t) : t[i].chunk_id = j
    BY <1>1, <2>2 DEF Known
  <2> QED
    BY <1>5, <2>3
<1>7. Len(t) # 0 /\ t[1].chunk_id = 1
  <2>1. IsPart(p, 1)
    BY <1>3 DEF IsPart
  <2>2. PICK i \in 1..Len(t) : t[i].chunk_id = 1
    BY <1>6, <2>1
  <2>3. 1 \in 1..Len(t)
    BY <1>2, <2>2
  <2>4. t[1].chunk_id \in Nat \ {0}
    BY <1>5, <2>3 DEF IsPart
  <2>5. ~(1 < i)
    BY <1>4, <2>2, <2>3, <2>4
  <2> QED
    BY <1>2, <2>2, <2>5
<1>8. t[1].total_payload_size = Size[p] /\ "total_payload_size" \in t[1].has
  <2>1. t[1] = FragmentOf(p, id, 1)
    BY <1>2, <1>5, <1>7
  <2> QED
    BY <2>1 DEF FragmentOf, Fields
<1>9. PICK blocks : blocks = Blocks(t)
  OBVIOUS
<1>10. DOMAIN blocks = 1..Len(t) /\ \A i \in 1..Len(t) : blocks[i] = t[i].payload
  BY <1>2, <1>9 DEF Blocks
<1>11. \A i \in 1..Len(t) :
         /\ blocks[i] \subseteq BytesOf(p, Size[p])
         /\ \A b \in blocks[i] : /\ b[2] \in Nat
                                 /\ (t[i].chunk_id - 1) * MaxPacketSize < b[2]
                                 /\ b[2] <= t[i].chunk_id * MaxPacketSize
  <2> SUFFICES ASSUME NEW i \in 1..Len(t)
               PROVE  /\ blocks[i] \subseteq BytesOf(p, Size[p])
                      /\ \A b \in blocks[i] :
                           /\ b[2] \in Nat
                           /\ (t[i].chunk_id - 1) * MaxPacketSize < b[2]
                           /\ b[2] <= t[i].chunk_id * MaxPacketSize
    OBVIOUS
  <2>1. PICK c, k : c = t[i] /\ k = t[i].chunk_id
    OBVIOUS
  <2>2. /\ p \in Packet /\ k \in Nat \ {0} /\ (k - 1) * MaxPacketSize < Size[p]
        /\ c = FragmentOf(p, id, k)
    BY <1>3, <1>5, <2>1 DEF IsPart
  <2>3. /\ c.payload \subseteq BytesOf(p, Size[p])
        /\ \A b \in c.payload : /\ b[2] \in Nat
                                /\ (k - 1) * MaxPacketSize < b[2]
                                /\ b[2] <= k * MaxPacketSize
    BY ONLY <2>2, FragmentBytes, ZenonT(30)
  <2>4. blocks[i] = c.payload
    BY <1>10, <2>1
  <2> QED
    BY <2>1, <2>3, <2>4
<1>12. \A i, j \in 1..Len(t) :
         i < j => \A a \in blocks[i], b \in blocks[j] : a[2] < b[2]
  <2> SUFFICES ASSUME NEW i \in 1..Len(t), NEW j \in 1..Len(t), i < j,
                      NEW a \in blocks[i], NEW b \in blocks[j]
               PROVE  a[2] < b[2]
    OBVIOUS
  <2> DEFINE m == t[i].chunk_id * MaxPacketSize
             o == (t[j].chunk_id - 1) * MaxPacketSize
  <2>1. /\ t[i].chunk_id < t[j].chunk_id
        /\ t[i].chunk_id \in Nat /\ t[j].chunk_id \in Nat
    BY <1>4, <1>5 DEF IsPart
  <2>2. m <= o
    BY <2>1, FragmentsApart
  <2>3. a[2] \in Nat /\ b[2] \in Nat /\ a[2] <= m /\ o < b[2]
    BY <1>11
  <2>4. m \in Int /\ o \in Int
    BY <1>3, <2>1
  <2> HIDE DEF m, o
  <2> QED
    BY <2>2, <2>3, <2>4
<1>13. BytesOf(p, Size[p]) \subseteq UNION {blocks[i] : i \in DOMAIN blocks}
  <2> SUFFICES ASSUME NEW b \in 1..Size[p]
               PROVE  \E i \in 1..Len(t) : <<p, b>> \in blocks[i]
    BY <1>10 DEF BytesOf
  <2>1. PICK j \in Nat \ {0} : (j - 1) * MaxPacketSize < b /\ b <= j * MaxPacketSize
    <3>1. MaxPacketSize \in Nat \ {0} /\ b \in Nat \ {0}
      BY <1>3
    <3> QED
      BY ONLY <3>1, PieceOfByte, ZenonT(30)
  <2>2. PICK o : o = (j - 1) * MaxPacketSize
    OBVIOUS
  <2>3. o \in Nat /\ o < b /\ b <= o + MaxPacketSize /\ o < Size[p]
    BY <1>3, <2>1, <2>2
  <2>4. IsPart(p, j)
    BY <2>1, <2>2, <2>3 DEF IsPart
  <2>5. PICK i \in 1..Len(t) : t[i] = FragmentOf(p, id, j)
    BY <1>6, <2>4
  <2>6. blocks[i] = Piece(p, Size[p], o, MaxPacketSize)
    BY <1>10, <2>2, <2>5 DEF FragmentOf
  <2>7. blocks[i] = {p} \X ((o + 1)..(IF o + MaxPacketSize < Size[p]
                                      THEN o + MaxPacketSize ELSE Size[p]))
    BY <1>3, <2>3, <2>6, PieceBytes
  <2>8. b \in (o + 1)..(IF o + MaxPacketSize < Size[p] THEN o + MaxPacketSize ELSE Size[p])
    BY <1>3, <2>3
  <2> QED
    BY <2>7, <2>8
<1>14. UNION {blocks[i] : i \in DOMAIN blocks} \subseteq BytesOf(p, Size[p])
  BY <1>10, <1>11
<1>15. ConcatIs(blocks, p, Size[p])
  BY <1>10, <1>12, <1>13, <1>14 DEF ConcatIs
<1>16. ConcatLength(blocks) = Size[p]
  BY <1>2, <1>3, <1>10, <1>15, ConcatIsLength
<1>17. IsComplete(t)
  BY <1>8, <1>9, <1>16 DEF IsComplete
<1>18. t # <<>>
  BY <1>7
<1> QED
  BY <1>1, <1>17, <1>18

LEMMA ReliableFollows ==
  ASSUME IInv, NoCollision, ReliableInv
  PROVE  ReliableBroadcastArrives
<1> SUFFICES ASSUME NEW s \in Stations, NEW k \in DOMAIN Outbox[s],
                    RetransmitCount[s] > MaxLosses, position[s] > k, restarts = 0,
                    \A f \in air : f.chunk.payload \cap BytesOf(Outbox[s][k], Size[Outbox[s][k]]) = {}
             PROVE  returned[Outbox[s][k]] > 0
  BY DEF ReliableBroadcastArrives
<1>1. PICK p : p = Outbox[s][k]
  OBVIOUS
<1>2. k \in Nat /\ position[s] \in Nat
  BY LinkAssumption, LenProperties DEF IInv, TypeOK
<1>3. PICK id \in PayloadIds : p \in assigned[id]
  BY <1>1, <1>2 DEF ReliableInv, ReachedWereAssigned
<1>4. id \in completed_packets
  <2> SUFFICES ASSUME id \notin completed_packets PROVE FALSE
    OBVIOUS
  <2>1. \A j : IsPart(p, j) => Known(FragmentOf(p, id, j))
    BY <1>1, <1>3, SomeCopyArrived DEF ReliableInv
  <2>2. packets[id] # <<>> /\ IsComplete(packets[id])
    BY <1>3, <2>1, AllKnownIsComplete
  <2> QED
    BY <2>2 DEF IInv, NoStrandedTracker
<1> QED
  BY <1>1, <1>3, <1>4 DEF ReliableInv, CompletedWereReturned

LEMMA InitReliable == Init => ReliableInv
<1> SUFFICES ASSUME Init PROVE ReliableInv
  OBVIOUS
<1>1. EveryCopyWent
  BY DEF Init, EveryCopyWent
<1>2. \A c : Losses(c) = {}
  BY DEF Init, Losses
<1>3. LossesBounded
  <2> SUFFICES ASSUME NEW c \in Chunk
               PROVE  IsFiniteSet(Losses(c)) /\ Cardinality(Losses(c)) <= MaxLosses
    BY DEF LossesBounded
  <2>1. IsFiniteSet({}) /\ Cardinality({}) = 0
    BY FS_EmptySet
  <2>2. 0 <= MaxLosses
    BY LinkAssumption
  <2>3. Losses(c) = {}
    BY <1>2
  <2> QED
    BY ONLY <2>1, <2>2, <2>3
<1>4. ReachedWereAssigned
  BY LinkAssumption, LenProperties DEF Init, ReachedWereAssigned
<1>5. CompletedWereReturned
  BY DEF Init, ReceiverInit, CompletedWereReturned
<1> QED
  BY <1>1, <1>3, <1>4, <1>5 DEF ReliableInv

LEMMA NextReliable ==
  /\ IInv /\ NoCollision /\ NoCollision' /\ CompletedWereAssigned
  /\ ReliableInv /\ [Next]_vars
  => ReliableInv'
BY NextEveryCopyWent, NextLossesBounded, NextReachedWereAssigned,
   NextCompletedWereReturned DEF ReliableInv

\* Retransmission hides losses: a packet of which the channel lost fewer
\* copies than were sent, and of which nothing is on the air any more, was
\* delivered, however its fragments were mixed with those of others.
THEOREM RetransmissionsSuffice == Spec /\ []NoCollision => []ReliableBroadcastArrives
<1>1. IInv /\ NoCollision /\ ReliableInv => ReliableBroadcastArrives
  BY ReliableFollows
<1> QED
  BY <1>1, InitReliable, NextReliable, Invariance, CompletedWereAssignedAlways, PTL DEF Spec
=============================================================================
