-------------------------- MODULE RadioCopy_proofs --------------------------
(***************************************************************************)
(* Proofs about RadioCopy: the sender's runs, the transport over a radio   *)
(* and the receiver together implement FileCopy.                           *)
(***************************************************************************)
EXTENDS RadioCopy, BroadcastLink_proofs

-----------------------------------------------------------------------------
(* The parts of the program are those of FileCopy.                         *)

LEMMA SamePackets == Copy!PacketIds = Packet
BY RadioAssumption
DEF Copy!PacketIds, Copy!ChunkCount, Copy!FileLength, Copy!ChunkSize,
    Sender!PacketIds, Sender!ChunkCount, Sender!FileLength, Sender!ChunkSize

LEMMA SamePacketOf == ASSUME NEW p PROVE Copy!PacketOf(p) = Sender!PacketOf(p)
BY DEF Copy!PacketOf, Copy!HeaderOf, Copy!ChunkOf, Copy!FileLength, Copy!ChunkSize,
       Copy!HeaderFields, Copy!ChunkFields, Copy!Piece, Copy!PieceLength,
       Sender!PacketOf, Sender!HeaderOf, Sender!ChunkOf, Sender!FileLength, Sender!ChunkSize,
       Sender!HeaderFields, Sender!ChunkFields, Sender!Piece, Sender!PieceLength

LEMMA SameOpenWithHeader == ASSUME NEW x PROVE Receiver!OpenWithHeader(x) <=> Copy!OpenWithHeader(x)
BY Zenon DEF Copy!OpenWithHeader, Copy!FoundAt, Copy!NotFound, Copy!Stops,
       Copy!GetId, Copy!Invalid, Copy!NoHeader, Receiver!OpenWithHeader,
       Receiver!FoundAt, Receiver!NotFound, Receiver!Stops, Receiver!GetId,
       Receiver!Invalid, Receiver!NoHeader

LEMMA SameAdoptHeader == ASSUME NEW x PROVE Receiver!AdoptHeader(x) <=> Copy!AdoptHeader(x)
BY Zenon DEF Copy!AdoptHeader, Copy!FoundAt, Copy!NotFound, Copy!Stops,
       Copy!GetId, Copy!Invalid, Receiver!AdoptHeader, Receiver!FoundAt,
       Receiver!NotFound, Receiver!Stops, Receiver!GetId, Receiver!Invalid

LEMMA SameIgnoreHeader == ASSUME NEW x PROVE Receiver!IgnoreHeader(x) <=> Copy!IgnoreHeader(x)
BY Zenon DEF Copy!IgnoreHeader, Copy!HeaderFields, Copy!receiverVars,
       Copy!FoundAt, Copy!NotFound, Copy!Stops, Copy!GetId, Copy!Invalid,
       Receiver!IgnoreHeader, Receiver!HeaderFields, Receiver!receiverVars,
       Receiver!FoundAt, Receiver!NotFound, Receiver!Stops, Receiver!GetId,
       Receiver!Invalid

LEMMA SameExitInLookup == ASSUME NEW x PROVE Receiver!ExitInLookup(x) <=> Copy!ExitInLookup(x)
BY Zenon DEF Copy!ExitInLookup, Copy!LookupIsFatal, Copy!Min, Copy!FoundAt,
       Copy!NotFound, Copy!Stops, Copy!GetId, Copy!Invalid,
       Receiver!ExitInLookup, Receiver!LookupIsFatal, Receiver!Min,
       Receiver!FoundAt, Receiver!NotFound, Receiver!Stops, Receiver!GetId,
       Receiver!Invalid

LEMMA SameOpenWithChunk == ASSUME NEW x PROVE Receiver!OpenWithChunk(x) <=> Copy!OpenWithChunk(x)
BY Zenon DEF Copy!OpenWithChunk, Copy!NoHeader, Copy!FoundAt, Copy!NotFound,
       Copy!Stops, Copy!GetId, Copy!Invalid, Receiver!OpenWithChunk,
       Receiver!NoHeader, Receiver!FoundAt, Receiver!NotFound, Receiver!Stops,
       Receiver!GetId, Receiver!Invalid

LEMMA SameCardinality == ASSUME NEW S PROVE Receiver!Cardinality(S) = Copy!Cardinality(S)
BY DEF Receiver!Cardinality, Copy!Cardinality

LEMMA SameVectors ==
  ASSUME NEW chunks, NEW c
  PROVE  /\ Receiver!SortedInsert(chunks, c) = Copy!SortedInsert(chunks, c)
         /\ Receiver!FileContents(chunks) = Copy!FileContents(chunks)
         /\ Receiver!ConcatLength(chunks) = Copy!ConcatLength(chunks)
<1>1. Receiver!SortedInsert(chunks, c) = Copy!SortedInsert(chunks, c)
  BY SameCardinality DEF Copy!SortedInsert, Copy!Before, Copy!InsertAt,
         Receiver!SortedInsert, Receiver!Before, Receiver!InsertAt
<1>2. Receiver!FileContents(chunks) = Copy!FileContents(chunks)
  BY SameCardinality DEF Copy!FileContents, Copy!UnbrokenRun, Receiver!FileContents, Receiver!UnbrokenRun
<1>3. Receiver!ConcatLength(chunks) = Copy!ConcatLength(chunks)
  BY SameCardinality DEF Copy!ConcatLength, Receiver!ConcatLength
<1> QED
  BY <1>1, <1>2, <1>3

LEMMA SameWrite ==
  ASSUME NEW header, NEW contents
  PROVE  Receiver!Write(header, contents) <=> Copy!Write(header, contents)
<1>1. Receiver!IsWritten(header, contents) <=> Copy!IsWritten(header, contents)
  <2>1. Receiver!ConcatLength(contents) = Copy!ConcatLength(contents)
    BY SameVectors
  <2> QED
    BY <2>1 DEF Copy!IsWritten, Receiver!IsWritten
<1>2. \A old : Receiver!WriteOutcomes(old, contents) = Copy!WriteOutcomes(old, contents)
  BY DEF Copy!WriteOutcomes, Copy!CutShort, Receiver!WriteOutcomes, Receiver!CutShort
<1>3. Receiver!WriteOutcomes(disk[header.filename], contents)
        = Copy!WriteOutcomes(disk[header.filename], contents)
  BY <1>2
<1> QED
  BY <1>1, <1>3, Zenon DEF Copy!Write, Receiver!Write

LEMMA SameWithChunks ==
  ASSUME NEW t, NEW chunks
  PROVE  Receiver!WithChunks(t, chunks) = Copy!WithChunks(t, chunks)
<1>1. Receiver!ConcatLength(Receiver!FileContents(chunks))
        = Copy!ConcatLength(Copy!FileContents(chunks))
  BY SameVectors
<1> QED
  BY <1>1 DEF Copy!WithChunks, Receiver!WithChunks

LEMMA SameAddChunk == ASSUME NEW x, Receiver!AddChunk(x) PROVE Copy!AddChunk(x)
<1>1. PICK i \in DOMAIN file_chunks :
        /\ Receiver!FoundAt(x.id, i)
        /\ Receiver!Wants(file_chunks[i], x)
        /\ Receiver!Write(file_chunks[i].header,
             Receiver!FileContents(Receiver!SortedInsert(file_chunks[i].chunks, x)))
        /\ file_chunks' = [file_chunks EXCEPT ![i] =
             Receiver!WithChunks(file_chunks[i],
                                 Receiver!SortedInsert(file_chunks[i].chunks, x))]
  BY Zenon DEF Receiver!AddChunk
<1>2. PICK t : t = file_chunks[i]
  OBVIOUS
<1>3. PICK chunks : chunks = Receiver!SortedInsert(t.chunks, x)
  OBVIOUS
<1>4. chunks = Copy!SortedInsert(t.chunks, x)
  BY <1>3, SameVectors
<1>5. Copy!FoundAt(x.id, i)
  BY <1>1, Zenon
  DEF Copy!FoundAt, Copy!Stops, Copy!GetId, Copy!Invalid,
      Receiver!FoundAt, Receiver!Stops, Receiver!GetId, Receiver!Invalid
<1>6. Copy!Wants(t, x)
  BY <1>1, <1>2, Zenon DEF Copy!Wants, Receiver!Wants
<1>7. Copy!Write(t.header, Copy!FileContents(chunks))
  <2>1. Receiver!Write(t.header, Receiver!FileContents(chunks))
    BY <1>1, <1>2, <1>3
  <2> QED
    BY <2>1, SameWrite, SameVectors
<1>8. file_chunks' = [file_chunks EXCEPT ![i] = Copy!WithChunks(t, chunks)]
  BY <1>1, <1>2, <1>3, SameWithChunks
<1>9. alive' = alive
  BY DEF Receiver!AddChunk
<1> QED
  BY <1>2, <1>4, <1>5, <1>6, <1>7, <1>8, <1>9, Zenon DEF Copy!AddChunk

LEMMA SameIgnoreChunk == ASSUME NEW x PROVE Receiver!IgnoreChunk(x) <=> Copy!IgnoreChunk(x)
BY Zenon DEF Copy!IgnoreChunk, Copy!Wants, Copy!ChunkFields, Copy!receiverVars,
       Copy!FoundAt, Copy!NotFound, Copy!Stops, Copy!GetId, Copy!Invalid,
       Receiver!IgnoreChunk, Receiver!Wants, Receiver!ChunkFields,
       Receiver!receiverVars, Receiver!FoundAt, Receiver!NotFound,
       Receiver!Stops, Receiver!GetId, Receiver!Invalid


LEMMA SameReceive ==
  ASSUME NEW packet, Receiver!Receive(packet)
  PROVE  Copy!Receive(packet)
BY SameOpenWithHeader, SameAdoptHeader, SameIgnoreHeader, SameExitInLookup,
   SameOpenWithChunk, SameAddChunk, SameIgnoreChunk, Zenon
DEF Receiver!Receive, Receiver!HandleTransferHeader, Receiver!HandleTransferChunk,
    Receiver!HeaderFields, Receiver!ChunkFields, Receiver!receiverVars,
    Copy!Receive, Copy!HandleTransferHeader, Copy!HandleTransferChunk,
    Copy!HeaderFields, Copy!ChunkFields, Copy!receiverVars

-----------------------------------------------------------------------------
(* The inductive invariant: that of the link, and that a sender's loop and *)
(* its station are at the same packet.                                     *)

InStep == \A r \in Stations : next[r] \in Nat /\ position[r] = next[r] + 1

RadioInv == IInv /\ next \in [Stations -> Nat] /\ InStep

LEMMA InitRadioInv == RadioInit => RadioInv
<1> SUFFICES ASSUME RadioInit PROVE RadioInv
  OBVIOUS
<1>1. IInv
  BY InitIInv DEF RadioInit
<1>2. next = [r \in Stations |-> 0] /\ position = [r \in Stations |-> 1]
  BY DEF RadioInit, Sender!SenderInit, Init
<1> QED
  BY <1>1, <1>2 DEF RadioInv, InStep

\* A frame that nobody hears leaves the link as it was.
LEMMA PassUnheardIInv == ASSUME IInv, PassUnheard PROVE IInv'
<1>1. UNCHANGED receiverVars /\ UNCHANGED senderVars /\ lost' = lost /\ restarts' = restarts
      /\ air' \subseteq air
  BY DEF PassUnheard
<1>2. /\ assigned \in [PayloadIds -> SUBSET Packet] /\ assigned' = assigned
      /\ lost \subseteq Frame /\ restarts \in 0..MaxRestarts
  BY <1>1 DEF IInv, TypeOK, senderVars
<1>3. \A id \in PayloadIds : assigned[id] \subseteq assigned'[id]
  BY <1>2
<1>4. /\ ReceiverTypeOK' /\ TrackersAreGenuine' /\ TrackersSorted'
      /\ NoStrandedTracker' /\ ReturnedOnce'
  BY <1>1, <1>2, <1>3, ReceiverStands
<1> QED
  BY <1>1, <1>2, <1>4, StationsStand

\* Every step of the program is one of the link, or a frame passes unheard.
LEMMA RadioStepIsLinkStep == [RadioNext]_radioVars => [Next]_vars \/ PassUnheard
<1> SUFFICES ASSUME [RadioNext]_radioVars PROVE [Next]_vars \/ PassUnheard
  OBVIOUS
<1>1. ASSUME NEW r \in Stations, SenderStep(r) PROVE [Next]_vars
  BY <1>1 DEF SenderStep, EnterSend, EnterBroadcast, TransmitNext, LeaveBroadcast, GiveUp,
              Next, StationStep
<1>2. ASSUME NEW f \in air, HearAndReceive(f) \/ LoseFrame(f) PROVE Next
  BY <1>2 DEF HearAndReceive, LoseFrame, Next, Listen
<1>3. CASE RestartCopy
  BY <1>3 DEF RestartCopy, Next
<1>4. CASE UNCHANGED radioVars
  BY <1>4 DEF radioVars
<1> QED
  BY <1>1, <1>2, <1>3, <1>4 DEF RadioNext, ListenAndReceive

LEMMA RadioStepInStep ==
  ASSUME RadioInv, [RadioNext]_radioVars
  PROVE  next' \in [Stations -> Nat] /\ InStep'
<1>0. /\ position \in [Stations -> Nat \ {0}] /\ next \in [Stations -> Nat]
      /\ RetransmitCount \in [Stations -> Nat]
      /\ \A r \in Stations : RetransmitCount[r] > 0
  BY RadioAssumption, LinkAssumption DEF RadioInv, IInv, TypeOK
<1>1. ASSUME next' = next, position' = position
      PROVE  next' \in [Stations -> Nat] /\ InStep'
  BY <1>1 DEF RadioInv, InStep
<1>2. ASSUME NEW r \in Stations, EnterSend(r) \/ TransmitNext(r) \/ GiveUp(r)
      PROVE  next' = next /\ position' = position
  BY <1>2 DEF EnterSend, TransmitNext, GiveUp, Sender!StartSend, Sender!RefuseSend,
              Sender!BroadcastFails, TransmitPiece, TransmitLastPiece, TransmitFails,
              fileVars, fileSenderVars, vars, senderVars
<1>3. ASSUME NEW r \in Stations, EnterBroadcast(r)
      PROVE  next' = next /\ position' = position
  <2>1. RetransmitCount[r] # 0
    BY <1>0
  <2> QED
    BY <1>3, <2>1 DEF EnterBroadcast, StartBroadcast, Sender!CallBroadcast
<1>4. ASSUME NEW r \in Stations, LeaveBroadcast(r)
      PROVE  next' \in [Stations -> Nat] /\ InStep'
  <2>1. /\ position' = [position EXCEPT ![r] = @ + 1]
        /\ next' = [next EXCEPT ![r] = @ + 1]
    BY <1>4 DEF LeaveBroadcast, FinishBroadcast, Sender!BroadcastReturns
  <2> QED
    BY <1>0, <2>1 DEF RadioInv, InStep
<1>5. ASSUME NEW f \in air, HearAndReceive(f) \/ LoseFrame(f)
      PROVE  next' = next /\ position' = position
  BY <1>5 DEF HearAndReceive, LoseFrame, Hear, Lose, senderVars, fileVars, fileSenderVars
<1>6. CASE PassUnheard \/ RestartCopy \/ UNCHANGED radioVars
  BY <1>1, <1>6 DEF PassUnheard, RestartCopy, RestartReceiver, radioVars, vars, senderVars,
                    fileVars, fileSenderVars
<1> QED
  BY <1>1, <1>2, <1>3, <1>4, <1>5, <1>6 DEF RadioNext, SenderStep, ListenAndReceive

LEMMA StepRadioInv == RadioInv /\ [RadioNext]_radioVars => RadioInv'
<1> SUFFICES ASSUME RadioInv, [RadioNext]_radioVars PROVE RadioInv'
  OBVIOUS
<1>1. IInv'
  BY RadioStepIsLinkStep, NextIInv, PassUnheardIInv DEF RadioInv
<1> QED
  BY <1>1, RadioStepInStep DEF RadioInv

LEMMA RadioInvariance == RadioSpec => []RadioInv
BY InitRadioInv, StepRadioInv, PTL DEF RadioSpec

-----------------------------------------------------------------------------
(* Every step of the program is one of FileCopy.                           *)

\* The packets that have a payload id, and how often each was returned.
SentPackets == UNION {assigned[id] : id \in PayloadIds}
Deliveries == [p \in Packet |-> returned[p]]

LEMMA LinkKept ==
  ASSUME assigned' = assigned, returned' = returned
  PROVE  SentPackets' = SentPackets /\ Deliveries' = Deliveries
BY DEF SentPackets, Deliveries

LEMMA InitCopy == RadioInit => Copy!Init
<1> SUFFICES ASSUME RadioInit PROVE Copy!Init
  OBVIOUS
<1>1. SentPackets = {} /\ Deliveries = [p \in Packet |-> 0]
  BY DEF RadioInit, Init, ReceiverInit, SentPackets, Deliveries
<1>2. Copy!Link!Init
  BY <1>1, SamePackets DEF Copy!Link!Init, SentPackets, Deliveries
<1>3. restarts = 0
  BY DEF RadioInit, Init
<1>4. Copy!ReceiverInit /\ Copy!SenderInit
  BY DEF RadioInit, Receiver!ReceiverInit, Receiver!ReceiverStart, Sender!SenderInit,
         Copy!ReceiverInit, Copy!ReceiverStart, Copy!SenderInit
<1> QED
  BY <1>2, <1>3, <1>4 DEF Copy!Init

\* A step that changes nothing FileCopy sees.
LEMMA CopyStutters ==
  ASSUME UNCHANGED fileVars, assigned' = assigned, returned' = returned, restarts' = restarts
  PROVE  UNCHANGED Copy!vars
<1>1. SentPackets' = SentPackets /\ Deliveries' = Deliveries
  BY LinkKept
<1> QED
  BY <1>1 DEF Copy!vars, Copy!receiverVars, Copy!senderVars, Copy!linkVars,
              fileVars, fileReceiverVars, fileSenderVars, SentPackets, Deliveries

LEMMA SameStartAndEnd ==
  ASSUME NEW r \in Stations,
         Sender!StartSend(r) \/ Sender!RefuseSend(r) \/ Sender!BroadcastReturns(r)
           \/ Sender!BroadcastFails(r)
  PROVE  Copy!StartSend(r) \/ Copy!RefuseSend(r) \/ Copy!BroadcastReturns(r)
           \/ Copy!BroadcastFails(r)
BY Zenon
DEF Sender!StartSend, Sender!RefuseSend, Sender!BroadcastReturns, Sender!BroadcastFails,
    Sender!MayStart, Sender!Ended, Sender!GetNextTransferId, Sender!NextId,
    Sender!ChunkCount, Sender!FileLength, Sender!ChunkSize,
    Copy!StartSend, Copy!RefuseSend, Copy!BroadcastReturns, Copy!BroadcastFails,
    Copy!MayStart, Copy!Ended, Copy!GetNextTransferId, Copy!NextId,
    Copy!ChunkCount, Copy!FileLength, Copy!ChunkSize

\* A step of a run that hands the link no packet.
LEMMA RunStepsAlone ==
  ASSUME NEW r \in Stations,
         Sender!StartSend(r) \/ Sender!RefuseSend(r) \/ Sender!BroadcastReturns(r)
           \/ Sender!BroadcastFails(r),
         UNCHANGED fileReceiverVars,
         assigned' = assigned, returned' = returned, restarts' = restarts
  PROVE  Copy!Next
<1>1. Copy!StartSend(r) \/ Copy!RefuseSend(r) \/ Copy!BroadcastReturns(r)
        \/ Copy!BroadcastFails(r)
  BY SameStartAndEnd
<1>2. UNCHANGED Copy!linkVars
  BY LinkKept DEF Copy!linkVars, SentPackets, Deliveries
<1>3. UNCHANGED Copy!receiverVars
  BY DEF Copy!receiverVars, fileReceiverVars
<1>4. Copy!SenderStep(r)
  BY <1>1, <1>2, <1>3 DEF Copy!SenderStep
<1> QED
  BY <1>4 DEF Copy!Next

\* The packet of a station's outbox that is next is the one its run sends.
LEMMA CurrentIsNext ==
  ASSUME RadioInv, NEW r \in Stations, position[r] \in DOMAIN Outbox[r]
  PROVE  Current(r) = <<r, next[r]>>
<1>1. Outbox[r] = PacketsOf(r)
  BY RadioAssumption
<1>2. next[r] \in Nat /\ position[r] = next[r] + 1
  BY DEF RadioInv, InStep
<1>3. position[r] \in 1..(Sender!ChunkCount(r) + 1)
  BY <1>1 DEF PacketsOf
<1>4. PacketsOf(r)[position[r]] = <<r, position[r] - 1>>
  BY <1>3 DEF PacketsOf
<1>5. position[r] - 1 = next[r]
  BY <1>2
<1> QED
  BY <1>1, <1>4, <1>5 DEF Current

\* A packet gets its payload id: it is on FileCopy's link.
LEMMA EnterBroadcastSends ==
  ASSUME RadioInv, NEW r \in Stations, EnterBroadcast(r)
  PROVE  Copy!Next
<1>1. PICK p : p = Current(r)
  OBVIOUS
<1>2. /\ StartBroadcast(r)
      /\ Sender!CallBroadcast(r)
      /\ UNCHANGED fileReceiverVars
      /\ position[r] \in DOMAIN Outbox[r]
      /\ restarts' = restarts
  BY DEF EnterBroadcast, StartBroadcast
<1>3. p = <<r, next[r]>>
  BY <1>1, <1>2, CurrentIsNext
<1>4. /\ returned' = returned
      /\ \A i \in PayloadIds : p \notin assigned[i]
      /\ \E id \in PayloadIds : assigned' = [assigned EXCEPT ![id] = @ \cup {p}]
  BY <1>1, <1>2, StartedPacketIsNew DEF RadioInv
<1>5. /\ assigned \in [PayloadIds -> SUBSET Packet]
  BY DEF RadioInv, IInv, TypeOK
<1>6. p \notin SentPackets /\ SentPackets' = SentPackets \cup {p} /\ Deliveries' = Deliveries
  <2>1. PICK id \in PayloadIds : assigned' = [assigned EXCEPT ![id] = @ \cup {p}]
    BY <1>4
  <2>2. \A i \in PayloadIds : assigned'[i] = IF i = id THEN assigned[i] \cup {p} ELSE assigned[i]
    BY <1>5, <2>1
  <2>3. SentPackets' = SentPackets \cup {p}
    BY <2>2 DEF SentPackets
  <2> QED
    BY <1>4, <2>3 DEF SentPackets, Deliveries
<1>7. Copy!Link!Broadcast(<<r, next[r]>>)
  BY <1>3, <1>6 DEF Copy!Link!Broadcast, SentPackets, Deliveries
<1>8. Copy!CallBroadcast(r) /\ UNCHANGED Copy!receiverVars
  BY <1>2 DEF Copy!CallBroadcast, Sender!CallBroadcast, Copy!receiverVars, fileReceiverVars
<1>9. Copy!SenderStep(r)
  BY <1>2, <1>7, <1>8 DEF Copy!SenderStep
<1> QED
  BY <1>9 DEF Copy!Next

\* A frame that completes a packet delivers it, and Receive handles it.
LEMMA HearAndReceiveDelivers ==
  ASSUME RadioInv, NoCollision, NEW f \in air, HearAndReceive(f)
  PROVE  Copy!Next \/ UNCHANGED Copy!vars
<1>1. /\ Hear(f)
      /\ \/ HandedOver = {} /\ UNCHANGED fileReceiverVars
         \/ \E p \in HandedOver : Receiver!Receive(Sender!PacketOf(p))
      /\ UNCHANGED fileSenderVars
      /\ restarts' = restarts
  BY DEF HearAndReceive, Hear
<1>2. /\ assigned' = assigned
      /\ \/ returned' = returned
         \/ \E id \in PayloadIds : \E p \in assigned[id] :
              /\ p \in Packet
              /\ returned[p] = 0
              /\ returned' = [returned EXCEPT ![p] = 1]
  BY <1>1, HearOutcome DEF RadioInv
<1>3. returned \in [Packet \cup {Garbled} -> Nat]
  BY DEF RadioInv, IInv, TypeOK, ReceiverTypeOK
<1>4. CASE returned' = returned
  <2>1. HandedOver = {}
    BY <1>3, <1>4 DEF HandedOver
  <2>2. UNCHANGED fileVars
    BY <1>1, <2>1 DEF fileVars
  <2> QED
    BY <1>1, <1>2, <1>4, <2>2, CopyStutters
<1>5. ASSUME NEW id \in PayloadIds, NEW p \in assigned[id], p \in Packet, returned[p] = 0,
             returned' = [returned EXCEPT ![p] = 1]
      PROVE  Copy!Next
  <2>1. HandedOver = {p}
    BY <1>3, <1>5 DEF HandedOver
  <2>2. Receiver!Receive(Sender!PacketOf(p))
    BY <1>1, <2>1
  <2>3. Copy!Receive(Copy!PacketOf(p))
    BY <2>2, SameReceive, SamePacketOf
  <2>4. /\ p \in SentPackets
        /\ SentPackets' = SentPackets
        /\ Deliveries[p] = 0
        /\ Deliveries' = [Deliveries EXCEPT ![p] = 1]
    <3>1. p \in SentPackets /\ SentPackets' = SentPackets
      BY <1>2, <1>5 DEF SentPackets
    <3>2. \A q \in Packet : returned'[q] = IF q = p THEN 1 ELSE returned[q]
      BY <1>3, <1>5
    <3>3. Deliveries[p] = 0 /\ Deliveries' = [Deliveries EXCEPT ![p] = 1]
      BY <1>5, <3>2 DEF Deliveries
    <3> QED
      BY <3>1, <3>3
  <2>5. Copy!Link!Deliver(p)
    BY <2>4 DEF Copy!Link!Deliver, SentPackets, Deliveries
  <2>6. Copy!Predecessors(p) = {}
    BY DEF Copy!Predecessors
  <2>7. UNCHANGED Copy!senderVars
    BY <1>1 DEF Copy!senderVars, fileSenderVars
  <2>8. Copy!ReceivePacket(p)
    BY <1>1, <2>3, <2>5, <2>6, <2>7 DEF Copy!ReceivePacket
  <2>9. p \in Copy!PacketIds
    BY <1>5, SamePackets
  <2> QED
    BY <2>8, <2>9 DEF Copy!Next
<1> QED
  BY <1>2, <1>4, <1>5

LEMMA RestartCopyRestarts == ASSUME RestartCopy PROVE Copy!Next
<1>1. /\ RestartReceiver
      /\ Receiver!ReceiverRestart
      /\ UNCHANGED fileSenderVars
  BY DEF RestartCopy
<1>2. SentPackets' = SentPackets /\ Deliveries' = [p \in Packet |-> 0]
  BY <1>1 DEF RestartReceiver, senderVars, SentPackets, Deliveries
<1>3. Copy!Link!Restart
  BY <1>2, SamePackets DEF Copy!Link!Restart, SentPackets, Deliveries
<1>4. restarts < MaxRestarts /\ restarts' = restarts + 1
  BY <1>1 DEF RestartReceiver
<1>5. Copy!ReceiverRestart /\ UNCHANGED Copy!senderVars
  BY <1>1 DEF Receiver!ReceiverRestart, Copy!ReceiverRestart, Copy!senderVars, fileSenderVars
<1> QED
  BY <1>3, <1>4, <1>5 DEF Copy!RestartReceiver, Copy!Next

LEMMA RadioStepIsCopyStep ==
  RadioInv /\ NoCollision /\ [RadioNext]_radioVars => [Copy!Next]_Copy!vars
<1> SUFFICES ASSUME RadioInv, NoCollision, [RadioNext]_radioVars
             PROVE  Copy!Next \/ UNCHANGED Copy!vars
  OBVIOUS
<1>1. ASSUME NEW r \in Stations, EnterSend(r) PROVE Copy!Next
  BY <1>1, RunStepsAlone DEF EnterSend, vars, senderVars, receiverVars
<1>2. ASSUME NEW r \in Stations, EnterBroadcast(r) PROVE Copy!Next
  BY <1>2, EnterBroadcastSends
<1>3. ASSUME NEW r \in Stations, TransmitNext(r) PROVE UNCHANGED Copy!vars
  <2>1. /\ UNCHANGED fileVars
        /\ assigned' = assigned /\ returned' = returned /\ restarts' = restarts
    BY <1>3 DEF TransmitNext, TransmitPiece, TransmitLastPiece, Transmit, receiverVars
  <2> QED
    BY <2>1, CopyStutters
<1>4. ASSUME NEW r \in Stations, LeaveBroadcast(r) PROVE Copy!Next
  <2>1. /\ Sender!BroadcastReturns(r)
        /\ UNCHANGED fileReceiverVars
        /\ assigned' = assigned /\ returned' = returned /\ restarts' = restarts
    BY <1>4 DEF LeaveBroadcast, FinishBroadcast, Transmit, receiverVars
  <2> QED
    BY <2>1, RunStepsAlone
<1>5. ASSUME NEW r \in Stations, GiveUp(r) PROVE Copy!Next
  <2>1. /\ Sender!BroadcastFails(r)
        /\ UNCHANGED fileReceiverVars
        /\ assigned' = assigned /\ returned' = returned /\ restarts' = restarts
    BY <1>5 DEF GiveUp, TransmitFails, receiverVars
  <2> QED
    BY <2>1, RunStepsAlone
<1>6. ASSUME NEW f \in air, HearAndReceive(f) PROVE Copy!Next \/ UNCHANGED Copy!vars
  BY <1>6, HearAndReceiveDelivers
<1>7. ASSUME NEW f \in air, LoseFrame(f) PROVE UNCHANGED Copy!vars
  <2>1. /\ UNCHANGED fileVars
        /\ assigned' = assigned /\ returned' = returned /\ restarts' = restarts
    BY <1>7 DEF LoseFrame, Lose, receiverVars, senderVars
  <2> QED
    BY <2>1, CopyStutters
<1>8. CASE PassUnheard \/ UNCHANGED radioVars
  <2>1. /\ UNCHANGED fileVars
        /\ assigned' = assigned /\ returned' = returned /\ restarts' = restarts
    BY <1>8 DEF PassUnheard, receiverVars, senderVars, radioVars, vars
  <2> QED
    BY <2>1, CopyStutters
<1>9. CASE RestartCopy
  BY <1>9, RestartCopyRestarts
<1> QED
  BY <1>1, <1>2, <1>3, <1>4, <1>5, <1>6, <1>7, <1>8, <1>9
  DEF RadioNext, SenderStep, ListenAndReceive

\* The program over a radio copies files as FileCopy describes it, whatever
\* is lost, while no two packets share a payload id.
THEOREM RadioImplementsCopy == RadioSpec /\ []NoCollision => ImplementsFileCopy
BY RadioInvariance, InitCopy, RadioStepIsCopyStep, PTL
DEF RadioSpec, ImplementsFileCopy, Copy!Spec

-----------------------------------------------------------------------------
(* One sender takes its payload ids from one counter.                      *)

LEMMA RadioIdsFollow == ASSUME OutboxesFitIds PROVE RadioSpec => []IdsFollow
<1>1. RadioInit => IdsFollow
  BY InitIdsFollow DEF RadioInit
<1>2. ASSUME RadioInv, IdsFollow, [RadioNext]_radioVars PROVE IdsFollow'
  <2>1. CASE [Next]_vars
    BY <1>2, <2>1, NextIdsFollow DEF RadioInv
  <2>2. CASE PassUnheard
    BY <1>2, <2>2 DEF PassUnheard, senderVars, IdsFollow, Handed
  <2> QED
    BY <1>2, <2>1, <2>2, RadioStepIsLinkStep
<1>3. RadioInv /\ IdsFollow /\ [RadioNext]_radioVars => IdsFollow'
  BY <1>2
<1> QED
  BY <1>1, <1>3, RadioInvariance, PTL DEF RadioSpec

\* With one sender nothing has to be assumed of the clocks: its ids do not
\* repeat before the counter has gone round, so no two packets share one.
THEOREM OneSenderNeverCollides ==
  ASSUME OutboxesFitIds, NEW s, Stations = {s}
  PROVE  RadioSpec => []NoCollision
<1>1. RadioInv /\ IdsFollow => NoCollision
  <2> SUFFICES ASSUME RadioInv, IdsFollow, NEW id \in PayloadIds,
                      NEW p \in assigned[id], NEW q \in assigned[id]
               PROVE  p = q
    BY DEF NoCollision
  <2>1. PICK j \in DOMAIN Outbox[s], k \in DOMAIN Outbox[s] :
          Outbox[s][j] = p /\ Outbox[s][k] = q
    BY DEF RadioInv, IInv, AssignedWereReached
  <2>2. id = IdOf(s, j) /\ id = IdOf(s, k)
    BY <2>1 DEF IdsFollow
  <2>3. DOMAIN Outbox[s] = 1..Len(Outbox[s])
    BY LinkAssumption, LenProperties
  <2>4. j = k
    BY <2>1, <2>2, <2>3, IdsDiffer
  <2> QED
    BY <2>1, <2>4
<1>2. RadioSpec => []IdsFollow
  BY RadioIdsFollow
<1> QED
  BY <1>1, <1>2, RadioInvariance, PTL

-----------------------------------------------------------------------------
(* Retransmission keeps the order of sending.  The invariants of           *)
(* BroadcastLink_proofs hold here too, but for the account of the copies:  *)
(* once the process has ended, frames pass unheard.                        *)

\* More copies are sent of each fragment than the channel loses.
CopiesOutnumberLosses == \A r \in Stations : RetransmitCount[r] > MaxLosses

RadioReliable ==
  /\ DeliveredAsSent
  /\ LossesBounded
  /\ ReachedWereAssigned
  /\ CompletedWereAssigned
  /\ CompletedWereReturned
  /\ alive => EveryCopyWent

LEMMA InitRadioReliable == RadioInit => RadioReliable
<1> SUFFICES ASSUME RadioInit PROVE RadioReliable
  OBVIOUS
<1>1. ReliableInv
  BY InitReliable DEF RadioInit
<1>2. DeliveredAsSent /\ CompletedWereAssigned
  BY DEF RadioInit, Init, ReceiverInit, DeliveredAsSent, CompletedWereAssigned
<1> QED
  BY <1>1, <1>2 DEF RadioReliable, ReliableInv

\* Only a new process is alive after the old one has ended.
LEMMA AliveBefore ==
  ASSUME RadioNext, restarts' = restarts, RadioInv, alive'
  PROVE  alive
<1>1. ASSUME NEW r \in Stations, SenderStep(r) PROVE alive' = alive
  BY <1>1 DEF SenderStep, EnterSend, EnterBroadcast, TransmitNext, LeaveBroadcast, GiveUp,
              fileVars, fileReceiverVars
<1>2. ASSUME NEW f \in air, HearAndReceive(f) PROVE alive
  BY <1>2 DEF HearAndReceive
<1>3. CASE PassUnheard \/ \E f \in air : LoseFrame(f)
  BY <1>3 DEF PassUnheard, LoseFrame, fileVars, fileReceiverVars
<1>4. ~RestartCopy
  <2>1. restarts \in Nat
    BY LinkAssumption DEF RadioInv, IInv, TypeOK
  <2> QED
    BY <2>1 DEF RestartCopy, RestartReceiver
<1> QED
  BY <1>1, <1>2, <1>3, <1>4 DEF RadioNext, ListenAndReceive

LEMMA NextRadioReliable ==
  /\ RadioInv /\ NoCollision /\ NoCollision' /\ RadioReliable /\ [RadioNext]_radioVars
  => RadioReliable'
<1> SUFFICES ASSUME RadioInv, NoCollision, NoCollision', RadioReliable, [RadioNext]_radioVars
             PROVE  RadioReliable'
  OBVIOUS
<1>0. IInv
  BY DEF RadioInv
<1>1. CASE PassUnheard
  <2>1. /\ UNCHANGED receiverVars /\ UNCHANGED senderVars
        /\ lost' = lost /\ restarts' = restarts
        /\ ~alive' \/ ~running
    BY <1>1 DEF PassUnheard, fileVars, fileReceiverVars
  <2>2. ~alive'
    BY <2>1 DEF RadioReliable, DeliveredAsSent
  <2>3. /\ UNCHANGED <<packets, completed_packets, returned, running>>
        /\ UNCHANGED <<phase, position, assigned>>
    BY <2>1 DEF receiverVars, senderVars
  <2>4. /\ DeliveredAsSent' /\ ReachedWereAssigned'
        /\ CompletedWereAssigned' /\ CompletedWereReturned'
    BY <2>3 DEF RadioReliable, DeliveredAsSent, ReachedWereAssigned, CompletedWereAssigned,
                CompletedWereReturned
  <2>5. LossesBounded'
    BY <2>1 DEF RadioReliable, LossesBounded, Losses
  <2> QED
    BY <2>2, <2>4, <2>5 DEF RadioReliable
<1>2. CASE [Next]_vars
  <2>1. /\ DeliveredAsSent' /\ LossesBounded' /\ ReachedWereAssigned'
        /\ CompletedWereAssigned' /\ CompletedWereReturned'
    BY <1>0, <1>2, NextDeliveredAsSent, NextLossesBounded, NextReachedWereAssigned,
       NextCompletedWereAssigned, NextCompletedWereReturned DEF RadioReliable
  <2>2. ASSUME alive' PROVE EveryCopyWent'
    <3>1. CASE restarts' = restarts
      <4>1. alive
        BY <2>2, <3>1, AliveBefore DEF radioVars, fileVars, fileReceiverVars
      <4> QED
        BY <1>0, <1>2, <4>1, NextEveryCopyWent DEF RadioReliable
    <3>2. CASE restarts' # restarts
      <4>1. restarts \in Nat
        BY <1>0, LinkAssumption DEF IInv, TypeOK
      <4>2. RestartReceiver
        <5>1. \A s \in Stations : StationStep(s) => restarts' = restarts
          BY DEF StationStep, StartBroadcast, TransmitPiece, TransmitLastPiece,
                 FinishBroadcast, TransmitFails, Transmit
        <5>2. \A f \in air : Hear(f) \/ Lose(f) => restarts' = restarts
          BY DEF Hear, Lose
        <5> QED
          BY <1>2, <3>2, <5>1, <5>2 DEF Next, Listen, vars
      <4>3. restarts' # 0
        BY <4>1, <4>2 DEF RestartReceiver
      <4> QED
        BY <4>3 DEF EveryCopyWent
    <3> QED
      BY <3>1, <3>2
  <2> QED
    BY <2>1, <2>2 DEF RadioReliable
<1> QED
  BY <1>1, <1>2, RadioStepIsLinkStep

LEMMA RadioReliability == RadioSpec /\ []NoCollision => []RadioReliable
BY InitRadioReliable, NextRadioReliable, RadioInvariance, PTL DEF RadioSpec

\* The frame on the air is of a packet whose predecessors were delivered.
AirInOrder ==
  restarts = 0 /\ alive =>
    \A f \in air : \A p \in assigned[f.chunk.payload_id] :
      \A j \in Nat : j < p[2] => returned[<<p[1], j>>] > 0

OrderInv == AirInOrder /\ ArrivesInOrder

LEMMA ChunkCountIsNat == ASSUME NEW r \in Stations PROVE Sender!ChunkCount(r) \in Nat
<1>1. PICK len : len = Sender!FileLength(r)
  OBVIOUS
<1>2. PICK size : size = Sender!ChunkSize(r)
  OBVIOUS
<1>3. len \in Nat /\ MaxChunkSize \in Nat
  BY <1>1, FilesAssumption DEF Sender!FileLength
<1>4. size = IF MaxChunkSize = 0 THEN len ELSE MaxChunkSize
  BY <1>1, <1>2 DEF Sender!ChunkSize
<1>5. Sender!ChunkCount(r) = IF len = 0 THEN 0 ELSE (len - 1) \div size + 1
  BY <1>1, <1>2 DEF Sender!ChunkCount
<1>6. CASE len = 0
  BY <1>5, <1>6
<1>7. CASE len # 0
  <2>1. size \in Nat \ {0} /\ len - 1 \in Nat
    BY <1>3, <1>4, <1>7
  <2>2. (len - 1) \div size \in Nat
    BY <2>1
  <2> QED
    BY <1>5, <1>7, <2>2
<1> QED
  BY <1>6, <1>7

\* What the outbox holds, entry by entry.
LEMMA OutboxEntries ==
  ASSUME NEW r \in Stations, NEW k \in Nat
  PROVE  /\ k + 1 \in DOMAIN Outbox[r] <=> k \in 0..Sender!ChunkCount(r)
         /\ k + 1 \in DOMAIN Outbox[r] => Outbox[r][k + 1] = <<r, k>>
         /\ k \in 0..Sender!ChunkCount(r) => <<r, k>> \in Packet
<1>1. Outbox[r] = PacketsOf(r) /\ Packet = Sender!PacketIds
  BY RadioAssumption
<1>2. Sender!ChunkCount(r) \in Nat
  BY ChunkCountIsNat
<1>3. k + 1 \in 1..(Sender!ChunkCount(r) + 1) <=> k \in 0..Sender!ChunkCount(r)
  BY <1>2
<1>4. k + 1 \in DOMAIN Outbox[r] => Outbox[r][k + 1] = <<r, k>>
  <2> SUFFICES ASSUME k + 1 \in 1..(Sender!ChunkCount(r) + 1)
               PROVE  PacketsOf(r)[k + 1] = <<r, k>>
    BY <1>1 DEF PacketsOf
  <2>1. PacketsOf(r)[k + 1] = <<r, (k + 1) - 1>>
    BY DEF PacketsOf
  <2> QED
    BY <2>1
<1> QED
  BY <1>1, <1>3, <1>4 DEF PacketsOf, Sender!PacketIds

\* A frame is put on the air when the packets before its own were delivered.
LEMMA TransmissionInOrder ==
  ASSUME CopiesOutnumberLosses, RadioInv, NoCollision, RadioReliable, alive, restarts = 0,
         NEW s \in Stations, Transmit(s), air = {}
  PROVE  \A f \in air' : \A p \in assigned[f.chunk.payload_id] :
           \A j \in Nat : j < p[2] => returned[<<p[1], j>>] > 0
<1>1. /\ phase[s] = "sending"
      /\ air' = {[chunk |-> NextChunk(s), copy |-> loop[s].retransmit]}
  BY DEF Transmit
<1>2. NextChunk(s).payload_id = loop[s].payload_id
  BY DEF NextChunk
<1>3. /\ position[s] \in DOMAIN Outbox[s]
      /\ Current(s) \in assigned[loop[s].payload_id]
      /\ loop[s].payload_id \in PayloadIds
  BY <1>1 DEF RadioInv, IInv, TypeOK, StationsInsidePacket
<1>4. next[s] \in Nat /\ position[s] = next[s] + 1
  BY DEF RadioInv, InStep
<1>5. Current(s) = <<s, next[s]>>
  BY <1>3, CurrentIsNext
<1> SUFFICES ASSUME NEW p \in assigned[loop[s].payload_id], NEW j \in Nat, j < p[2]
             PROVE  returned[<<p[1], j>>] > 0
  BY <1>1, <1>2
<1>6. p = <<s, next[s]>>
  BY <1>3, <1>5 DEF NoCollision
<1>7. j < next[s]
  BY <1>6
<1>8. next[s] \in 0..Sender!ChunkCount(s)
  BY <1>3, <1>4, OutboxEntries
<1>9. j \in 0..Sender!ChunkCount(s)
  BY <1>7, <1>8, ChunkCountIsNat
<1>10. j + 1 \in DOMAIN Outbox[s] /\ Outbox[s][j + 1] = <<s, j>>
  BY <1>9, OutboxEntries
<1>11. position[s] > j + 1
  BY <1>4, <1>7
<1>12. ReliableBroadcastArrives
  BY ReliableFollows DEF RadioReliable, ReliableInv, RadioInv
<1>13. RetransmitCount[s] > MaxLosses
  BY DEF CopiesOutnumberLosses
<1>14. returned[Outbox[s][j + 1]] > 0
  BY <1>10, <1>11, <1>12, <1>13 DEF ReliableBroadcastArrives
<1> QED
  BY <1>6, <1>10, <1>14

\* A payload id of a frame on the air was given out, so no packet gets it.
LEMMA StartInOrder ==
  ASSUME RadioInv, NoCollision', AirInOrder, NEW s \in Stations, EnterBroadcast(s)
  PROVE  AirInOrder'
<1>1. StartBroadcast(s) /\ alive' = alive /\ restarts' = restarts /\ air' = air
  BY DEF EnterBroadcast, StartBroadcast, fileReceiverVars, channelVars
<1>2. /\ returned' = returned
      /\ \A i \in PayloadIds : Current(s) \notin assigned[i]
      /\ \E id \in PayloadIds : assigned' = [assigned EXCEPT ![id] = @ \cup {Current(s)}]
  BY <1>1, StartedPacketIsNew DEF RadioInv
<1>3. PICK id \in PayloadIds : assigned' = [assigned EXCEPT ![id] = @ \cup {Current(s)}]
  BY <1>2
<1>4. ASSUME NEW f \in air PROVE assigned'[f.chunk.payload_id] = assigned[f.chunk.payload_id]
  <2>1. Genuine(f.chunk)
    BY RadioAssumption DEF RadioInv, IInv, AirIsGenuine
  <2>2. PICK q \in assigned[f.chunk.payload_id] : TRUE
    BY <2>1 DEF Genuine
  <2>3. f.chunk.payload_id \in PayloadIds /\ assigned \in [PayloadIds -> SUBSET Packet]
    BY ChunkFields DEF RadioInv, IInv, TypeOK, Frame
  <2>4. f.chunk.payload_id # id
    BY <1>2, <1>3, <2>2, <2>3 DEF NoCollision
  <2> QED
    BY <1>3, <2>3, <2>4
<1> QED
  BY <1>1, <1>2, <1>4 DEF AirInOrder

\* A step that puts nothing on the air and delivers nothing.
LEMMA OrderStays ==
  ASSUME OrderInv, air' \subseteq air, assigned' = assigned, returned' = returned,
         restarts' = restarts, alive' => alive
  PROVE  OrderInv'
BY DEF OrderInv, AirInOrder, ArrivesInOrder

LEMMA HearInOrder ==
  ASSUME RadioInv, NoCollision, OrderInv, NEW f \in air, HearAndReceive(f)
  PROVE  OrderInv'
<1>1. Hear(f) /\ alive /\ air' = {} /\ restarts' = restarts
  BY DEF HearAndReceive, Hear
<1>2. AirInOrder'
  BY <1>1 DEF AirInOrder
<1>3. PICK c : c = f.chunk
  OBVIOUS
<1>4. \/ Ignore(c)
      \/ Hold(c)
      \/ \E p \in assigned[c.payload_id] :
           /\ p \in Packet
           /\ returned[p] = 0
           /\ returned' = [returned EXCEPT ![p] = 1]
  BY <1>1, <1>3, HearCases DEF RadioInv
<1>5. CASE Ignore(c) \/ Hold(c)
  <2>1. returned' = returned
    BY <1>5 DEF Ignore, Hold, receiverVars
  <2> QED
    BY <1>1, <1>2, <2>1 DEF OrderInv, ArrivesInOrder
<1>6. ASSUME NEW p \in assigned[c.payload_id], p \in Packet, returned[p] = 0,
             returned' = [returned EXCEPT ![p] = 1]
      PROVE  ArrivesInOrder'
  <2>1. returned \in [Packet \cup {Garbled} -> Nat]
    BY DEF RadioInv, IInv, TypeOK, ReceiverTypeOK
  <2>2. \A q \in Packet : returned'[q] = IF q = p THEN 1 ELSE returned[q]
    BY <1>6, <2>1
  <2> SUFFICES ASSUME restarts = 0, NEW r \in Stations,
                      NEW j \in 0..Sender!ChunkCount(r), NEW k \in 0..Sender!ChunkCount(r),
                      j < k, returned'[<<r, k>>] > 0
               PROVE  returned'[<<r, j>>] > 0
    BY <1>1 DEF ArrivesInOrder
  <2>3. /\ Sender!ChunkCount(r) \in Nat
        /\ <<r, k>> \in Packet /\ <<r, j>> \in Packet
    BY ChunkCountIsNat, OutboxEntries
  <2>4. CASE <<r, k>> = p
    <3>1. p[1] = r /\ p[2] = k /\ j \in Nat
      BY <2>3, <2>4
    <3>2. returned[<<r, j>>] > 0
      BY <1>1, <1>3, <3>1 DEF OrderInv, AirInOrder
    <3> QED
      BY <2>2, <2>3, <3>2
  <2>5. CASE <<r, k>> # p
    <3>1. returned[<<r, k>>] > 0
      BY <2>2, <2>3, <2>5
    <3>2. returned[<<r, j>>] > 0
      BY <3>1 DEF OrderInv, ArrivesInOrder
    <3> QED
      BY <2>2, <2>3, <3>2
  <2> QED
    BY <2>4, <2>5
<1> QED
  BY <1>2, <1>4, <1>5, <1>6 DEF OrderInv

LEMMA NextOrder ==
  ASSUME CopiesOutnumberLosses
  PROVE  /\ RadioInv /\ NoCollision /\ NoCollision' /\ RadioReliable
         /\ OrderInv /\ [RadioNext]_radioVars
         => OrderInv'
<1> SUFFICES ASSUME RadioInv, NoCollision, NoCollision', RadioReliable,
                    OrderInv, [RadioNext]_radioVars
             PROVE  OrderInv'
  OBVIOUS
<1>1. ASSUME NEW r \in Stations, EnterSend(r) \/ GiveUp(r) PROVE OrderInv'
  <2>1. /\ air' = air /\ assigned' = assigned /\ returned' = returned
        /\ restarts' = restarts /\ alive' = alive
    BY <1>1 DEF EnterSend, GiveUp, TransmitFails, vars, senderVars, channelVars, receiverVars,
                fileReceiverVars
  <2> QED
    BY <2>1, OrderStays
<1>2. ASSUME NEW r \in Stations, EnterBroadcast(r) PROVE OrderInv'
  <2>1. returned' = returned /\ restarts' = restarts
    BY <1>2 DEF EnterBroadcast, StartBroadcast, receiverVars
  <2>2. ArrivesInOrder'
    BY <2>1 DEF OrderInv, ArrivesInOrder
  <2> QED
    BY <1>2, <2>2, StartInOrder DEF OrderInv
<1>3. ASSUME NEW r \in Stations, TransmitNext(r) \/ LeaveBroadcast(r) PROVE OrderInv'
  <2>1. /\ air = {} /\ Transmit(r)
        /\ assigned' = assigned /\ returned' = returned
        /\ restarts' = restarts /\ alive' = alive
    BY <1>3 DEF TransmitNext, LeaveBroadcast, TransmitPiece, TransmitLastPiece,
                FinishBroadcast, Transmit, receiverVars, fileVars, fileReceiverVars
  <2>2. AirInOrder'
    BY <2>1, TransmissionInOrder DEF AirInOrder
  <2>3. ArrivesInOrder'
    BY <2>1 DEF OrderInv, ArrivesInOrder
  <2> QED
    BY <2>2, <2>3 DEF OrderInv
<1>4. ASSUME NEW f \in air, HearAndReceive(f) PROVE OrderInv'
  BY <1>4, HearInOrder
<1>5. CASE PassUnheard \/ (\E f \in air : LoseFrame(f)) \/ UNCHANGED radioVars
  <2>1. /\ air' \subseteq air /\ assigned' = assigned /\ returned' = returned
        /\ restarts' = restarts /\ alive' = alive
    BY <1>5 DEF PassUnheard, LoseFrame, Lose, radioVars, vars, senderVars, channelVars,
                receiverVars, fileVars, fileReceiverVars
  <2> QED
    BY <2>1, OrderStays
<1>6. CASE RestartCopy
  <2>1. restarts \in Nat /\ restarts' = restarts + 1
    BY <1>6, LinkAssumption DEF RadioInv, IInv, TypeOK, RestartCopy, RestartReceiver
  <2> QED
    BY <2>1 DEF OrderInv, AirInOrder, ArrivesInOrder
<1> QED
  BY <1>1, <1>2, <1>3, <1>4, <1>5, <1>6 DEF RadioNext, SenderStep, ListenAndReceive

LEMMA OrderInvariance ==
  ASSUME CopiesOutnumberLosses
  PROVE  RadioSpec /\ []NoCollision => []OrderInv
<1>1. RadioInit => OrderInv
  <2> SUFFICES ASSUME RadioInit PROVE OrderInv
    OBVIOUS
  <2>1. air = {}
    BY RadioAssumption DEF RadioInit, Init
  <2>2. \A p \in Packet : returned[p] = 0
    BY DEF RadioInit, Init, ReceiverInit
  <2>3. ArrivesInOrder
    BY <2>2, OutboxEntries, ChunkCountIsNat DEF ArrivesInOrder
  <2> QED
    BY <2>1, <2>3 DEF OrderInv, AirInOrder
<1>2. RadioInv /\ NoCollision /\ NoCollision' /\ RadioReliable /\ OrderInv
        /\ [RadioNext]_radioVars => OrderInv'
  BY NextOrder
<1> QED
  BY <1>1, <1>2, RadioInvariance, RadioReliability, PTL DEF RadioSpec

\* With more copies than losses, a receiver that is there from the start is
\* handed the packets of every run in the order in which they were sent.
THEOREM PacketsArriveInOrder ==
  ASSUME CopiesOutnumberLosses
  PROVE  RadioSpec /\ []NoCollision => []ArrivesInOrder
<1>1. OrderInv => ArrivesInOrder
  BY DEF OrderInv
<1>2. RadioSpec /\ []NoCollision => []OrderInv
  BY OrderInvariance
<1> QED
  BY <1>1, <1>2, PTL

-----------------------------------------------------------------------------
(* With the packets in order, the first one that a transfer brings to the  *)
(* receiver is its header, so no tracker is ever without an id.            *)

IsTracker(t) == t = [header |-> t.header, chunks |-> t.chunks, is_complete |-> t.is_complete]

\* Every tracker was opened with a header.
TrackersHaveHeaders ==
  /\ \E S : file_chunks \in Seq(S)
  /\ \A i \in DOMAIN file_chunks :
       IsTracker(file_chunks[i]) /\ "id" \in file_chunks[i].header.has

TrackerFor(id) == \E i \in DOMAIN file_chunks : file_chunks[i].header.id = id

\* A run that has not started has sent nothing.
ReadyUnsent ==
  /\ DOMAIN stage = Stations
  /\ DOMAIN transfer_id = Stations
  /\ \A r \in Stations : stage[r] = "ready" => next[r] = 0 /\ phase[r] = "idle"

HeadersInv ==
  /\ ReadyUnsent
  /\ restarts = 0 => TrackersHaveHeaders
  /\ restarts = 0 /\ alive =>
       \A r \in Stations : returned[<<r, 0>>] > 0 => TrackerFor(transfer_id[r])

\* What was handed over was reached by its station.
LEMMA ReturnedWereReached ==
  ASSUME RadioInv, DeliveredAsSent, ReadyUnsent, NEW r \in Stations, returned[<<r, 0>>] > 0
  PROVE  stage[r] # "ready"
<1>1. <<r, 0>> \in Packet /\ 1 \in DOMAIN Outbox[r] /\ Outbox[r][1] = <<r, 0>>
  BY OutboxEntries, ChunkCountIsNat
<1>2. PICK id \in PayloadIds : <<r, 0>> \in assigned[id]
  BY <1>1 DEF DeliveredAsSent
<1>3. PICK s \in Stations : \E k \in DOMAIN Outbox[s] :
        /\ Outbox[s][k] = <<r, 0>>
        /\ k < position[s] \/ (k = position[s] /\ phase[s] # "idle")
  BY <1>2 DEF RadioInv, IInv, AssignedWereReached
<1>4. PICK k \in DOMAIN Outbox[s] :
        /\ Outbox[s][k] = <<r, 0>>
        /\ k < position[s] \/ (k = position[s] /\ phase[s] # "idle")
  BY <1>3
<1>5. s = r /\ k = 1
  BY <1>1, <1>4, OutboxAssumption
<1>6. next[r] \in Nat /\ position[r] = next[r] + 1
  BY DEF RadioInv, InStep
<1> QED
  BY <1>4, <1>5, <1>6 DEF ReadyUnsent

LEMMA NextReadyUnsent ==
  RadioInv /\ ReadyUnsent /\ [RadioNext]_radioVars => ReadyUnsent'
<1> SUFFICES ASSUME RadioInv, ReadyUnsent, [RadioNext]_radioVars PROVE ReadyUnsent'
  OBVIOUS
<1>0. phase \in [Stations -> {"idle", "sending", "failed"}] /\ next \in [Stations -> Nat]
  BY DEF RadioInv, IInv, TypeOK
<1>1. ASSUME UNCHANGED <<stage, transfer_id, next, phase>> PROVE ReadyUnsent'
  BY <1>1 DEF ReadyUnsent
<1>2. ASSUME NEW r \in Stations, SenderStep(r) PROVE ReadyUnsent'
  <2>1. CASE EnterSend(r)
    <3>1. phase' = phase /\ next' = next
      BY <2>1 DEF EnterSend, Sender!StartSend, Sender!RefuseSend, vars, senderVars
    <3>2. /\ DOMAIN stage' = DOMAIN stage /\ DOMAIN transfer_id' = DOMAIN transfer_id
          /\ \A q \in Stations : stage'[q] = "ready" => stage[q] = "ready"
      BY <2>1 DEF EnterSend, Sender!StartSend, Sender!RefuseSend, ReadyUnsent
    <3> QED
      BY <3>1, <3>2 DEF ReadyUnsent
  <2>2. CASE TransmitNext(r)
    BY <1>1, <2>2 DEF TransmitNext, TransmitPiece, TransmitLastPiece, fileVars, fileSenderVars
  <2>3. CASE EnterBroadcast(r) \/ LeaveBroadcast(r) \/ GiveUp(r)
    <3>1. /\ transfer_id' = transfer_id
          /\ stage[r] # "ready"
          /\ \E new \in {"calling", "sending", "done", "failed"} :
               stage' = [stage EXCEPT ![r] = new]
      BY <2>3 DEF EnterBroadcast, LeaveBroadcast, GiveUp, Sender!CallBroadcast,
                  Sender!BroadcastReturns, Sender!BroadcastFails
    <3>2. /\ DOMAIN stage' = DOMAIN stage
          /\ \A q \in Stations : stage'[q] = "ready" => q # r /\ stage[q] = "ready"
      BY <3>1 DEF ReadyUnsent
    <3>3. \A q \in Stations : q # r => next'[q] = next[q] /\ phase'[q] = phase[q]
      BY <1>0, <2>3 DEF EnterBroadcast, LeaveBroadcast, GiveUp, Sender!CallBroadcast,
                  Sender!BroadcastReturns, Sender!BroadcastFails, StartBroadcast,
                  FinishBroadcast, TransmitFails
    <3> QED
      BY <3>1, <3>2, <3>3 DEF ReadyUnsent
  <2> QED
    BY <1>2, <2>1, <2>2, <2>3 DEF SenderStep
<1>3. CASE (\E f \in air : HearAndReceive(f) \/ LoseFrame(f)) \/ PassUnheard \/ RestartCopy
  BY <1>1, <1>3 DEF HearAndReceive, LoseFrame, PassUnheard, RestartCopy, RestartReceiver,
                    Hear, Lose, senderVars, fileVars, fileSenderVars
<1>4. CASE UNCHANGED radioVars
  BY <1>1, <1>4 DEF radioVars, vars, senderVars, fileVars, fileSenderVars
<1> QED
  BY <1>2, <1>3, <1>4 DEF RadioNext, ListenAndReceive

\* The lookup finds a tracker by its header.
LEMMA FoundByHeader ==
  ASSUME TrackersHaveHeaders, NEW id
  PROVE  /\ \A i : Receiver!FoundAt(id, i) =>
              i \in DOMAIN file_chunks /\ file_chunks[i].header.id = id
         /\ Receiver!NotFound(id) => ~TrackerFor(id)
<1>1. \A i \in DOMAIN file_chunks :
        /\ ~Receiver!Invalid(file_chunks[i])
        /\ Receiver!GetId(file_chunks[i]) = file_chunks[i].header.id
  BY DEF TrackersHaveHeaders, Receiver!Invalid, Receiver!GetId
<1>2. Receiver!Stops(id) = {i \in DOMAIN file_chunks : file_chunks[i].header.id = id}
  BY <1>1 DEF Receiver!Stops
<1> QED
  BY <1>2 DEF Receiver!FoundAt, Receiver!NotFound, TrackerFor

\* A tracker is added.
LEMMA TrackerAdded ==
  ASSUME TrackersHaveHeaders, NEW t, IsTracker(t), "id" \in t.header.has,
         file_chunks' = Append(file_chunks, t)
  PROVE  /\ TrackersHaveHeaders'
         /\ \A id : TrackerFor(id) \/ id = t.header.id => TrackerFor(id)'
<1>1. PICK S : file_chunks \in Seq(S)
  BY DEF TrackersHaveHeaders
<1>2. PICK n : n = Len(file_chunks)
  OBVIOUS
<1>3. n \in Nat /\ DOMAIN file_chunks = 1..n /\ \A i \in 1..n : file_chunks[i] \in S
  BY <1>1, <1>2, LenProperties, ElementOfSeq
<1>4. file_chunks \in Seq(S \cup {t})
  BY <1>1, <1>2, <1>3
<1>5. /\ Append(file_chunks, t) \in Seq(S \cup {t})
      /\ Len(Append(file_chunks, t)) = n + 1
      /\ \A i \in 1..n : Append(file_chunks, t)[i] = file_chunks[i]
      /\ Append(file_chunks, t)[n + 1] = t
  BY <1>2, <1>3, <1>4, AppendProperties
<1>6. DOMAIN Append(file_chunks, t) = 1..(n + 1)
  BY <1>5, LenProperties
<1>7. \A i \in 1..(n + 1) : i \in 1..n \/ i = n + 1
  BY <1>3
<1>8. 1..n \subseteq 1..(n + 1) /\ n + 1 \in 1..(n + 1)
  BY <1>3
<1>9. TrackersHaveHeaders'
  BY <1>3, <1>5, <1>6, <1>7 DEF TrackersHaveHeaders
<1>10. \A id : TrackerFor(id) \/ id = t.header.id => TrackerFor(id)'
  BY <1>3, <1>5, <1>6, <1>8 DEF TrackerFor
<1> QED
  BY <1>9, <1>10

\* A tracker takes a chunk, or the header of its transfer.
LEMMA TrackerKept ==
  ASSUME TrackersHaveHeaders, NEW i \in DOMAIN file_chunks, NEW t,
         IsTracker(t), "id" \in t.header.has, t.header.id = file_chunks[i].header.id,
         file_chunks' = [file_chunks EXCEPT ![i] = t]
  PROVE  /\ TrackersHaveHeaders'
         /\ \A id : TrackerFor(id) => TrackerFor(id)'
<1>1. PICK S : file_chunks \in Seq(S)
  BY DEF TrackersHaveHeaders
<1>2. PICK n : n = Len(file_chunks)
  OBVIOUS
<1>3. n \in Nat /\ DOMAIN file_chunks = 1..n /\ \A j \in 1..n : file_chunks[j] \in S
  BY <1>1, <1>2, LenProperties, ElementOfSeq
<1>4. file_chunks \in Seq(S \cup {t})
  BY <1>1, <1>2, <1>3
<1>5. [file_chunks EXCEPT ![i] = t] \in Seq(S \cup {t})
  BY <1>2, <1>3, <1>4, ExceptSeq
<1>6. /\ DOMAIN file_chunks' = 1..n
      /\ \A j \in 1..n : file_chunks'[j] = IF j = i THEN t ELSE file_chunks[j]
  BY <1>3
<1> QED
  BY <1>3, <1>5, <1>6 DEF TrackersHaveHeaders, TrackerFor

\* Receive keeps the headers, and a new header gets its tracker, unless the
\* process ends.
LEMMA ReceiveKeepsHeaders ==
  ASSUME TrackersHaveHeaders, NEW p, Receiver!Receive(Sender!PacketOf(p)),
         NEW id, id = transfer_id[p[1]],
         p[2] # 0 => TrackerFor(id)
  PROVE  /\ TrackersHaveHeaders'
         /\ alive' => /\ \A d : TrackerFor(d) => TrackerFor(d)'
                      /\ p[2] = 0 => TrackerFor(id)'
<1>1. CASE p[2] = 0
  <2>1. PICK h : h = Sender!HeaderOf(p[1], id)
    OBVIOUS
  <2>2. /\ h.has = Receiver!HeaderFields /\ h.id = id /\ "id" \in h.has
    BY <2>1 DEF Sender!HeaderOf, Sender!HeaderFields, Receiver!HeaderFields
  <2>3. Receiver!HandleTransferHeader(h)
    BY <1>1, <2>1 DEF Receiver!Receive, Sender!PacketOf
  <2>4. CASE Receiver!IgnoreHeader(h)
    <3>1. file_chunks' = file_chunks /\ \E i \in DOMAIN file_chunks : Receiver!FoundAt(id, i)
      BY <2>2, <2>4 DEF Receiver!IgnoreHeader, Receiver!receiverVars
    <3>2. TrackerFor(id)
      BY <3>1, FoundByHeader DEF TrackerFor
    <3> QED
      BY <3>1, <3>2 DEF TrackersHaveHeaders, TrackerFor
  <2>5. CASE Receiver!OpenWithHeader(h)
    <3>1. PICK t : t = [header |-> h, chunks |-> <<>>, is_complete |-> FALSE]
      OBVIOUS
    <3>2. IsTracker(t) /\ t.header = h
      BY <3>1 DEF IsTracker
    <3>3. file_chunks' = Append(file_chunks, t)
      BY <2>5, <3>1 DEF Receiver!OpenWithHeader
    <3> QED
      BY <2>2, <3>2, <3>3, TrackerAdded
  <2>6. CASE Receiver!AdoptHeader(h)
    <3>1. PICK i \in DOMAIN file_chunks :
            /\ Receiver!FoundAt(id, i)
            /\ file_chunks' = [file_chunks EXCEPT ![i].header = h]
      BY <2>2, <2>6 DEF Receiver!AdoptHeader
    <3>2. PICK t : t = [file_chunks[i] EXCEPT !.header = h]
      OBVIOUS
    <3>3. IsTracker(file_chunks[i])
      BY DEF TrackersHaveHeaders
    <3>4. IsTracker(t) /\ t.header = h
      BY <3>2, <3>3 DEF IsTracker
    <3>5. file_chunks[i].header.id = id
      BY <3>1, FoundByHeader
    <3>6. file_chunks' = [file_chunks EXCEPT ![i] = t]
      BY <3>1, <3>2
    <3>7. TrackerFor(id)
      BY <3>5 DEF TrackerFor
    <3> QED
      BY <2>2, <3>4, <3>5, <3>6, <3>7, TrackerKept
  <2>7. CASE Receiver!ExitInLookup(h.id)
    BY <2>7 DEF Receiver!ExitInLookup, TrackersHaveHeaders
  <2> QED
    BY <2>3, <2>4, <2>5, <2>6, <2>7 DEF Receiver!HandleTransferHeader
<1>2. CASE p[2] # 0
  <2>1. PICK c : c = Sender!ChunkOf(p[1], id, p[2])
    OBVIOUS
  <2>2. c.id = id
    BY <2>1 DEF Sender!ChunkOf
  <2>3. Receiver!HandleTransferChunk(c)
    BY <1>2, <2>1 DEF Receiver!Receive, Sender!PacketOf
  <2>4. CASE Receiver!IgnoreChunk(c)
    BY <1>2, <2>4 DEF Receiver!IgnoreChunk, Receiver!receiverVars, TrackersHaveHeaders, TrackerFor
  <2>5. ~Receiver!OpenWithChunk(c)
    BY <1>2, <2>2, FoundByHeader DEF Receiver!OpenWithChunk
  <2>6. CASE Receiver!AddChunk(c)
    <3>1. PICK i \in DOMAIN file_chunks : \E chunks :
            file_chunks' = [file_chunks EXCEPT ![i] = Receiver!WithChunks(file_chunks[i], chunks)]
      BY <2>6 DEF Receiver!AddChunk
    <3>2. PICK chunks :
            file_chunks' = [file_chunks EXCEPT ![i] = Receiver!WithChunks(file_chunks[i], chunks)]
      BY <3>1
    <3>3. PICK old, t : old = file_chunks[i] /\ t = Receiver!WithChunks(old, chunks)
      OBVIOUS
    <3>4. IsTracker(old) /\ "id" \in old.header.has
      BY <3>3 DEF TrackersHaveHeaders
    <3>5. \/ t = [old EXCEPT !.chunks = <<>>, !.is_complete = TRUE]
          \/ t = [old EXCEPT !.chunks = chunks]
      BY <3>3 DEF Receiver!WithChunks
    <3>6. IsTracker(t) /\ t.header = old.header
      BY <3>4, <3>5 DEF IsTracker
    <3>7. file_chunks' = [file_chunks EXCEPT ![i] = t]
      BY <3>2, <3>3
    <3> QED
      BY <1>2, <3>3, <3>4, <3>6, <3>7, TrackerKept
  <2>7. CASE Receiver!ExitInLookup(c.id)
    BY <1>2, <2>7 DEF Receiver!ExitInLookup, TrackersHaveHeaders
  <2> QED
    BY <2>3, <2>4, <2>5, <2>6, <2>7 DEF Receiver!HandleTransferChunk
<1> QED
  BY <1>1, <1>2

LEMMA HearKeepsHeaders ==
  ASSUME RadioInv, NoCollision, AirInOrder, HeadersInv, ReadyUnsent',
         NEW f \in air, HearAndReceive(f)
  PROVE  HeadersInv'
<1>1. /\ Hear(f) /\ alive /\ restarts' = restarts
      /\ \/ HandedOver = {} /\ UNCHANGED fileReceiverVars
         \/ \E p \in HandedOver : Receiver!Receive(Sender!PacketOf(p))
      /\ transfer_id' = transfer_id
  BY DEF HearAndReceive, Hear, fileSenderVars
<1>2. PICK c : c = f.chunk
  OBVIOUS
<1>3. \/ Ignore(c)
      \/ Hold(c)
      \/ \E p \in assigned[c.payload_id] :
           /\ p \in Packet
           /\ returned[p] = 0
           /\ returned' = [returned EXCEPT ![p] = 1]
  BY <1>1, <1>2, HearCases DEF RadioInv
<1>4. returned \in [Packet \cup {Garbled} -> Nat]
  BY DEF RadioInv, IInv, TypeOK, ReceiverTypeOK
<1>5. CASE Ignore(c) \/ Hold(c)
  <2>1. returned' = returned
    BY <1>5 DEF Ignore, Hold, receiverVars
  <2>2. HandedOver = {}
    BY <1>4, <2>1 DEF HandedOver
  <2>3. file_chunks' = file_chunks /\ alive' = alive
    BY <1>1, <2>2 DEF fileReceiverVars
  <2> QED
    BY <1>1, <2>1, <2>3 DEF HeadersInv, TrackersHaveHeaders, TrackerFor
<1>6. ASSUME NEW p \in assigned[c.payload_id], p \in Packet, returned[p] = 0,
             returned' = [returned EXCEPT ![p] = 1]
      PROVE  HeadersInv'
  <2>1. \A q \in Packet : returned'[q] = IF q = p THEN 1 ELSE returned[q]
    BY <1>4, <1>6
  <2>2. HandedOver = {p}
    BY <1>4, <1>6, <2>1 DEF HandedOver
  <2>3. Receiver!Receive(Sender!PacketOf(p))
    BY <1>1, <2>2
  <2>4. p[1] \in Stations /\ p[2] \in Nat /\ p = <<p[1], p[2]>>
    <3>1. PICK r \in Stations : p \in {r} \X (0..Sender!ChunkCount(r))
      BY <1>6, RadioAssumption DEF Sender!PacketIds
    <3> QED
      BY <3>1
  <2> SUFFICES ASSUME restarts = 0
               PROVE  /\ TrackersHaveHeaders'
                      /\ alive' => \A r \in Stations :
                           returned'[<<r, 0>>] > 0 => TrackerFor(transfer_id[r])'
    BY <1>1 DEF HeadersInv, TrackerFor
  <2>5. PICK id : id = transfer_id[p[1]]
    OBVIOUS
  <2>6. p[2] # 0 => TrackerFor(id)
    <3> SUFFICES ASSUME p[2] # 0 PROVE TrackerFor(id)
      OBVIOUS
    <3>1. returned[<<p[1], 0>>] > 0
      BY <1>1, <1>2, <2>4 DEF AirInOrder
    <3> QED
      BY <1>1, <2>4, <2>5, <3>1 DEF HeadersInv
  <2>7. /\ TrackersHaveHeaders'
        /\ alive' => /\ \A d : TrackerFor(d) => TrackerFor(d)'
                     /\ p[2] = 0 => TrackerFor(id)'
    BY <2>3, <2>5, <2>6, ReceiveKeepsHeaders DEF HeadersInv
  <2>8. ASSUME alive', NEW r \in Stations, returned'[<<r, 0>>] > 0
        PROVE  TrackerFor(transfer_id[r])'
    <3>1. <<r, 0>> \in Packet
      BY OutboxEntries, ChunkCountIsNat
    <3>2. CASE <<r, 0>> = p
      <4>1. p[1] = r /\ p[2] = 0
        BY <3>2
      <4>2. TrackerFor(id)' /\ id = transfer_id[r]
        BY <2>5, <2>7, <2>8, <4>1
      <4> QED
        BY <1>1, <4>2 DEF TrackerFor
    <3>3. CASE <<r, 0>> # p
      <4>1. returned[<<r, 0>>] > 0
        BY <2>1, <2>8, <3>1, <3>3
      <4>2. TrackerFor(transfer_id[r])
        BY <1>1, <4>1 DEF HeadersInv
      <4>3. PICK d : d = transfer_id[r]
        OBVIOUS
      <4>4. TrackerFor(d)'
        BY <2>7, <2>8, <4>2, <4>3
      <4> QED
        BY <1>1, <4>3, <4>4 DEF TrackerFor
    <3> QED
      BY <3>2, <3>3
  <2> QED
    BY <1>1, <2>7, <2>8
<1> QED
  BY <1>3, <1>5, <1>6

LEMMA NextHeaders ==
  RadioInv /\ NoCollision /\ DeliveredAsSent /\ AirInOrder /\ HeadersInv
    /\ [RadioNext]_radioVars => HeadersInv'
<1> SUFFICES ASSUME RadioInv, NoCollision, DeliveredAsSent, AirInOrder, HeadersInv,
                    [RadioNext]_radioVars
             PROVE  HeadersInv'
  OBVIOUS
<1>0. ReadyUnsent'
  BY NextReadyUnsent DEF HeadersInv
<1>1. ASSUME file_chunks' = file_chunks, alive' = alive, transfer_id' = transfer_id,
             returned' = returned, restarts' = restarts
      PROVE  HeadersInv'
  BY <1>0, <1>1 DEF HeadersInv, TrackersHaveHeaders, TrackerFor
<1>2. ASSUME NEW r \in Stations, EnterSend(r) PROVE HeadersInv'
  <2>1. /\ file_chunks' = file_chunks /\ alive' = alive
        /\ returned' = returned /\ restarts' = restarts
    BY <1>2 DEF EnterSend, fileReceiverVars, vars, receiverVars
  <2>2. \A q \in Stations : stage[q] # "ready" => transfer_id'[q] = transfer_id[q]
    BY <1>2 DEF EnterSend, Sender!StartSend, Sender!RefuseSend, Sender!MayStart,
                HeadersInv, ReadyUnsent
  <2>3. \A q \in Stations : returned[<<q, 0>>] > 0 => transfer_id'[q] = transfer_id[q]
    BY <2>2, ReturnedWereReached DEF HeadersInv
  <2> QED
    BY <1>0, <2>1, <2>3 DEF HeadersInv, TrackersHaveHeaders, TrackerFor
<1>3. ASSUME NEW r \in Stations,
             EnterBroadcast(r) \/ TransmitNext(r) \/ LeaveBroadcast(r) \/ GiveUp(r)
      PROVE  HeadersInv'
  <2>1. /\ file_chunks' = file_chunks /\ alive' = alive /\ transfer_id' = transfer_id
        /\ returned' = returned /\ restarts' = restarts
    BY <1>3 DEF EnterBroadcast, TransmitNext, LeaveBroadcast, GiveUp, StartBroadcast,
                TransmitPiece, TransmitLastPiece, FinishBroadcast, TransmitFails, Transmit,
                Sender!CallBroadcast, Sender!BroadcastReturns, Sender!BroadcastFails,
                fileVars, fileSenderVars, fileReceiverVars, receiverVars
  <2> QED
    BY <1>1, <2>1
<1>4. ASSUME NEW f \in air, HearAndReceive(f) PROVE HeadersInv'
  BY <1>0, <1>4, HearKeepsHeaders
<1>5. CASE PassUnheard \/ (\E f \in air : LoseFrame(f)) \/ UNCHANGED radioVars
  <2>1. /\ file_chunks' = file_chunks /\ alive' = alive /\ transfer_id' = transfer_id
        /\ returned' = returned /\ restarts' = restarts
    BY <1>5 DEF PassUnheard, LoseFrame, Lose, radioVars, vars, receiverVars,
                fileVars, fileSenderVars, fileReceiverVars
  <2> QED
    BY <1>1, <2>1
<1>6. CASE RestartCopy
  <2>1. restarts \in Nat /\ restarts' = restarts + 1
    BY <1>6, LinkAssumption DEF RadioInv, IInv, TypeOK, RestartCopy, RestartReceiver
  <2> QED
    BY <1>0, <2>1 DEF HeadersInv
<1> QED
  BY <1>2, <1>3, <1>4, <1>5, <1>6 DEF RadioNext, SenderStep, ListenAndReceive

\* With more copies than losses, the lookup of a receiver that is there from
\* the start never meets a tracker without an id.
THEOREM TrackersAlwaysHaveIds ==
  ASSUME CopiesOutnumberLosses
  PROVE  RadioSpec /\ []NoCollision => []TrackersHaveIdsFromStart
<1>1. RadioInit => HeadersInv
  <2> SUFFICES ASSUME RadioInit PROVE HeadersInv
    OBVIOUS
  <2>1. file_chunks = <<>> /\ file_chunks \in Seq({}) /\ DOMAIN file_chunks = {}
    BY EmptySeq DEF RadioInit, Receiver!ReceiverInit, Receiver!ReceiverStart
  <2>2. \A r \in Stations : returned[<<r, 0>>] = 0
    BY OutboxEntries, ChunkCountIsNat DEF RadioInit, Init, ReceiverInit
  <2>3. ReadyUnsent
    BY DEF RadioInit, Init, Sender!SenderInit, ReadyUnsent
  <2> QED
    BY <2>1, <2>2, <2>3 DEF HeadersInv, TrackersHaveHeaders
<1>2. RadioSpec /\ []NoCollision => []OrderInv
  BY OrderInvariance
<1>3. OrderInv => AirInOrder
  BY DEF OrderInv
<1>4. RadioReliable => DeliveredAsSent
  BY DEF RadioReliable
<1>5. HeadersInv => TrackersHaveIdsFromStart
  BY DEF HeadersInv, TrackersHaveHeaders, TrackersHaveIdsFromStart, TrackersHaveIds,
         Copy!TrackersHaveIds, Copy!Invalid
<1> QED
  BY <1>1, <1>2, <1>3, <1>4, <1>5, NextHeaders, RadioInvariance, RadioReliability, PTL
  DEF RadioSpec
=============================================================================
