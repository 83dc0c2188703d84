------------------------ MODULE OrderedCopy_proofs ------------------------
(***************************************************************************)
(* Proofs about FileCopy on a link that delivers the header of a transfer  *)
(* before its chunks, for any runs, files, ids and bounds: what the        *)
(* trackers remember, and that the file on the disk follows them.          *)
(***************************************************************************)
EXTENDS FileCopy_proofs

-----------------------------------------------------------------------------
(* What holds when no chunk is delivered before its header.                *)

\* A run sends its header before anything else.
HeaderIsFirst ==
  /\ \A p \in sent : <<p[1], 0>> \in sent
  /\ \A r \in Runs : next[r] > 0 \/ stage[r] = "calling" => <<r, 0>> \in sent

AllWithHeaders(trackers, ids) ==
  \A i \in DOMAIN trackers : GenuineHeader(trackers[i].header, ids)

TrackersHaveHeaders == AllWithHeaders(file_chunks, transfer_id)

\* The tracker has had the k-th packet of the transfer, 0 being the header.
Remembers(t, id, k) ==
  /\ t.header.id = id
  /\ k = 0 \/ t.is_complete \/ \E j \in DOMAIN t.chunks : t.chunks[j].chunk_id = k

Tracked(trackers, id, k) == \E i \in DOMAIN trackers : Remembers(trackers[i], id, k)

\* The trackers remember every packet the process was delivered.
DeliveredIsTracked ==
  \A p \in PacketIds : delivered[p] > 0 =>
    p \in sent /\ Tracked(file_chunks, transfer_id[p[1]], p[2])

HeadersInv == HeaderIsFirst /\ TrackersHaveHeaders /\ DeliveredIsTracked

-----------------------------------------------------------------------------
(* What holds when, in addition, no write fails.                           *)

\* The file on the disk is what the tracker holds of it once that is more
\* than nothing, and the tracker is complete exactly when the file is.
FileFollows(t, r, contents) ==
  /\ t.is_complete => ChunkCount(r) > 0 /\ contents = Beginning(r, ChunkCount(r))
  /\ ~t.is_complete /\ UnbrokenRun(t.chunks) > 0 =>
       contents = Beginning(r, UnbrokenRun(t.chunks))
  /\ ~t.is_complete /\ ChunkCount(r) > 0 => UnbrokenRun(t.chunks) < ChunkCount(r)

DiskFollows ==
  \A i \in DOMAIN file_chunks : \A r \in Runs :
    transfer_id[r] # 0 => FileFollows(file_chunks[i], r, disk[NameOf[FileOf[r]]])

-----------------------------------------------------------------------------
(* The header first: every tracker has one, and remembers what came.       *)

LEMMA HeaderNames ==
  ASSUME NEW ids, NEW t, GenuineHeader(t.header, ids)
  PROVE  /\ ~Invalid(t) /\ GetId(t) = t.header.id
         /\ \E r \in Runs : ids[r] # 0 /\ t.header = HeaderOf(r, ids[r]) /\ t.header.id = ids[r]
<1>1. PICK r \in Runs : ids[r] # 0 /\ t.header = HeaderOf(r, ids[r])
  BY DEF GenuineHeader
<1>2. "id" \in t.header.has /\ t.header.id = ids[r]
  BY <1>1 DEF HeaderOf, HeaderFields
<1> QED
  BY <1>1, <1>2 DEF Invalid, GetId

\* The scan never ends the process, and finds the tracker of a transfer.
LEMMA LookupFinds ==
  ASSUME ReceiverTypeOK, TrackersHaveHeaders, NEW id
  PROVE  /\ ~LookupIsFatal(id)
         /\ \A i \in DOMAIN file_chunks : file_chunks[i].header.id = id => ~NotFound(id)
<1>0. \A i \in DOMAIN file_chunks :
        ~Invalid(file_chunks[i]) /\ GetId(file_chunks[i]) = file_chunks[i].header.id
  BY HeaderNames DEF TrackersHaveHeaders, AllWithHeaders
<1>1. Stops(id) \in SUBSET Nat /\ Stops(id) \subseteq DOMAIN file_chunks
  BY TrackersAreSequence DEF Stops
<1>2. ASSUME Stops(id) # {} PROVE Min(Stops(id)) \in Stops(id)
  <2>1. \E x \in Stops(id) : \A y \in Stops(id) : x <= y
    BY <1>1, <1>2, LeastElement
  <2> QED
    BY <2>1 DEF Min
<1>3. ~LookupIsFatal(id)
  BY <1>0, <1>1, <1>2 DEF LookupIsFatal
<1>4. \A i \in DOMAIN file_chunks : file_chunks[i].header.id = id => ~NotFound(id)
  BY <1>0 DEF NotFound, Stops
<1> QED
  BY <1>3, <1>4

\* What the process does with the k-th packet of a run, when a chunk comes
\* after its header.
LEMMA WhatReceiveDoes ==
  ASSUME ReceiverInv, TrackersHaveHeaders, NEW p \in PacketIds, NEW r, NEW k, NEW id,
         r = p[1], k = p[2], id = transfer_id[r],
         k # 0 => Tracked(file_chunks, id, 0),
         Receive(PacketOf(p))
  PROVE  \/ UNCHANGED receiverVars /\ Tracked(file_chunks, id, k)
         \/ k = 0 /\ OpenWithHeader(HeaderOf(r, id))
         \/ k = 0 /\ AdoptHeader(HeaderOf(r, id))
         \/ k # 0 /\ AddChunk(ChunkOf(r, id, k))
<1>0. PacketOf(p) = IF k = 0 THEN [type |-> "file_transfer_header", body |-> HeaderOf(r, id)]
                    ELSE [type |-> "file_transfer_chunk", body |-> ChunkOf(r, id, k)]
  BY DEF PacketOf
<1>1. ~LookupIsFatal(id)
  BY LookupFinds DEF ReceiverInv
<1>2. \A i : FoundAt(id, i) => i \in DOMAIN file_chunks /\ file_chunks[i].header.id = id
  <2>1. \A i \in DOMAIN file_chunks : GetId(file_chunks[i]) = file_chunks[i].header.id
    BY HeaderNames DEF TrackersHaveHeaders, AllWithHeaders
  <2> QED
    BY <2>1, TrackerFound DEF ReceiverInv
<1>3. CASE k = 0
  <2> DEFINE h == HeaderOf(r, id)
  <2>1. HandleTransferHeader(h)
    BY <1>0, <1>3 DEF Receive
  <2>2. h.id = id /\ HeaderFields \subseteq h.has
    BY DEF HeaderOf
  <2> HIDE DEF h
  <2>3. CASE IgnoreHeader(h)
    <3>1. PICK i \in DOMAIN file_chunks : FoundAt(id, i)
      BY <2>2, <2>3 DEF IgnoreHeader
    <3>2. Tracked(file_chunks, id, k)
      BY <1>2, <1>3, <3>1 DEF Tracked, Remembers
    <3> QED
      BY <2>3, <3>2 DEF IgnoreHeader
  <2>4. ~ExitInLookup(h.id)
    BY <1>1, <2>2 DEF ExitInLookup
  <2>5. CASE OpenWithHeader(h) \/ AdoptHeader(h)
    BY <1>3, <2>5 DEF h
  <2> QED
    BY <2>1, <2>3, <2>4, <2>5 DEF HandleTransferHeader
<1>4. CASE k # 0
  <2> DEFINE c == ChunkOf(r, id, k)
  <2>1. HandleTransferChunk(c)
    BY <1>0, <1>4 DEF Receive
  <2>2. c.id = id /\ c.chunk_id = k /\ ChunkFields \subseteq c.has
    BY DEF ChunkOf
  <2> HIDE DEF c
  <2>3. CASE IgnoreChunk(c)
    <3>1. PICK i \in DOMAIN file_chunks : FoundAt(id, i) /\ ~Wants(file_chunks[i], c)
      BY <2>2, <2>3 DEF IgnoreChunk
    <3>2. \/ file_chunks[i].is_complete
          \/ \E j \in DOMAIN file_chunks[i].chunks : file_chunks[i].chunks[j].chunk_id = k
      BY <2>2, <3>1 DEF Wants
    <3>3. Tracked(file_chunks, id, k)
      BY <1>2, <3>1, <3>2 DEF Tracked, Remembers
    <3> QED
      BY <2>3, <3>3 DEF IgnoreChunk
  <2>4. ~ExitInLookup(c.id)
    BY <1>1, <2>2 DEF ExitInLookup
  <2>5. ~OpenWithChunk(c)
    BY <1>4, <2>2, LookupFinds DEF ReceiverInv, OpenWithChunk, Tracked, Remembers
  <2>6. CASE AddChunk(c)
    BY <1>4, <2>6 DEF c
  <2> QED
    BY <2>1, <2>3, <2>4, <2>5, <2>6 DEF HandleTransferChunk
<1> QED
  BY <1>3, <1>4

\* A packet of another program leaves everything as it is.
LEMMA StrayDoesNothing ==
  ASSUME StraysAreIncomplete, NEW packet \in Strays, Receive(packet)
  PROVE  UNCHANGED receiverVars
<1>1. packet.type = "file_transfer_header" => ~(HeaderFields \subseteq packet.body.has)
  BY DEF StraysAreIncomplete
<1>2. packet.type = "file_transfer_chunk" => ~(ChunkFields \subseteq packet.body.has)
  BY DEF StraysAreIncomplete
<1> QED
  BY <1>1, <1>2 DEF Receive, HandleTransferHeader, HandleTransferChunk, IgnoreHeader, IgnoreChunk

\* What it keeps, and what it has had, while the packet goes in.
LEMMA ReceiveRemembers ==
  ASSUME ReceiverInv, SenderTypeOK, TrackersHaveHeaders, NEW p \in PacketIds,
         transfer_id[p[1]] # 0,
         p[2] # 0 => Tracked(file_chunks, transfer_id[p[1]], 0),
         Receive(PacketOf(p))
  PROVE  /\ AllWithHeaders(file_chunks', transfer_id)
         /\ \A id, k : Tracked(file_chunks, id, k) => Tracked(file_chunks', id, k)
         /\ Tracked(file_chunks', transfer_id[p[1]], p[2])
<1>0. PICK r, k, id : r = p[1] /\ k = p[2] /\ id = transfer_id[r]
  OBVIOUS
<1> DEFINE n == Len(file_chunks)
<1>a. /\ n \in Nat /\ DOMAIN file_chunks = 1..n /\ file_chunks \in Seq(Tracker)
      /\ \A i \in 1..n : GenuineHeader(file_chunks[i].header, transfer_id)
  BY TrackersAreSequence DEF ReceiverInv, ReceiverTypeOK, TrackersHaveHeaders, AllWithHeaders
<1>b. r \in Runs /\ k \in Nat /\ id \in TransferIds
  BY <1>0, PacketIdParts, ChunksOfFile DEF SenderTypeOK
<1> HIDE DEF n
<1>1. ASSUME NEW i \in DOMAIN file_chunks, NEW t,
             file_chunks' = [file_chunks EXCEPT ![i] = t],
             GenuineHeader(t.header, transfer_id),
             \A d, l : Remembers(file_chunks[i], d, l) => Remembers(t, d, l),
             Remembers(t, id, k)
      PROVE  /\ AllWithHeaders(file_chunks', transfer_id)
             /\ \A d, l : Tracked(file_chunks, d, l) => Tracked(file_chunks', d, l)
             /\ Tracked(file_chunks', id, k)
  <2>1. /\ DOMAIN file_chunks' = 1..n /\ i \in 1..n
        /\ \A j \in 1..n : file_chunks'[j] = IF j = i THEN t ELSE file_chunks[j]
    BY <1>a, <1>1
  <2>2. AllWithHeaders(file_chunks', transfer_id)
    BY <1>a, <1>1, <2>1 DEF AllWithHeaders
  <2>3. \A d, l : Tracked(file_chunks, d, l) => Tracked(file_chunks', d, l)
    BY <1>a, <1>1, <2>1 DEF Tracked
  <2>4. Tracked(file_chunks', id, k)
    BY <1>1, <2>1 DEF Tracked
  <2> QED
    BY <2>2, <2>3, <2>4
<1>2. CASE UNCHANGED receiverVars /\ Tracked(file_chunks, id, k)
  <2>1. file_chunks' = file_chunks
    BY <1>2 DEF receiverVars
  <2> QED
    BY <1>0, <1>2, <2>1 DEF TrackersHaveHeaders
<1>3. CASE k = 0 /\ OpenWithHeader(HeaderOf(r, id))
  <2> DEFINE h == HeaderOf(r, id)
             t == [header |-> h, chunks |-> <<>>, is_complete |-> FALSE]
  <2>1. h.id = id /\ GenuineHeader(h, transfer_id)
    BY <1>0, <1>b DEF HeaderOf, GenuineHeader
  <2>2. file_chunks' = Append(file_chunks, t) /\ t.header = h
    BY <1>3 DEF OpenWithHeader
  <2> HIDE DEF t, h
  <2>3. /\ DOMAIN Append(file_chunks, t) = 1..(n + 1)
        /\ \A i \in 1..(n + 1) :
             Append(file_chunks, t)[i] = IF i = n + 1 THEN t ELSE file_chunks[i]
    BY <1>a DEF n
  <2>4. AllWithHeaders(file_chunks', transfer_id)
    BY <1>a, <2>1, <2>2, <2>3 DEF AllWithHeaders
  <2>5. \A d, l : Tracked(file_chunks, d, l) => Tracked(file_chunks', d, l)
    BY <1>a, <2>2, <2>3 DEF Tracked
  <2>6. Tracked(file_chunks', id, k)
    <3>1. n + 1 \in DOMAIN file_chunks' /\ file_chunks'[n + 1] = t
      BY <1>a, <2>2, <2>3
    <3> QED
      BY <1>3, <2>1, <2>2, <3>1 DEF Tracked, Remembers
  <2> QED
    BY <1>0, <2>4, <2>5, <2>6
<1>4. CASE k = 0 /\ AdoptHeader(HeaderOf(r, id))
  <2> DEFINE h == HeaderOf(r, id)
  <2>1. h \in Header /\ h.id = id /\ GenuineHeader(h, transfer_id)
    BY <1>0, <1>b, HeaderTyped DEF HeaderOf, GenuineHeader
  <2>2. PICK i \in DOMAIN file_chunks :
          FoundAt(h.id, i) /\ file_chunks' = [file_chunks EXCEPT ![i].header = h]
    BY <1>4 DEF AdoptHeader
  <2> HIDE DEF h
  <2>3. PICK t : t = [file_chunks[i] EXCEPT !.header = h]
    OBVIOUS
  <2>4. /\ file_chunks[i] \in Tracker /\ Tidy(file_chunks[i])
        /\ ~Invalid(file_chunks[i]) /\ GetId(file_chunks[i]) = h.id
        /\ file_chunks[i].header.id = h.id
    BY <1>a, <2>2, TrackerFound, HeaderNames DEF ReceiverInv, TrackersTidy
  <2>5. /\ t.header = h
        /\ t.chunks = file_chunks[i].chunks
        /\ t.is_complete = file_chunks[i].is_complete
    BY <2>1, <2>3, <2>4, TrackerWithHeader
  <2>6. \A d, l : Remembers(file_chunks[i], d, l) => Remembers(t, d, l)
    BY <2>4, <2>5 DEF Remembers
  <2>7. Remembers(t, id, k)
    BY <1>4, <2>1, <2>5 DEF Remembers
  <2>8. file_chunks' = [file_chunks EXCEPT ![i] = t]
    BY <2>2, <2>3
  <2> QED
    BY <1>0, <1>1, <2>1, <2>5, <2>6, <2>7, <2>8
<1>5. CASE k # 0 /\ AddChunk(ChunkOf(r, id, k))
  <2> DEFINE c == ChunkOf(r, id, k)
  <2>1. c \in Chunk /\ c.id = id /\ c.chunk_id = k
    BY <1>b, <1>5, ChunkTyped DEF ChunkOf
  <2>2. AddChunk(c)
    BY <1>5
  <2> HIDE DEF c
  <2>3a. PICK i \in DOMAIN file_chunks : \E chunks :
          /\ chunks = SortedInsert(file_chunks[i].chunks, c)
          /\ FoundAt(c.id, i)
          /\ Wants(file_chunks[i], c)
          /\ file_chunks' = [file_chunks EXCEPT ![i] = WithChunks(file_chunks[i], chunks)]
    BY <2>2 DEF AddChunk
  <2>3. PICK chunks :
          /\ chunks = SortedInsert(file_chunks[i].chunks, c)
          /\ FoundAt(c.id, i)
          /\ Wants(file_chunks[i], c)
          /\ file_chunks' = [file_chunks EXCEPT ![i] = WithChunks(file_chunks[i], chunks)]
    BY <2>3a
  <2>4. PICK t, old : t = WithChunks(old, chunks) /\ old = file_chunks[i]
    OBVIOUS
  <2>5. /\ old \in Tracker /\ Tidy(old) /\ ~Invalid(old) /\ GetId(old) = c.id
        /\ old.header.id = c.id /\ Wants(old, c) /\ chunks = SortedInsert(old.chunks, c)
        /\ GenuineHeader(old.header, transfer_id)
    BY <1>a, <2>3, <2>4, TrackerFound, HeaderNames DEF ReceiverInv, TrackersTidy
  <2>6. /\ t.header = old.header
        /\ t.chunks = IF t.is_complete THEN <<>> ELSE chunks
    BY <2>1, <2>4, <2>5, TrackerExtended
  <2>7. Adds(chunks, old.chunks, c)
    BY <2>1, <2>5, ChunkInserted
  <2>8. ~old.is_complete
    BY <2>5 DEF Wants
  <2>9. \A d, l : Remembers(old, d, l) => Remembers(t, d, l)
    BY <2>6, <2>7, <2>8 DEF Remembers, Adds
  <2>10. Remembers(t, id, k)
    BY <2>1, <2>5, <2>6, <2>7 DEF Remembers, Adds
  <2>11. file_chunks' = [file_chunks EXCEPT ![i] = t]
    BY <2>3, <2>4
  <2> QED
    BY <1>0, <1>1, <2>4, <2>5, <2>6, <2>9, <2>10, <2>11
<1> QED
  BY <1>0, <1>2, <1>3, <1>4, <1>5, WhatReceiveDoes

LEMMA InitHeaders == Init => HeadersInv
<1> SUFFICES ASSUME Init PROVE HeadersInv
  OBVIOUS
<1>1. DOMAIN file_chunks = {} /\ sent = {}
  BY DEF Init, ReceiverInit, ReceiverStart, Link!Init
<1>2. \A r \in Runs : next[r] = 0 /\ stage[r] = "ready"
  BY DEF Init, SenderInit
<1>3. \A p \in PacketIds : delivered[p] = 0
  BY DEF Init, Link!Init
<1>4. HeaderIsFirst
  BY <1>1, <1>2 DEF HeaderIsFirst
<1>5. TrackersHaveHeaders
  BY <1>1 DEF TrackersHaveHeaders, AllWithHeaders
<1>6. DeliveredIsTracked
  BY <1>3 DEF DeliveredIsTracked
<1> QED
  BY <1>4, <1>5, <1>6 DEF HeadersInv

\* A run sends its header first.
LEMMA NextHeaderFirst ==
  ASSUME IInv, HeadersInv, [Next]_vars
  PROVE  HeaderIsFirst'
<1>0. HeaderIsFirst /\ SenderTypeOK /\ sent \subseteq PacketIds
  BY DEF HeadersInv, IInv, TypeOK
<1>1. ASSUME UNCHANGED senderVars, sent' = sent PROVE HeaderIsFirst'
  BY <1>0, <1>1 DEF HeaderIsFirst, senderVars
<1>2. ASSUME NEW r \in Runs, SenderStep(r) PROVE HeaderIsFirst'
  <2>1. CASE CallBroadcast(r) /\ Link!Broadcast(<<r, next[r]>>)
    <3>1. sent' = sent \cup {<<r, next[r]>>} /\ next' = next
      BY <2>1 DEF CallBroadcast, Link!Broadcast
    <3>2. \A q \in Runs : q # r => stage'[q] = stage[q]
      BY <1>0, <2>1 DEF CallBroadcast, SenderTypeOK
    <3>3. next[r] \in Nat /\ (next[r] > 0 => <<r, 0>> \in sent)
      BY <1>0 DEF SenderTypeOK, HeaderIsFirst
    <3>4. <<r, 0>> \in sent'
      BY <3>1, <3>3
    <3>5. \A p \in sent' : <<p[1], 0>> \in sent'
      <4>1. \A p \in sent : <<p[1], 0>> \in sent'
        BY <1>0, <3>1 DEF HeaderIsFirst
      <4>2. \A p \in {<<r, next[r]>>} : p[1] = r
        OBVIOUS
      <4> QED
        BY <3>1, <3>4, <4>1, <4>2
    <3>6. \A q \in Runs : next'[q] > 0 \/ stage'[q] = "calling" => <<q, 0>> \in sent'
      BY <1>0, <3>1, <3>2, <3>4 DEF HeaderIsFirst
    <3> QED
      BY <3>5, <3>6 DEF HeaderIsFirst
  <2>2. CASE StartSend(r) \/ RefuseSend(r) \/ BroadcastFails(r)
    <3>1. next' = next /\ sent' = sent
      BY <1>2, <2>2 DEF SenderStep, StartSend, RefuseSend, BroadcastFails, MayStart,
                        CallBroadcast, BroadcastReturns, linkVars
    <3>2. \A q \in Runs : stage'[q] = "calling" => stage[q] = "calling"
      BY <1>0, <2>2 DEF StartSend, RefuseSend, BroadcastFails, SenderTypeOK
    <3> QED
      BY <1>0, <3>1, <3>2 DEF HeaderIsFirst
  <2>3. CASE BroadcastReturns(r)
    <3>1. sent' = sent
      BY <1>2, <2>3 DEF SenderStep, BroadcastReturns, CallBroadcast, linkVars
    <3>2. /\ \A q \in Runs : stage'[q] = "calling" => stage[q] = "calling"
          /\ \A q \in Runs : q # r => next'[q] = next[q]
          /\ stage[r] = "calling"
      BY <1>0, <2>3 DEF BroadcastReturns, SenderTypeOK
    <3> QED
      BY <1>0, <3>1, <3>2 DEF HeaderIsFirst
  <2> QED
    BY <1>2, <2>1, <2>2, <2>3 DEF SenderStep
<1>3. ASSUME NEW p \in PacketIds, ReceivePacket(p) PROVE HeaderIsFirst'
  BY <1>1, <1>3 DEF ReceivePacket, Link!Deliver
<1>4. ASSUME NEW packet \in Strays, ReceiveStray(packet) PROVE HeaderIsFirst'
  BY <1>1, <1>4 DEF ReceiveStray, linkVars
<1>5. ASSUME NEW p \in PacketIds, DieReceivingPacket(p) PROVE HeaderIsFirst'
  BY <1>1, <1>5 DEF DieReceivingPacket, Link!Restart
<1>6. CASE RestartReceiver
  BY <1>1, <1>6 DEF RestartReceiver, Link!Restart
<1>7. CASE UNCHANGED vars
  BY <1>1, <1>7 DEF vars, linkVars
<1> QED
  BY <1>2, <1>3, <1>4, <1>5, <1>6, <1>7 DEF Next

\* What the link lets through after its header.
LEMMA HeaderDelivered ==
  ASSUME Order # "none", IInv, HeadersInv, NEW p \in sent, p[2] # 0,
         \A q \in Predecessors(p) : delivered[q] > 0
  PROVE  Tracked(file_chunks, transfer_id[p[1]], 0)
<1>0. p \in PacketIds /\ p[1] \in Runs /\ p[2] \in 0..ChunkCount(p[1])
  BY PacketIdParts DEF IInv, TypeOK
<1>1. ChunkCount(p[1]) \in Nat
  BY <1>0, ChunksOfFile
<1> DEFINE h == <<p[1], 0>>
<1>2. h \in PacketIds /\ h \in sent /\ h[1] = p[1] /\ h[2] = 0 /\ h # p
  BY <1>0, <1>1 DEF HeadersInv, HeaderIsFirst, PacketIds
<1> HIDE DEF h
<1>3. h \in Predecessors(p)
  <2>1. CASE Order = "header first"
    <3>1. Predecessors(p) = {<<p[1], 0>>} \ {p}
      BY ONLY <2>1 DEF Predecessors
    <3>2. h = <<p[1], 0>>
      BY DEF h
    <3> QED
      BY <1>2, <3>1, <3>2
  <2>2. CASE Order = "as sent"
    <3>1. Predecessors(p) =
            {q \in sent : q[1] \in After[p[1]] \/ (q[1] = p[1] /\ q[2] < p[2])}
      BY ONLY <2>2 DEF Predecessors
    <3>2. h[2] < p[2]
      BY <1>0, <1>1, <1>2
    <3> QED
      BY <1>2, <3>1, <3>2
  <2> QED
    BY <2>1, <2>2, CopyAssumption DEF CopyAssumption
<1> QED
  BY <1>2, <1>3 DEF HeadersInv, DeliveredIsTracked

LEMMA NextTracked ==
  ASSUME StraysAreIncomplete, Order # "none", IInv, GenuineInv, HeadersInv, [Next]_vars
  PROVE  TrackersHaveHeaders' /\ DeliveredIsTracked'
<1>0. /\ ReceiverInv /\ SenderTypeOK /\ TrackersHaveHeaders /\ DeliveredIsTracked
      /\ sent \subseteq PacketIds /\ delivered \in [PacketIds -> {0, 1}]
      /\ \A p \in sent : p \in PacketIds /\ p[1] \in Runs /\ transfer_id[p[1]] # 0
      /\ \A r \in Runs : transfer_id[r] # 0 => transfer_id'[r] = transfer_id[r]
  BY IdsStay, PacketIdParts DEF IInv, TypeOK, ReceiverInv, HeadersInv, GenuineInv, SentIsNamed
<1>1. ASSUME file_chunks' = <<>>, \A p \in PacketIds : delivered'[p] = 0
      PROVE  TrackersHaveHeaders' /\ DeliveredIsTracked'
  <2>1. DOMAIN file_chunks' = {}
    BY <1>1
  <2> QED
    BY <1>1, <2>1 DEF TrackersHaveHeaders, AllWithHeaders, DeliveredIsTracked
<1>2. ASSUME file_chunks' = file_chunks, delivered' = delivered, sent \subseteq sent'
      PROVE  TrackersHaveHeaders' /\ DeliveredIsTracked'
  <2>1. \A h : GenuineHeader(h, transfer_id) => GenuineHeader(h, transfer_id')
    BY <1>0, GenuineStays
  <2>2. TrackersHaveHeaders'
    BY <1>0, <1>2, <2>1 DEF TrackersHaveHeaders, AllWithHeaders
  <2>3. DeliveredIsTracked'
    BY <1>0, <1>2 DEF DeliveredIsTracked
  <2> QED
    BY <2>2, <2>3
<1>3. ASSUME NEW r \in Runs, SenderStep(r) PROVE TrackersHaveHeaders' /\ DeliveredIsTracked'
  BY <1>2, <1>3 DEF SenderStep, receiverVars, linkVars, Link!Broadcast
<1>4. ASSUME NEW p \in PacketIds, ReceivePacket(p)
      PROVE  TrackersHaveHeaders' /\ DeliveredIsTracked'
  <2>1. /\ p \in sent /\ sent' = sent /\ transfer_id' = transfer_id
        /\ Receive(PacketOf(p))
        /\ \A q \in Predecessors(p) : delivered[q] > 0
    BY <1>4 DEF ReceivePacket, Link!Deliver, senderVars
  <2>2. \A q \in PacketIds : q # p => delivered'[q] = delivered[q]
    BY <1>0, <1>4 DEF ReceivePacket, Link!Deliver
  <2>3. p[2] # 0 => Tracked(file_chunks, transfer_id[p[1]], 0)
    BY <2>1, HeaderDelivered
  <2>4. /\ AllWithHeaders(file_chunks', transfer_id)
        /\ \A id, k : Tracked(file_chunks, id, k) => Tracked(file_chunks', id, k)
        /\ Tracked(file_chunks', transfer_id[p[1]], p[2])
    BY <1>0, <2>1, <2>3, ReceiveRemembers
  <2>5. TrackersHaveHeaders'
    BY <2>1, <2>4 DEF TrackersHaveHeaders
  <2>6. DeliveredIsTracked'
    BY <1>0, <2>1, <2>2, <2>4 DEF DeliveredIsTracked
  <2> QED
    BY <2>5, <2>6
<1>5. ASSUME NEW packet \in Strays, ReceiveStray(packet)
      PROVE  TrackersHaveHeaders' /\ DeliveredIsTracked'
  BY <1>2, <1>5, StrayDoesNothing DEF ReceiveStray, receiverVars, linkVars
<1>6. ASSUME NEW p \in PacketIds, DieReceivingPacket(p)
      PROVE  TrackersHaveHeaders' /\ DeliveredIsTracked'
  BY <1>1, <1>6 DEF DieReceivingPacket, KilledInWrite, Link!Restart
<1>7. CASE RestartReceiver
  BY <1>1, <1>7 DEF RestartReceiver, ReceiverRestart, Link!Restart
<1>8. CASE UNCHANGED vars
  BY <1>2, <1>8 DEF vars, receiverVars, linkVars
<1> QED
  BY <1>3, <1>4, <1>5, <1>6, <1>7, <1>8 DEF Next

\* What holds under both hypotheses.
CopyInv == IInv /\ GenuineInv /\ HeadersInv

LEMMA CopyInvariance ==
  ASSUME StraysAreIncomplete, Order # "none"
  PROVE  Spec => []CopyInv
<1>1. IInv /\ GenuineInv /\ [Next]_vars => GenuineInv'
  BY NextGenuine
<1>2. IInv /\ GenuineInv /\ HeadersInv /\ [Next]_vars => HeadersInv'
  BY NextHeaderFirst, NextTracked DEF HeadersInv
<1> QED
  BY <1>1, <1>2, Invariance, InitGenuine, InitHeaders, PTL DEF Spec, CopyInv

\* A receiver that gets the header of a transfer before its chunks never
\* meets a tracker without an id, so the lookup of GetFileChunksForId never
\* ends the process ("invalid FileChunks tracker", file_receiver.cc:74).
THEOREM LookupNeverFails ==
  ASSUME StraysAreIncomplete, Order # "none"
  PROVE  Spec => []TrackersHaveIds
<1>1. CopyInv => TrackersHaveIds
  BY HeaderNames DEF CopyInv, HeadersInv, TrackersHaveHeaders, AllWithHeaders, TrackersHaveIds
<1> QED
  BY <1>1, CopyInvariance, PTL

-----------------------------------------------------------------------------
(* The file on the disk follows its tracker.                               *)

\* A vector that holds the chunks 1 to d has them first.
LEMMA RunReaches ==
  ASSUME NEW chunks \in Seq(Chunk), InOrder(chunks), NEW d \in Nat,
         \A j \in DOMAIN chunks : chunks[j].chunk_id >= 1,
         \A k \in 1..d : \E j \in DOMAIN chunks : chunks[j].chunk_id = k,
         NEW u, u = UnbrokenRun(chunks)
  PROVE  d <= u
<1>0. /\ Len(chunks) \in Nat /\ DOMAIN chunks = 1..Len(chunks)
      /\ \A j \in 1..Len(chunks) : chunks[j].chunk_id \in Nat
  BY ElementOfSeq, LenProperties, ChunkFieldsOf
<1>1. /\ u \in 0..Len(chunks)
      /\ \A i \in 1..u : chunks[i].chunk_id = i
      /\ u < Len(chunks) => chunks[u + 1].chunk_id # u + 1
  BY UnbrokenRunIs
<1> SUFFICES ASSUME u < d PROVE FALSE
  BY <1>0, <1>1
<1>2. PICK j \in 1..Len(chunks) : chunks[j].chunk_id = u + 1
  BY <1>0, <1>1
<1>3. j > u + 1
  BY <1>0, <1>1, <1>2
<1>4. PICK v \in Nat : v = chunks[u + 1].chunk_id /\ v >= 1
  BY <1>0, <1>1, <1>3
<1>5. v < u + 1
  BY <1>0, <1>1, <1>2, <1>3, <1>4 DEF InOrder, Before
<1>6. chunks[v].chunk_id = v
  BY <1>1, <1>4, <1>5, SMTT(30)
<1>7. Before(chunks[v], chunks[u + 1])
  BY <1>0, <1>1, <1>3, <1>4, <1>5 DEF InOrder
<1> QED
  BY <1>4, <1>6, <1>7 DEF Before

\* The bytes of the first chunks of a file.
LEMMA BytesOfChunks ==
  ASSUME NEW r \in Runs, ChunkCount(r) # 0, NEW k \in 0..ChunkCount(r)
  PROVE  /\ FileLength(r) \in Nat \ {0}
         /\ BytesIn(r, k) \in 0..FileLength(r)
         /\ BytesIn(r, k) = 0 <=> k = 0
         /\ BytesIn(r, k) = FileLength(r) <=> k = ChunkCount(r)
         /\ \A j \in Nat : j < k => BytesIn(r, j) < BytesIn(r, k)
<1> DEFINE n == FileLength(r)
           m == ChunkSize(r)
           count == ChunkCount(r)
<1>1. /\ n \in Nat \ {0} /\ m \in Nat \ {0} /\ count \in Nat \ {0} /\ k \in Nat /\ k <= count
      /\ n <= count * m
      /\ \A l \in Nat \ {0} : l <= count => (l - 1) * m < n
  BY ChunksOfFile, Constants
<1> HIDE DEF n, m, count
<1>2. \A l \in Nat : l <= count => PiecesFit(n, m, l)
  BY <1>1 DEF PiecesFit
<1>3. /\ EndOfPieces(n, m, 0) = 0
      /\ EndOfPieces(n, m, k) \in 0..n
      /\ \A j \in Nat : j < k => EndOfPieces(n, m, j) < EndOfPieces(n, m, k)
  BY <1>1, <1>2, EndsOfPieces
<1>4. /\ EndOfPieces(n, m, count) = n
      /\ \A j \in Nat : j < count => EndOfPieces(n, m, j) < EndOfPieces(n, m, count)
  <2>1. PiecesFit(n, m, count)
    BY <1>1, <1>2
  <2> QED
    BY <1>1, <2>1, EndsOfPieces
<1>5. EndOfPieces(n, m, k) = 0 <=> k = 0
  BY <1>1, <1>3
<1>6. EndOfPieces(n, m, k) = n <=> k = count
  BY <1>1, <1>3, <1>4
<1> QED
  BY <1>1, <1>3, <1>5, <1>6 DEF BytesIn, n, m, count

\* With ids from GetNextTransferId alone there is one tracker at most.
LEMMA SingleTracker ==
  ASSUME SendersInRange, TrackersHaveHeaders, OneTrackerPerId
  PROVE  /\ \A i \in DOMAIN file_chunks : file_chunks[i].header.id = GetNextTransferId
         /\ \A i, j \in DOMAIN file_chunks : i = j
<1>1. \A i \in DOMAIN file_chunks :
        /\ ~Invalid(file_chunks[i])
        /\ GetId(file_chunks[i]) = GetNextTransferId
        /\ file_chunks[i].header.id = GetNextTransferId
  <2> SUFFICES ASSUME NEW i \in DOMAIN file_chunks
               PROVE  /\ ~Invalid(file_chunks[i])
                      /\ GetId(file_chunks[i]) = GetNextTransferId
                      /\ file_chunks[i].header.id = GetNextTransferId
    OBVIOUS
  <2>1. GenuineHeader(file_chunks[i].header, transfer_id)
    BY DEF TrackersHaveHeaders, AllWithHeaders
  <2>2. /\ ~Invalid(file_chunks[i]) /\ GetId(file_chunks[i]) = file_chunks[i].header.id
        /\ \E r \in Runs : transfer_id[r] # 0 /\ file_chunks[i].header.id = transfer_id[r]
    BY <2>1, HeaderNames
  <2>3. \A r \in Runs : transfer_id[r] \in {0, GetNextTransferId}
    BY DEF SendersInRange
  <2> QED
    BY <2>2, <2>3
<1> QED
  BY <1>1 DEF OneTrackerPerId

\* What a chunk does to its tracker, and the tracker to the file: u chunks
\* are there without a gap now, of the v that were.
ChunkTaken(i, r, v, u) ==
  LET old == file_chunks[i]
      t == file_chunks'[i]
      name == NameOf[FileOf[r]]
  IN  /\ i \in DOMAIN file_chunks
      /\ DOMAIN file_chunks' = DOMAIN file_chunks
      /\ \A j \in DOMAIN file_chunks : j = i
      /\ v = UnbrokenRun(old.chunks)
      /\ v \in 0..u /\ u \in 0..ChunkCount(r)
      /\ ~old.is_complete
      /\ t.header = old.header
      /\ t.is_complete <=> u = ChunkCount(r)
      /\ ~t.is_complete => UnbrokenRun(t.chunks) = u
      /\ FileContents(old.chunks) = Beginning(r, v)
      /\ ~t.is_complete => FileContents(t.chunks) = Beginning(r, u)
      /\ \A n \in Name :
           disk'[n] = IF u > 0 /\ n = name THEN Beginning(r, u) ELSE disk[n]

LEMMA ChunkTakenIn ==
  ASSUME WriteMayFail = FALSE, ReceiverInv, SenderTypeOK, SendersInRange,
         TrackersHaveHeaders, TrackersGenuine, NoIdShared,
         NEW q \in Runs, transfer_id[q] # 0, NEW k \in 1..ChunkCount(q),
         AddChunk(ChunkOf(q, transfer_id[q], k))
  PROVE  \E i, v, u : \A r \in Runs : transfer_id[r] # 0 =>
           ChunkCount(r) # 0 /\ ChunkTaken(i, r, v, u)
<1> DEFINE id == transfer_id[q]
           c == ChunkOf(q, id, k)
<1>0. k \in Nat \ {0} /\ id \in TransferIds /\ id # 0
  BY ChunksOfFile DEF SenderTypeOK
<1>1. c \in Chunk /\ c.id = id /\ c.chunk_id = k /\ GenuineChunk(c, transfer_id)
  BY <1>0, ChunkTyped DEF ChunkOf, GenuineChunk
<1>2. AddChunk(c)
  OBVIOUS
<1> HIDE DEF c, id
<1>3a. PICK i \in DOMAIN file_chunks : \E chunks :
        /\ chunks = SortedInsert(file_chunks[i].chunks, c)
        /\ FoundAt(c.id, i)
        /\ Wants(file_chunks[i], c)
        /\ Write(file_chunks[i].header, FileContents(chunks))
        /\ file_chunks' = [file_chunks EXCEPT ![i] = WithChunks(file_chunks[i], chunks)]
  BY <1>2 DEF AddChunk
<1>3. PICK chunks :
        /\ chunks = SortedInsert(file_chunks[i].chunks, c)
        /\ FoundAt(c.id, i)
        /\ Wants(file_chunks[i], c)
        /\ Write(file_chunks[i].header, FileContents(chunks))
        /\ file_chunks' = [file_chunks EXCEPT ![i] = WithChunks(file_chunks[i], chunks)]
  BY <1>3a
<1>4. PICK t, old : t = WithChunks(old, chunks) /\ old = file_chunks[i]
  OBVIOUS
<1>5. /\ old \in Tracker /\ Tidy(old) /\ ~Invalid(old) /\ GetId(old) = c.id
      /\ Wants(old, c) /\ chunks = SortedInsert(old.chunks, c)
      /\ GenuineTracker(old, transfer_id) /\ GenuineHeader(old.header, transfer_id)
  BY <1>3, <1>4, TrackerFound
     DEF ReceiverInv, TrackersTidy, TrackersGenuine, TrackersHaveHeaders, AllWithHeaders
<1>6. /\ file_chunks'[i] = t
      /\ DOMAIN file_chunks' = DOMAIN file_chunks
      /\ \A j \in DOMAIN file_chunks : j = i
  BY <1>3, <1>4, SingleTracker DEF ReceiverInv
<1>7. /\ t.header = old.header
      /\ t.is_complete <=> ConcatLength(FileContents(chunks)) = old.header.size
      /\ t.chunks = IF t.is_complete THEN <<>> ELSE chunks
  BY <1>1, <1>4, <1>5, TrackerExtended
<1>8. /\ chunks \in Seq(Chunk) /\ InOrder(chunks) /\ OfTransfer(chunks, id)
      /\ Adds(chunks, old.chunks, c)
  BY <1>1, <1>5, ChunkInserted
<1>9. /\ old.chunks \in Seq(Chunk) /\ OfTransfer(old.chunks, id)
      /\ \A j \in DOMAIN old.chunks : GenuineChunk(old.chunks[j], transfer_id)
  BY <1>1, <1>5, TrackerFields DEF Tidy, GenuineTracker
<1>10. \A j \in DOMAIN chunks : GenuineChunk(chunks[j], transfer_id)
  BY <1>1, <1>5, ExtendedGenuine
<1>11. OneFileEach(transfer_id)
  BY DEF NoIdShared, OneFileEach
<1>12. PICK u, v : u = UnbrokenRun(chunks) /\ v = UnbrokenRun(old.chunks)
  OBVIOUS
<1>13. /\ u \in 0..ChunkCount(q) /\ FileContents(chunks) = Beginning(q, u)
       /\ v \in 0..ChunkCount(q) /\ FileContents(old.chunks) = Beginning(q, v)
  BY <1>0, <1>8, <1>9, <1>10, <1>11, <1>12, ContentsAreBeginning DEF id
<1>14. v <= u
  <2>1. \A j \in DOMAIN chunks : chunks[j].chunk_id >= 1
    <3> SUFFICES ASSUME NEW j \in DOMAIN chunks PROVE chunks[j].chunk_id >= 1
      OBVIOUS
    <3>1a. PICK r \in Runs : \E l : l \in 1..ChunkCount(r) /\ chunks[j] = ChunkOf(r, transfer_id[r], l)
      BY <1>10 DEF GenuineChunk
    <3>1. PICK l : l \in 1..ChunkCount(r) /\ chunks[j] = ChunkOf(r, transfer_id[r], l)
      BY <3>1a
    <3>2. chunks[j].chunk_id = l
      BY <3>1 DEF ChunkOf
    <3> QED
      BY <3>1, <3>2, ChunksOfFile
  <2>2. v \in 0..Len(old.chunks) /\ \A l \in 1..v : old.chunks[l].chunk_id = l
    BY <1>9, <1>12, UnbrokenRunIs
  <2>3. \A l \in 1..v : l \in DOMAIN old.chunks /\ old.chunks[l].chunk_id = l
    BY <1>5, <2>2, TrackerFields
  <2>4. \A l \in 1..v : \E j \in DOMAIN chunks : chunks[j].chunk_id = l
    BY <1>8, <2>3 DEF Adds
  <2>5. v \in Nat
    BY <1>13, ChunksOfFile
  <2> QED
    BY <1>8, <1>12, <2>1, <2>4, <2>5, RunReaches
<1>15. ChunkCount(q) \in Nat \ {0}
  BY <1>0, ChunksOfFile
<1>16. PICK q2 \in Runs : transfer_id[q2] # 0 /\ old.header = HeaderOf(q2, transfer_id[q2])
  BY <1>5 DEF GenuineHeader
<1>17. FileOf[q2] = FileOf[q] /\ \A r \in Runs : transfer_id[r] # 0 => FileOf[r] = FileOf[q]
  <2>1. \A r \in Runs : transfer_id[r] # 0 => transfer_id[r] = transfer_id[q]
    BY <1>0 DEF SendersInRange, id
  <2> QED
    BY <1>11, <1>16, <2>1 DEF OneFileEach
<1>18. /\ old.header.size = FileLength(q) /\ "filename" \in old.header.has
       /\ old.header.filename = NameOf[FileOf[q]]
  <2>1. FileLength(q2) = FileLength(q)
    BY <1>17, SameFile
  <2> QED
    BY <1>16, <1>17, <2>1 DEF HeaderOf, HeaderFields
<1>19. ConcatLength(FileContents(chunks)) = BytesIn(q, u)
  BY <1>13, BeginningIsString
<1>20. t.is_complete <=> u = ChunkCount(q)
  BY <1>7, <1>13, <1>15, <1>18, <1>19, BytesOfChunks
<1>21. IsWritten(old.header, FileContents(chunks)) <=> u > 0
  <2>1. BytesIn(q, u) \in Nat /\ (BytesIn(q, u) = 0 <=> u = 0) /\ u \in Nat
    BY <1>13, <1>15, BytesOfChunks
  <2> QED
    BY <1>18, <1>19, <2>1 DEF IsWritten
<1>22. \A n \in Name : disk'[n] = IF u > 0 /\ n = NameOf[FileOf[q]]
                                 THEN Beginning(q, u) ELSE disk[n]
  <2>1. DOMAIN disk = Name /\ NameOf[FileOf[q]] \in Name
    BY Constants DEF ReceiverInv, ReceiverTypeOK
  <2>2. CASE u > 0
    <3>1. disk' = [disk EXCEPT ![NameOf[FileOf[q]]] = Beginning(q, u)]
      BY <1>3, <1>4, <1>13, <1>18, <1>21, <2>2 DEF Write, WriteOutcomes
    <3> QED
      BY <2>1, <2>2, <3>1
  <2>3. CASE ~(u > 0)
    BY <1>3, <1>4, <1>21, <2>3 DEF Write
  <2> QED
    BY <2>2, <2>3
<1>23. ChunkTaken(i, q, v, u)
  <2>1. ~old.is_complete
    BY <1>5 DEF Wants
  <2>2. v \in 0..u
    BY <1>13, <1>14, <1>15
  <2>3. ~t.is_complete => UnbrokenRun(t.chunks) = u /\ FileContents(t.chunks) = Beginning(q, u)
    BY <1>7, <1>12, <1>13
  <2> QED
    BY <1>4, <1>6, <1>7, <1>12, <1>13, <1>20, <1>22, <2>1, <2>2, <2>3 DEF ChunkTaken
<1>24. ASSUME NEW r \in Runs, transfer_id[r] # 0
       PROVE  ChunkCount(r) # 0 /\ ChunkTaken(i, r, v, u)
  <2>1. FileOf[r] = FileOf[q]
    BY <1>17, <1>24
  <2>2. FileLength(r) = FileLength(q) /\ ChunkSize(r) = ChunkSize(q) /\ ChunkCount(r) = ChunkCount(q)
    BY <2>1, SameFile
  <2>3. \A l : Beginning(r, l) = Beginning(q, l)
    BY <2>1, <2>2 DEF Beginning
  <2> QED
    BY <1>15, <1>23, <2>1, <2>2, <2>3 DEF ChunkTaken
<1> QED
  BY <1>24

LEMMA EmptyRun ==
  UnbrokenRun(<<>>) = 0
<1>1. <<>> \in Seq(Chunk) /\ Len(<<>>) = 0
  BY EmptySeq
<1>2. PICK u : u = UnbrokenRun(<<>>)
  OBVIOUS
<1>3. u \in 0..0
  BY <1>1, <1>2, UnbrokenRunIs
<1> QED
  BY <1>2, <1>3

\* A header leaves the chunks and the files alone.
HeaderTaken ==
  /\ UNCHANGED disk
  /\ DOMAIN file_chunks \subseteq DOMAIN file_chunks'
  /\ \A i \in DOMAIN file_chunks :
       /\ file_chunks'[i].chunks = file_chunks[i].chunks
       /\ file_chunks'[i].is_complete = file_chunks[i].is_complete
  /\ \A i \in DOMAIN file_chunks' \ DOMAIN file_chunks :
       file_chunks'[i].chunks = <<>> /\ ~file_chunks'[i].is_complete

\* The steps of the receiver that change anything.
LEMMA PacketTaken ==
  ASSUME Order # "none", WriteMayFail = FALSE, CopyInv, NoIdShared,
         NEW p \in PacketIds, ReceivePacket(p)
  PROVE  \/ UNCHANGED receiverVars
         \/ HeaderTaken
         \/ \E i, v, u : \A r \in Runs : transfer_id[r] # 0 =>
              ChunkCount(r) # 0 /\ ChunkTaken(i, r, v, u)
<1>0. /\ ReceiverInv /\ SenderTypeOK /\ SendersInRange /\ TrackersHaveHeaders
      /\ TrackersGenuine /\ OneTrackerPerId
  BY DEF CopyInv, IInv, TypeOK, ReceiverInv, HeadersInv, GenuineInv
<1>1. /\ p \in sent /\ Receive(PacketOf(p))
      /\ \A q \in Predecessors(p) : delivered[q] > 0
  BY DEF ReceivePacket, Link!Deliver
<1>2. PICK r, k, id : r = p[1] /\ k = p[2] /\ id = transfer_id[r]
  OBVIOUS
<1>3. k # 0 => Tracked(file_chunks, id, 0)
  BY <1>1, <1>2, HeaderDelivered DEF CopyInv
<1>4. /\ r \in Runs /\ k \in 0..ChunkCount(r) /\ ChunkCount(r) \in Nat
      /\ id # 0 /\ id \in TransferIds
  BY <1>0, <1>1, <1>2, PacketIdParts, ChunksOfFile DEF CopyInv, GenuineInv, SentIsNamed, SenderTypeOK
<1>5. CASE k = 0 /\ OpenWithHeader(HeaderOf(r, id))
  <2>1. PICK t : /\ t = [header |-> HeaderOf(r, id), chunks |-> <<>>, is_complete |-> FALSE]
                 /\ file_chunks' = Append(file_chunks, t)
    BY <1>5 DEF OpenWithHeader
  <2>2. t.chunks = <<>> /\ t.is_complete = FALSE
    BY <2>1
  <2>3. file_chunks \in Seq(Tracker) /\ DOMAIN file_chunks = 1..Len(file_chunks)
    BY <1>0, TrackersAreSequence DEF ReceiverInv, ReceiverTypeOK
  <2>4. /\ DOMAIN file_chunks \subseteq DOMAIN file_chunks'
        /\ \A i \in DOMAIN file_chunks : file_chunks'[i] = file_chunks[i]
        /\ \A i \in DOMAIN file_chunks' \ DOMAIN file_chunks : file_chunks'[i] = t
    BY ONLY <2>1, <2>3
  <2>5. disk' = disk
    BY <1>5 DEF OpenWithHeader
  <2>6. HeaderTaken
    BY <2>2, <2>4, <2>5 DEF HeaderTaken
  <2> QED
    BY <2>6
<1>6. CASE k = 0 /\ AdoptHeader(HeaderOf(r, id))
  <2> DEFINE h == HeaderOf(r, id)
  <2>1. h \in Header
    BY <1>4, HeaderTyped
  <2>2. PICK i \in DOMAIN file_chunks :
          FoundAt(h.id, i) /\ file_chunks' = [file_chunks EXCEPT ![i].header = h]
    BY <1>6 DEF AdoptHeader
  <2> HIDE DEF h
  <2>3. PICK t : t = [file_chunks[i] EXCEPT !.header = h]
    OBVIOUS
  <2>4. /\ file_chunks[i] \in Tracker /\ Tidy(file_chunks[i])
        /\ ~Invalid(file_chunks[i]) /\ GetId(file_chunks[i]) = h.id
    BY <1>0, <2>2, TrackerFound DEF ReceiverInv, TrackersTidy
  <2>5. t.chunks = file_chunks[i].chunks /\ t.is_complete = file_chunks[i].is_complete
    BY <2>1, <2>3, <2>4, TrackerWithHeader
  <2>6. file_chunks' = [file_chunks EXCEPT ![i] = t]
    BY <2>2, <2>3
  <2>7. disk' = disk
    BY <1>6 DEF AdoptHeader
  <2>8. HeaderTaken
    BY <2>5, <2>6, <2>7 DEF HeaderTaken
  <2> QED
    BY <2>8
<1>7. CASE k # 0 /\ AddChunk(ChunkOf(r, id, k))
  <2>1. k \in 1..ChunkCount(r)
    BY <1>4, <1>7
  <2>2. transfer_id[r] # 0 /\ AddChunk(ChunkOf(r, transfer_id[r], k))
    BY <1>2, <1>4, <1>7
  <2> QED
    BY <1>0, <1>4, <2>1, <2>2, ChunkTakenIn
<1> QED
  BY <1>0, <1>1, <1>2, <1>3, <1>5, <1>6, <1>7, WhatReceiveDoes

LEMMA NextDiskFollows ==
  ASSUME StraysAreIncomplete, Order # "none", WriteMayFail = FALSE,
         CopyInv, NoIdShared, NoIdShared', DiskFollows, [Next]_vars
  PROVE  DiskFollows'
<1>0. \A r \in Runs : transfer_id[r] # 0 => transfer_id'[r] = transfer_id[r]
  BY IdsStay DEF CopyInv
<1>1. ASSUME file_chunks' = file_chunks, disk' = disk, transfer_id' = transfer_id
      PROVE  DiskFollows'
  BY <1>1 DEF DiskFollows
<1>2. ASSUME file_chunks' = <<>> PROVE DiskFollows'
  <2>1. DOMAIN file_chunks' = {}
    BY <1>2
  <2> QED
    BY <2>1 DEF DiskFollows
<1>3. ASSUME NEW r \in Runs, SenderStep(r) PROVE DiskFollows'
  <2>0. file_chunks' = file_chunks /\ disk' = disk
    BY <1>3 DEF SenderStep, receiverVars
  <2> SUFFICES ASSUME NEW i \in DOMAIN file_chunks, NEW q \in Runs, transfer_id'[q] # 0
               PROVE  FileFollows(file_chunks[i], q, disk[NameOf[FileOf[q]]])
    BY <2>0 DEF DiskFollows
  <2>1. GenuineHeader(file_chunks[i].header, transfer_id)
    BY DEF CopyInv, HeadersInv, TrackersHaveHeaders, AllWithHeaders
  <2>2. PICK s \in Runs : transfer_id[s] # 0
    BY <2>1 DEF GenuineHeader
  <2>3. FileFollows(file_chunks[i], s, disk[NameOf[FileOf[s]]])
    BY <2>2 DEF DiskFollows
  <2>4. transfer_id'[q] = transfer_id'[s]
    <3>1. SendersInRange'
      BY NextIInv DEF CopyInv, IInv
    <3> QED
      BY <1>0, <2>2, <3>1 DEF SendersInRange
  <2>5. FileOf[q] = FileOf[s]
    BY <2>4 DEF NoIdShared
  <2>6. FileLength(q) = FileLength(s) /\ ChunkSize(q) = ChunkSize(s) /\ ChunkCount(q) = ChunkCount(s)
    BY <2>5, SameFile
  <2>7. \A l : Beginning(q, l) = Beginning(s, l)
    BY <2>5, <2>6 DEF Beginning
  <2> QED
    BY <2>3, <2>5, <2>6, <2>7 DEF FileFollows
<1>4. ASSUME NEW p \in PacketIds, ReceivePacket(p) PROVE DiskFollows'
  <2>0. transfer_id' = transfer_id
    BY <1>4 DEF ReceivePacket, senderVars
  <2>1. CASE UNCHANGED receiverVars
    BY <1>1, <2>0, <2>1 DEF receiverVars
  <2>2. CASE HeaderTaken
    <3> SUFFICES ASSUME NEW i \in DOMAIN file_chunks', NEW r \in Runs, transfer_id[r] # 0
                 PROVE  FileFollows(file_chunks'[i], r, disk[NameOf[FileOf[r]]])
      BY <2>0, <2>2 DEF DiskFollows, HeaderTaken
    <3>1. CASE i \in DOMAIN file_chunks
      <4>1. FileFollows(file_chunks[i], r, disk[NameOf[FileOf[r]]])
        BY <3>1 DEF DiskFollows
      <4>2. /\ file_chunks'[i].chunks = file_chunks[i].chunks
            /\ file_chunks'[i].is_complete = file_chunks[i].is_complete
        BY <2>2, <3>1 DEF HeaderTaken
      <4> QED
        BY <4>1, <4>2 DEF FileFollows
    <3>2. CASE i \notin DOMAIN file_chunks
      <4>1. file_chunks'[i].chunks = <<>> /\ ~file_chunks'[i].is_complete
        BY <2>2, <3>2 DEF HeaderTaken
      <4> QED
        BY <4>1, EmptyRun, ChunksOfFile DEF FileFollows
    <3> QED
      BY <3>1, <3>2
  <2>3. ASSUME NEW i, NEW v, NEW u,
               \A r \in Runs : transfer_id[r] # 0 =>
                 ChunkCount(r) # 0 /\ ChunkTaken(i, r, v, u)
        PROVE  DiskFollows'
    <3> SUFFICES ASSUME NEW j \in DOMAIN file_chunks', NEW r \in Runs, transfer_id[r] # 0
                 PROVE  FileFollows(file_chunks'[j], r, disk'[NameOf[FileOf[r]]])
      BY <2>0 DEF DiskFollows
    <3>0. PICK t, name : t = file_chunks'[i] /\ name = NameOf[FileOf[r]]
      OBVIOUS
    <3>1. /\ j = i
          /\ u \in 0..ChunkCount(r)
          /\ t.is_complete <=> u = ChunkCount(r)
          /\ ~t.is_complete => UnbrokenRun(t.chunks) = u
          /\ \A n \in Name :
               disk'[n] = IF u > 0 /\ n = name THEN Beginning(r, u) ELSE disk[n]
      BY <2>3, <3>0 DEF ChunkTaken
    <3>2. ChunkCount(r) \in Nat \ {0} /\ name \in Name
      BY <2>3, <3>0, ChunksOfFile, Constants
    <3>3. u > 0 => disk'[name] = Beginning(r, u)
      BY <3>1, <3>2
    <3>4. FileFollows(t, r, disk'[name])
      BY <3>1, <3>2, <3>3 DEF FileFollows
    <3> QED
      BY <3>0, <3>1, <3>4
  <2> QED
    BY <1>4, <2>1, <2>2, <2>3, PacketTaken
<1>5. ASSUME NEW packet \in Strays, ReceiveStray(packet) PROVE DiskFollows'
  BY <1>1, <1>5, StrayDoesNothing DEF ReceiveStray, receiverVars, senderVars
<1>6. ASSUME NEW p \in PacketIds, DieReceivingPacket(p) PROVE DiskFollows'
  BY <1>2, <1>6 DEF DieReceivingPacket, KilledInWrite
<1>7. CASE RestartReceiver
  BY <1>2, <1>7 DEF RestartReceiver, ReceiverRestart
<1>8. CASE UNCHANGED vars
  BY <1>1, <1>8 DEF vars, receiverVars, senderVars
<1> QED
  BY <1>3, <1>4, <1>5, <1>6, <1>7, <1>8 DEF Next

LEMMA BeginningTyped ==
  ASSUME NEW r \in Runs, NEW k \in Nat
  PROVE  Beginning(r, k) \in Contents
<1>1. ASSUME NEW i \in 1..k
      PROVE  Piece(FileOf[r], FileLength(r), (i - 1) * ChunkSize(r), ChunkSize(r))
               \in SUBSET (File \X Nat)
  <2>1. ChunkOf(r, GetNextTransferId, i) \in Chunk
    BY Constants, ChunkTyped
  <2> QED
    BY <2>1, ChunkFieldsOf DEF ChunkOf
<1> QED
  BY <1>1, SeqDef DEF Beginning, FirstPieces, Contents

\* A file of which every chunk was written.
LEMMA WholeIsSaved ==
  ASSUME NEW r \in Runs, ChunkCount(r) # 0,
         disk[NameOf[FileOf[r]]] = Beginning(r, ChunkCount(r))
  PROVE  Saved(r)
<1>1. ChunkCount(r) \in Nat \ {0} /\ FileLength(r) \in Nat \ {0}
  <2>1. ChunkCount(r) \in Nat /\ FileLength(r) \in Nat
    BY ChunksOfFile, Constants
  <2> QED
    BY <2>1, ChunksOfFile
<1>2. PICK b : b = Beginning(r, ChunkCount(r))
  OBVIOUS
<1>3. ConcatIs(b, FileOf[r], BytesIn(r, ChunkCount(r)))
  BY <1>1, <1>2, BeginningIsString
<1>4. BytesIn(r, ChunkCount(r)) = FileLength(r)
  BY <1>1, BytesOfChunks
<1>5. b # Absent
  BY <1>1, <1>2, BeginningTyped, ReceiverAssumption DEF ReceiverAssumption
<1> QED
  BY <1>2, <1>3, <1>4, <1>5 DEF Saved

LEMMA DiskFollowsAlways ==
  ASSUME StraysAreIncomplete, Order # "none", WriteMayFail = FALSE
  PROVE  Spec /\ []NoIdShared => []DiskFollows
<1>1. Init => DiskFollows
  BY DEF Init, ReceiverInit, ReceiverStart, DiskFollows
<1>2. CopyInv /\ NoIdShared /\ NoIdShared' /\ DiskFollows /\ [Next]_vars => DiskFollows'
  BY NextDiskFollows
<1> QED
  BY <1>1, <1>2, CopyInvariance, PTL DEF Spec

\* A tracker is complete only when the file is on the disk, whole ("Set to
\* true when the entire file has been received", file_receiver.h:52), for a
\* receiver whose writes succeed and that gets a header before its chunks.
THEOREM CompleteFilesAreWhole ==
  ASSUME StraysAreIncomplete, Order # "none", WriteMayFail = FALSE
  PROVE  Spec /\ []NoIdShared => []CompleteIsWhole
<1>1. CopyInv /\ DiskFollows => CompleteIsWhole
  <2> SUFFICES ASSUME CopyInv, DiskFollows, NEW i \in DOMAIN file_chunks,
                      file_chunks[i].is_complete
               PROVE  \E r \in Runs : transfer_id[r] = file_chunks[i].header.id /\ Saved(r)
    BY DEF CompleteIsWhole
  <2>1. PICK r \in Runs : transfer_id[r] # 0 /\ transfer_id[r] = file_chunks[i].header.id
    BY HeaderNames DEF CopyInv, HeadersInv, TrackersHaveHeaders, AllWithHeaders
  <2>2. FileFollows(file_chunks[i], r, disk[NameOf[FileOf[r]]])
    BY <2>1 DEF DiskFollows
  <2>3. ChunkCount(r) # 0 /\ disk[NameOf[FileOf[r]]] = Beginning(r, ChunkCount(r))
    BY <2>2, ChunksOfFile DEF FileFollows
  <2> QED
    BY <2>1, <2>3, WholeIsSaved
<1> QED
  BY <1>1, CopyInvariance, DiskFollowsAlways, PTL

\* Once every packet of a transfer has reached the process, in whatever order
\* after the header, the file is on the disk, whole ("appended by the receiver
\* until the complete file is received", packet.proto:84).  A file of no bytes
\* is the exception: no chunk of it is ever sent, so nothing is written.
THEOREM DeliveredFilesAreSaved ==
  ASSUME StraysAreIncomplete, Order # "none", WriteMayFail = FALSE,
         \A r \in Runs : FileLength(r) > 0
  PROVE  Spec /\ []NoIdShared => []DeliveredMeansSaved
<1>1. CopyInv /\ DiskFollows => DeliveredMeansSaved
  <2> SUFFICES ASSUME CopyInv, DiskFollows, NEW r \in Runs, AllDelivered(r)
               PROVE  Saved(r)
    BY DEF DeliveredMeansSaved
  <2>0. ChunkCount(r) \in Nat \ {0} /\ FileLength(r) \in Nat \ {0}
    BY ChunksOfFile, Constants
  <2>1. /\ SendersInRange /\ TrackersHaveHeaders /\ OneTrackerPerId /\ ReceiverTypeOK
        /\ TrackersTidy /\ TrackersGenuine /\ SentIsNamed /\ DeliveredIsTracked
    BY DEF CopyInv, IInv, TypeOK, GenuineInv, HeadersInv
  <2>2. ASSUME NEW k \in 0..ChunkCount(r)
        PROVE  \E q \in Runs : /\ FileOf[q] = FileOf[r]
                               /\ transfer_id[q] # 0
                               /\ Tracked(file_chunks, transfer_id[q], k)
    <3>1. PICK q \in Runs : FileOf[q] = FileOf[r] /\ delivered[<<q, k>>] > 0
      BY DEF AllDelivered
    <3>2. PICK p : p = <<q, k>> /\ p[1] = q /\ p[2] = k
      <4>1. <<q, k>>[1] = q /\ <<q, k>>[2] = k
        BY ONLY TRUE
      <4> QED
        BY ONLY <4>1
    <3>3. p \in PacketIds
      BY <3>1, <3>2, SameFile DEF PacketIds
    <3>4. p \in sent /\ Tracked(file_chunks, transfer_id[p[1]], p[2])
      BY <2>1, <3>1, <3>2, <3>3 DEF DeliveredIsTracked
    <3>5. transfer_id[p[1]] # 0
      BY <2>1, <3>4 DEF SentIsNamed
    <3> QED
      BY <3>1, <3>2, <3>4, <3>5
  <2>3. 0 \in 0..ChunkCount(r)
    BY <2>0
  <2>4. PICK q \in Runs : /\ FileOf[q] = FileOf[r]
                          /\ transfer_id[q] # 0
                          /\ Tracked(file_chunks, transfer_id[q], 0)
    BY <2>2, <2>3
  <2>5. PICK i \in DOMAIN file_chunks : Remembers(file_chunks[i], transfer_id[q], 0)
    BY <2>4 DEF Tracked
  <2>6. PICK t : t = file_chunks[i]
    OBVIOUS
  <2>7. \A j \in DOMAIN file_chunks : j = i
    BY <2>1, SingleTracker
  <2>8. ASSUME NEW k \in 1..ChunkCount(r)
        PROVE  t.is_complete \/ \E j \in DOMAIN t.chunks : t.chunks[j].chunk_id = k
    <3>1. k \in 0..ChunkCount(r) /\ k # 0
      BY <2>0
    <3>2. PICK s \in Runs : Tracked(file_chunks, transfer_id[s], k)
      BY <2>2, <3>1
    <3>3. Remembers(t, transfer_id[s], k)
      BY <2>6, <2>7, <3>2 DEF Tracked
    <3> QED
      BY <3>1, <3>3 DEF Remembers
  <2>9. /\ ChunkCount(q) = ChunkCount(r)
        /\ FileLength(q) = FileLength(r)
        /\ ChunkSize(q) = ChunkSize(r)
    BY <2>4, SameFile
  <2>10. FileFollows(t, q, disk[NameOf[FileOf[q]]])
    BY <2>4, <2>5, <2>6 DEF DiskFollows
  <2>11. t.is_complete
    <3> SUFFICES ASSUME ~t.is_complete PROVE FALSE
      OBVIOUS
    <3>1. t \in Tracker /\ Tidy(t) /\ GenuineTracker(t, transfer_id)
      BY <2>1, <2>5, <2>6, TrackersAreSequence DEF TrackersTidy, TrackersGenuine
    <3>2. t.chunks \in Seq(Chunk) /\ InOrder(t.chunks)
      BY <3>1, TrackerFields DEF Tidy
    <3>3. ASSUME NEW j \in DOMAIN t.chunks PROVE t.chunks[j].chunk_id >= 1
      <4>1a. PICK s \in Runs : \E l : l \in 1..ChunkCount(s) /\ t.chunks[j] = ChunkOf(s, transfer_id[s], l)
        BY <3>1 DEF GenuineTracker, GenuineChunk
      <4>1. PICK l : l \in 1..ChunkCount(s) /\ t.chunks[j] = ChunkOf(s, transfer_id[s], l)
        BY <4>1a
      <4>2. t.chunks[j].chunk_id = l
        BY <4>1 DEF ChunkOf
      <4> QED
        BY <4>1, <4>2, ChunksOfFile
    <3>4. PICK u : u = UnbrokenRun(t.chunks)
      OBVIOUS
    <3>5. ChunkCount(r) <= u
      BY <2>0, <2>8, <3>2, <3>3, <3>4, RunReaches
    <3>6. u < ChunkCount(r)
      BY <2>0, <2>9, <2>10, <3>4 DEF FileFollows
    <3>7. u \in Nat
      <4>1. u \in 0..Len(t.chunks) /\ Len(t.chunks) \in Nat
        BY <3>1, <3>2, <3>4, UnbrokenRunIs, TrackerFields
      <4> QED
        BY <4>1
    <3> QED
      BY <2>0, <3>5, <3>6, <3>7
  <2>12. disk[NameOf[FileOf[q]]] = Beginning(q, ChunkCount(q)) /\ ChunkCount(q) # 0
    BY <2>0, <2>9, <2>10, <2>11 DEF FileFollows
  <2>13. Saved(q)
    BY <2>12, WholeIsSaved
  <2> QED
    BY <2>4, <2>9, <2>13 DEF Saved
<1> QED
  BY <1>1, CopyInvariance, DiskFollowsAlways, PTL

-----------------------------------------------------------------------------
(* The copy of a file is a FileTransfer.                                   *)

\* No two files are sent under one name.
NamesDiffer ==
  \A r, q \in Runs : NameOf[FileOf[r]] = NameOf[FileOf[q]] => FileOf[r] = FileOf[q]

\* What a process has had of a file is what its one tracker has.
HeldBy(t, f) == IF t.is_complete THEN SizeOf[f] ELSE ConcatLength(FileContents(t.chunks))

HeldIsTracked ==
  \A f \in Sent :
    /\ DOMAIN file_chunks = {} => Held(f) = 0
    /\ \A i \in DOMAIN file_chunks : \A r \in Runs :
         transfer_id[r] # 0 =>
           Held(f) = IF f = FileOf[r] THEN HeldBy(file_chunks[i], f) ELSE 0

LEMMA HeldTracked == CopyInv /\ NoIdShared => HeldIsTracked
<1> SUFFICES ASSUME CopyInv, NoIdShared, NEW f \in Sent
             PROVE  /\ DOMAIN file_chunks = {} => Held(f) = 0
                    /\ \A i \in DOMAIN file_chunks : \A r \in Runs :
                         transfer_id[r] # 0 =>
                           Held(f) = IF f = FileOf[r] THEN HeldBy(file_chunks[i], f) ELSE 0
  BY DEF HeldIsTracked
<1> DEFINE mine == {i \in DOMAIN file_chunks :
                      \E r \in Runs : FileOf[r] = f /\ GetId(file_chunks[i]) = transfer_id[r]}
<1>1. Held(f) = IF mine = {} THEN 0 ELSE HeldBy(file_chunks[Min(mine)], f)
  BY DEF Held, HeldBy
<1>2. CASE DOMAIN file_chunks = {}
  BY <1>1, <1>2
<1>3. ASSUME NEW i \in DOMAIN file_chunks, NEW r \in Runs, transfer_id[r] # 0
      PROVE  Held(f) = IF f = FileOf[r] THEN HeldBy(file_chunks[i], f) ELSE 0
  <2>1. \A j \in DOMAIN file_chunks : j = i
    BY SingleTracker DEF CopyInv, IInv, HeadersInv
  <2>2. GetId(file_chunks[i]) = transfer_id[r]
    <3>1. file_chunks[i].header.id = GetNextTransferId
      BY SingleTracker DEF CopyInv, IInv, HeadersInv
    <3>2. GetId(file_chunks[i]) = file_chunks[i].header.id
      BY HeaderNames DEF CopyInv, HeadersInv, TrackersHaveHeaders, AllWithHeaders
    <3> QED
      BY <1>3, <3>1, <3>2 DEF CopyInv, IInv, SendersInRange
  <2>3. CASE f = FileOf[r]
    <3>1. mine = {i}
      BY <2>1, <2>2, <2>3
    <3> HIDE DEF mine
    <3>2. i \in Nat
      BY TrackersAreSequence DEF CopyInv, IInv, TypeOK
    <3>3. Min(mine) = i
      BY <3>1, <3>2 DEF Min
    <3> QED
      BY <1>1, <2>3, <3>1, <3>3
  <2>4. CASE f # FileOf[r]
    <3>1. \A s \in Runs : transfer_id[s] = transfer_id[r] => FileOf[s] = FileOf[r]
      BY <1>3 DEF NoIdShared
    <3>2. mine = {}
      BY <2>1, <2>2, <2>4, <3>1
    <3> QED
      BY <1>1, <2>4, <3>2
  <2> QED
    BY <2>3, <2>4
<1> QED
  BY <1>2, <1>3

\* What the disk and the tracker show of the first chunks of a file.
LEMMA LengthsOf ==
  ASSUME NEW r \in Runs, NEW k \in 0..ChunkCount(r)
  PROVE  Beginning(r, k) # Absent /\ ConcatLength(Beginning(r, k)) = BytesIn(r, k)
<1>1. k \in Nat
  BY ChunksOfFile
<1> QED
  BY <1>1, BeginningTyped, BeginningIsString, ReceiverAssumption DEF ReceiverAssumption

LEMMA EmptyLength == ConcatLength(FileContents(<<>>)) = 0
<1>1. DOMAIN FileContents(<<>>) = {}
  BY EmptyRun DEF FileContents
<1>2. PICK x : x = FileContents(<<>>)
  OBVIOUS
<1>3. UNION {{i} \X x[i] : i \in DOMAIN x} = {}
  BY <1>1, <1>2
<1> QED
  BY <1>2, <1>3, FS_EmptySet DEF ConcatLength

\* A process killed in a write leaves a beginning that is not the whole.
LEMMA KillTaken ==
  ASSUME Order # "none", CopyInv, NoIdShared, NEW p \in PacketIds, DieReceivingPacket(p)
  PROVE  \E i \in DOMAIN file_chunks, r \in Runs : \E k :
           /\ transfer_id[r] # 0
           /\ ~file_chunks[i].is_complete
           /\ k \in 0..ChunkCount(r) /\ k < ChunkCount(r)
           /\ \A n \in Name :
                disk'[n] = IF n = NameOf[FileOf[r]] THEN Beginning(r, k) ELSE disk[n]
<1> DEFINE c == PacketOf(p).body
<1>0. /\ ReceiverInv /\ SenderTypeOK /\ TrackersGenuine /\ SentIsNamed
      /\ p \in sent /\ KilledInWrite(PacketOf(p))
  BY DEF CopyInv, IInv, TypeOK, ReceiverInv, GenuineInv, DieReceivingPacket
<1>1. PacketOf(p).type = "file_transfer_chunk"
  BY <1>0 DEF KilledInWrite
<1>2. c \in Chunk /\ GenuineChunk(c, transfer_id)
  <2>1. ChunkFields \subseteq c.has
    BY <1>1 DEF PacketOf, ChunkOf
  <2>2. WellFormed(PacketOf(p)) /\ GenuinePacket(PacketOf(p), transfer_id)
    BY <1>0, PacketWellFormed, PacketGenuine DEF SentIsNamed
  <2> QED
    BY <1>1, <2>1, <2>2 DEF WellFormed, GenuinePacket
<1>3a. PICK i \in DOMAIN file_chunks : \E chunks, cut :
        /\ chunks = SortedInsert(file_chunks[i].chunks, c)
        /\ cut \in CutShort(FileContents(chunks))
        /\ FoundAt(c.id, i)
        /\ Wants(file_chunks[i], c)
        /\ IsWritten(file_chunks[i].header, FileContents(chunks))
        /\ disk' = [disk EXCEPT ![file_chunks[i].header.filename] = cut]
  BY <1>0 DEF KilledInWrite
<1>3. PICK chunks, cut :
        /\ chunks = SortedInsert(file_chunks[i].chunks, c)
        /\ cut \in CutShort(FileContents(chunks))
        /\ FoundAt(c.id, i)
        /\ Wants(file_chunks[i], c)
        /\ IsWritten(file_chunks[i].header, FileContents(chunks))
        /\ disk' = [disk EXCEPT ![file_chunks[i].header.filename] = cut]
  BY <1>3a
<1> HIDE DEF c
<1>4. PICK t : t = file_chunks[i]
  OBVIOUS
<1>5. /\ t \in Tracker /\ Tidy(t) /\ ~Invalid(t) /\ GetId(t) = c.id /\ Wants(t, c)
      /\ GenuineTracker(t, transfer_id)
  BY <1>0, <1>3, <1>4, TrackerFound DEF ReceiverInv, TrackersTidy, TrackersGenuine
<1>6. t.header # NoHeader
  BY <1>3, <1>4 DEF IsWritten, NoHeader
<1>7. OneFileEach(transfer_id)
  BY DEF NoIdShared, OneFileEach
<1>8. PICK u : u = UnbrokenRun(chunks)
  OBVIOUS
<1>9. chunks = SortedInsert(t.chunks, c)
  BY <1>3, <1>4
<1>10. PICK r \in Runs :
         /\ transfer_id[r] # 0
         /\ t.header.filename = NameOf[FileOf[r]]
         /\ u \in 0..ChunkCount(r)
         /\ FileContents(chunks) = Beginning(r, u)
  BY <1>2, <1>5, <1>6, <1>7, <1>8, <1>9, WrittenIsBeginning
<1>11. u \in Nat /\ ChunkCount(r) \in Nat
  BY <1>10, ChunksOfFile
<1>12. PICK k \in 0..u : k < u /\ cut = Beginning(r, k)
  BY <1>3, <1>10, <1>11, CutBeginning
<1>13. k \in 0..ChunkCount(r) /\ k < ChunkCount(r)
  BY <1>10, <1>11, <1>12
<1>14. NameOf[FileOf[r]] \in Name /\ DOMAIN disk = Name
  BY <1>0, Constants DEF ReceiverInv, ReceiverTypeOK
<1>15. \A n \in Name :
         disk'[n] = IF n = NameOf[FileOf[r]] THEN Beginning(r, k) ELSE disk[n]
  BY <1>3, <1>4, <1>10, <1>12, <1>14
<1>16. ~t.is_complete
  BY <1>5 DEF Wants
<1> QED
  BY <1>4, <1>10, <1>13, <1>15, <1>16

\* The state functions the abstract variables stand for.
LEMMA PromiseStutters ==
  ASSUME \A f \in Sent : Held(f)' = Held(f),
         \A f \in Sent : SavedLength(f)' = SavedLength(f)
  PROVE  UNCHANGED Promise!vars
  BY DEF Promise!vars

OneTracker == \A i, j \in DOMAIN file_chunks : i = j

\* What is held of a file changes only when its tracker does.
LEMMA HeldStays ==
  ASSUME IInv, HeldIsTracked, HeldIsTracked', TrackersHaveHeaders, [Next]_vars,
         file_chunks' = file_chunks
  PROVE  \A f \in Sent : Held(f)' = Held(f)
<1> SUFFICES ASSUME NEW f \in Sent PROVE Held(f)' = Held(f)
  OBVIOUS
<1>1. CASE DOMAIN file_chunks = {}
  BY <1>1 DEF HeldIsTracked
<1>2. ASSUME NEW i \in DOMAIN file_chunks PROVE Held(f)' = Held(f)
  <2>1. PICK s \in Runs : transfer_id[s] # 0
    BY DEF TrackersHaveHeaders, AllWithHeaders, GenuineHeader
  <2>2. transfer_id'[s] # 0
    BY <2>1, IdsStay
  <2>3. PICK t : t = file_chunks[i]
    OBVIOUS
  <2>4. Held(f) = IF f = FileOf[s] THEN HeldBy(t, f) ELSE 0
    BY <2>1, <2>3 DEF HeldIsTracked
  <2>5. Held(f)' = IF f = FileOf[s] THEN HeldBy(t, f) ELSE 0
    BY <2>2, <2>3 DEF HeldIsTracked
  <2> QED
    BY <2>4, <2>5
<1> QED
  BY <1>1, <1>2

\* The disk shows the first k chunks of one file, and of the others what it
\* showed before.
LEMMA SavedAfterWrite ==
  ASSUME NamesDiffer, NEW r \in Runs, NEW k \in 0..ChunkCount(r),
         \A n \in Name :
           disk'[n] = IF n = NameOf[FileOf[r]] THEN Beginning(r, k) ELSE disk[n]
  PROVE  \A f \in Sent :
           SavedLength(f)' = IF f = FileOf[r] THEN BytesIn(r, k) ELSE SavedLength(f)
<1> SUFFICES ASSUME NEW q \in Runs
             PROVE  SavedLength(FileOf[q])' =
                      IF FileOf[q] = FileOf[r] THEN BytesIn(r, k) ELSE SavedLength(FileOf[q])
  BY DEF Sent
<1>1. NameOf[FileOf[q]] \in Name
  BY Constants
<1>2. CASE FileOf[q] = FileOf[r]
  <2>1. disk'[NameOf[FileOf[q]]] = Beginning(r, k)
    BY <1>1, <1>2
  <2> QED
    BY <1>2, <2>1, LengthsOf DEF SavedLength
<1>3. CASE FileOf[q] # FileOf[r]
  <2>1. disk'[NameOf[FileOf[q]]] = disk[NameOf[FileOf[q]]]
    BY <1>1, <1>3 DEF NamesDiffer
  <2> QED
    BY <1>3, <2>1 DEF SavedLength
<1> QED
  BY <1>2, <1>3

LEMMA ChunkGrows ==
  ASSUME NamesDiffer, CopyInv, HeldIsTracked, HeldIsTracked', DiskFollows,
         transfer_id' = transfer_id,
         NEW s \in Runs, transfer_id[s] # 0, ChunkCount(s) # 0,
         NEW i, NEW v, NEW u, ChunkTaken(i, s, v, u)
  PROVE  Promise!Grow(FileOf[s]) \/ UNCHANGED Promise!vars
<1> DEFINE g == FileOf[s]
           name == NameOf[FileOf[s]]
<1>0. PICK old, t : old = file_chunks[i] /\ t = file_chunks'[i]
  OBVIOUS
<1>1. /\ i \in DOMAIN file_chunks /\ i \in DOMAIN file_chunks'
      /\ v = UnbrokenRun(old.chunks)
      /\ v \in 0..u /\ u \in 0..ChunkCount(s)
      /\ ~old.is_complete
      /\ t.is_complete <=> u = ChunkCount(s)
      /\ FileContents(old.chunks) = Beginning(s, v)
      /\ ~t.is_complete => FileContents(t.chunks) = Beginning(s, u)
      /\ \A n \in Name :
           disk'[n] = IF u > 0 /\ n = name THEN Beginning(s, u) ELSE disk[n]
  BY <1>0 DEF ChunkTaken
<1>2. /\ ChunkCount(s) \in Nat \ {0} /\ u \in Nat /\ v \in Nat /\ v \in 0..ChunkCount(s)
      /\ name \in Name /\ g \in Sent
  BY <1>1, ChunksOfFile, Constants DEF Sent
<1>3. /\ FileLength(s) \in Nat \ {0}
      /\ BytesIn(s, u) \in 0..FileLength(s)
      /\ BytesIn(s, v) \in 0..FileLength(s)
      /\ BytesIn(s, u) = FileLength(s) <=> u = ChunkCount(s)
      /\ v < u => BytesIn(s, v) < BytesIn(s, u)
  BY <1>1, <1>2, BytesOfChunks
<1>4. HeldBy(old, g) = BytesIn(s, v)
  BY <1>1, <1>2, LengthsOf DEF HeldBy
<1>5. HeldBy(t, g) = BytesIn(s, u)
  <2>1. CASE t.is_complete
    BY <1>1, <1>3, <2>1 DEF HeldBy, FileLength
  <2>2. CASE ~t.is_complete
    BY <1>1, <2>2, LengthsOf DEF HeldBy
  <2> QED
    BY <2>1, <2>2
<1>6. \A f \in Sent : Held(f) = IF f = g THEN BytesIn(s, v) ELSE 0
  BY <1>0, <1>1, <1>4 DEF HeldIsTracked
<1>7. \A f \in Sent : Held(f)' = IF f = g THEN BytesIn(s, u) ELSE 0
  BY <1>0, <1>1, <1>5 DEF HeldIsTracked
<1>8. CASE u = 0
  <2>1. v = 0
    BY <1>1, <1>8
  <2>2. \A n \in Name : disk'[n] = disk[n]
    BY <1>1, <1>8
  <2>3. \A f \in Sent : SavedLength(f)' = SavedLength(f)
    <3> SUFFICES ASSUME NEW q \in Runs PROVE SavedLength(FileOf[q])' = SavedLength(FileOf[q])
      BY DEF Sent
    <3> QED
      BY <2>2, Constants DEF SavedLength
  <2>4. \A f \in Sent : Held(f)' = Held(f)
    BY <1>6, <1>7, <1>8, <2>1
  <2> QED
    BY <2>3, <2>4, PromiseStutters
<1>9. CASE u > 0
  <2>1. \A n \in Name : disk'[n] = IF n = name THEN Beginning(s, u) ELSE disk[n]
    BY <1>1, <1>9
  <2>2. \A f \in Sent : SavedLength(f)' = IF f = g THEN BytesIn(s, u) ELSE SavedLength(f)
    BY <1>1, <2>1, SavedAfterWrite
  <2>3. CASE v = u
    <3>1. disk[name] = Beginning(s, u)
      BY <1>0, <1>1, <1>9, <2>3, ZenonT(60) DEF DiskFollows, FileFollows
    <3>2. SavedLength(g) = BytesIn(s, u)
      BY <1>1, <3>1, LengthsOf DEF SavedLength
    <3>3. \A f \in Sent : SavedLength(f)' = SavedLength(f)
      BY <2>2, <3>2
    <3>4. \A f \in Sent : Held(f)' = Held(f)
      BY <1>6, <1>7, <2>3
    <3> QED
      BY <3>3, <3>4, PromiseStutters
  <2>4. CASE v < u
    <3> DEFINE a == BytesIn(s, v)
               b == BytesIn(s, u)
               held == [f \in Sent |-> Held(f)]
               saved == [f \in Sent |-> SavedLength(f)]
    <3>1. b \in (a + 1)..FileLength(s)
      BY <1>3, <2>4
    <3>2. held[g] = a
      BY <1>2, <1>6
    <3>3. [f \in Sent |-> Held(f)'] = [held EXCEPT ![g] = b]
      BY <1>6, <1>7
    <3>4. [f \in Sent |-> SavedLength(f)'] = [saved EXCEPT ![g] = b]
      BY <2>2
    <3>5. [f \in Sent |-> SizeOf[f]][g] = FileLength(s)
      BY <1>2 DEF FileLength
    <3> HIDE DEF a, b
    <3>6. \E n \in (held[g] + 1)..([f \in Sent |-> SizeOf[f]][g]) :
            /\ [f \in Sent |-> Held(f)'] = [held EXCEPT ![g] = n]
            /\ [f \in Sent |-> SavedLength(f)'] = [saved EXCEPT ![g] = n]
      BY <3>1, <3>2, <3>3, <3>4, <3>5
    <3> QED
      BY <3>6 DEF Promise!Grow
  <2> QED
    BY <1>1, <1>2, <2>3, <2>4
<1> QED
  BY <1>2, <1>8, <1>9

\* Every step of the copy is a step of FileTransfer, or none.
LEMMA NextPromise ==
  ASSUME StraysAreIncomplete, Order # "none", WriteMayFail = FALSE, NamesDiffer,
         CopyInv, NoIdShared, HeldIsTracked, HeldIsTracked', DiskFollows, OneTracker',
         [Next]_vars
  PROVE  [Promise!Next]_(Promise!vars)
<1>0. /\ IInv /\ TrackersHaveHeaders /\ SentIsNamed
      /\ \A r \in Runs : transfer_id[r] # 0 => transfer_id'[r] = transfer_id[r]
  BY IdsStay DEF CopyInv, HeadersInv, GenuineInv
<1>1. ASSUME disk' = disk PROVE \A f \in Sent : SavedLength(f)' = SavedLength(f)
  BY <1>1 DEF SavedLength
<1>2. ASSUME file_chunks' = file_chunks, disk' = disk PROVE UNCHANGED Promise!vars
  BY <1>0, <1>1, <1>2, HeldStays, PromiseStutters
<1>3. ASSUME file_chunks' = <<>> PROVE \A f \in Sent : Held(f)' = 0
  <2>1. DOMAIN file_chunks' = {}
    BY <1>3
  <2> QED
    BY <2>1 DEF HeldIsTracked
<1>4. ASSUME NEW r \in Runs, SenderStep(r) PROVE UNCHANGED Promise!vars
  BY <1>2, <1>4 DEF SenderStep, receiverVars
<1>5. ASSUME NEW p \in PacketIds, ReceivePacket(p) PROVE [Promise!Next]_(Promise!vars)
  <2>0. transfer_id' = transfer_id
    BY <1>5 DEF ReceivePacket, senderVars
  <2>1. CASE UNCHANGED receiverVars
    BY <1>2, <2>1 DEF receiverVars
  <2>2. CASE HeaderTaken
    <3>1. ASSUME NEW f \in Sent PROVE Held(f)' = Held(f)
      <4>1. CASE DOMAIN file_chunks' = {}
        <5>1. DOMAIN file_chunks = {}
          BY <2>2, <4>1 DEF HeaderTaken
        <5> QED
          BY <4>1, <5>1 DEF HeldIsTracked
      <4>2. ASSUME NEW i \in DOMAIN file_chunks' PROVE Held(f)' = Held(f)
        <5>1. PICK s \in Runs : s = p[1] /\ transfer_id[s] # 0
          BY <1>0, <1>5, PacketIdParts DEF ReceivePacket, Link!Deliver, SentIsNamed
        <5>2. PICK t : t = file_chunks'[i]
          OBVIOUS
        <5>3. Held(f)' = IF f = FileOf[s] THEN HeldBy(t, f) ELSE 0
          BY <2>0, <5>1, <5>2 DEF HeldIsTracked
        <5>4. CASE i \in DOMAIN file_chunks
          <6>1. HeldBy(t, f) = HeldBy(file_chunks[i], f)
            BY <2>2, <5>2, <5>4 DEF HeaderTaken, HeldBy
          <6> QED
            BY <5>1, <5>3, <5>4, <6>1 DEF HeldIsTracked
        <5>5. CASE i \notin DOMAIN file_chunks
          <6>1. t.chunks = <<>> /\ ~t.is_complete
            BY <2>2, <5>2, <5>5 DEF HeaderTaken
          <6>2. HeldBy(t, f) = 0
            BY <6>1, EmptyLength DEF HeldBy
          <6>3. DOMAIN file_chunks = {}
            <7>1. \A j \in DOMAIN file_chunks' : j = i
              BY DEF OneTracker
            <7> QED
              BY <2>2, <5>5, <7>1 DEF HeaderTaken
          <6> QED
            BY <5>3, <6>2, <6>3 DEF HeldIsTracked
        <5> QED
          BY <5>4, <5>5
      <4> QED
        BY <4>1, <4>2
    <3> QED
      BY <1>1, <2>2, <3>1, PromiseStutters DEF HeaderTaken
  <2>3. ASSUME NEW i, NEW v, NEW u,
               \A r \in Runs : transfer_id[r] # 0 =>
                 ChunkCount(r) # 0 /\ ChunkTaken(i, r, v, u)
        PROVE  [Promise!Next]_(Promise!vars)
    <3>1. PICK s \in Runs : s = p[1] /\ transfer_id[s] # 0
      BY <1>0, <1>5, PacketIdParts DEF ReceivePacket, Link!Deliver, SentIsNamed
    <3>2. Promise!Grow(FileOf[s]) \/ UNCHANGED Promise!vars
      BY <2>0, <2>3, <3>1, ChunkGrows
    <3>3. FileOf[s] \in Sent
      BY DEF Sent
    <3> QED
      BY <3>2, <3>3 DEF Promise!Next
  <2> QED
    BY <1>5, <2>1, <2>2, <2>3, PacketTaken
<1>6. ASSUME NEW packet \in Strays, ReceiveStray(packet) PROVE UNCHANGED Promise!vars
  BY <1>2, <1>6, StrayDoesNothing DEF ReceiveStray, receiverVars
<1>7. ASSUME NEW p \in PacketIds, DieReceivingPacket(p) PROVE [Promise!Next]_(Promise!vars)
  <2>1. \A f \in Sent : Held(f)' = 0
    BY <1>3, <1>7 DEF DieReceivingPacket, KilledInWrite
  <2>2a. PICK i \in DOMAIN file_chunks, r \in Runs : \E k :
          /\ transfer_id[r] # 0
          /\ ~file_chunks[i].is_complete
          /\ k \in 0..ChunkCount(r) /\ k < ChunkCount(r)
          /\ \A n \in Name :
               disk'[n] = IF n = NameOf[FileOf[r]] THEN Beginning(r, k) ELSE disk[n]
    BY <1>7, KillTaken
  <2>2. PICK k :
          /\ transfer_id[r] # 0
          /\ ~file_chunks[i].is_complete
          /\ k \in 0..ChunkCount(r) /\ k < ChunkCount(r)
          /\ \A n \in Name :
               disk'[n] = IF n = NameOf[FileOf[r]] THEN Beginning(r, k) ELSE disk[n]
    BY <2>2a
  <2> DEFINE g == FileOf[r]
             b == BytesIn(r, k)
             held == [f \in Sent |-> Held(f)]
             saved == [f \in Sent |-> SavedLength(f)]
             size == [f \in Sent |-> SizeOf[f]]
  <2>3. \A f \in Sent : SavedLength(f)' = IF f = g THEN b ELSE SavedLength(f)
    BY <2>2, SavedAfterWrite
  <2>4. g \in Sent /\ size[g] = FileLength(r)
    BY DEF Sent, FileLength
  <2>5. ChunkCount(r) \in Nat \ {0}
    BY <2>2, ChunksOfFile
  <2>6. FileLength(r) \in Nat /\ b \in 0..(FileLength(r) - 1)
    BY <2>2, <2>5, BytesOfChunks
  <2>7. held[g] < size[g]
    <3>1. PICK t, v : t = file_chunks[i] /\ v = UnbrokenRun(t.chunks)
      OBVIOUS
    <3>2. v < ChunkCount(r)
      BY <2>2, <2>5, <3>1 DEF DiskFollows, FileFollows
    <3>3. /\ t \in Tracker /\ Tidy(t) /\ GenuineTracker(t, transfer_id)
          /\ GetId(t) = transfer_id[r]
      <4>1. GetId(t) = GetNextTransferId
        <5>1. t.header.id = GetNextTransferId
          BY <3>1, SingleTracker DEF CopyInv, IInv, HeadersInv
        <5>2. GetId(t) = t.header.id
          BY <1>0, <3>1, HeaderNames DEF TrackersHaveHeaders, AllWithHeaders
        <5> QED
          BY <5>1, <5>2
      <4>2. transfer_id[r] = GetNextTransferId
        BY <1>0, <2>2 DEF IInv, SendersInRange
      <4>3. t \in Tracker /\ Tidy(t) /\ GenuineTracker(t, transfer_id)
        BY <3>1, TrackersAreSequence
           DEF CopyInv, IInv, TypeOK, TrackersTidy, GenuineInv, TrackersGenuine
      <4> QED
        BY <4>1, <4>2, <4>3
    <3>4. /\ t.chunks \in Seq(Chunk) /\ OfTransfer(t.chunks, transfer_id[r])
          /\ \A j \in DOMAIN t.chunks : GenuineChunk(t.chunks[j], transfer_id)
      BY <3>3, TrackerFields DEF Tidy, GenuineTracker
    <3>5. OneFileEach(transfer_id)
      BY DEF NoIdShared, OneFileEach
    <3>6. v \in 0..ChunkCount(r) /\ FileContents(t.chunks) = Beginning(r, v)
      BY <2>2, <3>1, <3>4, <3>5, ContentsAreBeginning
    <3>7. held[g] = BytesIn(r, v)
      <4>1. Held(g) = HeldBy(t, g)
        BY <2>2, <2>4, <3>1 DEF HeldIsTracked
      <4> QED
        BY <2>2, <2>4, <3>1, <3>6, <4>1, LengthsOf DEF HeldBy
    <3>8. BytesIn(r, v) \in 0..FileLength(r) /\ BytesIn(r, v) # FileLength(r)
      BY <2>5, <3>2, <3>6, BytesOfChunks
    <3> QED
      BY <2>4, <2>6, <3>7, <3>8
  <2>8. [f \in Sent |-> SavedLength(f)'] = [saved EXCEPT ![g] = b]
    BY <2>3
  <2>9. [f \in Sent |-> Held(f)'] = [f \in Sent |-> 0]
    BY <2>1
  <2>10. b \in 0..(size[g] - 1)
    BY <2>4, <2>6
  <2> HIDE DEF b
  <2>11. Promise!DieWriting(g)
    BY <2>7, <2>8, <2>9, <2>10 DEF Promise!DieWriting
  <2> QED
    BY <2>4, <2>11 DEF Promise!Next
<1>8. CASE RestartReceiver
  <2>1. \A f \in Sent : Held(f)' = 0
    BY <1>3, <1>8 DEF RestartReceiver, ReceiverRestart
  <2>2. \A f \in Sent : SavedLength(f)' = SavedLength(f)
    BY <1>1, <1>8 DEF RestartReceiver, ReceiverRestart
  <2>3. Promise!Restart
    BY <2>1, <2>2 DEF Promise!Restart
  <2> QED
    BY <2>3 DEF Promise!Next
<1>9. CASE UNCHANGED vars
  BY <1>2, <1>9 DEF vars, receiverVars
<1> QED
  BY <1>4, <1>5, <1>6, <1>7, <1>8, <1>9 DEF Next

\* With its headers first and its writes succeeding, a copy does what a
\* FileTransfer may do: the file on the disk grows chunk by chunk to the
\* whole, and is left alone from then on.
THEOREM CopyIsFileTransfer ==
  ASSUME StraysAreIncomplete, Order # "none", WriteMayFail = FALSE, NamesDiffer
  PROVE  Spec /\ []NoIdShared => ImplementsFileTransfer
<1>1. Init => Promise!Init
  <2> SUFFICES ASSUME Init PROVE Promise!Init
    OBVIOUS
  <2>1. DOMAIN file_chunks = {} /\ \A n \in Name : disk[n] = Absent
    BY DEF Init, ReceiverInit, ReceiverStart
  <2>2. \A r \in Runs : Held(FileOf[r]) = 0 /\ SavedLength(FileOf[r]) = 0
    BY <2>1, Constants DEF Held, SavedLength
  <2> QED
    BY <2>2 DEF Promise!Init, Sent
<1>2. CopyInv /\ NoIdShared => HeldIsTracked
  BY HeldTracked
<1>4. CopyInv => OneTracker
  BY SingleTracker DEF CopyInv, IInv, HeadersInv, OneTracker
<1>3. CopyInv /\ NoIdShared /\ HeldIsTracked /\ HeldIsTracked' /\ DiskFollows /\ OneTracker'
        /\ [Next]_vars => [Promise!Next]_(Promise!vars)
  BY NextPromise
<1> QED
  BY <1>1, <1>2, <1>3, <1>4, CopyInvariance, DiskFollowsAlways, PTL
     DEF Spec, ImplementsFileTransfer, Promise!Spec
=============================================================================
