-------------------------- MODULE FileCopy_proofs --------------------------
(***************************************************************************)
(* Proofs about FileCopy, for any runs, files, ids and bounds, and for a   *)
(* link that keeps no order and writes that may fail.                      *)
(***************************************************************************)
EXTENDS FileCopy, Chunking_proofs

-----------------------------------------------------------------------------
(* What holds whatever arrives, in whatever order, from whatever program.  *)

\* A run sends no packet past its last chunk, and takes its id once.
SendersInRange ==
  \A r \in Runs :
    /\ stage[r] # "done" => next[r] <= ChunkCount(r)
    /\ stage[r] = "ready" => transfer_id[r] = 0
    /\ stage[r] \in {"sending", "calling"} => transfer_id[r] # 0
    /\ transfer_id[r] \in {0, GetNextTransferId}

\* What a tracker holds belongs to one transfer, sorted, no chunk twice.
OfTransfer(chunks, id) == \A j \in DOMAIN chunks : chunks[j].id = id
InOrder(chunks) == \A j, k \in DOMAIN chunks : j < k => Before(chunks[j], chunks[k])
Tidy(t) == OfTransfer(t.chunks, GetId(t)) /\ InOrder(t.chunks)

TrackersTidy == \A i \in DOMAIN file_chunks : Tidy(file_chunks[i])

ReceiverInv == ReceiverTypeOK /\ TrackersTidy /\ OneTrackerPerId

IInv == TypeOK /\ SendersInRange /\ TrackersTidy /\ OneTrackerPerId

-----------------------------------------------------------------------------
(* What holds while the packets of other programs are turned away.         *)

\* The first k chunks of the file of a run.
Beginning(r, k) == FirstPieces(FileOf[r], FileLength(r), ChunkSize(r), k)

\* How many bytes they have.
BytesIn(r, k) == EndOfPieces(FileLength(r), ChunkSize(r), k)

\* Sent by a run under the id it has.
GenuineHeader(h, ids) == \E r \in Runs : ids[r] # 0 /\ h = HeaderOf(r, ids[r])

GenuineChunk(c, ids) ==
  \E r \in Runs : ids[r] # 0 /\ \E k \in 1..ChunkCount(r) : c = ChunkOf(r, ids[r], k)

GenuineTracker(t, ids) ==
  /\ t.header = NoHeader \/ GenuineHeader(t.header, ids)
  /\ \A j \in DOMAIN t.chunks : GenuineChunk(t.chunks[j], ids)

TrackersGenuine ==
  \A i \in DOMAIN file_chunks : GenuineTracker(file_chunks[i], transfer_id)

\* Only a run that has its id has sent anything.
SentIsNamed == \A p \in sent : transfer_id[p[1]] # 0

\* What is on the disk are beginnings of files some run sends.
DiskIsBeginning ==
  \A n \in Name : disk[n] # Absent =>
    \E r \in Runs : /\ NameOf[FileOf[r]] = n
                    /\ \E k \in 0..ChunkCount(r) : disk[n] = Beginning(r, k)


-----------------------------------------------------------------------------
(* Fields, constants and the vectors of the trackers.                      *)

LEMMA Constants ==
  /\ TransferIds = 0..(IdSpace - 1)
  /\ IdSpace \in Nat \ {0, 1}
  /\ GetNextTransferId \in TransferIds \ {0}
  /\ MaxChunkSize \in Nat
  /\ MaxRestarts \in Nat
  /\ \A r \in Runs : /\ FileOf[r] \in File
                     /\ FileLength(r) \in Nat
                     /\ NameOf[FileOf[r]] \in Name
<1>1. GetNextTransferId \in 1..(IdSpace - 1)
  <2>1. IdSpace \in Nat \ {0, 1} /\ 0 \in 0..(IdSpace - 1)
    BY SenderAssumption
  <2> QED
    BY <2>1, NextIdIsAnId DEF GetNextTransferId
<1>2. \A r \in Runs : /\ FileOf[r] \in File
                     /\ FileLength(r) \in Nat
                     /\ NameOf[FileOf[r]] \in Name
  BY SenderAssumption DEF FileLength
<1>3. /\ TransferIds = 0..(IdSpace - 1)
      /\ IdSpace \in Nat \ {0, 1}
      /\ MaxChunkSize \in Nat
  BY SenderAssumption
<1>4. GetNextTransferId \in TransferIds \ {0}
  BY <1>1, <1>3
<1>5. MaxRestarts \in Nat
  BY CopyAssumption
<1> QED
  BY <1>2, <1>3, <1>4, <1>5

LEMMA TrackerFields ==
  ASSUME NEW t \in Tracker
  PROVE  /\ t.header \in Header \cup {NoHeader}
         /\ t.chunks \in Seq(Chunk)
         /\ t.is_complete \in BOOLEAN
         /\ t = [header |-> t.header, chunks |-> t.chunks, is_complete |-> t.is_complete]
         /\ DOMAIN t.chunks = 1..Len(t.chunks)
         /\ Len(t.chunks) \in Nat
         /\ \A j \in DOMAIN t.chunks : t.chunks[j] \in Chunk
         /\ t.header = NoHeader \/ t.header \in Header
         /\ "id" \in t.header.has <=> t.header \in Header
<1>1. /\ t.header \in Header \cup {NoHeader}
      /\ t.chunks \in Seq(Chunk)
      /\ t.is_complete \in BOOLEAN
      /\ t = [header |-> t.header, chunks |-> t.chunks, is_complete |-> t.is_complete]
  BY DEF Tracker
<1>2. /\ DOMAIN t.chunks = 1..Len(t.chunks)
      /\ Len(t.chunks) \in Nat
      /\ \A j \in DOMAIN t.chunks : t.chunks[j] \in Chunk
  BY <1>1, ElementOfSeq, LenProperties
<1>3. NoHeader.has = {} /\ \A h \in Header : h.has = HeaderFields
  BY DEF NoHeader, Header
<1>4. "id" \in t.header.has <=> t.header \in Header
  BY <1>1, <1>3 DEF HeaderFields
<1> QED
  BY <1>1, <1>2, <1>4

LEMMA ChunkFieldsOf ==
  ASSUME NEW c \in Chunk
  PROVE  /\ c.has = ChunkFields
         /\ c.id \in TransferIds
         /\ c.chunk_id \in Nat
         /\ c.chunk \in SUBSET (File \X Nat)
  BY DEF Chunk

LEMMA TrackersAreSequence ==
  ASSUME ReceiverTypeOK
  PROVE  /\ Len(file_chunks) \in Nat
         /\ DOMAIN file_chunks = 1..Len(file_chunks)
         /\ \A i \in DOMAIN file_chunks : file_chunks[i] \in Tracker
<1>1. file_chunks \in Seq(Tracker)
  BY DEF ReceiverTypeOK
<1> QED
  BY <1>1, ElementOfSeq, LenProperties

\* A tracker without an id holds nothing and is named by nothing.
LEMMA ValidTracker ==
  ASSUME NEW t \in Tracker
  PROVE  Invalid(t) <=> t.header = NoHeader /\ t.chunks = <<>>
<1>1. NoHeader \notin Header
  BY DEF NoHeader, Header, HeaderFields
<1> QED
  BY <1>1, TrackerFields DEF Invalid

\* Putting a new tracker at the end.
LEMMA Appended ==
  ASSUME ReceiverInv, NEW t \in Tracker, Tidy(t),
         \A i \in DOMAIN file_chunks :
           ~Invalid(file_chunks[i]) /\ GetId(file_chunks[i]) # GetId(t),
         file_chunks' = Append(file_chunks, t), disk' = disk, alive' = alive
  PROVE  ReceiverInv'
<1> DEFINE n == Len(file_chunks)
<1>0. /\ n \in Nat /\ DOMAIN file_chunks = 1..n
      /\ \A i \in 1..n : file_chunks[i] \in Tracker
      /\ file_chunks \in Seq(Tracker)
  BY TrackersAreSequence DEF ReceiverInv, ReceiverTypeOK
<1>1. /\ file_chunks' \in Seq(Tracker)
      /\ DOMAIN file_chunks' = 1..(n + 1)
      /\ \A i \in 1..n : file_chunks'[i] = file_chunks[i]
      /\ file_chunks'[n + 1] = t
  <2>1. /\ Append(file_chunks, t) \in Seq(Tracker)
        /\ Len(Append(file_chunks, t)) = n + 1
        /\ \A i \in 1..n : Append(file_chunks, t)[i] = file_chunks[i]
        /\ Append(file_chunks, t)[n + 1] = t
    BY <1>0, AppendProperties
  <2> QED
    BY <2>1, LenProperties
<1> HIDE DEF n
<1>2. ReceiverTypeOK'
  BY <1>1 DEF ReceiverInv, ReceiverTypeOK
<1>3. \A i \in 1..(n + 1) : i \in 1..n \/ i = n + 1
  BY <1>0
<1>4. TrackersTidy'
  BY <1>0, <1>1, <1>3 DEF ReceiverInv, TrackersTidy
<1>5. OneTrackerPerId'
  BY <1>0, <1>1, <1>3 DEF ReceiverInv, OneTrackerPerId
<1> QED
  BY <1>2, <1>4, <1>5 DEF ReceiverInv

\* Changing a tracker that keeps its id, or ends without one.
LEMMA Replaced ==
  ASSUME ReceiverInv, NEW i \in DOMAIN file_chunks, NEW t \in Tracker, Tidy(t),
         ~Invalid(file_chunks[i]),
         Invalid(t) \/ GetId(t) = GetId(file_chunks[i]),
         file_chunks' = [file_chunks EXCEPT ![i] = t],
         \A n \in Name : disk'[n] = Absent \/ disk'[n] \in Contents,
         DOMAIN disk' = Name, alive' = alive
  PROVE  ReceiverInv'
<1> DEFINE n == Len(file_chunks)
<1>0. /\ n \in Nat /\ DOMAIN file_chunks = 1..n
      /\ \A j \in 1..n : file_chunks[j] \in Tracker
      /\ file_chunks \in Seq(Tracker)
  BY TrackersAreSequence DEF ReceiverInv, ReceiverTypeOK
<1>1. /\ file_chunks' \in Seq(Tracker)
      /\ DOMAIN file_chunks' = 1..n
      /\ file_chunks'[i] = t
      /\ \A j \in 1..n : j # i => file_chunks'[j] = file_chunks[j]
  <2>1. /\ [file_chunks EXCEPT ![i] = t] \in Seq(Tracker)
        /\ Len([file_chunks EXCEPT ![i] = t]) = n
        /\ \A j \in 1..n :
             [file_chunks EXCEPT ![i] = t][j] = IF j = i THEN t ELSE file_chunks[j]
    BY <1>0, ExceptSeq
  <2> QED
    BY <1>0, <2>1, LenProperties
<1> HIDE DEF n
<1>2. ReceiverTypeOK'
  BY <1>1 DEF ReceiverInv, ReceiverTypeOK
<1>4. TrackersTidy'
  BY <1>0, <1>1 DEF ReceiverInv, TrackersTidy
<1>5. OneTrackerPerId'
  BY <1>0, <1>1 DEF ReceiverInv, OneTrackerPerId
<1> QED
  BY <1>2, <1>4, <1>5 DEF ReceiverInv

-----------------------------------------------------------------------------
(* What the handlers do to a tracker and to a file.                        *)

\* The chunks from the first without a gap, as they are written.
LEMMA UnbrokenRunIs ==
  ASSUME NEW chunks \in Seq(Chunk), NEW u, u = UnbrokenRun(chunks)
  PROVE  /\ u \in 0..Len(chunks)
         /\ \A i \in 1..u : chunks[i].chunk_id = i
         /\ u < Len(chunks) => chunks[u + 1].chunk_id # u + 1
         /\ FileContents(chunks) = [i \in 1..u |-> chunks[i].chunk]
         /\ FileContents(chunks) \in Contents
         /\ Len(FileContents(chunks)) = u
<1> DEFINE S == {k \in DOMAIN chunks : \A i \in 1..k : chunks[i].chunk_id = i}
<1>0. /\ Len(chunks) \in Nat /\ DOMAIN chunks = 1..Len(chunks)
      /\ \A i \in 1..Len(chunks) : chunks[i] \in Chunk
  BY ElementOfSeq, LenProperties
<1>1. S \in SUBSET (1..Len(chunks)) /\ \A j \in S : 1..j \subseteq S
  BY <1>0
<1>2. u = Cardinality(S)
  BY DEF UnbrokenRun
<1>3. u \in 0..Len(chunks) /\ S = 1..u
  <2> HIDE DEF S
  <2> QED
    BY <1>0, <1>1, <1>2, PrefixSet
<1>4. \A i \in 1..u : chunks[i].chunk_id = i
  BY <1>0, <1>3
<1>5. u < Len(chunks) => chunks[u + 1].chunk_id # u + 1
  <2> SUFFICES ASSUME u < Len(chunks), chunks[u + 1].chunk_id = u + 1 PROVE FALSE
    OBVIOUS
  <2>1. \A i \in 1..(u + 1) : chunks[i].chunk_id = i
    BY <1>3, <1>4
  <2>2. u + 1 \in S
    BY <1>0, <1>3, <2>1
  <2> QED
    BY <1>3, <2>2
<1>6. FileContents(chunks) = [i \in 1..u |-> chunks[i].chunk]
  BY DEF FileContents
<1>7. \A i \in 1..u : chunks[i].chunk \in SUBSET (File \X Nat)
  BY <1>0, <1>3, ChunkFieldsOf
<1>8. FileContents(chunks) \in Contents /\ Len(FileContents(chunks)) = u
  BY <1>3, <1>6, <1>7 DEF Contents
<1> QED
  BY <1>3, <1>4, <1>5, <1>6, <1>8

\* The vector holds what it held, and c.
Adds(chunks, old, c) ==
  /\ \A i \in DOMAIN chunks : chunks[i] = c \/ \E j \in DOMAIN old : chunks[i] = old[j]
  /\ \E i \in DOMAIN chunks : chunks[i] = c
  /\ \A j \in DOMAIN old : \E i \in DOMAIN chunks : chunks[i] = old[j]

\* A wanted chunk in its place among those of its tracker.
LEMMA ChunkInserted ==
  ASSUME NEW t \in Tracker, Tidy(t), ~Invalid(t), NEW c \in Chunk, GetId(t) = c.id,
         Wants(t, c), NEW chunks, chunks = SortedInsert(t.chunks, c)
  PROVE  /\ chunks \in Seq(Chunk)
         /\ DOMAIN chunks = 1..Len(chunks)
         /\ Len(chunks) = Len(t.chunks) + 1
         /\ InOrder(chunks)
         /\ OfTransfer(chunks, c.id)
         /\ Adds(chunks, t.chunks, c)
<1>0. PICK old : old = t.chunks
  OBVIOUS
<1>1. /\ old \in Seq(Chunk)
      /\ DOMAIN old = 1..Len(old)
      /\ \A a \in Chunk : a.chunk_id \in Nat
      /\ \A i, j \in 1..Len(old) : i < j => Before(old[i], old[j])
      /\ \A i \in 1..Len(old) : old[i].chunk_id # c.chunk_id
      /\ \A i \in 1..Len(old) : old[i].id = c.id
  BY <1>0, TrackerFields, ChunkFieldsOf DEF Tidy, OfTransfer, InOrder, Wants
<1>2. chunks = SortedInsert(old, c)
  BY <1>0
<1>3. /\ chunks \in Seq(Chunk)
      /\ Len(chunks) = Len(old) + 1
      /\ \A i, j \in 1..Len(chunks) : i < j => Before(chunks[i], chunks[j])
      /\ \A i \in 1..Len(chunks) :
           chunks[i] = c \/ \E j \in 1..Len(old) : chunks[i] = old[j]
      /\ \E i \in 1..Len(chunks) : chunks[i] = c
      /\ \A j \in 1..Len(old) : \E i \in 1..Len(chunks) : chunks[i] = old[j]
  <2> PICK v : v = SortedInsert(old, c)
    OBVIOUS
  <2>1. v = chunks
    BY <1>2
  <2> HIDE <1>2
  <2>2. /\ v \in Seq(Chunk)
        /\ Len(v) = Len(old) + 1
        /\ \A i, j \in 1..Len(v) : i < j => Before(v[i], v[j])
        /\ \A i \in 1..Len(v) : v[i] = c \/ \E j \in 1..Len(old) : v[i] = old[j]
        /\ \E i \in 1..Len(v) : v[i] = c
        /\ \A j \in 1..Len(old) : \E i \in 1..Len(v) : v[i] = old[j]
    BY <1>1, SortedInsertSorts
  <2> QED
    BY ONLY <2>1, <2>2, Zenon
<1>4. DOMAIN chunks = 1..Len(chunks)
  BY <1>3, LenProperties
<1>5. OfTransfer(chunks, c.id)
  <2> SUFFICES ASSUME NEW i \in 1..Len(chunks) PROVE chunks[i].id = c.id
    BY <1>4 DEF OfTransfer
  <2>1. CASE chunks[i] = c
    BY <2>1
  <2>2. ASSUME NEW j \in 1..Len(old), chunks[i] = old[j] PROVE chunks[i].id = c.id
    BY <1>1, <2>2
  <2> QED
    BY <1>3, <2>1, <2>2
<1>6. InOrder(chunks)
  BY ONLY <1>3, <1>4 DEF InOrder
<1>7. \A i \in DOMAIN chunks : chunks[i] = c \/ \E j \in DOMAIN old : chunks[i] = old[j]
  BY ONLY <1>1, <1>3, <1>4
<1>8. \E i \in DOMAIN chunks : chunks[i] = c
  BY ONLY <1>3, <1>4
<1>9. \A j \in DOMAIN old : \E i \in DOMAIN chunks : chunks[i] = old[j]
  BY ONLY <1>1, <1>3, <1>4
<1>10. Adds(chunks, old, c)
  BY <1>7, <1>8, <1>9, Zenon DEF Adds
<1> QED
  BY <1>0, <1>3, <1>4, <1>5, <1>6, <1>10

\* The tracker with the new chunk.
LEMMA TrackerExtended ==
  ASSUME NEW t \in Tracker, Tidy(t), ~Invalid(t), NEW c \in Chunk, GetId(t) = c.id,
         Wants(t, c), NEW chunks, chunks = SortedInsert(t.chunks, c),
         NEW w, w = WithChunks(t, chunks)
  PROVE  /\ w \in Tracker
         /\ w.header = t.header
         /\ w.is_complete <=> ConcatLength(FileContents(chunks)) = t.header.size
         /\ w.chunks = IF w.is_complete THEN <<>> ELSE chunks
         /\ Tidy(w)
         /\ Invalid(w) \/ GetId(w) = GetId(t)
<1>1. /\ t.header \in Header \cup {NoHeader}
      /\ t = [header |-> t.header, chunks |-> t.chunks, is_complete |-> t.is_complete]
  BY TrackerFields
<1>2. /\ chunks \in Seq(Chunk)
      /\ DOMAIN chunks = 1..Len(chunks)
      /\ Len(chunks) \in Nat \ {0}
      /\ InOrder(chunks)
      /\ OfTransfer(chunks, c.id)
  <2>1. Len(t.chunks) \in Nat
    BY TrackerFields
  <2>2. /\ chunks \in Seq(Chunk)
        /\ DOMAIN chunks = 1..Len(chunks)
        /\ Len(chunks) = Len(t.chunks) + 1
        /\ InOrder(chunks)
        /\ OfTransfer(chunks, c.id)
    BY ChunkInserted
  <2>3. Len(chunks) \in Nat \ {0}
    BY <2>1, <2>2
  <2> QED
    BY <2>2, <2>3
<1>3. t.is_complete = FALSE
  BY TrackerFields DEF Wants
<1>4. CASE ConcatLength(FileContents(chunks)) = t.header.size
  <2>1. w = [header |-> t.header, chunks |-> <<>>, is_complete |-> TRUE]
    <3>1. w = [t EXCEPT !.chunks = <<>>, !.is_complete = TRUE]
      BY <1>4 DEF WithChunks
    <3> QED
      BY <1>1, <3>1
  <2>2. w \in Tracker
    BY <1>1, <2>1, EmptySeq DEF Tracker
  <2>3. w.header = t.header /\ w.chunks = <<>> /\ w.is_complete = TRUE
    BY <2>1
  <2>4. Tidy(w)
    BY <2>3 DEF Tidy, OfTransfer, InOrder
  <2>5. Invalid(w) \/ GetId(w) = GetId(t)
    BY <2>3 DEF Invalid, GetId
  <2> QED
    BY <1>4, <2>2, <2>3, <2>4, <2>5
<1>5. CASE ConcatLength(FileContents(chunks)) # t.header.size
  <2>1. w = [header |-> t.header, chunks |-> chunks, is_complete |-> FALSE]
    <3>1. w = [t EXCEPT !.chunks = chunks]
      BY <1>5 DEF WithChunks
    <3> QED
      BY <1>1, <1>3, <3>1
  <2>2. w \in Tracker
    BY <1>1, <1>2, <2>1 DEF Tracker
  <2>3. w.header = t.header /\ w.chunks = chunks /\ w.is_complete = FALSE
    BY <2>1
  <2>4. GetId(w) = GetId(t)
    <3>1. CASE "id" \in t.header.has
      BY <2>3, <3>1 DEF GetId
    <3>2. CASE "id" \notin t.header.has
      BY <1>2, <2>3, <3>2 DEF GetId, OfTransfer
    <3> QED
      BY <3>1, <3>2
  <2>5. Tidy(w)
    BY <1>2, <2>3, <2>4 DEF Tidy
  <2> QED
    BY <1>5, <2>2, <2>3, <2>4, <2>5
<1> QED
  BY <1>4, <1>5

\* The tracker that takes a header.
LEMMA TrackerWithHeader ==
  ASSUME NEW t \in Tracker, Tidy(t), ~Invalid(t), NEW h \in Header, GetId(t) = h.id,
         NEW w, w = [t EXCEPT !.header = h]
  PROVE  /\ w \in Tracker
         /\ w.header = h
         /\ w.chunks = t.chunks
         /\ w.is_complete = t.is_complete
         /\ Tidy(w)
         /\ ~Invalid(w) /\ GetId(w) = h.id
<1>1. /\ t.chunks \in Seq(Chunk) /\ t.is_complete \in BOOLEAN
      /\ t = [header |-> t.header, chunks |-> t.chunks, is_complete |-> t.is_complete]
  BY TrackerFields
<1>2. w = [header |-> h, chunks |-> t.chunks, is_complete |-> t.is_complete]
  BY <1>1
<1>3. w \in Tracker
  BY <1>1, <1>2 DEF Tracker
<1>4. w.header = h /\ w.chunks = t.chunks /\ w.is_complete = t.is_complete
  BY <1>2
<1>5. "id" \in h.has
  BY DEF Header, HeaderFields
<1>6. ~Invalid(w) /\ GetId(w) = h.id
  BY <1>4, <1>5 DEF Invalid, GetId
<1>7. Tidy(w)
  BY <1>4, <1>6 DEF Tidy
<1> QED
  BY <1>3, <1>4, <1>6, <1>7

\* A write leaves blocks in every file that is there.
LEMMA WriteTyped ==
  ASSUME ReceiverTypeOK, NEW h \in Header \cup {NoHeader}, NEW contents \in Contents,
         Write(h, contents)
  PROVE  /\ DOMAIN disk' = Name
         /\ \A n \in Name : disk'[n] = Absent \/ disk'[n] \in Contents
<1>0. /\ DOMAIN disk = Name
      /\ \A n \in Name : disk[n] = Absent \/ disk[n] \in Contents
  BY DEF ReceiverTypeOK
<1>1. CASE ~IsWritten(h, contents)
  BY <1>0, <1>1 DEF Write
<1>2. CASE IsWritten(h, contents)
  <2>1. h.filename \in Name
    BY <1>2 DEF IsWritten, Header, NoHeader
  <2>2. PICK result \in WriteOutcomes(disk[h.filename], contents) :
          disk' = [disk EXCEPT ![h.filename] = result]
    BY <1>2 DEF Write
  <2>3. CutShort(contents) \subseteq Contents
    <3> SUFFICES ASSUME NEW k \in 0..(Len(contents) - 1)
                 PROVE  SubSeq(contents, 1, k) \in Contents
      BY DEF CutShort
    <3>1. /\ Len(contents) \in Nat
          /\ \A i \in 1..Len(contents) : contents[i] \in SUBSET (File \X Nat)
      BY ElementOfSeq, LenProperties DEF Contents
    <3>2. \A i \in 1..k : contents[i] \in SUBSET (File \X Nat)
      BY <3>1
    <3> QED
      BY <3>1, <3>2, SubSeqProperties DEF Contents
  <2>4. result = Absent \/ result \in Contents
    BY <1>0, <2>1, <2>2, <2>3 DEF WriteOutcomes
  <2> QED
    BY <1>0, <2>1, <2>2, <2>4
<1> QED
  BY <1>1, <1>2

-----------------------------------------------------------------------------
(* The invariant of the receiver.                                          *)

WellFormed(packet) ==
  /\ packet.type = "file_transfer_header" /\ HeaderFields \subseteq packet.body.has
       => packet.body \in Header
  /\ packet.type = "file_transfer_chunk" /\ ChunkFields \subseteq packet.body.has
       => packet.body \in Chunk

\* The tracker the scan stops at.
LEMMA TrackerFound ==
  ASSUME ReceiverTypeOK, NEW id, NEW i, FoundAt(id, i)
  PROVE  /\ i \in DOMAIN file_chunks
         /\ file_chunks[i] \in Tracker
         /\ ~Invalid(file_chunks[i])
         /\ GetId(file_chunks[i]) = id
  BY TrackersAreSequence DEF FoundAt, Stops

LEMMA OpenWithHeaderStep ==
  ASSUME ReceiverInv, NEW h \in Header, OpenWithHeader(h)
  PROVE  ReceiverInv'
<1> DEFINE t == [header |-> h, chunks |-> <<>>, is_complete |-> FALSE]
<1>1. t \in Tracker /\ t.header = h /\ t.chunks = <<>>
  BY EmptySeq DEF Tracker
<1>2. file_chunks' = Append(file_chunks, t) /\ disk' = disk /\ alive' = alive
  BY DEF OpenWithHeader
<1> HIDE DEF t
<1>3. "id" \in h.has
  BY DEF Header, HeaderFields
<1>4. Tidy(t) /\ GetId(t) = h.id
  BY <1>1, <1>3 DEF Tidy, OfTransfer, InOrder, GetId
<1>5. \A i \in DOMAIN file_chunks : ~Invalid(file_chunks[i]) /\ GetId(file_chunks[i]) # h.id
  BY DEF OpenWithHeader, NotFound, Stops
<1> QED
  BY <1>1, <1>2, <1>4, <1>5, Appended

LEMMA OpenWithChunkStep ==
  ASSUME ReceiverInv, NEW c \in Chunk, OpenWithChunk(c)
  PROVE  ReceiverInv'
<1> DEFINE t == [header |-> NoHeader, chunks |-> <<c>>, is_complete |-> FALSE]
<1>1. t \in Tracker /\ t.header = NoHeader /\ t.chunks = <<c>>
  BY DEF Tracker
<1>2. file_chunks' = Append(file_chunks, t) /\ disk' = disk /\ alive' = alive
  BY DEF OpenWithChunk
<1> HIDE DEF t
<1>3. "id" \notin t.header.has
  BY <1>1 DEF NoHeader
<1>4. GetId(t) = c.id
  BY <1>1, <1>3 DEF GetId
<1>5. \A j \in DOMAIN t.chunks : j = 1 /\ t.chunks[j] = c
  BY <1>1
<1>6. Tidy(t)
  BY <1>4, <1>5 DEF Tidy, OfTransfer, InOrder
<1>7. \A i \in DOMAIN file_chunks : ~Invalid(file_chunks[i]) /\ GetId(file_chunks[i]) # c.id
  BY DEF OpenWithChunk, NotFound, Stops
<1> QED
  BY <1>1, <1>2, <1>4, <1>6, <1>7, Appended

LEMMA AdoptHeaderStep ==
  ASSUME ReceiverInv, NEW h \in Header, AdoptHeader(h)
  PROVE  ReceiverInv'
<1>1. PICK i \in DOMAIN file_chunks :
        FoundAt(h.id, i) /\ file_chunks' = [file_chunks EXCEPT ![i].header = h]
  BY DEF AdoptHeader
<1>2. /\ file_chunks[i] \in Tracker /\ Tidy(file_chunks[i])
      /\ ~Invalid(file_chunks[i]) /\ GetId(file_chunks[i]) = h.id
  BY <1>1, TrackerFound DEF ReceiverInv, TrackersTidy
<1>3. PICK w : w = [file_chunks[i] EXCEPT !.header = h]
  OBVIOUS
<1>4. w \in Tracker /\ Tidy(w) /\ GetId(w) = h.id
  BY <1>2, <1>3, TrackerWithHeader
<1>5. file_chunks' = [file_chunks EXCEPT ![i] = w]
  BY <1>1, <1>3
<1>6. /\ DOMAIN disk' = Name /\ alive' = alive
      /\ \A n \in Name : disk'[n] = Absent \/ disk'[n] \in Contents
  BY DEF AdoptHeader, ReceiverInv, ReceiverTypeOK
<1> QED
  BY <1>2, <1>4, <1>5, <1>6, Replaced

LEMMA AddChunkStep ==
  ASSUME ReceiverInv, NEW c \in Chunk, AddChunk(c)
  PROVE  ReceiverInv'
<1>1a. PICK i \in DOMAIN file_chunks : \E chunks :
        /\ chunks = SortedInsert(file_chunks[i].chunks, c)
        /\ FoundAt(c.id, i)
        /\ Wants(file_chunks[i], c)
        /\ Write(file_chunks[i].header, FileContents(chunks))
        /\ file_chunks' = [file_chunks EXCEPT ![i] = WithChunks(file_chunks[i], chunks)]
        /\ alive' = alive
  BY DEF AddChunk
<1>1. PICK chunks :
        /\ chunks = SortedInsert(file_chunks[i].chunks, c)
        /\ FoundAt(c.id, i)
        /\ Wants(file_chunks[i], c)
        /\ Write(file_chunks[i].header, FileContents(chunks))
        /\ file_chunks' = [file_chunks EXCEPT ![i] = WithChunks(file_chunks[i], chunks)]
        /\ alive' = alive
  BY <1>1a
<1>2. PICK t : t = file_chunks[i]
  OBVIOUS
<1>3. t \in Tracker /\ Tidy(t) /\ ~Invalid(t) /\ GetId(t) = c.id /\ Wants(t, c)
  BY <1>1, <1>2, TrackerFound DEF ReceiverInv, TrackersTidy
<1>4. PICK w : w = WithChunks(t, chunks)
  OBVIOUS
<1>5. w \in Tracker /\ Tidy(w) /\ (Invalid(w) \/ GetId(w) = GetId(t))
  BY <1>1, <1>2, <1>3, <1>4, TrackerExtended
<1>6. chunks \in Seq(Chunk)
  BY <1>1, <1>2, <1>3, ChunkInserted
<1>7. PICK contents : contents = FileContents(chunks)
  OBVIOUS
<1>8. contents \in Contents
  BY <1>6, <1>7, UnbrokenRunIs
<1>9. PICK h : h = t.header /\ h \in Header \cup {NoHeader}
  BY <1>3, TrackerFields
<1>10. Write(h, contents)
  BY <1>1, <1>2, <1>7, <1>9
<1>11. /\ DOMAIN disk' = Name
       /\ \A n \in Name : disk'[n] = Absent \/ disk'[n] \in Contents
  BY <1>8, <1>9, <1>10, WriteTyped DEF ReceiverInv
<1>12. file_chunks' = [file_chunks EXCEPT ![i] = w] /\ alive' = alive
  BY <1>1, <1>2, <1>4
<1> QED
  BY <1>2, <1>3, <1>5, <1>11, <1>12, Replaced

LEMMA ExitStep ==
  ASSUME ReceiverInv, NEW id, ExitInLookup(id)
  PROVE  ReceiverInv'
  BY DEF ReceiverInv, ReceiverTypeOK, TrackersTidy, OneTrackerPerId, ExitInLookup

LEMMA ReceiverStands ==
  ASSUME ReceiverInv, UNCHANGED receiverVars
  PROVE  ReceiverInv'
  BY DEF ReceiverInv, ReceiverTypeOK, TrackersTidy, OneTrackerPerId, receiverVars

LEMMA ReceiveStep ==
  ASSUME ReceiverInv, NEW packet, WellFormed(packet), Receive(packet)
  PROVE  ReceiverInv'
<1>1. CASE packet.type = "file_transfer_header" /\ HandleTransferHeader(packet.body)
  <2>1. CASE IgnoreHeader(packet.body)
    BY <2>1, ReceiverStands DEF IgnoreHeader
  <2>2. CASE ~IgnoreHeader(packet.body)
    <3>1. packet.body \in Header
      BY <1>1, <2>2 DEF HandleTransferHeader, WellFormed
    <3> QED
      BY <1>1, <2>2, <3>1, OpenWithHeaderStep, AdoptHeaderStep, ExitStep
         DEF HandleTransferHeader
  <2> QED
    BY <2>1, <2>2
<1>2. CASE packet.type = "file_transfer_chunk" /\ HandleTransferChunk(packet.body)
  <2>1. CASE IgnoreChunk(packet.body)
    BY <2>1, ReceiverStands DEF IgnoreChunk
  <2>2. CASE ~IgnoreChunk(packet.body)
    <3>1. packet.body \in Chunk
      BY <1>2, <2>2 DEF HandleTransferChunk, WellFormed
    <3> QED
      BY <1>2, <2>2, <3>1, OpenWithChunkStep, AddChunkStep, ExitStep
         DEF HandleTransferChunk
  <2> QED
    BY <2>1, <2>2
<1>3. CASE UNCHANGED receiverVars
  BY <1>3, ReceiverStands
<1> QED
  BY <1>1, <1>2, <1>3 DEF Receive

LEMMA RestartStep ==
  ASSUME ReceiverInv, ReceiverRestart
  PROVE  ReceiverInv'
<1>1. /\ file_chunks' = <<>> /\ file_chunks' \in Seq(Tracker)
      /\ DOMAIN file_chunks' = {} /\ alive' = TRUE
  BY EmptySeq DEF ReceiverRestart
<1>2. TrackersTidy' /\ OneTrackerPerId'
  BY <1>1 DEF TrackersTidy, OneTrackerPerId
<1>3. ReceiverTypeOK'
  BY <1>1 DEF ReceiverInv, ReceiverTypeOK, ReceiverRestart
<1> QED
  BY <1>2, <1>3 DEF ReceiverInv

-----------------------------------------------------------------------------
(* The invariant of the whole.                                             *)

\* How a file is cut.
LEMMA ChunksOfFile ==
  ASSUME NEW r \in Runs
  PROVE  /\ ChunkCount(r) \in Nat
         /\ ChunkSize(r) \in Nat
         /\ FileLength(r) = 0 => ChunkCount(r) = 0
         /\ FileLength(r) # 0 =>
              /\ ChunkSize(r) # 0
              /\ ChunkCount(r) # 0
              /\ FileLength(r) <= ChunkCount(r) * ChunkSize(r)
              /\ \A k \in Nat \ {0} : k <= ChunkCount(r) => (k - 1) * ChunkSize(r) < FileLength(r)
<1>1. FileLength(r) \in Nat /\ MaxChunkSize \in Nat
  BY Constants
<1>2. ChunkSize(r) \in Nat
  BY <1>1 DEF ChunkSize
<1>3. CASE FileLength(r) = 0
  BY <1>2, <1>3 DEF ChunkCount
<1>4. CASE FileLength(r) # 0
  <2>1. ChunkSize(r) \in Nat \ {0} /\ FileLength(r) \in Nat \ {0}
    BY <1>1, <1>4 DEF ChunkSize
  <2>2. ChunkCount(r) = (FileLength(r) - 1) \div ChunkSize(r) + 1
    BY <1>4 DEF ChunkCount
  <2>3. PICK n, m : n = FileLength(r) /\ m = ChunkSize(r)
    OBVIOUS
  <2>4. /\ ChunkCount(r) \in Nat \ {0}
        /\ n <= ChunkCount(r) * m
        /\ \A k \in Nat \ {0} : k <= ChunkCount(r) => (k - 1) * m < n
    BY <2>1, <2>2, <2>3, CountOfPieces, ZenonT(60)
  <2> QED
    BY <1>2, <1>4, <2>1, <2>3, <2>4
<1> QED
  BY <1>3, <1>4

LEMMA PacketIdParts ==
  ASSUME NEW p \in PacketIds
  PROVE  p[1] \in Runs /\ p[2] \in 0..ChunkCount(p[1]) /\ p = <<p[1], p[2]>>
  BY DEF PacketIds

LEMMA HeaderTyped ==
  ASSUME NEW r \in Runs, NEW id \in TransferIds
  PROVE  HeaderOf(r, id) \in Header
  BY Constants DEF HeaderOf, Header

LEMMA ChunkTyped ==
  ASSUME NEW r \in Runs, NEW id \in TransferIds, NEW k \in Nat \ {0}
  PROVE  ChunkOf(r, id, k) \in Chunk
<1>1. ChunkSize(r) \in Nat /\ FileLength(r) \in Nat /\ FileOf[r] \in File
  BY ChunksOfFile, Constants
<1>2. PICK o : o = (k - 1) * ChunkSize(r) /\ o \in Nat
  BY <1>1
<1>3. Piece(FileOf[r], FileLength(r), o, ChunkSize(r)) \subseteq File \X Nat
  <2>1. \A b \in (o + 1)..(o + PieceLength(FileLength(r), o, ChunkSize(r))) : b \in Nat
    BY <1>2
  <2> QED
    BY <1>1, <2>1 DEF Piece
<1> QED
  BY <1>2, <1>3 DEF ChunkOf, Chunk

LEMMA PacketWellFormed ==
  ASSUME SenderTypeOK, NEW p \in PacketIds
  PROVE  WellFormed(PacketOf(p))
<1> DEFINE r == p[1]
           k == p[2]
<1>1. r \in Runs /\ k \in Nat /\ transfer_id[r] \in TransferIds
  BY PacketIdParts, ChunksOfFile DEF SenderTypeOK
<1> HIDE DEF r, k
<1>2. PacketOf(p) =
        IF k = 0 THEN [type |-> "file_transfer_header", body |-> HeaderOf(r, transfer_id[r])]
        ELSE [type |-> "file_transfer_chunk", body |-> ChunkOf(r, transfer_id[r], k)]
  BY DEF PacketOf, r, k
<1>3. CASE k = 0
  <2>1. HeaderOf(r, transfer_id[r]) \in Header
    BY <1>1, HeaderTyped
  <2> QED
    BY <1>2, <1>3, <2>1 DEF WellFormed
<1>4. CASE k # 0
  <2>1. ChunkOf(r, transfer_id[r], k) \in Chunk
    BY <1>1, <1>4, ChunkTyped
  <2> QED
    BY <1>2, <1>4, <2>1 DEF WellFormed
<1> QED
  BY <1>3, <1>4

LEMMA StrayWellFormed ==
  ASSUME NEW packet \in Strays
  PROVE  WellFormed(packet)
  BY StraysAssumption DEF WellFormed

\* What a kill in a write leaves.
LEMMA KilledStep ==
  ASSUME ReceiverInv, SenderTypeOK, NEW p \in PacketIds, KilledInWrite(PacketOf(p))
  PROVE  ReceiverInv'
<1> DEFINE c == PacketOf(p).body
<1>1a. PICK i \in DOMAIN file_chunks : \E contents, cut :
        /\ cut \in CutShort(contents)
        /\ contents = FileContents(SortedInsert(file_chunks[i].chunks, c))
        /\ FoundAt(c.id, i)
        /\ Wants(file_chunks[i], c)
        /\ IsWritten(file_chunks[i].header, contents)
        /\ disk' = [disk EXCEPT ![file_chunks[i].header.filename] = cut]
        /\ file_chunks' = <<>>
        /\ alive' = TRUE
  BY DEF KilledInWrite
<1>1. PICK contents, cut :
        /\ cut \in CutShort(contents)
        /\ contents = FileContents(SortedInsert(file_chunks[i].chunks, c))
        /\ FoundAt(c.id, i)
        /\ Wants(file_chunks[i], c)
        /\ IsWritten(file_chunks[i].header, contents)
        /\ disk' = [disk EXCEPT ![file_chunks[i].header.filename] = cut]
        /\ file_chunks' = <<>>
        /\ alive' = TRUE
  BY <1>1a
<1>2. PacketOf(p).type = "file_transfer_chunk"
  BY DEF KilledInWrite
<1>3. c \in Chunk
  <2>1. p[2] # 0
    BY <1>2 DEF PacketOf
  <2>2. p[1] \in Runs /\ p[2] \in Nat \ {0} /\ transfer_id[p[1]] \in TransferIds
    BY <2>1, PacketIdParts, ChunksOfFile DEF SenderTypeOK
  <2>3. ChunkOf(p[1], transfer_id[p[1]], p[2]) \in Chunk
    BY <2>2, ChunkTyped
  <2> QED
    BY <2>1, <2>3 DEF PacketOf
<1> HIDE DEF c
<1>4. PICK t : t = file_chunks[i]
  OBVIOUS
<1>5. t \in Tracker /\ Tidy(t) /\ ~Invalid(t) /\ GetId(t) = c.id /\ Wants(t, c)
  BY <1>1, <1>4, TrackerFound DEF ReceiverInv, TrackersTidy
<1>6. PICK chunks : chunks = SortedInsert(t.chunks, c)
  OBVIOUS
<1>7. chunks \in Seq(Chunk)
  BY <1>3, <1>5, <1>6, ChunkInserted
<1>8. contents \in Contents
  BY <1>1, <1>4, <1>6, <1>7, UnbrokenRunIs
<1>9. cut \in Contents
  <2>1. PICK k \in 0..(Len(contents) - 1) : cut = SubSeq(contents, 1, k)
    BY <1>1 DEF CutShort
  <2>2. /\ Len(contents) \in Nat
        /\ \A j \in 1..Len(contents) : contents[j] \in SUBSET (File \X Nat)
    BY <1>8, ElementOfSeq, LenProperties DEF Contents
  <2>3. \A j \in 1..k : contents[j] \in SUBSET (File \X Nat)
    BY <2>1, <2>2
  <2> QED
    BY <2>1, <2>2, <2>3, <1>8, SubSeqProperties DEF Contents
<1>10. t.header.filename \in Name
  <2>1. t.header \in Header \cup {NoHeader} /\ "filename" \in t.header.has
    BY <1>1, <1>4, <1>5, TrackerFields DEF IsWritten
  <2> QED
    BY <2>1 DEF Header, NoHeader
<1>11. ReceiverTypeOK'
  BY <1>1, <1>4, <1>9, <1>10, EmptySeq DEF ReceiverInv, ReceiverTypeOK
<1>12. TrackersTidy' /\ OneTrackerPerId'
  <2>1. DOMAIN file_chunks' = {}
    BY <1>1
  <2> QED
    BY <2>1 DEF TrackersTidy, OneTrackerPerId
<1> QED
  BY <1>11, <1>12 DEF ReceiverInv

\* A run that sends.
LEMMA SenderSteps ==
  ASSUME SenderTypeOK, SendersInRange, NEW r \in Runs,
         \/ StartSend(r) \/ RefuseSend(r) \/ CallBroadcast(r)
         \/ BroadcastReturns(r) \/ BroadcastFails(r)
  PROVE  SenderTypeOK' /\ SendersInRange'
<1>1. \A q \in Runs : /\ ChunkCount(q) \in Nat
                      /\ next[q] \in Nat
                      /\ stage[q] \in {"ready", "sending", "calling", "done", "failed"}
                      /\ transfer_id[q] \in TransferIds
  BY ChunksOfFile DEF SenderTypeOK
<1>2. GetNextTransferId \in TransferIds \ {0}
  BY Constants
<1>3. CASE StartSend(r)
  <2>1. /\ SenderTypeOK'
        /\ next' = next
        /\ \A q \in Runs : q # r => stage'[q] = stage[q] /\ transfer_id'[q] = transfer_id[q]
        /\ stage'[r] = "sending" /\ transfer_id'[r] = GetNextTransferId
        /\ stage[r] = "ready"
    BY <1>1, <1>2, <1>3 DEF StartSend, MayStart, SenderTypeOK
  <2> QED
    BY <1>2, <2>1 DEF SendersInRange
<1>4. CASE RefuseSend(r) \/ CallBroadcast(r) \/ BroadcastFails(r)
  <2>1. /\ SenderTypeOK'
        /\ next' = next /\ transfer_id' = transfer_id
        /\ \A q \in Runs : q # r => stage'[q] = stage[q]
        /\ \/ stage'[r] = "failed" /\ stage[r] # "done"
           \/ stage'[r] = "calling" /\ stage[r] = "sending"
    BY <1>1, <1>4 DEF RefuseSend, CallBroadcast, BroadcastFails, MayStart, SenderTypeOK
  <2> QED
    BY <2>1 DEF SendersInRange
<1>5. CASE BroadcastReturns(r)
  <2>1. /\ SenderTypeOK'
        /\ transfer_id' = transfer_id
        /\ \A q \in Runs : q # r => stage'[q] = stage[q] /\ next'[q] = next[q]
        /\ stage[r] = "calling"
        /\ next'[r] = next[r] + 1
        /\ stage'[r] = IF next[r] = ChunkCount(r) THEN "done" ELSE "sending"
    BY <1>1, <1>5 DEF BroadcastReturns, SenderTypeOK
  <2> QED
    BY <1>1, <2>1 DEF SendersInRange
<1> QED
  BY <1>3, <1>4, <1>5

LEMMA InitIInv == Init => IInv
<1> SUFFICES ASSUME Init PROVE IInv
  OBVIOUS
<1>1. file_chunks = <<>> /\ DOMAIN file_chunks = {} /\ file_chunks \in Seq(Tracker)
  BY EmptySeq DEF Init, ReceiverInit, ReceiverStart
<1>2. ReceiverTypeOK /\ TrackersTidy /\ OneTrackerPerId
  BY <1>1 DEF Init, ReceiverInit, ReceiverStart, ReceiverTypeOK, TrackersTidy, OneTrackerPerId
<1>3. SenderTypeOK
  <2>1. 0 \in TransferIds
    BY Constants
  <2> QED
    BY <2>1 DEF Init, SenderInit, SenderTypeOK
<1>4. SendersInRange
  BY ChunksOfFile DEF Init, SenderInit, SendersInRange
<1>5. /\ sent \subseteq PacketIds
      /\ delivered \in [PacketIds -> {0, 1}]
      /\ restarts \in 0..MaxRestarts
  BY Constants DEF Init, Link!Init
<1> QED
  BY <1>2, <1>3, <1>4, <1>5 DEF IInv, TypeOK

LEMMA NextIInv == IInv /\ [Next]_vars => IInv'
<1> SUFFICES ASSUME IInv, [Next]_vars PROVE IInv'
  OBVIOUS
<1>0. /\ ReceiverInv /\ SenderTypeOK /\ SendersInRange
      /\ sent \subseteq PacketIds
      /\ delivered \in [PacketIds -> {0, 1}]
      /\ restarts \in 0..MaxRestarts
      /\ MaxRestarts \in Nat
  BY Constants DEF IInv, TypeOK, ReceiverInv
<1> SUFFICES /\ ReceiverInv' /\ SenderTypeOK' /\ SendersInRange'
             /\ sent' \subseteq PacketIds
             /\ delivered' \in [PacketIds -> {0, 1}]
             /\ restarts' \in 0..MaxRestarts
  BY DEF IInv, TypeOK, ReceiverInv
<1>1. ASSUME UNCHANGED senderVars PROVE SenderTypeOK' /\ SendersInRange'
  BY <1>0, <1>1 DEF senderVars, SenderTypeOK, SendersInRange
<1>2. ASSUME NEW r \in Runs, SenderStep(r)
      PROVE  /\ ReceiverInv' /\ SenderTypeOK' /\ SendersInRange'
             /\ sent' \subseteq PacketIds
             /\ delivered' = delivered
             /\ restarts' = restarts
  <2>1. ReceiverInv' /\ restarts' = restarts
    BY <1>0, <1>2, ReceiverStands DEF SenderStep
  <2>2. SenderTypeOK' /\ SendersInRange'
    BY <1>0, <1>2, SenderSteps DEF SenderStep
  <2>3. CASE CallBroadcast(r) /\ Link!Broadcast(<<r, next[r]>>)
    <3>1. next[r] \in 0..ChunkCount(r)
      BY <1>0, <2>3, ChunksOfFile DEF CallBroadcast, SendersInRange, SenderTypeOK
    <3>2. <<r, next[r]>> \in PacketIds
      BY <3>1 DEF PacketIds
    <3> QED
      BY <1>0, <2>1, <2>2, <2>3, <3>2 DEF Link!Broadcast
  <2>4. CASE UNCHANGED linkVars
    BY <1>0, <2>1, <2>2, <2>4 DEF linkVars
  <2> QED
    BY <1>2, <2>3, <2>4 DEF SenderStep
<1>3. ASSUME NEW p \in PacketIds, ReceivePacket(p)
      PROVE  /\ ReceiverInv' /\ UNCHANGED senderVars
             /\ sent' = sent
             /\ delivered' \in [PacketIds -> {0, 1}]
             /\ restarts' = restarts
  <2>1. ReceiverInv'
    BY <1>0, <1>3, PacketWellFormed, ReceiveStep DEF ReceivePacket
  <2> QED
    BY <1>0, <1>3, <2>1 DEF ReceivePacket, Link!Deliver
<1>4. ASSUME NEW packet \in Strays, ReceiveStray(packet)
      PROVE  ReceiverInv' /\ UNCHANGED <<senderVars, linkVars, restarts>>
  BY <1>0, <1>4, StrayWellFormed, ReceiveStep DEF ReceiveStray
<1>5. ASSUME NEW p \in PacketIds, DieReceivingPacket(p)
      PROVE  /\ ReceiverInv' /\ UNCHANGED senderVars
             /\ sent' = sent
             /\ delivered' \in [PacketIds -> {0, 1}]
             /\ restarts' \in 0..MaxRestarts
  <2>1. ReceiverInv'
    BY <1>0, <1>5, KilledStep DEF DieReceivingPacket
  <2> QED
    BY <1>0, <1>5, <2>1 DEF DieReceivingPacket, Link!Restart
<1>6. ASSUME RestartReceiver
      PROVE  /\ ReceiverInv' /\ UNCHANGED senderVars
             /\ sent' = sent
             /\ delivered' \in [PacketIds -> {0, 1}]
             /\ restarts' \in 0..MaxRestarts
  <2>1. ReceiverInv'
    BY <1>0, <1>6, RestartStep DEF RestartReceiver
  <2> QED
    BY <1>0, <1>6, <2>1 DEF RestartReceiver, Link!Restart
<1>7. CASE UNCHANGED vars
  <2>1. UNCHANGED <<receiverVars, senderVars, linkVars, restarts>>
    BY <1>7 DEF vars
  <2> QED
    BY <1>0, <1>1, <2>1, ReceiverStands DEF linkVars
<1>8. CASE Next
  <2>1. ASSUME NEW r \in Runs, SenderStep(r)
        PROVE  /\ ReceiverInv' /\ SenderTypeOK' /\ SendersInRange'
               /\ sent' \subseteq PacketIds
               /\ delivered' \in [PacketIds -> {0, 1}]
               /\ restarts' \in 0..MaxRestarts
    BY <1>0, <1>2, <2>1
  <2>2. ASSUME NEW p \in PacketIds, ReceivePacket(p) \/ DieReceivingPacket(p)
        PROVE  /\ ReceiverInv' /\ SenderTypeOK' /\ SendersInRange'
               /\ sent' \subseteq PacketIds
               /\ delivered' \in [PacketIds -> {0, 1}]
               /\ restarts' \in 0..MaxRestarts
    BY <1>0, <1>1, <1>3, <1>5, <2>2
  <2>3. ASSUME NEW packet \in Strays, ReceiveStray(packet)
        PROVE  /\ ReceiverInv' /\ SenderTypeOK' /\ SendersInRange'
               /\ sent' \subseteq PacketIds
               /\ delivered' \in [PacketIds -> {0, 1}]
               /\ restarts' \in 0..MaxRestarts
    BY <1>0, <1>1, <1>4, <2>3 DEF linkVars
  <2>4. CASE RestartReceiver
    BY <1>0, <1>1, <1>6, <2>4
  <2> QED
    BY <1>8, <2>1, <2>2, <2>3, <2>4 DEF Next
<1> QED
  BY <1>7, <1>8

LEMMA Invariance == Spec => []IInv
  BY InitIInv, NextIInv, PTL DEF Spec

\* Every variable keeps its type, whatever the other programs on the channel
\* send: what the handlers take in is a well-formed header or chunk.
THEOREM TypeCorrect == Spec => []TypeOK
<1>1. IInv => TypeOK
  BY DEF IInv
<1> QED
  BY <1>1, Invariance, PTL

\* Chunks of one file never part: no two trackers of the receiver answer to
\* one transfer id, in whatever order headers and chunks come.
THEOREM TransfersStayTogether == Spec => []OneTrackerPerId
<1>1. IInv => OneTrackerPerId
  BY DEF IInv
<1> QED
  BY <1>1, Invariance, PTL

-----------------------------------------------------------------------------
(* What the trackers hold and the disk shows was sent.                     *)

LEMMA IdsStay ==
  ASSUME IInv, [Next]_vars
  PROVE  \A r \in Runs : transfer_id[r] # 0 => transfer_id'[r] = transfer_id[r]
<1>0. SenderTypeOK /\ SendersInRange
  BY DEF IInv, TypeOK
<1>1. ASSUME NEW q \in Runs, SenderStep(q)
      PROVE  \A r \in Runs : transfer_id[r] # 0 => transfer_id'[r] = transfer_id[r]
  <2>1. CASE StartSend(q)
    BY <1>0, <2>1 DEF StartSend, MayStart, SenderTypeOK, SendersInRange
  <2>2. CASE ~StartSend(q)
    BY <1>1, <2>2 DEF SenderStep, CallBroadcast, RefuseSend, BroadcastReturns, BroadcastFails
  <2> QED
    BY <2>1, <2>2
<1>2. ASSUME NEW p \in PacketIds, ReceivePacket(p) \/ DieReceivingPacket(p)
      PROVE  transfer_id' = transfer_id
  BY <1>2 DEF ReceivePacket, DieReceivingPacket, senderVars
<1>3. ASSUME NEW packet \in Strays, ReceiveStray(packet) PROVE transfer_id' = transfer_id
  BY <1>3 DEF ReceiveStray, senderVars
<1>4. CASE RestartReceiver \/ UNCHANGED vars
  BY <1>4 DEF RestartReceiver, vars, senderVars
<1> QED
  BY <1>1, <1>2, <1>3, <1>4 DEF Next

\* What was sent under the ids of now was sent under the ids of later.
LEMMA GenuineStays ==
  ASSUME NEW ids, NEW later, \A r \in Runs : ids[r] # 0 => later[r] = ids[r]
  PROVE  /\ \A h : GenuineHeader(h, ids) => GenuineHeader(h, later)
         /\ \A c : GenuineChunk(c, ids) => GenuineChunk(c, later)
         /\ \A t : GenuineTracker(t, ids) => GenuineTracker(t, later)
<1>1. \A h : GenuineHeader(h, ids) => GenuineHeader(h, later)
  BY DEF GenuineHeader
<1>2. \A c : GenuineChunk(c, ids) => GenuineChunk(c, later)
  BY DEF GenuineChunk
<1> QED
  BY <1>1, <1>2 DEF GenuineTracker

\* A packet whose fields the handlers would keep was sent by a run.
GenuinePacket(packet, ids) ==
  /\ packet.type = "file_transfer_header" /\ HeaderFields \subseteq packet.body.has
       => GenuineHeader(packet.body, ids)
  /\ packet.type = "file_transfer_chunk" /\ ChunkFields \subseteq packet.body.has
       => GenuineChunk(packet.body, ids)

LEMMA PacketGenuine ==
  ASSUME NEW p \in PacketIds, transfer_id[p[1]] # 0
  PROVE  GenuinePacket(PacketOf(p), transfer_id)
<1> DEFINE r == p[1]
           k == p[2]
<1>1. r \in Runs /\ k \in 0..ChunkCount(r) /\ ChunkCount(r) \in Nat /\ transfer_id[r] # 0
  BY PacketIdParts, ChunksOfFile
<1> HIDE DEF r, k
<1>2. PacketOf(p) =
        IF k = 0 THEN [type |-> "file_transfer_header", body |-> HeaderOf(r, transfer_id[r])]
        ELSE [type |-> "file_transfer_chunk", body |-> ChunkOf(r, transfer_id[r], k)]
  BY DEF PacketOf, r, k
<1>3. CASE k = 0
  <2>1. GenuineHeader(HeaderOf(r, transfer_id[r]), transfer_id)
    BY <1>1 DEF GenuineHeader
  <2> QED
    BY <1>2, <1>3, <2>1 DEF GenuinePacket
<1>4. CASE k # 0
  <2>1. GenuineChunk(ChunkOf(r, transfer_id[r], k), transfer_id)
    BY <1>1, <1>4 DEF GenuineChunk
  <2> QED
    BY <1>2, <1>4, <2>1 DEF GenuinePacket
<1> QED
  BY <1>3, <1>4

\* The tracker with a chunk that was sent.
LEMMA ExtendedGenuine ==
  ASSUME NEW ids, NEW t \in Tracker, Tidy(t), ~Invalid(t), GenuineTracker(t, ids),
         NEW c \in Chunk, GenuineChunk(c, ids), GetId(t) = c.id, Wants(t, c),
         NEW chunks, chunks = SortedInsert(t.chunks, c)
  PROVE  /\ \A j \in DOMAIN chunks : GenuineChunk(chunks[j], ids)
         /\ GenuineTracker(WithChunks(t, chunks), ids)
<1>0. Adds(chunks, t.chunks, c)
  BY ChunkInserted
<1>1. \A i \in DOMAIN chunks :
        chunks[i] = c \/ \E j \in DOMAIN t.chunks : chunks[i] = t.chunks[j]
  BY <1>0 DEF Adds
<1>2. \A j \in DOMAIN t.chunks : GenuineChunk(t.chunks[j], ids)
  BY DEF GenuineTracker
<1>3. \A j \in DOMAIN chunks : GenuineChunk(chunks[j], ids)
  BY <1>1, <1>2
<1>4. PICK w : w = WithChunks(t, chunks)
  OBVIOUS
<1>5. w.header = t.header /\ w.chunks = IF w.is_complete THEN <<>> ELSE chunks
  BY <1>4, TrackerExtended
<1>6. \A j \in DOMAIN w.chunks : GenuineChunk(w.chunks[j], ids)
  BY <1>3, <1>5
<1>7. GenuineTracker(w, ids)
  BY <1>5, <1>6 DEF GenuineTracker
<1> QED
  BY <1>3, <1>4, <1>7

LEMMA ReceiveGenuine ==
  ASSUME ReceiverInv, TrackersGenuine, NEW packet, WellFormed(packet),
         GenuinePacket(packet, transfer_id), Receive(packet), transfer_id' = transfer_id
  PROVE  TrackersGenuine'
<1> DEFINE n == Len(file_chunks)
           genuine(t) == GenuineTracker(t, transfer_id)
<1>0. /\ n \in Nat /\ DOMAIN file_chunks = 1..n /\ file_chunks \in Seq(Tracker)
      /\ \A i \in 1..n : genuine(file_chunks[i])
      /\ \A i \in 1..n : file_chunks[i] \in Tracker /\ Tidy(file_chunks[i])
  BY TrackersAreSequence DEF ReceiverInv, ReceiverTypeOK, TrackersTidy, TrackersGenuine
<1> SUFFICES \A i \in DOMAIN file_chunks' : genuine(file_chunks'[i])
  BY DEF TrackersGenuine
<1>1. ASSUME NEW t, genuine(t), file_chunks' = Append(file_chunks, t)
      PROVE  \A i \in DOMAIN file_chunks' : genuine(file_chunks'[i])
  <2> HIDE DEF genuine
  <2>1. /\ DOMAIN Append(file_chunks, t) = 1..(n + 1)
        /\ \A i \in 1..(n + 1) :
             Append(file_chunks, t)[i] = IF i = n + 1 THEN t ELSE file_chunks[i]
    BY <1>0
  <2> QED
    BY <1>0, <1>1, <2>1
<1>2. ASSUME NEW i \in DOMAIN file_chunks, NEW t, genuine(t),
             file_chunks' = [file_chunks EXCEPT ![i] = t]
      PROVE  \A j \in DOMAIN file_chunks' : genuine(file_chunks'[j])
  <2> HIDE DEF genuine
  <2> QED
    BY <1>0, <1>2
<1>3. ASSUME file_chunks' = file_chunks
      PROVE  \A i \in DOMAIN file_chunks' : genuine(file_chunks'[i])
  BY <1>0, <1>3
<1>4. CASE packet.type = "file_transfer_header" /\ ~IgnoreHeader(packet.body)
  <2> DEFINE h == packet.body
  <2>1. /\ OpenWithHeader(h) \/ AdoptHeader(h) \/ ExitInLookup(h.id)
        /\ h \in Header /\ GenuineHeader(h, transfer_id)
    BY <1>4 DEF Receive, HandleTransferHeader, WellFormed, GenuinePacket
  <2> HIDE DEF h
  <2>2. CASE OpenWithHeader(h)
    <3> DEFINE t == [header |-> h, chunks |-> <<>>, is_complete |-> FALSE]
    <3>1. genuine(t)
      BY <2>1 DEF GenuineTracker
    <3>2. file_chunks' = Append(file_chunks, t)
      BY <2>2 DEF OpenWithHeader
    <3> HIDE DEF t, genuine
    <3> QED
      BY <1>1, <3>1, <3>2
  <2>3. CASE AdoptHeader(h)
    <3>1. PICK i \in DOMAIN file_chunks :
            FoundAt(h.id, i) /\ file_chunks' = [file_chunks EXCEPT ![i].header = h]
      BY <2>3 DEF AdoptHeader
    <3>2. PICK t : t = [file_chunks[i] EXCEPT !.header = h]
      OBVIOUS
    <3>3. /\ file_chunks[i] \in Tracker /\ Tidy(file_chunks[i]) /\ genuine(file_chunks[i])
          /\ ~Invalid(file_chunks[i]) /\ GetId(file_chunks[i]) = h.id
      BY <1>0, <3>1, TrackerFound DEF ReceiverInv
    <3>4. t.header = h /\ t.chunks = file_chunks[i].chunks
      BY <2>1, <3>2, <3>3, TrackerWithHeader
    <3>5. genuine(t)
      BY <2>1, <3>3, <3>4 DEF GenuineTracker
    <3>6. file_chunks' = [file_chunks EXCEPT ![i] = t]
      BY <3>1, <3>2
    <3> HIDE DEF genuine
    <3> QED
      BY <1>2, <3>5, <3>6
  <2>4. CASE ExitInLookup(h.id)
    BY <1>3, <2>4 DEF ExitInLookup
  <2> QED
    BY <2>1, <2>2, <2>3, <2>4
<1>5. CASE packet.type = "file_transfer_chunk" /\ ~IgnoreChunk(packet.body)
  <2> DEFINE c == packet.body
  <2>1. /\ OpenWithChunk(c) \/ AddChunk(c) \/ ExitInLookup(c.id)
        /\ c \in Chunk /\ GenuineChunk(c, transfer_id)
    BY <1>5 DEF Receive, HandleTransferChunk, WellFormed, GenuinePacket
  <2> HIDE DEF c
  <2>2. CASE OpenWithChunk(c)
    <3> DEFINE t == [header |-> NoHeader, chunks |-> <<c>>, is_complete |-> FALSE]
    <3>1. genuine(t)
      BY <2>1 DEF GenuineTracker
    <3>2. file_chunks' = Append(file_chunks, t)
      BY <2>2 DEF OpenWithChunk
    <3> HIDE DEF t, genuine
    <3> QED
      BY <1>1, <3>1, <3>2
  <2>3. CASE AddChunk(c)
    <3>1a. PICK i \in DOMAIN file_chunks : \E chunks :
            /\ chunks = SortedInsert(file_chunks[i].chunks, c)
            /\ FoundAt(c.id, i)
            /\ Wants(file_chunks[i], c)
            /\ file_chunks' = [file_chunks EXCEPT ![i] = WithChunks(file_chunks[i], chunks)]
      BY <2>3 DEF AddChunk
    <3>1. PICK chunks :
            /\ chunks = SortedInsert(file_chunks[i].chunks, c)
            /\ FoundAt(c.id, i)
            /\ Wants(file_chunks[i], c)
            /\ file_chunks' = [file_chunks EXCEPT ![i] = WithChunks(file_chunks[i], chunks)]
      BY <3>1a
    <3>2. PICK t, old : t = WithChunks(old, chunks) /\ old = file_chunks[i]
      OBVIOUS
    <3>3. /\ old \in Tracker /\ Tidy(old) /\ genuine(old)
          /\ ~Invalid(old) /\ GetId(old) = c.id
      BY <1>0, <3>1, <3>2, TrackerFound DEF ReceiverInv
    <3>4. genuine(t)
      BY <2>1, <3>1, <3>2, <3>3, ExtendedGenuine
    <3>5. file_chunks' = [file_chunks EXCEPT ![i] = t]
      BY <3>1, <3>2
    <3> HIDE DEF genuine
    <3> QED
      BY <1>2, <3>4, <3>5
  <2>4. CASE ExitInLookup(c.id)
    BY <1>3, <2>4 DEF ExitInLookup
  <2> QED
    BY <2>1, <2>2, <2>3, <2>4
<1>6. CASE \/ packet.type = "none"
           \/ packet.type = "file_transfer_header" /\ IgnoreHeader(packet.body)
           \/ packet.type = "file_transfer_chunk" /\ IgnoreChunk(packet.body)
  <2>1. CASE file_chunks' = file_chunks
    BY <1>3, <2>1
  <2>2. file_chunks' = file_chunks
    BY <1>6 DEF Receive, IgnoreHeader, IgnoreChunk, receiverVars
  <2> QED
    BY <2>1, <2>2
<1> QED
  BY <1>4, <1>5, <1>6 DEF Receive

-----------------------------------------------------------------------------
(* What is written is the beginning of a file.                             *)

LEMMA SameFile ==
  ASSUME NEW r \in Runs, NEW q \in Runs, FileOf[q] = FileOf[r]
  PROVE  /\ FileLength(q) = FileLength(r)
         /\ ChunkSize(q) = ChunkSize(r)
         /\ ChunkCount(q) = ChunkCount(r)
<1>1. FileLength(q) = FileLength(r)
  BY DEF FileLength
<1>2. ChunkSize(q) = ChunkSize(r)
  BY <1>1 DEF ChunkSize
<1> QED
  BY <1>1, <1>2 DEF ChunkCount

\* One transfer id stands for one file.
OneFileEach(ids) ==
  \A r, q \in Runs : ids[r] = ids[q] /\ ids[r] # 0 => FileOf[r] = FileOf[q]

\* A chunk of the transfer of a run, from whichever run it came.
LEMMA ChunkOfTransfer ==
  ASSUME NEW ids, OneFileEach(ids), NEW r \in Runs, ids[r] # 0,
         NEW c, GenuineChunk(c, ids), c.id = ids[r]
  PROVE  c.chunk_id \in 1..ChunkCount(r) /\ c = ChunkOf(r, ids[r], c.chunk_id)
<1>1a. PICK q \in Runs : \E k :
        k \in 1..ChunkCount(q) /\ ids[q] # 0 /\ c = ChunkOf(q, ids[q], k)
  BY DEF GenuineChunk
<1>1. PICK k :
        k \in 1..ChunkCount(q) /\ ids[q] # 0 /\ c = ChunkOf(q, ids[q], k)
  BY <1>1a
<1>2. c.id = ids[q] /\ c.chunk_id = k
  BY <1>1 DEF ChunkOf
<1>3. FileOf[q] = FileOf[r]
  BY <1>1, <1>2 DEF OneFileEach
<1>4. /\ FileLength(q) = FileLength(r)
      /\ ChunkSize(q) = ChunkSize(r)
      /\ ChunkCount(q) = ChunkCount(r)
  BY <1>3, SameFile
<1>5. ChunkOf(q, ids[q], k) = ChunkOf(r, ids[r], k)
  BY <1>2, <1>3, <1>4 DEF ChunkOf
<1> QED
  BY <1>1, <1>2, <1>4, <1>5

LEMMA ContentsAreBeginning ==
  ASSUME NEW ids, OneFileEach(ids), NEW r \in Runs, ids[r] # 0,
         NEW chunks \in Seq(Chunk), OfTransfer(chunks, ids[r]),
         \A j \in DOMAIN chunks : GenuineChunk(chunks[j], ids),
         NEW u, u = UnbrokenRun(chunks)
  PROVE  u \in 0..ChunkCount(r) /\ FileContents(chunks) = Beginning(r, u)
<1>0. Len(chunks) \in Nat /\ DOMAIN chunks = 1..Len(chunks) /\ ChunkCount(r) \in Nat
  BY LenProperties, ChunksOfFile
<1>1. /\ u \in 0..Len(chunks)
      /\ \A i \in 1..u : chunks[i].chunk_id = i
      /\ FileContents(chunks) = [i \in 1..u |-> chunks[i].chunk]
  BY UnbrokenRunIs
<1>2. ASSUME NEW i \in 1..u
      PROVE  /\ i <= ChunkCount(r)
             /\ chunks[i].chunk =
                  Piece(FileOf[r], FileLength(r), (i - 1) * ChunkSize(r), ChunkSize(r))
  <2>1. i \in DOMAIN chunks
    BY <1>0, <1>1
  <2>2. PICK c : c = chunks[i]
    OBVIOUS
  <2>3. GenuineChunk(c, ids) /\ c.id = ids[r] /\ c.chunk_id = i
    BY <1>1, <2>1, <2>2 DEF OfTransfer
  <2>4. i \in 1..ChunkCount(r) /\ c = ChunkOf(r, ids[r], i)
    BY <2>3, ChunkOfTransfer
  <2>5. c.chunk = Piece(FileOf[r], FileLength(r), (i - 1) * ChunkSize(r), ChunkSize(r))
    BY <2>4 DEF ChunkOf
  <2> QED
    BY <2>2, <2>4, <2>5
<1>3. u \in 0..ChunkCount(r)
  <2>1. CASE u = 0
    BY <1>0, <2>1
  <2>2. CASE u # 0
    <3>1. u \in 1..u
      BY <1>0, <1>1, <2>2
    <3> QED
      BY <1>0, <1>1, <1>2, <3>1
  <2> QED
    BY <2>1, <2>2
<1>4. FileContents(chunks) = Beginning(r, u)
  BY <1>1, <1>2 DEF Beginning, FirstPieces
<1> QED
  BY <1>3, <1>4

\* What a tracker writes when a chunk comes in.
LEMMA WrittenIsBeginning ==
  ASSUME NEW ids, OneFileEach(ids),
         NEW t \in Tracker, Tidy(t), ~Invalid(t), GenuineTracker(t, ids),
         NEW c \in Chunk, GenuineChunk(c, ids), GetId(t) = c.id, Wants(t, c),
         NEW chunks, chunks = SortedInsert(t.chunks, c),
         NEW u, u = UnbrokenRun(chunks),
         t.header # NoHeader
  PROVE  \E r \in Runs :
           /\ ids[r] # 0
           /\ t.header = HeaderOf(r, ids[r])
           /\ t.header.filename = NameOf[FileOf[r]]
           /\ u \in 0..ChunkCount(r)
           /\ FileContents(chunks) = Beginning(r, u)
<1>1. PICK r \in Runs : ids[r] # 0 /\ t.header = HeaderOf(r, ids[r])
  BY DEF GenuineTracker, GenuineHeader
<1>2. t.header.id = ids[r] /\ t.header.filename = NameOf[FileOf[r]]
  BY <1>1 DEF HeaderOf
<1>3. "id" \in t.header.has
  BY <1>1 DEF HeaderOf, HeaderFields
<1>4. c.id = ids[r]
  BY <1>2, <1>3 DEF GetId
<1>5. chunks \in Seq(Chunk) /\ OfTransfer(chunks, c.id)
  BY ChunkInserted
<1>6. \A j \in DOMAIN chunks : GenuineChunk(chunks[j], ids)
  BY ExtendedGenuine
<1>7. u \in 0..ChunkCount(r) /\ FileContents(chunks) = Beginning(r, u)
  BY <1>1, <1>4, <1>5, <1>6, ContentsAreBeginning
<1> QED
  BY <1>1, <1>2, <1>7

\* Cut short, a beginning is a shorter beginning.
LEMMA CutBeginning ==
  ASSUME NEW r \in Runs, NEW u \in Nat, NEW cut \in CutShort(Beginning(r, u))
  PROVE  \E k \in 0..u : k < u /\ cut = Beginning(r, k)
<1>1. Len(Beginning(r, u)) = u
  BY DEF Beginning, FirstPieces
<1>2. PICK k \in 0..(u - 1) : cut = SubSeq(Beginning(r, u), 1, k)
  BY <1>1 DEF CutShort
<1>3. SubSeq(Beginning(r, u), 1, k) = [i \in 1..k |-> Beginning(r, u)[i]]
  BY <1>1, <1>2
<1>4. [i \in 1..k |-> Beginning(r, u)[i]] = Beginning(r, k)
  BY <1>2 DEF Beginning, FirstPieces
<1>5. k \in 0..u /\ k < u /\ cut = Beginning(r, k)
  BY <1>2, <1>3, <1>4
<1> QED
  BY <1>5

\* A file of which something else is known than before.
LEMMA FileRewritten ==
  ASSUME ReceiverTypeOK, DiskIsBeginning, NEW r \in Runs, NEW k \in 0..ChunkCount(r),
         disk' = [disk EXCEPT ![NameOf[FileOf[r]]] = Beginning(r, k)]
  PROVE  DiskIsBeginning'
<1>1. NameOf[FileOf[r]] \in Name /\ DOMAIN disk = Name
  BY Constants DEF ReceiverTypeOK
<1>2. \A n \in Name : disk'[n] = IF n = NameOf[FileOf[r]] THEN Beginning(r, k) ELSE disk[n]
  BY <1>1
<1> QED
  BY <1>2 DEF DiskIsBeginning

LEMMA AddChunkToDisk ==
  ASSUME ReceiverInv, TrackersGenuine, NoIdShared, DiskIsBeginning,
         NEW c \in Chunk, GenuineChunk(c, transfer_id), AddChunk(c)
  PROVE  DiskIsBeginning'
<1>1a. PICK i \in DOMAIN file_chunks : \E chunks :
        /\ chunks = SortedInsert(file_chunks[i].chunks, c)
        /\ FoundAt(c.id, i)
        /\ Wants(file_chunks[i], c)
        /\ Write(file_chunks[i].header, FileContents(chunks))
  BY DEF AddChunk
<1>1. PICK chunks :
        /\ chunks = SortedInsert(file_chunks[i].chunks, c)
        /\ FoundAt(c.id, i)
        /\ Wants(file_chunks[i], c)
        /\ Write(file_chunks[i].header, FileContents(chunks))
  BY <1>1a
<1>2. PICK t : t = file_chunks[i]
  OBVIOUS
<1>3. /\ t \in Tracker /\ Tidy(t) /\ ~Invalid(t) /\ GetId(t) = c.id /\ Wants(t, c)
      /\ GenuineTracker(t, transfer_id)
  BY <1>1, <1>2, TrackerFound DEF ReceiverInv, TrackersTidy, TrackersGenuine
<1>4. CASE ~IsWritten(t.header, FileContents(chunks))
  <2>1. disk' = disk
    BY <1>1, <1>2, <1>4 DEF Write
  <2> QED
    BY <2>1 DEF DiskIsBeginning
<1>5. CASE IsWritten(t.header, FileContents(chunks))
  <2>1. t.header # NoHeader
    BY <1>5 DEF IsWritten, NoHeader
  <2>2. OneFileEach(transfer_id)
    BY DEF NoIdShared, OneFileEach
  <2>3. PICK u : u = UnbrokenRun(chunks)
    OBVIOUS
  <2>4. chunks = SortedInsert(t.chunks, c)
    BY <1>1, <1>2
  <2>5. PICK r \in Runs :
          /\ t.header.filename = NameOf[FileOf[r]]
          /\ u \in 0..ChunkCount(r)
          /\ FileContents(chunks) = Beginning(r, u)
    BY <1>3, <2>1, <2>2, <2>3, <2>4, WrittenIsBeginning
  <2>6. PICK result \in WriteOutcomes(disk[t.header.filename], FileContents(chunks)) :
          disk' = [disk EXCEPT ![t.header.filename] = result]
    BY <1>1, <1>2, <1>5 DEF Write
  <2>7. CASE result = disk[t.header.filename]
    <3>1. \A n \in Name : disk'[n] = disk[n]
      BY <2>6, <2>7 DEF ReceiverInv, ReceiverTypeOK
    <3> QED
      BY <3>1 DEF DiskIsBeginning
  <2>8. CASE \E k \in 0..ChunkCount(r) : result = Beginning(r, k)
    BY <2>5, <2>6, <2>8, FileRewritten DEF ReceiverInv
  <2>9. CASE result \in CutShort(Beginning(r, u))
    <3>1. u \in Nat /\ ChunkCount(r) \in Nat
      BY <2>5, ChunksOfFile
    <3>2. PICK k \in 0..u : result = Beginning(r, k)
      BY <2>9, <3>1, CutBeginning
    <3>3. k \in 0..ChunkCount(r)
      BY <2>5, <3>1
    <3> QED
      BY <2>8, <3>2, <3>3
  <2> QED
    BY <2>5, <2>6, <2>7, <2>8, <2>9 DEF WriteOutcomes
<1> QED
  BY <1>4, <1>5

LEMMA KillInDisk ==
  ASSUME ReceiverInv, TrackersGenuine, NoIdShared, DiskIsBeginning, NEW packet,
         packet.type = "file_transfer_chunk" => packet.body \in Chunk,
         packet.type = "file_transfer_chunk" => GenuineChunk(packet.body, transfer_id),
         KilledInWrite(packet)
  PROVE  DiskIsBeginning'
<1> DEFINE c == packet.body
<1>0. c \in Chunk /\ GenuineChunk(c, transfer_id)
  BY DEF KilledInWrite
<1>1a. PICK i \in DOMAIN file_chunks : \E chunks, cut :
        /\ chunks = SortedInsert(file_chunks[i].chunks, c)
        /\ cut \in CutShort(FileContents(chunks))
        /\ FoundAt(c.id, i)
        /\ Wants(file_chunks[i], c)
        /\ IsWritten(file_chunks[i].header, FileContents(chunks))
        /\ disk' = [disk EXCEPT ![file_chunks[i].header.filename] = cut]
  BY DEF KilledInWrite
<1>1. PICK chunks, cut :
        /\ chunks = SortedInsert(file_chunks[i].chunks, c)
        /\ cut \in CutShort(FileContents(chunks))
        /\ FoundAt(c.id, i)
        /\ Wants(file_chunks[i], c)
        /\ IsWritten(file_chunks[i].header, FileContents(chunks))
        /\ disk' = [disk EXCEPT ![file_chunks[i].header.filename] = cut]
  BY <1>1a
<1> HIDE DEF c
<1>2. PICK t : t = file_chunks[i]
  OBVIOUS
<1>3. /\ t \in Tracker /\ Tidy(t) /\ ~Invalid(t) /\ GetId(t) = c.id /\ Wants(t, c)
      /\ GenuineTracker(t, transfer_id)
  BY <1>1, <1>2, TrackerFound DEF ReceiverInv, TrackersTidy, TrackersGenuine
<1>4. t.header # NoHeader
  BY <1>1, <1>2 DEF IsWritten, NoHeader
<1>5. OneFileEach(transfer_id)
  BY DEF NoIdShared, OneFileEach
<1>6. PICK u : u = UnbrokenRun(chunks)
  OBVIOUS
<1>7. chunks = SortedInsert(t.chunks, c)
  BY <1>1, <1>2
<1>8. PICK r \in Runs :
        /\ t.header.filename = NameOf[FileOf[r]]
        /\ u \in 0..ChunkCount(r)
        /\ FileContents(chunks) = Beginning(r, u)
  BY <1>0, <1>3, <1>4, <1>5, <1>6, <1>7, WrittenIsBeginning
<1>9. u \in Nat /\ ChunkCount(r) \in Nat
  BY <1>8, ChunksOfFile
<1>10. PICK k \in 0..u : cut = Beginning(r, k)
  BY <1>1, <1>8, <1>9, CutBeginning
<1>11. k \in 0..ChunkCount(r)
  BY <1>8, <1>9
<1> QED
  BY <1>1, <1>2, <1>8, <1>10, <1>11, FileRewritten DEF ReceiverInv

-----------------------------------------------------------------------------
(* The invariant of what was sent, and the files on the disk.              *)

GenuineInv == SentIsNamed /\ TrackersGenuine

\* Packets of other programs that lack a field are not kept.
LEMMA StrayIgnored ==
  ASSUME StraysAreIncomplete, NEW packet \in Strays
  PROVE  WellFormed(packet) /\ \A ids : GenuinePacket(packet, ids)
  BY DEF StraysAreIncomplete, WellFormed, GenuinePacket

LEMMA InitGenuine == Init => GenuineInv /\ DiskIsBeginning
<1> SUFFICES ASSUME Init PROVE GenuineInv /\ DiskIsBeginning
  OBVIOUS
<1>1. DOMAIN file_chunks = {} /\ sent = {}
  BY DEF Init, ReceiverInit, ReceiverStart, Link!Init
<1>2. \A n \in Name : disk[n] = Absent
  BY DEF Init, ReceiverInit
<1> QED
  BY <1>1, <1>2 DEF GenuineInv, SentIsNamed, TrackersGenuine, DiskIsBeginning

LEMMA NextGenuine ==
  ASSUME StraysAreIncomplete, IInv, GenuineInv, [Next]_vars
  PROVE  GenuineInv'
<1>0. /\ ReceiverInv /\ SenderTypeOK /\ SendersInRange
      /\ sent \subseteq PacketIds
      /\ \A r \in Runs : transfer_id[r] # 0 => transfer_id'[r] = transfer_id[r]
      /\ \A p \in sent : p[1] \in Runs /\ transfer_id[p[1]] # 0
      /\ TrackersGenuine
  BY IdsStay, PacketIdParts DEF IInv, TypeOK, ReceiverInv, GenuineInv, SentIsNamed
<1>1. ASSUME file_chunks' = file_chunks PROVE TrackersGenuine'
  <2>1. \A t : GenuineTracker(t, transfer_id) => GenuineTracker(t, transfer_id')
    BY <1>0, GenuineStays
  <2> QED
    BY <1>0, <1>1, <2>1 DEF TrackersGenuine
<1>2. ASSUME sent' = sent PROVE SentIsNamed'
  BY <1>0, <1>2 DEF SentIsNamed
<1>3. ASSUME file_chunks' = <<>> PROVE TrackersGenuine'
  <2>1. DOMAIN file_chunks' = {}
    BY <1>3
  <2> QED
    BY <2>1 DEF TrackersGenuine
<1>4. ASSUME NEW r \in Runs, SenderStep(r) PROVE GenuineInv'
  <2>1. TrackersGenuine'
    BY <1>1, <1>4 DEF SenderStep, receiverVars
  <2>2. CASE CallBroadcast(r) /\ Link!Broadcast(<<r, next[r]>>)
    <3>1. transfer_id[r] # 0
      BY <1>0, <2>2 DEF CallBroadcast, SendersInRange
    <3>2. sent' = sent \cup {<<r, next[r]>>}
      BY <2>2 DEF Link!Broadcast
    <3>3. \A p \in sent' : p[1] \in Runs /\ transfer_id[p[1]] # 0
      BY <1>0, <3>1, <3>2
    <3> QED
      BY <1>0, <2>1, <3>3 DEF GenuineInv, SentIsNamed
  <2>3. CASE UNCHANGED linkVars
    BY <1>2, <2>1, <2>3 DEF GenuineInv, linkVars
  <2> QED
    BY <1>4, <2>2, <2>3 DEF SenderStep
<1>5. ASSUME NEW p \in PacketIds, ReceivePacket(p) PROVE GenuineInv'
  <2>1. p \in sent /\ sent' = sent /\ transfer_id' = transfer_id /\ Receive(PacketOf(p))
    BY <1>5 DEF ReceivePacket, Link!Deliver, senderVars
  <2>2. WellFormed(PacketOf(p)) /\ GenuinePacket(PacketOf(p), transfer_id)
    BY <1>0, <2>1, PacketWellFormed, PacketGenuine
  <2>3. TrackersGenuine'
    BY <1>0, <2>1, <2>2, ReceiveGenuine
  <2> QED
    BY <1>2, <2>1, <2>3 DEF GenuineInv
<1>6. ASSUME NEW packet \in Strays, ReceiveStray(packet) PROVE GenuineInv'
  <2>1. sent' = sent /\ transfer_id' = transfer_id /\ Receive(packet)
    BY <1>6 DEF ReceiveStray, senderVars, linkVars
  <2>2. WellFormed(packet) /\ GenuinePacket(packet, transfer_id)
    BY StrayIgnored
  <2>3. TrackersGenuine'
    BY <1>0, <2>1, <2>2, ReceiveGenuine
  <2> QED
    BY <1>2, <2>1, <2>3 DEF GenuineInv
<1>7. ASSUME NEW p \in PacketIds, DieReceivingPacket(p) PROVE GenuineInv'
  BY <1>2, <1>3, <1>7 DEF DieReceivingPacket, KilledInWrite, Link!Restart, GenuineInv
<1>8. CASE RestartReceiver
  BY <1>2, <1>3, <1>8 DEF RestartReceiver, ReceiverRestart, Link!Restart, GenuineInv
<1>9. CASE UNCHANGED vars
  BY <1>1, <1>2, <1>9 DEF vars, receiverVars, linkVars, GenuineInv
<1> QED
  BY <1>4, <1>5, <1>6, <1>7, <1>8, <1>9 DEF Next

LEMMA ReceiveDisk ==
  ASSUME ReceiverInv, TrackersGenuine, NoIdShared, DiskIsBeginning,
         NEW packet, WellFormed(packet), GenuinePacket(packet, transfer_id),
         Receive(packet)
  PROVE  DiskIsBeginning'
<1>1. ASSUME disk' = disk PROVE DiskIsBeginning'
  BY <1>1 DEF DiskIsBeginning
<1>2. CASE packet.type = "file_transfer_chunk" /\ ~IgnoreChunk(packet.body)
  <2> DEFINE c == packet.body
  <2>1. /\ OpenWithChunk(c) \/ AddChunk(c) \/ ExitInLookup(c.id)
        /\ c \in Chunk /\ GenuineChunk(c, transfer_id)
    BY <1>2 DEF Receive, HandleTransferChunk, WellFormed, GenuinePacket
  <2> HIDE DEF c
  <2> QED
    BY <1>1, <2>1, AddChunkToDisk DEF OpenWithChunk, ExitInLookup
<1>3. CASE ~(packet.type = "file_transfer_chunk" /\ ~IgnoreChunk(packet.body))
  <2>1. disk' = disk
    BY <1>3 DEF Receive, IgnoreChunk, HandleTransferHeader, IgnoreHeader, OpenWithHeader,
                AdoptHeader, ExitInLookup, receiverVars
  <2> QED
    BY <1>1, <2>1
<1> QED
  BY <1>2, <1>3

LEMMA NextDisk ==
  ASSUME StraysAreIncomplete, IInv, GenuineInv, NoIdShared, DiskIsBeginning, [Next]_vars
  PROVE  DiskIsBeginning'
<1>0. ReceiverInv /\ SenderTypeOK /\ TrackersGenuine /\ SentIsNamed
  BY DEF IInv, TypeOK, ReceiverInv, GenuineInv
<1>1. ASSUME disk' = disk PROVE DiskIsBeginning'
  BY <1>1 DEF DiskIsBeginning
<1>2. ASSUME NEW r \in Runs, SenderStep(r) PROVE DiskIsBeginning'
  BY <1>1, <1>2 DEF SenderStep, receiverVars
<1>3. ASSUME NEW p \in PacketIds, ReceivePacket(p) PROVE DiskIsBeginning'
  <2>1. p \in sent /\ Receive(PacketOf(p))
    BY <1>3 DEF ReceivePacket, Link!Deliver
  <2>2. WellFormed(PacketOf(p)) /\ GenuinePacket(PacketOf(p), transfer_id)
    BY <1>0, <2>1, PacketWellFormed, PacketGenuine DEF SentIsNamed
  <2> QED
    BY <1>0, <2>1, <2>2, ReceiveDisk
<1>4. ASSUME NEW packet \in Strays, ReceiveStray(packet) PROVE DiskIsBeginning'
  <2>1. WellFormed(packet) /\ GenuinePacket(packet, transfer_id)
    BY StrayIgnored
  <2> QED
    BY <1>0, <1>4, <2>1, ReceiveDisk DEF ReceiveStray
<1>5. ASSUME NEW p \in PacketIds, DieReceivingPacket(p) PROVE DiskIsBeginning'
  <2> DEFINE packet == PacketOf(p)
  <2>1. p \in sent /\ KilledInWrite(packet)
    BY <1>5 DEF DieReceivingPacket
  <2>2. WellFormed(packet) /\ GenuinePacket(packet, transfer_id)
    BY <1>0, <2>1, PacketWellFormed, PacketGenuine DEF SentIsNamed
  <2>3. packet.type = "file_transfer_chunk" => ChunkFields \subseteq packet.body.has
    BY DEF PacketOf, HeaderOf, ChunkOf
  <2> HIDE DEF packet
  <2>4. packet.type = "file_transfer_chunk" =>
          packet.body \in Chunk /\ GenuineChunk(packet.body, transfer_id)
    BY <2>2, <2>3 DEF WellFormed, GenuinePacket
  <2> QED
    BY <1>0, <2>1, <2>4, KillInDisk
<1>6. CASE RestartReceiver
  BY <1>1, <1>6 DEF RestartReceiver, ReceiverRestart
<1>7. CASE UNCHANGED vars
  BY <1>1, <1>7 DEF vars, receiverVars
<1> QED
  BY <1>2, <1>3, <1>4, <1>5, <1>6, <1>7 DEF Next

\* A beginning is a string: no hole, no byte twice, none out of order.
LEMMA BeginningIsString ==
  ASSUME NEW r \in Runs, NEW k \in 0..ChunkCount(r)
  PROVE  /\ BytesIn(r, k) \in 0..FileLength(r)
         /\ ConcatIs(Beginning(r, k), FileOf[r], BytesIn(r, k))
         /\ ConcatLength(Beginning(r, k)) = BytesIn(r, k)
<1>0. /\ FileLength(r) \in Nat /\ ChunkSize(r) \in Nat /\ ChunkCount(r) \in Nat
      /\ k \in Nat
  BY ChunksOfFile, Constants
<1>1. DOMAIN Beginning(r, k) = 1..k
  BY DEF Beginning, FirstPieces
<1>2. CASE FileLength(r) = 0
  <2>1. k = 0
    BY <1>0, <1>2, ChunksOfFile
  <2>2. BytesIn(r, k) = 0
    BY <1>0, <1>2, <2>1 DEF BytesIn, EndOfPieces
  <2>3. BytesOf(FileOf[r], 0) = {}
    BY DEF BytesOf
  <2>4. ConcatIs(Beginning(r, k), FileOf[r], 0)
    BY <1>1, <2>1, <2>3 DEF ConcatIs
  <2>5. ConcatLength(Beginning(r, k)) = 0
    BY <1>0, <1>1, <2>4, ConcatIsLength
  <2> QED
    BY <1>0, <2>2, <2>4, <2>5
<1>3. CASE FileLength(r) # 0
  <2>1. FileLength(r) \in Nat /\ ChunkSize(r) \in Nat \ {0}
    BY <1>0, <1>3, ChunksOfFile
  <2>2. PiecesFit(FileLength(r), ChunkSize(r), k)
    BY <1>0, <1>3, ChunksOfFile DEF PiecesFit
  <2> QED
    BY <1>0, <2>1, <2>2, BeginningOfPieces DEF Beginning, BytesIn
<1> QED
  BY <1>2, <1>3

\* Whatever arrives in whatever order, whether writes fail, fall short or end
\* with the process: a file on the disk is the beginning of a file sent under
\* its name, as long as no two files are sent under one transfer id.
THEOREM DiskHoldsBeginnings ==
  ASSUME StraysAreIncomplete
  PROVE  Spec /\ []NoIdShared => []DiskIsPrefix
<1>1. DiskIsBeginning => DiskIsPrefix
  <2> SUFFICES ASSUME DiskIsBeginning, NEW n \in Name, disk[n] # Absent
               PROVE  \E r \in Runs : /\ NameOf[FileOf[r]] = n
                                      /\ ConcatIs(disk[n], FileOf[r], ConcatLength(disk[n]))
    BY DEF DiskIsPrefix
  <2>1a. PICK r \in Runs : \E k :
          /\ k \in 0..ChunkCount(r)
          /\ NameOf[FileOf[r]] = n
          /\ disk[n] = Beginning(r, k)
    BY DEF DiskIsBeginning
  <2>1. PICK k :
          /\ k \in 0..ChunkCount(r)
          /\ NameOf[FileOf[r]] = n
          /\ disk[n] = Beginning(r, k)
    BY <2>1a
  <2> QED
    BY <2>1, BeginningIsString
<1>2. IInv /\ GenuineInv /\ [Next]_vars => GenuineInv'
  BY NextGenuine
<1>3. IInv /\ GenuineInv /\ NoIdShared /\ DiskIsBeginning /\ [Next]_vars => DiskIsBeginning'
  BY NextDisk
<1> QED
  BY <1>1, <1>2, <1>3, Invariance, InitGenuine, PTL DEF Spec
=============================================================================
