---------------------------- MODULE FileReceiver ----------------------------
(***************************************************************************)
(* aprs_file_copy/file_receiver: packets go in, files on the disk come     *)
(* out.  One tracker per transfer id collects the header and the chunks    *)
(* of a file; after every new chunk the unbroken run of chunks from the    *)
(* first is written over the file.                                         *)
(*                                                                         *)
(* The contents of a file are the sequence of the blocks of bytes written. *)
(* last_time_us is written and never read, so it is not kept.              *)
(***************************************************************************)
EXTENDS FilePackets

CONSTANTS
  WriteMayFail,       \* whether WriteStringToFile may fail
  Absent              \* the contents of a file that does not exist

\* The sequences of blocks a file may hold.
Contents == Seq(SUBSET (File \X Nat))

ASSUME ReceiverAssumption ==
  /\ WriteMayFail \in BOOLEAN
  /\ Absent \notin Name \cup Contents

VARIABLES
  file_chunks,        \* file_chunks_: the trackers, oldest first
  disk,               \* the contents of each file in the working directory
  alive               \* FALSE once LOGFATAL has ended the process

receiverVars == <<file_chunks, disk, alive>>

-----------------------------------------------------------------------------
\* The header of a tracker that has none: proto2 defaults.
NoHeader == [has |-> {}, id |-> 0, size |-> 0, filename |-> Absent]

Tracker == [header : Header \cup {NoHeader}, chunks : Seq(Chunk), is_complete : BOOLEAN]

\* The condition of LOGFATAL in GetId, and its value otherwise.
Invalid(t) == "id" \notin t.header.has /\ t.chunks = <<>>
GetIdOfHeader(t) == t.header.id
GetId(t) == IF "id" \in t.header.has THEN t.header.id ELSE t.chunks[1].id

\* GetFileChunksForId: the scan stops at the first tracker with the id, or at
\* the first without any.
Stops(id) == {i \in DOMAIN file_chunks :
                Invalid(file_chunks[i]) \/ GetId(file_chunks[i]) = id}

NotFound(id) == Stops(id) = {}

FoundAt(id, i) ==
  /\ i \in Stops(id)
  /\ \A j \in Stops(id) : i <= j
  /\ ~Invalid(file_chunks[i])

LookupIsFatal(id) == Stops(id) # {} /\ Invalid(file_chunks[Min(Stops(id))])

\* "invalid FileChunks tracker": the process exits inside the lookup.
ExitInLookup(id) ==
  /\ LookupIsFatal(id)
  /\ alive' = FALSE
  /\ UNCHANGED <<file_chunks, disk>>

-----------------------------------------------------------------------------
(* HandleTransferHeader                                                    *)

OpenWithHeader(h) ==
  /\ NotFound(h.id)
  /\ file_chunks' =
       Append(file_chunks, [header |-> h, chunks |-> <<>>, is_complete |-> FALSE])
  /\ UNCHANGED <<disk, alive>>

\* The tracker takes the header; nothing is written, whatever it holds.
AdoptHeader(h) ==
  /\ \E i \in DOMAIN file_chunks :
       /\ FoundAt(h.id, i)
       /\ ~file_chunks[i].is_complete
       /\ file_chunks' = [file_chunks EXCEPT ![i].header = h]
  /\ UNCHANGED <<disk, alive>>

IgnoreHeader(h) ==
  /\ \/ ~(HeaderFields \subseteq h.has)
     \/ \E i \in DOMAIN file_chunks :
          FoundAt(h.id, i) /\ file_chunks[i].is_complete
  /\ UNCHANGED receiverVars

HandleTransferHeaderUnchecked(h) ==
  OpenWithHeader(h) \/ AdoptHeader(h) \/ ExitInLookup(h.id)

HandleTransferHeader(h) ==
  \/ IgnoreHeader(h)
  \/ /\ HeaderFields \subseteq h.has
     /\ OpenWithHeader(h) \/ AdoptHeader(h) \/ ExitInLookup(h.id)

-----------------------------------------------------------------------------
(* HandleTransferChunk                                                     *)

\* How many chunks from the first are there without a gap.
RunWithGaps(chunks) == Len(chunks)
UnbrokenRun(chunks) ==
  Cardinality({k \in DOMAIN chunks : \A i \in 1..k : chunks[i].chunk_id = i})

\* file_contents of a tracker with these chunks.
FileContents(chunks) == [i \in 1..UnbrokenRun(chunks) |-> chunks[i].chunk]

\* What is left when the write ends after the file was truncated.
CutShort(contents) == {SubSeq(contents, 1, k) : k \in 0..(Len(contents) - 1)}

\* WriteStringToFile truncates and writes; its result is not looked at.  A
\* failure leaves the file as it was, when open failed, or cut short.
WriteOutcomes(old, contents) ==
  {contents} \cup (IF WriteMayFail THEN {old} \cup CutShort(contents) ELSE {})

\* An empty beginning, or one whose name is not known yet, is not written.
IsWritten(header, contents) == ConcatLength(contents) > 0 /\ "filename" \in header.has

\* What AddChunk does to the disk.
WriteAppending(header, contents) ==
  IF IsWritten(header, contents)
  THEN disk' = [disk EXCEPT ![header.filename] =
                  IF @ = Absent THEN contents ELSE @ \o contents]
  ELSE UNCHANGED disk
Write(header, contents) ==
  IF IsWritten(header, contents)
  THEN \E result \in WriteOutcomes(disk[header.filename], contents) :
         disk' = [disk EXCEPT ![header.filename] = result]
  ELSE UNCHANGED disk

\* A chunk the tracker does not have yet, of a file that is not complete.
WantsWhenComplete(t, c) == \A j \in DOMAIN t.chunks : t.chunks[j].chunk_id # c.chunk_id
Wants(t, c) ==
  /\ ~t.is_complete
  /\ \A j \in DOMAIN t.chunks : t.chunks[j].chunk_id # c.chunk_id

\* The tracker once it has these chunks: complete when the unbroken run has
\* the header's size, which reads as 0 while there is no header.
WithChunksReset(t, chunks) ==
  IF ConcatLength(FileContents(chunks)) = t.header.size
  THEN [header |-> NoHeader, chunks |-> <<>>, is_complete |-> TRUE]
  ELSE [t EXCEPT !.chunks = chunks]
WithChunks(t, chunks) ==
  IF ConcatLength(FileContents(chunks)) = t.header.size
  THEN [t EXCEPT !.chunks = <<>>, !.is_complete = TRUE]
  ELSE [t EXCEPT !.chunks = chunks]

\* The first chunk of a transfer without a tracker is neither written nor
\* compared with the size.
OpenWithChunk(c) ==
  /\ NotFound(c.id)
  /\ file_chunks' =
       Append(file_chunks, [header |-> NoHeader, chunks |-> <<c>>, is_complete |-> FALSE])
  /\ UNCHANGED <<disk, alive>>

AddChunk(c) ==
  /\ \E i \in DOMAIN file_chunks :
       LET t == file_chunks[i]
           chunks == SortedInsert(t.chunks, c)
       IN  /\ FoundAt(c.id, i)
           /\ Wants(t, c)
           /\ Write(t.header, FileContents(chunks))
           /\ file_chunks' = [file_chunks EXCEPT ![i] = WithChunks(t, chunks)]
  /\ UNCHANGED alive

IgnoreChunk(c) ==
  /\ \/ ~(ChunkFields \subseteq c.has)
     \/ \E i \in DOMAIN file_chunks :
          FoundAt(c.id, i) /\ ~Wants(file_chunks[i], c)
  /\ UNCHANGED receiverVars

HandleTransferChunk(c) ==
  \/ IgnoreChunk(c)
  \/ /\ ChunkFields \subseteq c.has
     /\ OpenWithChunk(c) \/ AddChunk(c) \/ ExitInLookup(c.id)

-----------------------------------------------------------------------------
(* One turn of the loop of Receive, and the life of the process.           *)

Receive(packet) ==
  /\ alive
  /\ \/ /\ packet.type = "file_transfer_header"
        /\ HandleTransferHeader(packet.body)
     \/ /\ packet.type = "file_transfer_chunk"
        /\ HandleTransferChunk(packet.body)
     \/ /\ packet.type = "none"
        /\ UNCHANGED receiverVars

ReceiverStart == file_chunks = <<>> /\ alive = TRUE

ReceiverInit == ReceiverStart /\ disk = [n \in Name |-> Absent]

\* The process is started again: the trackers are gone, the files are not.
ReceiverRestart ==
  /\ file_chunks' = <<>>
  /\ alive' = TRUE
  /\ UNCHANGED disk

\* The process is killed between the truncation of a file and the end of its
\* write, and started again.
KilledInWrite(packet) ==
  /\ alive
  /\ packet.type = "file_transfer_chunk"
  /\ \E i \in DOMAIN file_chunks :
       LET t == file_chunks[i]
           contents == FileContents(SortedInsert(t.chunks, packet.body))
       IN  /\ FoundAt(packet.body.id, i)
           /\ Wants(t, packet.body)
           /\ IsWritten(t.header, contents)
           /\ \E cut \in CutShort(contents) :
                disk' = [disk EXCEPT ![t.header.filename] = cut]
  /\ file_chunks' = <<>>
  /\ alive' = TRUE

ReceiverTypeOK ==
  /\ file_chunks \in Seq(Tracker)
  /\ DOMAIN disk = Name
  /\ \A n \in Name : disk[n] = Absent \/ disk[n] \in Contents
  /\ alive \in BOOLEAN
=============================================================================
