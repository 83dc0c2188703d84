----------------------------- MODULE FileSender -----------------------------
(***************************************************************************)
(* aprs_file_copy/file_sender: runs of the program with --send.  Each is a *)
(* process with one FileSender and one file, and hands packets to          *)
(* SendBroadcastPacket one after the other: the header, then the chunks.   *)
(***************************************************************************)
EXTENDS FilePackets

CONSTANTS
  Runs,               \* runs of the program with --send
  FileOf,             \* the file each run sends
  SizeOf,             \* the length of each file
  NameOf,             \* the last component of each file's path
  MaxChunkSize,       \* --max_file_chunk_size
  Directed,           \* the runs with a --peer_callsign
  After,              \* the runs that must have ended before a run starts
  IdSpace             \* the number of values of a transfer id (2^32)

ASSUME SenderAssumption ==
  /\ FileOf \in [Runs -> File]
  /\ SizeOf \in [File -> Nat]
  /\ NameOf \in [File -> Name]
  /\ MaxChunkSize \in Nat
  /\ Directed \subseteq Runs
  /\ After \in [Runs -> SUBSET Runs]
  /\ IdSpace \in Nat \ {0, 1}
  /\ TransferIds = 0..(IdSpace - 1)

VARIABLES
  stage,              \* of each run: where it is in Send
  transfer_id,        \* the id GetNextTransferId gave the run
  next                \* the packet of the run that is sent now or next

senderVars == <<stage, transfer_id, next>>

-----------------------------------------------------------------------------
\* The first id of a new FileSender, whose counter is 0.
GetNextTransferId == NextId(0, IdSpace)

FileLength(r) == SizeOf[FileOf[r]]

\* The chunk size of Send: 0 stands for the whole file.
ChunkSize(r) == IF MaxChunkSize = 0 THEN FileLength(r) ELSE MaxChunkSize

\* How many chunks the loop of Send cuts.
ChunkCountRoundedDown(r) == IF FileLength(r) = 0 THEN 0 ELSE FileLength(r) \div ChunkSize(r)
ChunkCount(r) == IF FileLength(r) = 0 THEN 0 ELSE (FileLength(r) - 1) \div ChunkSize(r) + 1

HeaderOf(r, id) ==
  [has |-> HeaderFields, id |-> id, size |-> FileLength(r), filename |-> NameOf[FileOf[r]]]

ChunkOf(r, id, k) ==
  [has |-> ChunkFields, id |-> id, chunk_id |-> k,
   chunk |-> Piece(FileOf[r], FileLength(r), (k - 1) * ChunkSize(r), ChunkSize(r))]

\* A packet is <<run, 0>>, the header of the run, or <<run, k>>, its k-th chunk.
PacketIds == UNION {{r} \X (0..ChunkCount(r)) : r \in Runs}

PacketOf(p) ==
  LET r == p[1]
      k == p[2]
  IN  IF k = 0
      THEN [type |-> "file_transfer_header", body |-> HeaderOf(r, transfer_id[r])]
      ELSE [type |-> "file_transfer_chunk", body |-> ChunkOf(r, transfer_id[r], k)]

-----------------------------------------------------------------------------
SenderInit ==
  /\ stage = [r \in Runs |-> "ready"]
  /\ transfer_id = [r \in Runs |-> 0]
  /\ next = [r \in Runs |-> 0]

Ended(r) == stage[r] \in {"done", "failed"}

MayStart(r) == stage[r] = "ready" /\ \A q \in After[r] : Ended(q)

\* Send reads the file, names the transfer and cuts the chunks.
StartSend(r) ==
  /\ MayStart(r)
  /\ r \notin Directed
  /\ stage' = [stage EXCEPT ![r] = "sending"]
  /\ transfer_id' = [transfer_id EXCEPT ![r] = GetNextTransferId]
  /\ UNCHANGED next

\* Send returns false: the file cannot be read, or the mode is directed.
RefuseSend(r) ==
  /\ MayStart(r)
  /\ stage' = [stage EXCEPT ![r] = "failed"]
  /\ UNCHANGED <<transfer_id, next>>

\* SendBroadcast calls SendBroadcastPacket with the packet that is next.
CallBroadcast(r) ==
  /\ stage[r] = "sending"
  /\ stage' = [stage EXCEPT ![r] = "calling"]
  /\ UNCHANGED <<transfer_id, next>>

\* The call returns true, and Send does after the last chunk.
BroadcastReturns(r) ==
  /\ stage[r] = "calling"
  /\ next' = [next EXCEPT ![r] = @ + 1]
  /\ stage' = [stage EXCEPT ![r] = IF next[r] = ChunkCount(r) THEN "done" ELSE "sending"]
  /\ UNCHANGED transfer_id

\* The call returns false, and so does Send.
BroadcastFails(r) ==
  /\ stage[r] = "calling"
  /\ stage' = [stage EXCEPT ![r] = "failed"]
  /\ UNCHANGED <<transfer_id, next>>

SenderTypeOK ==
  /\ stage \in [Runs -> {"ready", "sending", "calling", "done", "failed"}]
  /\ transfer_id \in [Runs -> TransferIds]
  /\ next \in [Runs -> Nat]
=============================================================================
