------------------------------ MODULE FileCopy ------------------------------
(***************************************************************************)
(* aprs-file-copy end to end: runs of the sender (FileSender::Send inside  *)
(* a process of its own, as main starts it), the link between the          *)
(* stations, and one receiving process.                                    *)
(*                                                                         *)
(* The link is PacketLink, which BroadcastLink implements while payload    *)
(* ids do not collide; RadioCopy puts BroadcastLink in its place.          *)
(***************************************************************************)
EXTENDS FileSender, FileReceiver

CONSTANTS
  Order,              \* what the link keeps of the order of sending
  Strays,             \* packets of other programs
  MaxRestarts         \* bound: restarts of the receiving process

ASSUME CopyAssumption ==
  /\ Order \in {"none", "header first", "as sent"}
  /\ MaxRestarts \in Nat

\* A packet that gives every field its handler asks for has parsed, so the
\* fields have their types.
ASSUME StraysAssumption ==
  \A packet \in Strays :
    /\ packet.type = "file_transfer_header" /\ HeaderFields \subseteq packet.body.has
         => packet.body \in Header
    /\ packet.type = "file_transfer_chunk" /\ ChunkFields \subseteq packet.body.has
         => packet.body \in Chunk

VARIABLES
  sent, delivered,    \* the link
  restarts            \* restarts of the receiving process so far

linkVars == <<sent, delivered>>
vars == <<receiverVars, senderVars, linkVars, restarts>>

Link == INSTANCE PacketLink WITH Packet <- PacketIds

Init ==
  /\ ReceiverInit
  /\ SenderInit
  /\ Link!Init
  /\ restarts = 0

\* A packet is on the link from the call on, whether or not it returns true.
SenderStep(r) ==
  /\ \/ CallBroadcast(r) /\ Link!Broadcast(<<r, next[r]>>)
     \/ /\ StartSend(r) \/ RefuseSend(r) \/ BroadcastReturns(r) \/ BroadcastFails(r)
        /\ UNCHANGED linkVars
  /\ UNCHANGED <<receiverVars, restarts>>

-----------------------------------------------------------------------------
\* What must have been delivered before the packet is.  Retransmission makes
\* it likely that a header, sent first, arrives first; only a channel that
\* neither loses nor delays delivers everything as it was sent.
Predecessors(p) ==
  CASE Order = "none" -> {}
    [] Order = "header first" -> {<<p[1], 0>>} \ {p}
    [] Order = "as sent" ->
         {q \in sent : q[1] \in After[p[1]] \/ (q[1] = p[1] /\ q[2] < p[2])}

\* ReceiveBroadcastPacket returns a packet and Receive handles it.
ReceivePacket(p) ==
  /\ Link!Deliver(p)
  /\ \A q \in Predecessors(p) : delivered[q] > 0
  /\ Receive(PacketOf(p))
  /\ UNCHANGED <<senderVars, restarts>>

\* The process is killed while it handles the packet, and started again.
DieReceivingPacket(p) ==
  /\ restarts < MaxRestarts
  /\ restarts' = restarts + 1
  /\ p \in sent
  /\ delivered[p] = 0
  /\ \A q \in Predecessors(p) : delivered[q] > 0
  /\ KilledInWrite(PacketOf(p))
  /\ Link!Restart
  /\ UNCHANGED senderVars

\* A packet of another program.
ReceiveStray(packet) ==
  /\ Receive(packet)
  /\ UNCHANGED <<senderVars, linkVars, restarts>>

RestartReceiver ==
  /\ restarts < MaxRestarts
  /\ restarts' = restarts + 1
  /\ ReceiverRestart
  /\ Link!Restart
  /\ UNCHANGED senderVars

Next ==
  \/ \E r \in Runs : SenderStep(r)
  \/ \E p \in PacketIds : ReceivePacket(p)
  \/ \E packet \in Strays : ReceiveStray(packet)
  \/ \E p \in PacketIds : DieReceivingPacket(p)
  \/ RestartReceiver

Spec == Init /\ [][Next]_vars

-----------------------------------------------------------------------------
TypeOK ==
  /\ ReceiverTypeOK
  /\ SenderTypeOK
  /\ sent \subseteq PacketIds
  /\ delivered \in [PacketIds -> {0, 1}]
  /\ restarts \in 0..MaxRestarts

\* The file the run sends is on the disk, whole.
Saved(r) ==
  LET contents == disk[NameOf[FileOf[r]]]
  IN  contents # Absent /\ ConcatIs(contents, FileOf[r], FileLength(r))

\* Whatever arrives in whatever order, a file on the disk is the beginning
\* of a file that was sent under its name: no hole, no reordering, no bytes
\* of another file.
DiskIsPrefix ==
  \A n \in Name : disk[n] # Absent =>
    \E r \in Runs :
      /\ NameOf[FileOf[r]] = n
      /\ ConcatIs(disk[n], FileOf[r], ConcatLength(disk[n]))

\* "Set to true when the entire file has been received"
\* (file_receiver.h:52).
CompleteIsWhole ==
  \A i \in DOMAIN file_chunks : file_chunks[i].is_complete =>
    \E r \in Runs : transfer_id[r] = file_chunks[i].header.id /\ Saved(r)

\* The scan of GetFileChunksForId never meets a tracker without an id
\* ("invalid FileChunks tracker", file_receiver.cc:74).
TrackersHaveIds == \A i \in DOMAIN file_chunks : ~Invalid(file_chunks[i])

\* A transfer id names one tracker, or chunks of one file would part.
OneTrackerPerId ==
  \A i, j \in DOMAIN file_chunks :
    /\ ~Invalid(file_chunks[i])
    /\ ~Invalid(file_chunks[j])
    /\ GetId(file_chunks[i]) = GetId(file_chunks[j])
    => i = j

\* The receiver has had the header and every chunk of the file of a run,
\* from that run or from others that sent it again.
AllDelivered(r) ==
  \A k \in 0..ChunkCount(r) :
    \E q \in Runs : FileOf[q] = FileOf[r] /\ delivered[<<q, k>>] > 0

\* "These are sent sequentially and appended by the receiver until the
\* complete file is received" (packet.proto:84).
DeliveredMeansSaved == \A r \in Runs : AllDelivered(r) => Saved(r)

\* "all files are received (broadcast mode)" (main.cc:46), one sent after
\* the other over a link that keeps the order.
EveryFileIsSaved ==
  (\A r \in Runs : AllDelivered(r)) => (\A r \in Runs : Saved(r))

\* No two files are sent under one transfer id.  The first id of every run is
\* the same, so this holds as long as every run that has started sends the
\* same file.
NoIdShared ==
  \A r, q \in Runs :
    transfer_id[r] = transfer_id[q] /\ transfer_id[r] # 0 => FileOf[r] = FileOf[q]

\* Every packet of another program lacks a field the handlers ask for.
StraysAreIncomplete ==
  \A packet \in Strays :
    /\ packet.type = "file_transfer_header" => ~(HeaderFields \subseteq packet.body.has)
    /\ packet.type = "file_transfer_chunk" => ~(ChunkFields \subseteq packet.body.has)

-----------------------------------------------------------------------------
\* The files some run sends.
Sent == {FileOf[r] : r \in Runs}

\* The bytes a process has had of the beginning of a file.
Held(f) ==
  LET mine == {i \in DOMAIN file_chunks :
                 \E r \in Runs : FileOf[r] = f /\ GetId(file_chunks[i]) = transfer_id[r]}
  IN  IF mine = {} THEN 0
      ELSE LET t == file_chunks[Min(mine)]
           IN  IF t.is_complete THEN SizeOf[f] ELSE ConcatLength(FileContents(t.chunks))

\* The bytes on the disk under the name of a file.
SavedLength(f) ==
  LET contents == disk[NameOf[f]]
  IN  IF contents = Absent THEN 0 ELSE ConcatLength(contents)

Promise == INSTANCE FileTransfer WITH
  Transfer <- Sent,
  Size <- [f \in Sent |-> SizeOf[f]],
  held <- [f \in Sent |-> Held(f)],
  saved <- [f \in Sent |-> SavedLength(f)]

\* With the header first, a file on the disk grows chunk by chunk to the
\* whole and is left alone from then on.
ImplementsFileTransfer == Promise!Spec
=============================================================================
