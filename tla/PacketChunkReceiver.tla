------------------------ MODULE PacketChunkReceiver ------------------------
(***************************************************************************)
(* net/packet_chunk_receiver: PacketChunk fragments go in, complete        *)
(* packets come out.                                                       *)
(*                                                                         *)
(* The vector packets_ is a function from payload ids to the fragments     *)
(* held, <<>> where no tracker is open: the code opens a tracker only when *)
(* none has the id.  last_fragment_time_us is written and never read, so   *)
(* it is not kept.                                                         *)
(***************************************************************************)
EXTENDS Chunking

CONSTANTS
  Packet,            \* the packets that may be serialized
  Size,               \* the length of each packet's serialization
  PayloadIds,         \* the values of payload_id
  Garbled             \* a parse of bytes that no single packet serialized to

ASSUME PacketAssumption ==
  /\ Size \in [Packet -> Nat \ {0}]
  /\ PayloadIds \subseteq Nat
  /\ Garbled \notin Packet

VARIABLES
  packets,            \* packets_: the fragments held for each payload id
  completed_packets,  \* completed_packets_
  returned,           \* how often each packet was handed to the caller
  running             \* FALSE once LOGFATAL has ended the process

receiverVars == <<packets, completed_packets, returned, running>>

-----------------------------------------------------------------------------
Fields == {"payload_id", "chunk_id", "total_payload_size", "payload"}

\* A PacketChunk.Chunk; has is the set of optional fields that are present.
Chunk == [has : SUBSET Fields, payload_id : PayloadIds, chunk_id : Nat,
          total_payload_size : Nat, payload : SUBSET (Packet \X Nat)]

\* The fragments PushPacketChunk refuses before it looks at its state.
Malformed(c) ==
  \/ ~({"payload_id", "chunk_id", "payload"} \subseteq c.has)
  \/ c.chunk_id = 1 /\ "total_payload_size" \notin c.has

\* The payload bytes in the order of the vector.
Blocks(chunks) == [i \in DOMAIN chunks |-> chunks[i].payload]

\* IsComplete up to the parse: the first fragment tells the total size and
\* that many bytes are there.
IsComplete(chunks) ==
  /\ "total_payload_size" \in chunks[1].has
  /\ ConcatLength(Blocks(chunks)) = chunks[1].total_payload_size

\* What ParseFromString makes of the bytes: the packet they serialize, or,
\* for a mixture, some other packet.  That it may also fail is ParseFails.
Parsed(chunks) ==
  LET matching == {p \in Packet : ConcatIs(Blocks(chunks), p, Size[p])}
  IN  IF matching # {} THEN matching ELSE {Garbled}

ParseFails(chunks) == Parsed(chunks) = {Garbled}

-----------------------------------------------------------------------------
ReceiverInit ==
  /\ packets = [id \in PayloadIds |-> <<>>]
  /\ completed_packets = {}
  /\ returned = [p \in Packet \cup {Garbled} |-> 0]
  /\ running = TRUE

\* Mutants: completed payloads are not looked up; fields are not looked at.
IgnoredUnlessCompleted(c) ==
  \/ Malformed(c)
  \/ \E i \in DOMAIN packets[c.payload_id] :
       packets[c.payload_id][i].chunk_id = c.chunk_id

IgnoredUnlessKnown(c) ==
  \/ c.payload_id \in completed_packets
  \/ \E i \in DOMAIN packets[c.payload_id] :
       packets[c.payload_id][i].chunk_id = c.chunk_id

\* A fragment that is malformed, late or held already changes nothing.
Ignored(c) ==
  \/ Malformed(c)
  \/ c.payload_id \in completed_packets
  \/ \E i \in DOMAIN packets[c.payload_id] :
       packets[c.payload_id][i].chunk_id = c.chunk_id

Ignore(c) == Ignored(c) /\ UNCHANGED receiverVars

\* The fragment is kept and the payload is still incomplete.
Hold(c) ==
  LET chunks == SortedInsert(packets[c.payload_id], c)
  IN  /\ ~Ignored(c)
      /\ ~IsComplete(chunks)
      /\ packets' = [packets EXCEPT ![c.payload_id] = chunks]
      /\ UNCHANGED <<completed_packets, returned, running>>

\* Mutants: the payload id is not remembered; the tracker is not erased.
CompleteForgetting(c) ==
  LET chunks == SortedInsert(packets[c.payload_id], c)
  IN  /\ ~Ignored(c)
      /\ IsComplete(chunks)
      /\ \E p \in Parsed(chunks) : returned' = [returned EXCEPT ![p] = @ + 1]
      /\ packets' = [packets EXCEPT ![c.payload_id] = <<>>]
      /\ UNCHANGED <<completed_packets, running>>

CompleteKeeping(c) ==
  LET chunks == SortedInsert(packets[c.payload_id], c)
  IN  /\ ~Ignored(c)
      /\ IsComplete(chunks)
      /\ \E p \in Parsed(chunks) : returned' = [returned EXCEPT ![p] = @ + 1]
      /\ completed_packets' = completed_packets \cup {c.payload_id}
      /\ UNCHANGED <<packets, running>>

\* The fragment completes the payload: the packet goes to the caller and the
\* tracker is dropped.
Complete(c) ==
  LET chunks == SortedInsert(packets[c.payload_id], c)
  IN  /\ ~Ignored(c)
      /\ IsComplete(chunks)
      /\ \E p \in Parsed(chunks) : returned' = [returned EXCEPT ![p] = @ + 1]
      /\ completed_packets' = completed_packets \cup {c.payload_id}
      /\ packets' = [packets EXCEPT ![c.payload_id] = <<>>]
      /\ UNCHANGED running

\* "failed to deserialize payload": the process exits.
FailToParse(c) ==
  LET chunks == SortedInsert(packets[c.payload_id], c)
  IN  /\ ~Ignored(c)
      /\ IsComplete(chunks)
      /\ ParseFails(chunks)
      /\ running' = FALSE
      /\ UNCHANGED <<packets, completed_packets, returned>>

PushPacketChunk(c) ==
  /\ running
  /\ Ignore(c) \/ Hold(c) \/ Complete(c) \/ FailToParse(c)

-----------------------------------------------------------------------------
ReceiverTypeOK ==
  /\ packets \in [PayloadIds -> Seq(Chunk)]
  /\ completed_packets \subseteq PayloadIds
  /\ returned \in [Packet \cup {Garbled} -> Nat]
  /\ running \in BOOLEAN
=============================================================================
