---------------------------- MODULE FilePackets ----------------------------
(***************************************************************************)
(* The packets of a file transfer (proto/packet.proto): a header that      *)
(* names the file and its size, and its chunks, numbered from 1.           *)
(***************************************************************************)
EXTENDS Chunking

CONSTANTS
  File,               \* the files that may be sent
  Name,               \* the names a header may give
  TransferIds         \* the values of a transfer id

ASSUME TransferAssumption == TransferIds \subseteq Nat

HeaderFields == {"id", "size", "filename"}
ChunkFields == {"id", "chunk_id", "chunk"}

\* What the handlers keep has every field: they turn the rest away.
Header == [has : {HeaderFields}, id : TransferIds, size : Nat, filename : Name]
Chunk == [has : {ChunkFields}, id : TransferIds, chunk_id : Nat,
          chunk : SUBSET (File \X Nat)]

PacketTypes == {"file_transfer_header", "file_transfer_chunk", "none"}
=============================================================================
