----------------------------- MODULE MCFileCopy -----------------------------
(***************************************************************************)
(* Small instances of FileCopy.  A file of five bytes in chunks of two is  *)
(* three chunks, the last one short, and one of seven bytes four.          *)
(***************************************************************************)
EXTENDS FileCopy

CONSTANTS r1, r2, f1, f2, n1, n2

\* Two runs of two files under two names.
OwnFile == [r \in Runs |-> IF r = r1 THEN f1 ELSE f2]
OwnName == [f \in File |-> IF f = f1 THEN n1 ELSE n2]

\* Two runs that send one file: the second repeats what the first lost.
OneFile == [r \in Runs |-> f1]

FiveBytes == [f \in File |-> 5]
SevenBytes == [f \in File |-> 7]

\* The runs overlap, or the second starts when the first has ended.
Concurrent == [r \in Runs |-> {}]
OneByOne == [r \in Runs |-> IF r = r1 THEN {} ELSE {r1}]

\* Packets of other programs: a header without a size, a chunk without an
\* id, and a packet of neither type.
MCStrays ==
  {[type |-> "file_transfer_header",
    body |-> [has |-> {"id", "filename"}, id |-> 1, size |-> 0, filename |-> n1]],
   [type |-> "file_transfer_chunk",
    body |-> [has |-> {"chunk_id", "chunk"}, id |-> 0, chunk_id |-> 1, chunk |-> {}]],
   [type |-> "none"]}
NoStrays == {}
=============================================================================
