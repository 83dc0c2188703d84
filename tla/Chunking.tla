------------------------------ MODULE Chunking ------------------------------
(***************************************************************************)
(* What the two layers of the protocol share.  Both cut a byte string into *)
(* pieces numbered from 1, both collect the pieces in a vector that is     *)
(* kept sorted by chunk_id, and both name what they send with a counter    *)
(* that never hands out 0.                                                 *)
(*                                                                         *)
(* A byte string is known by the set of its bytes <<owner, position>>,     *)
(* position counting from 1: enough to tell how long a string is, which    *)
(* string each byte came from and whether the bytes are in order.          *)
(***************************************************************************)
EXTENDS Integers, Sequences, FiniteSets, SequencesExt

\* The bytes of the string that x names, n bytes long.
BytesOf(x, n) == {x} \X (1..n)

\* The length of the next piece: std::min(max, size - offset).
PieceLength(size, offset, max) == IF size - offset < max THEN size - offset ELSE max

\* substr(offset, PieceLength) of the string x.
Piece(x, size, offset, max) ==
  {x} \X ((offset + 1)..(offset + PieceLength(size, offset, max)))

\* Mutant: the sort predicate compares a field all chunks share.
BeforeByPayload(a, b) == a.payload_id < b.payload_id

\* The order the sort predicates of both layers give.
Before(a, b) == a.chunk_id < b.chunk_id

\* Mutant: push_back without the sort.
Unsorted(chunks, c) == Append(chunks, c)

\* push_back followed by std::sort, for a vector that is sorted already.
SortedInsert(chunks, c) ==
  InsertAt(chunks, 1 + Cardinality({i \in DOMAIN chunks : Before(chunks[i], c)}), c)

\* The length of the concatenation of the byte strings blocks[1], blocks[2],
\* ...: a byte that occurs in two blocks counts twice.
ConcatLength(blocks) == Cardinality(UNION {{i} \X blocks[i] : i \in DOMAIN blocks})

\* The concatenation is the string x of length n: every byte of it, in order.
ConcatIs(blocks, x, n) ==
  /\ UNION {blocks[i] : i \in DOMAIN blocks} = BytesOf(x, n)
  /\ \A i, j \in DOMAIN blocks :
       i < j => \A a \in blocks[i], b \in blocks[j] : a[2] < b[2]

\* Mutants: the test for 0 is missing; the counter is wider than the id.
NextIdMaybeZero(n, m) == n
CounterUnwrapped(n, m) == n + 1

\* GetNextPayloadId and GetNextTransferId on a counter of m values: the id
\* handed out, which skips 0, and the counter afterwards.
NextId(n, m) == IF n = 0 THEN 1 % m ELSE n
CounterAfter(n, m) == IF n = 0 THEN 2 % m ELSE (n + 1) % m
=============================================================================
