-------------------------- MODULE Chunking_proofs --------------------------
(***************************************************************************)
(* Lemmas about the vectors of chunks both layers keep, and about the      *)
(* counters that name what they send.                                      *)
(***************************************************************************)
EXTENDS Chunking, SequenceTheorems, FiniteSetTheorems, FunctionTheorems,
        WellFoundedInduction, TLAPS

\* Where the elements of a vector are after an insertion.
LEMMA InsertAtElements ==
  ASSUME NEW S, NEW chunks \in Seq(S), NEW c \in S,
         NEW i \in 1..(Len(chunks) + 1)
  PROVE  /\ InsertAt(chunks, i, c) \in Seq(S)
         /\ Len(InsertAt(chunks, i, c)) = Len(chunks) + 1
         /\ \A j \in 1..(Len(chunks) + 1) :
              InsertAt(chunks, i, c)[j] = IF j < i THEN chunks[j]
                                          ELSE IF j = i THEN c ELSE chunks[j - 1]
<1> DEFINE front == SubSeq(chunks, 1, i - 1)
           back == SubSeq(chunks, i, Len(chunks))
<1>0. /\ Len(chunks) \in Nat
      /\ \A j \in 1..Len(chunks) : chunks[j] \in S
  BY ElementOfSeq, LenProperties
<1>1. /\ front \in Seq(S)
      /\ Len(front) = i - 1
      /\ \A j \in 1..(i - 1) : front[j] = chunks[j]
  BY <1>0, SubSeqProperties
<1>2. /\ back \in Seq(S)
      /\ Len(back) = Len(chunks) - i + 1
      /\ \A j \in 1..(Len(chunks) - i + 1) : back[j] = chunks[i + j - 1]
  BY <1>0, SubSeqProperties
<1>3. <<c>> \in Seq(S) /\ Len(<<c>>) = 1 /\ <<c>>[1] = c
  OBVIOUS
<1> HIDE DEF front, back
<1> DEFINE head == front \o <<c>>
<1>4. /\ head \in Seq(S)
      /\ Len(head) = i
      /\ \A j \in 1..i : head[j] = IF j < i THEN chunks[j] ELSE c
  BY <1>1, <1>3, ConcatProperties
<1> HIDE DEF head
<1>5. /\ head \o back \in Seq(S)
      /\ Len(head \o back) = Len(chunks) + 1
      /\ \A j \in 1..(Len(chunks) + 1) :
           (head \o back)[j] = IF j <= i THEN head[j] ELSE back[j - i]
  <2>1. /\ head \o back \in Seq(S)
        /\ Len(head \o back) = Len(head) + Len(back)
        /\ \A j \in 1..(Len(head) + Len(back)) :
             (head \o back)[j] = IF j <= Len(head) THEN head[j] ELSE back[j - Len(head)]
    BY <1>2, <1>4, ConcatProperties
  <2>2. Len(head) + Len(back) = Len(chunks) + 1
    BY <1>0, <1>2, <1>4
  <2> QED
    BY <2>1, <2>2, <1>4
<1>6. InsertAt(chunks, i, c) = head \o back
  BY DEF InsertAt, head, front, back
<1> QED
  BY <1>0, <1>2, <1>4, <1>5, <1>6

\* The size of the first n positions.
LEMMA FirstN == \A n \in Nat : IsFiniteSet(1..n) /\ Cardinality(1..n) = n
<1>1. \A n \in Nat : IsFiniteSet(1..n)
  BY FS_Interval
<1>2. \A n \in Nat : Cardinality(1..n) = n
  BY FS_Interval
<1> QED
  BY <1>1, <1>2

\* A set of positions with everything before each of them is 1..k, where k
\* is how many they are.
LEMMA PrefixSet ==
  ASSUME NEW n \in Nat, NEW S \in SUBSET (1..n), \A j \in S : 1..j \subseteq S
  PROVE  Cardinality(S) \in 0..n /\ S = 1..Cardinality(S)
<1> DEFINE k == Cardinality(S)
<1>1. IsFiniteSet(1..n) /\ Cardinality(1..n) = n
  BY FirstN
<1>2. IsFiniteSet(S) /\ k <= n
  BY <1>1, FS_Subset, ZenonT(60)
<1>3. k \in Nat
  BY <1>2, FS_CardinalityType
<1>4. S \subseteq 1..k
  <2> SUFFICES ASSUME NEW j \in S PROVE j \in 1..k
    OBVIOUS
  <2>1. j \in Nat /\ j >= 1
    OBVIOUS
  <2>2. Cardinality(1..j) = j
    BY <2>1, FS_Interval
  <2>3. 1..j \in SUBSET S
    OBVIOUS
  <2>4. Cardinality(1..j) <= k
    BY <1>2, <2>3, FS_Subset
  <2> QED
    BY <1>3, <2>1, <2>2, <2>4
<1>5. IsFiniteSet(1..k) /\ Cardinality(1..k) = k
  BY <1>3, FirstN
<1>6. S = 1..k
  BY <1>4, <1>5, FS_Subset
<1> QED
  BY <1>2, <1>3, <1>6

\* The place std::sort gives the new chunk: every chunk before it, and only
\* those, has a smaller chunk_id.  The chunks with smaller ids are the first
\* k of a sorted vector, where k is how many they are.
LEMMA InsertionPlace ==
  ASSUME NEW S, NEW chunks \in Seq(S), NEW c,
         \A a \in S : a.chunk_id \in Nat, c.chunk_id \in Nat,
         \A i, j \in 1..Len(chunks) : i < j => Before(chunks[i], chunks[j])
  PROVE  LET smaller == {i \in DOMAIN chunks : Before(chunks[i], c)}
         IN  /\ Cardinality(smaller) \in 0..Len(chunks)
             /\ smaller = 1..Cardinality(smaller)
<1> DEFINE smaller == {i \in DOMAIN chunks : Before(chunks[i], c)}
<1>0. /\ Len(chunks) \in Nat
      /\ DOMAIN chunks = 1..Len(chunks)
      /\ \A i \in 1..Len(chunks) : chunks[i].chunk_id \in Nat
  BY ElementOfSeq, LenProperties
<1>1. smaller \in SUBSET (1..Len(chunks))
  BY <1>0
<1>2. \A j \in smaller : 1..j \subseteq smaller
  BY <1>0 DEF Before
<1> HIDE DEF smaller
<1>3. /\ Cardinality(smaller) \in 0..Len(chunks)
      /\ smaller = 1..Cardinality(smaller)
  BY <1>0, <1>1, <1>2, PrefixSet
<1> QED
  BY <1>3 DEF smaller

\* What push_back and std::sort do to a sorted vector: it stays sorted when
\* the chunk_id is new, and holds what it held and the new chunk.
LEMMA SortedInsertSorts ==
  ASSUME NEW S, NEW chunks \in Seq(S), NEW c \in S,
         \A a \in S : a.chunk_id \in Nat,
         \A i, j \in 1..Len(chunks) : i < j => Before(chunks[i], chunks[j]),
         \A i \in 1..Len(chunks) : chunks[i].chunk_id # c.chunk_id
  PROVE  LET t == SortedInsert(chunks, c)
         IN  /\ t \in Seq(S)
             /\ Len(t) = Len(chunks) + 1
             /\ \A i, j \in 1..Len(t) : i < j => Before(t[i], t[j])
             /\ \A i \in 1..Len(t) :
                  t[i] = c \/ \E j \in 1..Len(chunks) : t[i] = chunks[j]
             /\ \E i \in 1..Len(t) : t[i] = c
             /\ \A j \in 1..Len(chunks) : \E i \in 1..Len(t) : t[i] = chunks[j]
<1> DEFINE smaller == {i \in DOMAIN chunks : Before(chunks[i], c)}
           k == Cardinality(smaller)
           n == Len(chunks)
           t == SortedInsert(chunks, c)
<1>0. /\ n \in Nat
      /\ DOMAIN chunks = 1..n
      /\ \A i \in 1..n : chunks[i].chunk_id \in Nat
      /\ c.chunk_id \in Nat
  BY ElementOfSeq, LenProperties
<1>1. k \in 0..n /\ smaller = 1..k
  BY InsertionPlace
<1> HIDE DEF k
<1>2. /\ \A i \in 1..k : chunks[i].chunk_id < c.chunk_id
      /\ \A i \in 1..n : i > k => c.chunk_id < chunks[i].chunk_id
  <2>1. \A i \in 1..n : i \in 1..k <=> chunks[i].chunk_id < c.chunk_id
    BY <1>0, <1>1 DEF Before
  <2> QED
    BY <2>1, <1>0, <1>1
<1>3. t = InsertAt(chunks, k + 1, c)
  BY <1>0, <1>1 DEF SortedInsert, k
<1>4. /\ t \in Seq(S)
      /\ Len(t) = n + 1
      /\ \A j \in 1..(n + 1) : t[j] = IF j < k + 1 THEN chunks[j]
                                     ELSE IF j = k + 1 THEN c ELSE chunks[j - 1]
  BY <1>0, <1>1, <1>3, InsertAtElements, SMTT(30)
<1> HIDE DEF t, n
<1>5. \A i, j \in 1..(n + 1) : i < j => t[i].chunk_id < t[j].chunk_id
  <2> SUFFICES ASSUME NEW i \in 1..(n + 1), NEW j \in 1..(n + 1), i < j
               PROVE  t[i].chunk_id < t[j].chunk_id
    OBVIOUS
  <2>0. \A a, b \in 1..n : a < b => chunks[a].chunk_id < chunks[b].chunk_id
    BY DEF Before, n
  <2>1. CASE j < k + 1
    BY <2>0, <2>1, <1>0, <1>1, <1>4
  <2>2. CASE j = k + 1
    BY <2>2, <1>0, <1>1, <1>2, <1>4
  <2>3. CASE j > k + 1 /\ i < k + 1
    BY <2>0, <2>3, <1>0, <1>1, <1>4, SMTT(30)
  <2>4. CASE j > k + 1 /\ i = k + 1
    BY <2>4, <1>0, <1>1, <1>2, <1>4
  <2>5. CASE i > k + 1
    BY <2>0, <2>5, <1>0, <1>1, <1>4
  <2> QED
    BY <2>1, <2>2, <2>3, <2>4, <2>5, <1>0, <1>1
<1>6. \A i \in 1..(n + 1) : t[i] = c \/ \E j \in 1..n : t[i] = chunks[j]
  BY <1>0, <1>1, <1>4
<1>7. t[k + 1] = c /\ k + 1 \in 1..(n + 1)
  BY <1>0, <1>1, <1>4
<1>8. \A j \in 1..n : \E i \in 1..(n + 1) : t[i] = chunks[j]
  <2> SUFFICES ASSUME NEW j \in 1..n PROVE \E i \in 1..(n + 1) : t[i] = chunks[j]
    OBVIOUS
  <2>1. CASE j < k + 1
    BY <2>1, <1>0, <1>1, <1>4
  <2>2. CASE j >= k + 1
    <3>1. j + 1 \in 1..(n + 1) /\ t[j + 1] = chunks[j]
      BY <2>2, <1>0, <1>1, <1>4
    <3> QED
      BY <3>1
  <2> QED
    BY <2>1, <2>2, <1>0, <1>1
<1> QED
  BY <1>4, <1>5, <1>6, <1>7, <1>8 DEF Before, t, n

\* GetNextPayloadId and GetNextTransferId never hand out 0, and both results
\* are values of the counter's type.
LEMMA NextIdIsAnId ==
  ASSUME NEW m \in Nat \ {0, 1}, NEW n \in 0..(m - 1)
  PROVE  /\ NextId(n, m) \in 1..(m - 1)
         /\ CounterAfter(n, m) \in 0..(m - 1)
  BY DEF NextId, CounterAfter

LEMMA BytesOfSize ==
  ASSUME NEW x, NEW n \in Nat
  PROVE  IsFiniteSet(BytesOf(x, n)) /\ Cardinality(BytesOf(x, n)) = n
<1>1. IsFiniteSet({x}) /\ Cardinality({x}) = 1
  BY FS_Singleton
<1>2. IsFiniteSet(1..n) /\ Cardinality(1..n) = n
  BY FirstN
<1>3. /\ IsFiniteSet({x} \X (1..n))
      /\ Cardinality({x} \X (1..n)) = Cardinality({x}) * Cardinality(1..n)
  BY <1>1, <1>2, FS_Product
<1> QED
  BY <1>1, <1>2, <1>3 DEF BytesOf

\* Blocks of one string that are in order and have its length between them
\* are the string: nothing is missing and nothing occurs twice.
LEMMA ConcatIsWhole ==
  ASSUME NEW x, NEW n \in Nat, NEW d \in Nat, NEW blocks,
         DOMAIN blocks = 1..d,
         \A i \in 1..d : blocks[i] \subseteq BytesOf(x, n),
         \A i, j \in 1..d :
           i < j => \A a \in blocks[i], b \in blocks[j] : a[2] < b[2],
         ConcatLength(blocks) = n
  PROVE  ConcatIs(blocks, x, n)
<1> DEFINE tagged == UNION {{i} \X blocks[i] : i \in DOMAIN blocks}
           bytes == UNION {blocks[i] : i \in DOMAIN blocks}
           untag == [y \in tagged |-> y[2]]
<1>1. Cardinality(tagged) = n
  BY DEF ConcatLength
<1>2. IsFiniteSet(BytesOf(x, n)) /\ Cardinality(BytesOf(x, n)) = n
  BY BytesOfSize
<1>3. bytes \in SUBSET BytesOf(x, n)
  OBVIOUS
<1>4. IsFiniteSet(bytes) /\ Cardinality(bytes) <= n
  BY <1>2, <1>3, FS_Subset
<1>5. untag \in Injection(tagged, bytes)
  <2>1. untag \in [tagged -> bytes]
    OBVIOUS
  <2>2. ASSUME NEW y \in tagged, NEW z \in tagged, untag[y] = untag[z]
        PROVE  y = z
    <3>1. PICK i \in 1..d : y \in {i} \X blocks[i]
      OBVIOUS
    <3>2. PICK j \in 1..d : z \in {j} \X blocks[j]
      OBVIOUS
    <3>3. /\ y = <<i, y[2]>> /\ y[2] \in blocks[i]
          /\ z = <<j, z[2]>> /\ z[2] \in blocks[j]
          /\ y[2] = z[2]
      BY <2>2, <3>1, <3>2
    <3>4. y[2][2] \in Nat /\ z[2][2] \in Nat
      BY <3>3 DEF BytesOf
    <3>5. ~(i < j) /\ ~(j < i)
      BY <3>3, <3>4
    <3> QED
      BY <3>3, <3>5
  <2> QED
    BY <2>1, <2>2 DEF Injection, IsInjective
<1>6. Cardinality(tagged) <= Cardinality(bytes)
  BY <1>4, <1>5, FS_Injection
<1>7. Cardinality(bytes) = n
  BY <1>1, <1>4, <1>6, FS_CardinalityType
<1>8. bytes = BytesOf(x, n)
  BY <1>2, <1>3, <1>7, FS_Subset
<1> QED
  BY <1>8 DEF ConcatIs

-----------------------------------------------------------------------------
(* Pieces of a string, all but the last m bytes long.                      *)

\* Every set of natural numbers has a least element.
LEMMA LeastElement ==
  ASSUME NEW S \in SUBSET Nat, S # {}
  PROVE  \E x \in S : \A y \in S : x <= y
<1>1. IsWellFoundedOn(OpToRel(<, Nat), Nat)
  BY NatLessThanWellFounded
<1>2. PICK x \in S : \A y \in S : <<y, x>> \notin OpToRel(<, Nat)
  BY <1>1, WFMin
<1>3. \A y \in S : ~(y < x)
  BY <1>2, Zenon DEF OpToRel
<1>4. x \in Nat /\ \A y \in S : y \in Nat
  OBVIOUS
<1>5. \A y \in S : x <= y
  BY ONLY <1>3, <1>4
<1> QED
  BY <1>5

\* Where one piece ends, a later one may begin.
LEMMA MultiplesApart ==
  ASSUME NEW m \in Nat, NEW k \in Nat, NEW l \in Nat, k < l
  PROVE  k * m <= (l - 1) * m
<1>1. PICK d \in Nat : l - 1 = k + d
  <2>1. l - 1 - k \in Nat /\ l - 1 = k + (l - 1 - k)
    OBVIOUS
  <2> QED
    BY <2>1
<1>2. d * m \in Nat
  OBVIOUS
<1>3. (l - 1) * m = k * m + d * m
  BY <1>1
<1> QED
  BY <1>2, <1>3

\* Every byte lies in a piece.
LEMMA PieceOfByte ==
  ASSUME NEW m \in Nat \ {0}, NEW b \in Nat \ {0}
  PROVE  \E k \in Nat \ {0} : (k - 1) * m < b /\ b <= k * m
<1> DEFINE S == {k \in Nat : b <= k * m}
<1>1. b \in S
  <2>1. PICK d \in Nat : m = d + 1
    <3>1. m - 1 \in Nat /\ m = (m - 1) + 1
      OBVIOUS
    <3> QED
      BY <3>1
  <2>2. b * m = b * d + b
    BY <2>1
  <2>3. b * d \in Nat
    OBVIOUS
  <2> QED
    BY <2>2, <2>3
<1>2. PICK k \in S : \A y \in S : k <= y
  <2>1. S \in SUBSET Nat /\ S # {}
    BY <1>1
  <2> HIDE DEF S
  <2> QED
    BY <2>1, LeastElement
<1>3. k # 0
  OBVIOUS
<1>4. k - 1 \notin S
  BY <1>2, <1>3
<1>5. (k - 1) * m \in Int
  OBVIOUS
<1> QED
  BY <1>3, <1>4, <1>5

\* The bytes of a piece.
LEMMA PieceBytes ==
  ASSUME NEW x, NEW n \in Nat, NEW m \in Nat \ {0}, NEW o \in Nat, o < n
  PROVE  Piece(x, n, o, m) = {x} \X ((o + 1)..(IF o + m < n THEN o + m ELSE n))
<1>1. o + PieceLength(n, o, m) = IF o + m < n THEN o + m ELSE n
  BY DEF PieceLength
<1> QED
  BY <1>1 DEF Piece

\* How many pieces there are.
LEMMA CountOfPieces ==
  ASSUME NEW n \in Nat \ {0}, NEW m \in Nat \ {0}
  PROVE  LET count == (n - 1) \div m + 1
         IN  /\ count \in Nat \ {0}
             /\ n <= count * m
             /\ \A k \in Nat \ {0} : k <= count => (k - 1) * m < n
             /\ \A k \in Nat \ {0} : (k - 1) * m < n => k <= count
<1> DEFINE q == (n - 1) \div m
<1>1. q \in Nat /\ q * m <= n - 1 /\ n - 1 < q * m + m
  <2>1. \A a \in Nat : a = m * (a \div m) + (a % m) /\ a % m \in 0..(m - 1) /\ a \div m \in Nat
    OBVIOUS
  <2> QED
    BY <2>1
<1> HIDE DEF q
<1>2. n <= (q + 1) * m
  BY <1>1
<1>3. ASSUME NEW k \in Nat \ {0}, k <= q + 1 PROVE (k - 1) * m < n
  <2>1. (k - 1) * m <= q * m
    <3>1. k - 1 \in Nat /\ q + 1 \in Nat /\ k - 1 < q + 1
      BY <1>1, <1>3
    <3>2. (k - 1) * m <= (q + 1 - 1) * m
      BY <1>1, <3>1, MultiplesApart
    <3> QED
      BY <1>1, <3>2
  <2>2. (k - 1) * m \in Int /\ q * m \in Int
    BY <1>1
  <2> QED
    BY <1>1, <2>1, <2>2
<1>4. ASSUME NEW k \in Nat \ {0}, k > q + 1 PROVE n <= (k - 1) * m
  <2>1. (q + 1) * m <= (k - 1) * m
    BY <1>1, <1>4, MultiplesApart
  <2>2. (k - 1) * m \in Int /\ (q + 1) * m \in Int
    BY <1>1
  <2> QED
    BY <1>2, <2>1, <2>2
<1>5. \A k \in Nat \ {0} : (k - 1) * m \in Int
  OBVIOUS
<1>6. \A k \in Nat \ {0} : (k - 1) * m < n => k <= q + 1
  BY <1>1, <1>4, <1>5
<1> QED
  BY <1>1, <1>2, <1>3, <1>6 DEF q

\* A concatenation that is a string of n bytes has n bytes.
LEMMA ConcatIsLength ==
  ASSUME NEW x, NEW n \in Nat, NEW d \in Nat, NEW blocks,
         DOMAIN blocks = 1..d,
         ConcatIs(blocks, x, n)
  PROVE  ConcatLength(blocks) = n
<1> DEFINE tagged == UNION {{i} \X blocks[i] : i \in DOMAIN blocks}
           untag == [y \in tagged |-> y[2]]
<1>1. IsFiniteSet(BytesOf(x, n)) /\ Cardinality(BytesOf(x, n)) = n
  BY BytesOfSize
<1>2. /\ UNION {blocks[i] : i \in DOMAIN blocks} = BytesOf(x, n)
      /\ \A i, j \in 1..d : i < j => \A a \in blocks[i], b \in blocks[j] : a[2] < b[2]
  BY DEF ConcatIs
<1>3. \A y \in tagged : \E i \in 1..d : y = <<i, y[2]>> /\ y[2] \in blocks[i]
  OBVIOUS
<1>4. \A i \in 1..d : \A b \in blocks[i] : <<i, b>> \in tagged
  OBVIOUS
<1>5. \A i \in 1..d : \A b \in blocks[i] : b \in BytesOf(x, n) /\ b[2] \in Nat
  <2>1. \A i \in 1..d : \A b \in blocks[i] : b \in BytesOf(x, n)
    BY <1>2
  <2> QED
    BY <2>1 DEF BytesOf
<1> HIDE DEF tagged
<1>6. untag \in [tagged -> BytesOf(x, n)]
  BY <1>3, <1>5
<1>7. ASSUME NEW y \in tagged, NEW z \in tagged, untag[y] = untag[z] PROVE y = z
  <2>1. PICK i \in 1..d : y = <<i, y[2]>> /\ y[2] \in blocks[i]
    BY <1>3
  <2>2. PICK j \in 1..d : z = <<j, z[2]>> /\ z[2] \in blocks[j]
    BY <1>3
  <2>3. y[2] = z[2] /\ y[2][2] \in Nat
    BY <1>5, <1>7, <2>1
  <2>4. ~(i < j) /\ ~(j < i)
    BY <1>2, <2>1, <2>2, <2>3
  <2> QED
    BY <2>1, <2>2, <2>3, <2>4
<1>8. \A b \in BytesOf(x, n) : \E y \in tagged : untag[y] = b
  <2> SUFFICES ASSUME NEW b \in BytesOf(x, n) PROVE \E y \in tagged : untag[y] = b
    OBVIOUS
  <2>1. PICK i \in 1..d : b \in blocks[i]
    BY <1>2
  <2>2. <<i, b>> \in tagged /\ untag[<<i, b>>] = b
    BY <1>4, <2>1
  <2> QED
    BY <2>2
<1>9. untag \in Bijection(tagged, BytesOf(x, n))
  BY <1>6, <1>7, <1>8 DEF Bijection, Injection, Surjection, IsInjective
<1> HIDE DEF untag
<1>10. IsFiniteSet(tagged) /\ Cardinality(tagged) = Cardinality(BytesOf(x, n))
  <2>1. ExistsBijection(BytesOf(x, n), tagged)
    BY <1>9, Fun_ExistsBijSymmetric DEF ExistsBijection
  <2> QED
    BY <1>1, <2>1, FS_Bijection
<1> QED
  BY <1>1, <1>10 DEF ConcatLength, tagged

\* The first k pieces of a string, and where they end.
FirstPieces(x, n, m, k) == [i \in 1..k |-> Piece(x, n, (i - 1) * m, m)]
EndOfPieces(n, m, k) == IF k * m < n THEN k * m ELSE n
PiecesFit(n, m, k) == k = 0 \/ (k - 1) * m < n

\* The first k pieces are the beginning of the string, in order.
LEMMA BeginningOfPieces ==
  ASSUME NEW x, NEW n \in Nat, NEW m \in Nat \ {0}, NEW k \in Nat, PiecesFit(n, m, k)
  PROVE  /\ EndOfPieces(n, m, k) \in 0..n
         /\ ConcatIs(FirstPieces(x, n, m, k), x, EndOfPieces(n, m, k))
         /\ ConcatLength(FirstPieces(x, n, m, k)) = EndOfPieces(n, m, k)
<1>a. PICK blocks : blocks = FirstPieces(x, n, m, k)
  OBVIOUS
<1>b. PICK end : end = IF k * m < n THEN k * m ELSE n
  OBVIOUS
<1>c. DOMAIN blocks = 1..k /\ \A i \in 1..k : blocks[i] = Piece(x, n, (i - 1) * m, m)
  BY <1>a DEF FirstPieces
<1>d. k = 0 \/ (k - 1) * m < n
  BY DEF PiecesFit
<1>1. k * m \in Nat /\ end \in 0..n
  BY <1>b
<1>2. \A i \in 1..k : (i - 1) * m < n
  <2> SUFFICES ASSUME NEW i \in 1..k PROVE (i - 1) * m < n
    OBVIOUS
  <2>1. CASE i = k
    BY <1>d, <2>1
  <2>2. CASE i < k
    <3>1. i * m <= (k - 1) * m
      BY <2>2, MultiplesApart
    <3>2. (k - 1) * m < n /\ (k - 1) * m \in Int /\ i * m = (i - 1) * m + m /\ (i - 1) * m \in Int
      BY <1>d, <2>2
    <3> QED
      BY <3>1, <3>2
  <2> QED
    BY <2>1, <2>2
<1> DEFINE last(i) == IF i * m < n THEN i * m ELSE n
<1>3. \A i \in 1..k :
        last(i) \in Nat /\ blocks[i] = {x} \X (((i - 1) * m + 1)..last(i))
  <2> SUFFICES ASSUME NEW i \in 1..k
               PROVE  last(i) \in Nat /\ blocks[i] = {x} \X (((i - 1) * m + 1)..last(i))
    OBVIOUS
  <2> DEFINE o == (i - 1) * m
  <2>1. o \in Nat /\ o < n /\ i * m = o + m
    BY <1>2
  <2>2. last(i) \in Nat /\ last(i) = IF o + m < n THEN o + m ELSE n
    BY <2>1
  <2> HIDE DEF o, last
  <2>3. Piece(x, n, o, m) = {x} \X ((o + 1)..last(i))
    BY <2>1, <2>2, PieceBytes
  <2> QED
    BY <1>c, <2>2, <2>3 DEF o
<1>4. \A i \in 1..k : /\ (i - 1) * m \in Nat
                      /\ i * m \in Nat
                      /\ last(i) <= n
                      /\ last(i) <= i * m
  OBVIOUS
<1>0. \A i \in 1..k : \A b \in blocks[i] :
        /\ b = <<x, b[2]>>
        /\ b[2] \in Nat
        /\ (i - 1) * m < b[2]
        /\ b[2] <= i * m
        /\ b[2] <= n
  <2> HIDE DEF last
  <2> SUFFICES ASSUME NEW i \in 1..k, NEW b \in blocks[i]
               PROVE  /\ b = <<x, b[2]>>
                      /\ b[2] \in Nat
                      /\ (i - 1) * m < b[2]
                      /\ b[2] <= i * m
                      /\ b[2] <= n
    OBVIOUS
  <2>1. b \in {x} \X (((i - 1) * m + 1)..last(i))
    BY <1>3
  <2>2. b = <<x, b[2]>> /\ b[2] \in ((i - 1) * m + 1)..last(i)
    BY <2>1
  <2> DEFINE o == (i - 1) * m
  <2>3. o \in Nat /\ last(i) \in Nat /\ i * m \in Nat /\ last(i) <= n /\ last(i) <= i * m
    BY <1>3, <1>4
  <2> HIDE DEF o
  <2>4. b[2] \in (o + 1)..last(i)
    BY <2>2 DEF o
  <2>5. b[2] \in Nat /\ o < b[2] /\ b[2] <= i * m /\ b[2] <= n
    BY <2>3, <2>4
  <2> QED
    BY <2>2, <2>5 DEF o
<1>5. UNION {blocks[i] : i \in 1..k} \subseteq BytesOf(x, end)
  <2> SUFFICES ASSUME NEW i \in 1..k, NEW b \in blocks[i] PROVE b \in BytesOf(x, end)
    OBVIOUS
  <2>1. b = <<x, b[2]>> /\ b[2] \in Nat \ {0} /\ b[2] <= n /\ b[2] <= i * m
    BY <1>0, <1>4
  <2>2. i * m <= k * m
    <3>1. i * m <= (k + 1 - 1) * m
      BY MultiplesApart
    <3> QED
      BY <3>1
  <2>3. b[2] <= end
    <3>1. b[2] <= k * m
      <4> DEFINE p == i * m
                 q == k * m
      <4>1. p \in Nat /\ q \in Nat /\ p <= q /\ b[2] <= p /\ b[2] \in Nat
        BY <1>1, <1>4, <2>1, <2>2
      <4> HIDE DEF p, q
      <4>2. b[2] <= q
        BY <4>1
      <4> QED
        BY <4>2 DEF q
    <3> QED
      BY <1>b, <2>1, <3>1
  <2> QED
    BY <1>1, <2>1, <2>3 DEF BytesOf
<1>6. BytesOf(x, end) \subseteq UNION {blocks[i] : i \in 1..k}
  <2> SUFFICES ASSUME NEW b \in 1..end PROVE \E i \in 1..k : <<x, b>> \in blocks[i]
    BY DEF BytesOf
  <2>1. b \in Nat \ {0} /\ b <= n /\ b <= k * m
    BY <1>1, <1>b
  <2>2. PICK i \in Nat \ {0} : (i - 1) * m < b /\ b <= i * m
    BY <2>1, PieceOfByte
  <2>3. i <= k
    <3> SUFFICES ASSUME k < i PROVE FALSE
      OBVIOUS
    <3>1. k * m <= (i - 1) * m
      BY MultiplesApart
    <3>2. (i - 1) * m \in Int
      OBVIOUS
    <3> QED
      BY <1>1, <2>1, <2>2, <3>1, <3>2
  <2>4. <<x, b>> \in blocks[i]
    <3>1. i \in 1..k
      BY <2>3
    <3>2. b \in ((i - 1) * m + 1)..(IF i * m < n THEN i * m ELSE n)
      BY <1>4, <2>1, <2>2, <3>1
    <3> QED
      BY <1>3, <3>1, <3>2
  <2> QED
    BY <2>3, <2>4
<1>7. \A i, j \in 1..k : i < j => \A a \in blocks[i], b \in blocks[j] : a[2] < b[2]
  <2> SUFFICES ASSUME NEW i \in 1..k, NEW j \in 1..k, i < j,
                      NEW a \in blocks[i], NEW b \in blocks[j]
               PROVE  a[2] < b[2]
    OBVIOUS
  <2>1. a[2] \in Nat /\ a[2] <= i * m
    BY <1>0
  <2>2. b[2] \in Nat /\ (j - 1) * m < b[2]
    BY <1>0
  <2>3. i * m <= (j - 1) * m
    BY MultiplesApart
  <2> DEFINE p == i * m
             o == (j - 1) * m
  <2>4. p \in Nat /\ o \in Nat
    BY <1>4
  <2> HIDE DEF p, o
  <2>5. a[2] <= p /\ p <= o /\ o < b[2]
    BY <2>1, <2>2, <2>3 DEF p, o
  <2> QED
    BY <2>1, <2>2, <2>4, <2>5
<1>8. ConcatIs(blocks, x, end)
  BY <1>c, <1>5, <1>6, <1>7 DEF ConcatIs
<1>9. ConcatLength(blocks) = end
  BY <1>c, <1>1, <1>8, ConcatIsLength
<1> QED
  BY <1>a, <1>b, <1>1, <1>8, <1>9 DEF EndOfPieces

\* The more pieces, the longer the beginning; all of them are the string.
LEMMA EndsOfPieces ==
  ASSUME NEW n \in Nat \ {0}, NEW m \in Nat \ {0}, NEW k \in Nat
  PROVE  /\ EndOfPieces(n, m, 0) = 0
         /\ n <= k * m => EndOfPieces(n, m, k) = n
         /\ EndOfPieces(n, m, k) \in 0..n
         /\ PiecesFit(n, m, k) =>
              \A j \in Nat : j < k => EndOfPieces(n, m, j) < EndOfPieces(n, m, k)
<1>1. EndOfPieces(n, m, 0) = 0
  BY DEF EndOfPieces
<1>2. k * m \in Nat
  OBVIOUS
<1>3. (n <= k * m => EndOfPieces(n, m, k) = n) /\ EndOfPieces(n, m, k) \in 0..n
  <2> DEFINE q == k * m
  <2> HIDE DEF q
  <2> QED
    BY <1>2 DEF EndOfPieces, q
<1>4. ASSUME PiecesFit(n, m, k), NEW j \in Nat, j < k
      PROVE  EndOfPieces(n, m, j) < EndOfPieces(n, m, k)
  <2> DEFINE p == j * m
             o == (k - 1) * m
             q == k * m
  <2>1. p \in Nat /\ o \in Nat /\ q \in Nat /\ q = o + m
    BY <1>4
  <2>2. p <= o
    BY <1>4, MultiplesApart
  <2>3. o < n
    BY <1>4 DEF PiecesFit
  <2> HIDE DEF p, o, q
  <2>4. EndOfPieces(n, m, j) = IF p < n THEN p ELSE n
    BY DEF EndOfPieces, p
  <2>5. EndOfPieces(n, m, k) = IF q < n THEN q ELSE n
    BY DEF EndOfPieces, q
  <2> QED
    BY <2>1, <2>2, <2>3, <2>4, <2>5
<1> QED
  BY <1>1, <1>3, <1>4

-----------------------------------------------------------------------------
\* A set of numbers that holds 0 and with every number the next holds all.
LEMMA SetInduction ==
  ASSUME NEW S \in SUBSET Nat, 0 \in S, \A n \in S : n + 1 \in S
  PROVE  S = Nat
<1> SUFFICES ASSUME Nat \ S # {} PROVE FALSE
  OBVIOUS
<1>1. PICK x \in Nat \ S : \A y \in Nat \ S : x <= y
  <2>1. Nat \ S \in SUBSET Nat
    OBVIOUS
  <2> QED
    BY <2>1, LeastElement
<1>2. x # 0 /\ x - 1 \in Nat /\ (x - 1) + 1 = x
  BY <1>1
<1>3. x - 1 \in S
  BY <1>1, <1>2
<1> QED
  BY <1>1, <1>2, <1>3
=============================================================================
