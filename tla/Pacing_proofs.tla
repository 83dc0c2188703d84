--------------------------- MODULE Pacing_proofs ---------------------------
(***************************************************************************)
(* Proofs about Pacing: pauses are bounded, and the interval is kept on    *)
(* average within the precision of a float.                                *)
(***************************************************************************)
EXTENDS Pacing, Chunking_proofs

-----------------------------------------------------------------------------
(* Powers of two.  The prover knows 2^k only as an integer; the rest comes *)
(* from the number of subsets of 1..k.                                     *)

\* There are as many subsets of a finite set with a new element as without.
LEMMA SubsetsWithElement ==
  ASSUME NEW S, IsFiniteSet(S), NEW e, e \notin S
  PROVE  LET with == {A \in SUBSET (S \cup {e}) : e \in A}
         IN  /\ IsFiniteSet(with)
             /\ Cardinality(with) = Cardinality(SUBSET S)
<1> DEFINE with == {A \in SUBSET (S \cup {e}) : e \in A}
           f == [A \in SUBSET S |-> A \cup {e}]
<1>1. f \in [SUBSET S -> with]
  OBVIOUS
<1>2. \A A, B \in SUBSET S : f[A] = f[B] => A = B
  <2> TAKE A, B \in SUBSET S
  <2>1. A = (A \cup {e}) \ {e} /\ B = (B \cup {e}) \ {e}
    OBVIOUS
  <2>2. f[A] = A \cup {e} /\ f[B] = B \cup {e}
    OBVIOUS
  <2> QED
    BY <2>1, <2>2
<1>3. \A A \in with : \E B \in SUBSET S : f[B] = A
  <2> TAKE A \in with
  <2>1. A \ {e} \in SUBSET S /\ (A \ {e}) \cup {e} = A
    OBVIOUS
  <2> QED
    BY <2>1
<1>4. ExistsBijection(SUBSET S, with)
  <2> HIDE DEF f, with
  <2>1. f \in Bijection(SUBSET S, with)
    BY <1>1, <1>2, <1>3 DEF Bijection, Injection, Surjection, IsInjective
  <2> QED
    BY <2>1 DEF ExistsBijection
<1>5. IsFiniteSet(SUBSET S)
  BY FS_SUBSET
<1> HIDE DEF with
<1>6. IsFiniteSet(with) /\ Cardinality(with) = Cardinality(SUBSET S)
  BY <1>4, <1>5, FS_Bijection
<1> QED
  BY <1>6 DEF with

LEMMA PowerIsCount ==
  ASSUME NEW k \in Nat
  PROVE  /\ IsFiniteSet(SUBSET (1..k))
         /\ Cardinality(SUBSET (1..k)) = 2 ^ k
<1>1. IsFiniteSet(1..k) /\ Cardinality(1..k) = k
  BY FS_Interval
<1>2. IsFiniteSet(SUBSET (1..k)) /\ Cardinality(SUBSET (1..k)) = 2 ^ Cardinality(1..k)
  BY <1>1, FS_SUBSET
<1> QED
  BY <1>1, <1>2

LEMMA PowerDoubles ==
  ASSUME NEW k \in Nat
  PROVE  /\ 2 ^ k \in Nat \ {0}
         /\ 2 ^ (k + 1) = 2 * 2 ^ k
<1> DEFINE S == SUBSET (1..k)
           T == {A \in SUBSET ((1..k) \cup {k + 1}) : k + 1 \in A}
<1>1. IsFiniteSet(1..k) /\ k + 1 \notin 1..k
  BY FS_Interval
<1>2. IsFiniteSet(S) /\ Cardinality(S) = 2 ^ k
  BY PowerIsCount
<1>3. IsFiniteSet(T) /\ Cardinality(T) = Cardinality(S)
  BY <1>1, SubsetsWithElement
<1>4. SUBSET (1..(k + 1)) = S \cup T
  <2>1. 1..(k + 1) = (1..k) \cup {k + 1}
    OBVIOUS
  <2>2. \A A \in SUBSET ((1..k) \cup {k + 1}) : k + 1 \notin A => A \in S
    OBVIOUS
  <2> QED
    BY <2>1, <2>2
<1>5. S \cap T = {}
  BY <1>1
<1>6. Cardinality(SUBSET (1..(k + 1))) = 2 ^ (k + 1)
  BY PowerIsCount, k + 1 \in Nat
<1>7. {} \in S
  OBVIOUS
<1> HIDE DEF S, T
<1>8. Cardinality(S \cup T) = Cardinality(S) + Cardinality(T)
  <2>1. Cardinality(S \cup T) = Cardinality(S) + Cardinality(T) - Cardinality(S \cap T)
    BY <1>2, <1>3, FS_Union
  <2>2. Cardinality(S) \in Nat /\ Cardinality(T) \in Nat /\ Cardinality({}) = 0
    BY <1>2, <1>3, FS_CardinalityType, FS_EmptySet
  <2>3. Cardinality(S \cap T) = 0
    BY ONLY <2>2, <1>5
  <2> QED
    BY ONLY <2>1, <2>2, <2>3
<1>9. PICK n \in Nat \ {0} : n = Cardinality(S)
  <2>1. Cardinality(S) \in Nat /\ Cardinality(S) # 0
    BY <1>2, <1>7, FS_CardinalityType, FS_EmptySet
  <2> QED
    BY <2>1
<1>10. 2 ^ (k + 1) = n + n
  BY ONLY <1>3, <1>4, <1>6, <1>8, <1>9
<1>11. 2 ^ k = n
  BY <1>2, <1>9
<1> QED
  BY <1>9, <1>10, <1>11

\* A smaller power divides a greater one.
LEMMA PowersDivide ==
  ASSUME NEW i \in Nat, NEW d \in Nat
  PROVE  \E c \in Nat \ {0} : 2 ^ (i + d) = c * 2 ^ i
<1> DEFINE Divides(e) == \E c \in Nat \ {0} : 2 ^ (i + e) = c * 2 ^ i
           Bad == {e \in Nat : ~Divides(e)}
<1>1. ASSUME Bad # {} PROVE FALSE
  <2>1. PICK e \in Bad : \A y \in Bad : e <= y
    BY <1>1, LeastElement
  <2>2. Divides(0)
    <3>1. 2 ^ i \in Nat
      BY PowerDoubles
    <3>2. i + 0 = i /\ 2 ^ i = 1 * 2 ^ i
      BY <3>1
    <3> QED
      BY <3>2
  <2>3. e # 0 /\ e \in Nat
    BY <2>1, <2>2
  <2>4. e - 1 \in Nat /\ e - 1 \notin Bad
    <3> HIDE DEF Bad, Divides
    <3>1. e - 1 \in Nat /\ ~(e <= e - 1)
      BY <2>3
    <3> QED
      BY <2>1, <3>1
  <2>5. PICK c \in Nat \ {0} : 2 ^ (i + (e - 1)) = c * 2 ^ i
    BY <2>4
  <2>6. 2 ^ (i + e) = 2 * 2 ^ (i + (e - 1))
    <3>1. i + (e - 1) \in Nat /\ (i + (e - 1)) + 1 = i + e
      BY <2>4
    <3> QED
      BY <3>1, PowerDoubles
  <2>7. PICK p \in Nat : p = 2 ^ i
    BY PowerDoubles
  <2>8. 2 * (c * p) = (2 * c) * p /\ 2 * c \in Nat \ {0}
    BY <2>7
  <2>9. 2 ^ (i + e) = (2 * c) * 2 ^ i
    BY <2>5, <2>6, <2>7, <2>8
  <2>10. Divides(e)
    BY <2>8, <2>9
  <2> QED
    BY <2>1, <2>10
<1> QED
  BY <1>1

LEMMA PowersGrow ==
  ASSUME NEW i \in Nat, NEW j \in Nat, i <= j
  PROVE  2 ^ i <= 2 ^ j
<1>1. j - i \in Nat /\ i + (j - i) = j
  OBVIOUS
<1>2. PICK c \in Nat \ {0} : 2 ^ j = c * 2 ^ i
  BY <1>1, PowersDivide
<1>3. PICK p \in Nat : p = 2 ^ i
  BY PowerDoubles
<1>4. p <= c * p
  BY <1>2
<1> QED
  BY <1>2, <1>3, <1>4

-----------------------------------------------------------------------------
(* The precision of a float, and rounding to it.                           *)

\* The exponents of the floats that are no coarser than n needs.
Exponents(n) == {k \in 0..MaxExponent : k = 0 \/ n >= 2 ^ (k + Mantissa - 1)}

\* The distance of neighbours at n is the greatest power of two among them.
LEMMA UlpIs ==
  ASSUME NEW n \in Nat
  PROVE  \E k \in Exponents(n) :
           /\ Ulp(n) = 2 ^ k
           /\ \A j \in Exponents(n) : j <= k
<1> DEFINE E == Exponents(n)
<1>1. MaxExponent \in Nat
  BY PacingAssumption
<1>2. E \subseteq 0..MaxExponent /\ 0 \in E
  BY <1>1 DEF Exponents
<1>3. \E k \in E : \A j \in E : k >= j
  <2> DEFINE Below == {MaxExponent - k : k \in E}
  <2>1. Below \in SUBSET Nat /\ Below # {}
    BY <1>1, <1>2
  <2>2. PICK x \in Below : \A y \in Below : x <= y
    BY <2>1, LeastElement
  <2>3. PICK k \in E : x = MaxExponent - k
    BY <2>2
  <2>4. ASSUME NEW j \in E PROVE k >= j
    <3>1. MaxExponent - k <= MaxExponent - j
      BY <2>2, <2>3
    <3>2. k \in Nat /\ j \in Nat
      BY <1>1, <1>2
    <3> QED
      BY <1>1, <3>1, <3>2
  <2> QED
    BY <2>4
<1> HIDE DEF E
<1>4. PICK k \in E : k = Max(E) /\ \A j \in E : k >= j
  BY <1>3 DEF Max
<1>5. Ulp(n) = 2 ^ Max(E)
  BY DEF Ulp, E, Exponents
<1>6. \A j \in E : j \in Int
  BY <1>2
<1>7. \A j \in E : j <= k
  BY <1>4, <1>6
<1> QED
  BY <1>4, <1>5, <1>7 DEF E

LEMMA ExponentsGrow ==
  ASSUME NEW n \in Nat, NEW m \in Nat, n <= m
  PROVE  Exponents(n) \subseteq Exponents(m)
<1> SUFFICES ASSUME NEW k \in Exponents(n)
             PROVE  k \in Exponents(m)
  OBVIOUS
<1>1. k \in 0..MaxExponent
  BY DEF Exponents
<1>2. CASE k = 0
  BY <1>1, <1>2 DEF Exponents
<1>3. CASE k # 0
  <2>1. k + Mantissa - 1 \in Nat
    BY <1>1, PacingAssumption
  <2>2. PICK p \in Nat : p = 2 ^ (k + Mantissa - 1)
    BY <2>1, PowerDoubles
  <2>3. n >= p
    BY <1>3, <2>2 DEF Exponents
  <2>4. m >= p
    BY <2>2, <2>3
  <2> QED
    BY <1>1, <2>2, <2>4 DEF Exponents
<1> QED
  BY <1>2, <1>3

\* Floats get coarser with their size, up to a bound.
LEMMA UlpGrows ==
  ASSUME NEW n \in Nat, NEW m \in Nat, n <= m
  PROVE  /\ Ulp(n) \in Nat \ {0}
         /\ Ulp(m) \in Nat \ {0}
         /\ Ulp(n) <= Ulp(m)
         /\ Ulp(m) <= 2 ^ MaxExponent
<1>1. PICK k \in Exponents(n) : Ulp(n) = 2 ^ k
  BY UlpIs
<1>2. PICK l \in Exponents(m) : Ulp(m) = 2 ^ l /\ \A j \in Exponents(m) : j <= l
  BY UlpIs
<1>3. k <= l
  BY <1>2, ExponentsGrow
<1>4. k \in Nat /\ l \in Nat /\ l <= MaxExponent /\ MaxExponent \in Nat
  BY PacingAssumption DEF Exponents
<1>5. 2 ^ k <= 2 ^ l /\ 2 ^ l <= 2 ^ MaxExponent
  BY <1>3, <1>4, PowersGrow
<1>6. 2 ^ k \in Nat \ {0} /\ 2 ^ l \in Nat \ {0}
  BY <1>4, PowerDoubles
<1> QED
  BY <1>1, <1>2, <1>5, <1>6

LEMMA Division ==
  ASSUME NEW n \in Nat, NEW u \in Nat \ {0}
  PROVE  /\ n \div u \in Nat
         /\ n % u \in 0..(u - 1)
         /\ n = u * (n \div u) + (n % u)
  OBVIOUS

\* A quotient is at least every number whose multiple fits.
LEMMA QuotientIsGreatest ==
  ASSUME NEW n \in Nat, NEW u \in Nat \ {0}, NEW c \in Nat, n >= c * u
  PROVE  n \div u >= c
<1>1. PICK q \in Nat, r \in 0..(u - 1) : q = n \div u /\ n = u * q + r
  BY Division
<1>2. ASSUME q < c PROVE FALSE
  <2>1. PICK e \in Nat : c = q + 1 + e
    <3>1. c - q - 1 \in Nat /\ c = q + 1 + (c - q - 1)
      BY <1>2
    <3> QED
      BY <3>1
  <2>2. c * u = u * q + u + e * u
    BY <2>1
  <2>3. e * u \in Nat /\ u * q \in Nat
    BY <2>1
  <2> QED
    BY <1>1, <2>2, <2>3
<1> QED
  BY <1>1, <1>2

\* Rounding goes to one of the two neighbours, by half their distance at most,
\* and never to below a multiple of the distance.
LEMMA RoundIsNear ==
  ASSUME NEW n \in Nat
  PROVE  /\ Round(n) \in Nat
         /\ 2 * (Round(n) - n) <= Ulp(n)
         /\ 2 * (n - Round(n)) <= Ulp(n)
         /\ Ulp(n) <= Ulp(Round(n))
<1>1. PICK u \in Nat \ {0} : u = Ulp(n)
  BY UlpGrows
<1>2. PICK q \in Nat : q = n \div u
  BY Division
<1>3. PICK r \in 0..(u - 1) : r = n % u
  BY Division
<1>4. n = u * q + r
  BY <1>2, <1>3, Division
<1>5. Round(n) = IF 2 * r < u \/ (2 * r = u /\ q % 2 = 0) THEN u * q ELSE u * (q + 1)
  BY <1>1, <1>2, <1>3 DEF Round
<1>6. PICK p \in Nat : p = u * q
  OBVIOUS
<1>7. u * (q + 1) = p + u
  BY <1>6
<1>8. \/ Round(n) = p /\ 2 * r <= u
      \/ Round(n) = p + u /\ 2 * r >= u
  BY <1>5, <1>6, <1>7
<1>9. n = p + r
  BY <1>4, <1>6
<1>10. /\ Round(n) \in Nat
       /\ 2 * (Round(n) - n) <= u
       /\ 2 * (n - Round(n)) <= u
       /\ Round(n) >= p
  BY ONLY <1>8, <1>9, u \in Nat \ {0}, p \in Nat, r \in 0..(u - 1)
<1>11. u <= Ulp(Round(n))
  <2>1. PICK k \in Exponents(n) : u = 2 ^ k
    BY <1>1, UlpIs
  <2>2. PICK l \in Exponents(Round(n)) :
          Ulp(Round(n)) = 2 ^ l /\ \A j \in Exponents(Round(n)) : j <= l
    BY <1>10, UlpIs
  <2>3. k \in 0..MaxExponent /\ l \in 0..MaxExponent /\ MaxExponent \in Nat
    BY PacingAssumption DEF Exponents
  <2>4. k \in Exponents(Round(n))
    <3>1. CASE k = 0
      BY <2>3, <3>1 DEF Exponents
    <3>2. CASE k # 0
      <4>1. Mantissa - 1 \in Nat /\ k + (Mantissa - 1) = k + Mantissa - 1
        BY <2>3, PacingAssumption
      <4>2. PICK c \in Nat \ {0} : 2 ^ (k + Mantissa - 1) = c * 2 ^ k
        <5>1. PICK d \in Nat : d = Mantissa - 1
          BY <4>1
        <5>2. \E c \in Nat \ {0} : 2 ^ (k + d) = c * 2 ^ k
          <6>1. k \in Nat
            BY <2>3
          <6> QED
            BY <6>1, PowersDivide
        <5>3. k + d = k + Mantissa - 1
          BY <4>1, <5>1
        <5> QED
          BY <5>2, <5>3
      <4>3. n >= c * u
        BY <2>1, <3>2, <4>2 DEF Exponents
      <4>4. q >= c
        BY <1>2, <4>3, QuotientIsGreatest
      <4>5. p >= c * u
        <5>1. PICK e \in Nat : q = c + e
          <6>1. q - c \in Nat /\ q = c + (q - c)
            BY <4>4
          <6> QED
            BY <6>1
        <5>2. u * q = c * u + e * u /\ e * u \in Nat
          BY <5>1
        <5> QED
          BY <1>6, <5>2
      <4>6. PICK m \in Nat : m = c * u
        OBVIOUS
      <4>7. Round(n) >= m
        BY <1>10, <4>5, <4>6
      <4> QED
        BY <2>1, <2>3, <4>2, <4>6, <4>7 DEF Exponents
    <3> QED
      BY <3>1, <3>2
  <2>5. k <= l
    BY <2>2, <2>4
  <2>6. 2 ^ k <= 2 ^ l
    BY <2>3, <2>5, PowersGrow
  <2> QED
    BY <2>1, <2>2, <2>6
<1> QED
  BY <1>1, <1>10, <1>11

\* The due time moves on by the interval, within the precision it then has.
LEMMA SumIsNear ==
  ASSUME NEW n \in Nat
  PROVE  /\ PlusInterval(n) \in Nat
         /\ PlusInterval(n) <= n + Interval + Ulp(PlusInterval(n))
         /\ n + Interval <= PlusInterval(n) + Ulp(PlusInterval(n))
         /\ Ulp(n) <= Ulp(PlusInterval(n))
<1>1. Interval \in Nat
  BY PacingAssumption
<1>2. PICK r \in Nat : r = Round(n)
  BY RoundIsNear
<1>3. 2 * (r - n) <= Ulp(n) /\ 2 * (n - r) <= Ulp(n) /\ Ulp(n) <= Ulp(r)
  BY <1>2, RoundIsNear
<1>4. PICK m \in Nat : m = r + Interval
  BY <1>1
<1>5. PlusInterval(n) = Round(m)
  BY <1>2, <1>4 DEF PlusInterval
<1>6. PICK s \in Nat : s = Round(m)
  BY RoundIsNear
<1>7. 2 * (s - m) <= Ulp(m) /\ 2 * (m - s) <= Ulp(m) /\ Ulp(m) <= Ulp(s)
  BY <1>6, RoundIsNear
<1>8. Ulp(r) <= Ulp(m)
  BY <1>1, <1>4, UlpGrows
<1>9. PICK un \in Nat, ur \in Nat, um \in Nat, us \in Nat :
        un = Ulp(n) /\ ur = Ulp(r) /\ um = Ulp(m) /\ us = Ulp(s)
  <2>1. Ulp(n) \in Nat /\ Ulp(r) \in Nat /\ Ulp(m) \in Nat /\ Ulp(s) \in Nat
    BY UlpGrows
  <2> QED
    BY <2>1
<1>10. /\ s <= n + Interval + us
       /\ n + Interval <= s + us
       /\ un <= us
  BY <1>1, <1>3, <1>4, <1>7, <1>8, <1>9
<1> QED
  BY <1>5, <1>6, <1>9, <1>10

-----------------------------------------------------------------------------
(* Times and types.                                                        *)

TypesOfTimes ==
  /\ clock \in Nat
  /\ due \in Nat
  /\ phase \in {"idle", "sending", "sleeping", "failed"}
  /\ sent_at \in Seq(Nat)

\* Sleeping for the rest of a remainder is no longer than for all of it.
LEMMA RemainderIsLess ==
  ASSUME NEW n \in Nat, NEW m \in Nat \ {0}
  PROVE  /\ n % m \in Nat
         /\ n % m <= n
         /\ n < m => n % m = n
<1>1. PICK q \in Nat, r \in 0..(m - 1) : q = n \div m /\ r = n % m /\ n = m * q + r
  BY Division
<1>2. m * q \in Nat
  OBVIOUS
<1>3. ASSUME n < m PROVE r = n
  <2>1. ASSUME q # 0 PROVE FALSE
    <3>1. PICK e \in Nat : q = e + 1
      <4>1. q - 1 \in Nat /\ q = (q - 1) + 1
        BY <2>1
      <4> QED
        BY <4>1
    <3>2. m * q = m * e + m /\ m * e \in Nat
      BY <3>1
    <3> QED
      BY <1>1, <1>3, <3>2
  <2>2. m * q = 0
    BY <2>1
  <2> QED
    BY <1>1, <2>2
<1> QED
  BY <1>1, <1>2, <1>3

\* What a call of SleepUntil does to the clock.
LEMMA SleepEnds ==
  ASSUME TypesOfTimes, NEW end \in Nat, SleepUntil(end)
  PROVE  \E late \in Delays :
           /\ late \in Nat
           /\ clock' \in Nat
           /\ clock' = clock \/ (clock' <= end + late /\ end > clock)
           /\ end - clock < TimerSpace => clock' >= end
           /\ clock' >= clock
<1>1. clock \in Nat /\ TimerSpace \in Nat \ {0} /\ Delays \subseteq Nat
  BY PacingAssumption DEF TypesOfTimes
<1>2. CASE ~(end > clock)
  <2>1. clock' = clock
    BY <1>2 DEF SleepUntil
  <2>2. PICK late : late \in Delays
    BY PacingAssumption
  <2> QED
    BY <1>1, <1>2, <2>1, <2>2
<1>3. CASE end > clock
  <2>1. PICK late \in Delays : clock' = clock + ((end - clock) % TimerSpace) + late
    BY <1>3 DEF SleepUntil
  <2>2. PICK gap \in Nat : gap = end - clock
    BY <1>1, <1>3
  <2>3. PICK rest \in Nat : rest = gap % TimerSpace
    BY <1>1, RemainderIsLess
  <2>4. rest <= gap /\ (gap < TimerSpace => rest = gap)
    BY <1>1, <2>3, RemainderIsLess
  <2>5. late \in Nat /\ clock' = clock + rest + late
    BY <1>1, <2>1, <2>2, <2>3
  <2>6. /\ clock' \in Nat
        /\ clock' <= end + late
        /\ gap < TimerSpace => clock' >= end
        /\ clock' >= clock
    BY <1>1, <2>2, <2>4, <2>5
  <2> QED
    BY <1>3, <2>2, <2>5, <2>6
<1> QED
  BY <1>2, <1>3

LEMMA InitTypes == Init => TypesOfTimes
  BY PacingAssumption, EmptySeq DEF Init, TypesOfTimes

LEMMA StepTypes == TypesOfTimes /\ [Next]_vars => TypesOfTimes'
<1> SUFFICES ASSUME TypesOfTimes, [Next]_vars
             PROVE  TypesOfTimes'
  OBVIOUS
<1>1. CASE CallSendBroadcastPacket
  BY <1>1 DEF CallSendBroadcastPacket, TypesOfTimes
<1>2. CASE SendPacketChunk
  <2>1. PICK t \in SendTimes : clock' = clock + t
    BY <1>2 DEF SendPacketChunk
  <2>2. t \in Nat /\ clock' \in Nat
    BY <2>1, PacingAssumption DEF TypesOfTimes
  <2>3. due' \in Nat
    BY <1>2, SumIsNear DEF SendPacketChunk, TypesOfTimes
  <2>4. sent_at' \in Seq(Nat)
    BY <1>2, AppendProperties DEF SendPacketChunk, TypesOfTimes
  <2> QED
    BY <1>2, <2>2, <2>3, <2>4 DEF SendPacketChunk, TypesOfTimes
<1>3. CASE SendFails
  BY <1>3 DEF SendFails, TypesOfTimes
<1>4. CASE Sleep
  <2>1. clock' \in Nat
    BY <1>4, SleepEnds DEF Sleep, TypesOfTimes
  <2> QED
    BY <1>4, <2>1 DEF Sleep, TypesOfTimes
<1>5. CASE UNCHANGED vars
  BY <1>5 DEF vars, TypesOfTimes
<1> QED
  BY <1>1, <1>2, <1>3, <1>4, <1>5 DEF Next

-----------------------------------------------------------------------------
(* The due time against the clock.                                         *)

\* The timer is wide enough for an interval and the error of a due time.
SleepsFit == Interval + 2 ^ MaxExponent < TimerSpace

\* No transmission begins before it is due, nor does a call return before, and
\* none is due later than an interval from now.
DueIsNear ==
  /\ phase \in {"sending", "idle"} => due <= clock
  /\ phase = "sleeping" => due <= clock + Interval + Ulp(due)

LEMMA SleepFits ==
  ASSUME TypesOfTimes, DueIsNear, SleepsFit, phase = "sleeping"
  PROVE  due - clock < TimerSpace
<1>1. PICK u \in Nat : u = Ulp(due) /\ u <= 2 ^ MaxExponent
  BY UlpGrows DEF TypesOfTimes
<1>2. PICK p \in Nat : p = 2 ^ MaxExponent
  BY PowerDoubles, PacingAssumption
<1>3. due <= clock + Interval + u /\ u <= p /\ Interval + p < TimerSpace
  BY <1>1, <1>2 DEF DueIsNear, SleepsFit
<1> QED
  BY <1>3, PacingAssumption DEF TypesOfTimes

LEMMA StepDueIsNear ==
  ASSUME SleepsFit
  PROVE  TypesOfTimes /\ DueIsNear /\ [Next]_vars => DueIsNear'
<1> SUFFICES ASSUME TypesOfTimes, DueIsNear, [Next]_vars
             PROVE  DueIsNear'
  OBVIOUS
<1>1. CASE CallSendBroadcastPacket
  BY <1>1 DEF CallSendBroadcastPacket, DueIsNear, TypesOfTimes
<1>2. CASE SendPacketChunk
  <2>1. PICK t \in Nat : clock' = clock + t
    BY <1>2, PacingAssumption DEF SendPacketChunk
  <2>2. due' = PlusInterval(due) /\ due <= clock /\ phase' = "sleeping"
    BY <1>2 DEF SendPacketChunk, DueIsNear
  <2>3. PICK n \in Nat : n = PlusInterval(due) /\ n <= due + Interval + Ulp(n)
    BY SumIsNear DEF TypesOfTimes
  <2>4. PICK u \in Nat : u = Ulp(n)
    BY UlpGrows
  <2>5. n <= clock' + Interval + u
    BY <2>1, <2>2, <2>3, <2>4, PacingAssumption DEF TypesOfTimes
  <2>6. due' = n
    BY <2>2, <2>3
  <2>7. due' <= clock' + Interval + Ulp(due')
    BY <2>4, <2>5, <2>6
  <2> QED
    BY <2>2, <2>7 DEF DueIsNear
<1>3. CASE SendFails
  BY <1>3 DEF SendFails, DueIsNear
<1>4. CASE Sleep
  <2>1. phase = "sleeping" /\ SleepUntil(due) /\ due' = due /\ phase' \in {"idle", "sending"}
    BY <1>4 DEF Sleep
  <2>2. clock' >= due
    BY <2>1, SleepFits, SleepEnds DEF TypesOfTimes
  <2>3. clock' \in Nat
    BY <1>4, StepTypes DEF Next, TypesOfTimes
  <2> QED
    BY <2>1, <2>2, <2>3 DEF DueIsNear, TypesOfTimes
<1>5. CASE UNCHANGED vars
  BY <1>5 DEF vars, DueIsNear
<1> QED
  BY <1>1, <1>2, <1>3, <1>4, <1>5 DEF Next

LEMMA DueStaysNear ==
  ASSUME SleepsFit
  PROVE  Spec => [](TypesOfTimes /\ DueIsNear)
<1>1. Init => DueIsNear
  BY PacingAssumption DEF Init, DueIsNear
<1> QED
  BY <1>1, InitTypes, StepTypes, StepDueIsNear, PTL DEF Spec

\* "SleepUntil" (time.cc) is handed a time that lies at most an interval ahead:
\* however late a process is, no pause lasts longer than the interval, as far
\* as the timer is wide enough for it.
THEOREM PausesAreBounded ==
  ASSUME SleepsFit
  PROVE  Spec => PauseBounded
<1>1. ASSUME TypesOfTimes, DueIsNear, [Next]_vars, phase = "sleeping"
      PROVE  clock' <= clock + Interval + Ulp(due) + Max(Delays)
  <2>1. /\ clock \in Nat /\ due \in Nat /\ Interval \in Nat /\ Delays \subseteq Nat
        /\ due <= clock + Interval + Ulp(due)
    BY <1>1, PacingAssumption DEF TypesOfTimes, DueIsNear
  <2>2. PICK u \in Nat : u = Ulp(due)
    BY <2>1, UlpGrows
  <2>3. PICK most \in Nat : most = Max(Delays) /\ \A late \in Delays : late <= most
    <3>1. \E x \in Delays : \A y \in Delays : x >= y
      BY <2>1, PacingAssumption
    <3>2. Max(Delays) \in Delays /\ \A y \in Delays : Max(Delays) >= y
      BY <3>1 DEF Max
    <3>3. PICK most \in Nat : most = Max(Delays)
      BY <2>1, <3>2
    <3>4. \A y \in Delays : y \in Nat /\ most >= y
      BY <2>1, <3>2, <3>3
    <3>5. \A y \in Delays : y <= most
      BY <3>4
    <3> QED
      BY <3>3, <3>5
  <2>4. Sleep \/ UNCHANGED clock
    BY <1>1 DEF Next, CallSendBroadcastPacket, SendPacketChunk, SendFails, vars
  <2>5. CASE UNCHANGED clock
    BY <2>1, <2>2, <2>3, <2>5
  <2>6. CASE Sleep
    <3>1. PICK late \in Delays :
            /\ late \in Nat
            /\ clock' \in Nat
            /\ clock' = clock \/ (clock' <= due + late /\ due > clock)
      BY <1>1, <2>1, <2>6, SleepEnds DEF Sleep
    <3>2. late <= most
      BY <2>3
    <3> QED
      BY <2>1, <2>2, <2>3, <3>1, <3>2
  <2> QED
    BY <2>4, <2>5, <2>6
<1>2. TypesOfTimes /\ DueIsNear /\ [Next]_vars
        => [phase = "sleeping" => clock' <= clock + Interval + Ulp(due) + Max(Delays)]_vars
  BY <1>1
<1>3. Spec => [](TypesOfTimes /\ DueIsNear)
  BY DueStaysNear
<1> QED
  BY <1>2, <1>3, PTL DEF Spec, PauseBounded

-----------------------------------------------------------------------------
(* The average interval.                                                   *)

\* Time t lies n intervals behind the first transmission, within the precision
\* of a float at t.
IntervalsPassed(t, n) == t - sent_at[1] >= n * (Interval - Ulp(t))

\* In a call the due time has kept the interval, before one the clock has.
DueKeepsPace ==
  /\ sent_at = <<>> => phase # "sleeping" /\ (phase = "sending" => due = clock)
  /\ sent_at # <<>> /\ phase \in {"sending", "sleeping"} => IntervalsPassed(due, Len(sent_at))
  /\ sent_at # <<>> /\ phase = "idle" => IntervalsPassed(clock, Len(sent_at))

\* A later time is as many intervals behind, at its own precision.
LEMMA MoreTimePassed ==
  ASSUME NEW s \in Nat, NEW t \in Nat, NEW u \in Nat, NEW n \in Nat, t <= u,
         t - s >= n * (Interval - Ulp(t))
  PROVE  u - s >= n * (Interval - Ulp(u))
<1>1. PICK a \in Nat, b \in Nat : a = Ulp(t) /\ b = Ulp(u) /\ a <= b
  BY UlpGrows
<1>2. PICK e \in Nat : b = a + e
  <2>1. b - a \in Nat /\ b = a + (b - a)
    BY <1>1
  <2> QED
    BY <2>1
<1>3. Interval \in Nat
  BY PacingAssumption
<1>4. PICK x \in Int : x = n * (Interval - a)
  BY <1>3
<1>5. PICK y \in Nat : y = n * e
  OBVIOUS
<1>6. n * (Interval - b) = x - y
  <2>1. Interval - b = (Interval - a) - e
    BY <1>2, <1>3
  <2>2. n * ((Interval - a) - e) = n * (Interval - a) - n * e
    BY <1>3
  <2> QED
    BY <1>4, <1>5, <2>1, <2>2
<1>7. t - s >= x
  BY <1>1, <1>4
<1> QED
  BY <1>1, <1>5, <1>6, <1>7

\* The addition takes the due time one interval further.
LEMMA OneMorePassed ==
  ASSUME NEW s \in Nat, NEW t \in Nat, NEW n \in Nat,
         t - s >= n * (Interval - Ulp(t))
  PROVE  PlusInterval(t) - s >= (n + 1) * (Interval - Ulp(PlusInterval(t)))
<1>1. PICK p \in Nat : p = PlusInterval(t)
  BY SumIsNear
<1>2. PICK a \in Nat, b \in Nat : a = Ulp(t) /\ b = Ulp(p)
  BY UlpGrows
<1>3. a <= b /\ t + Interval <= p + b
  BY <1>1, <1>2, SumIsNear
<1>4. PICK e \in Nat : b = a + e
  <2>1. b - a \in Nat /\ b = a + (b - a)
    BY <1>3
  <2> QED
    BY <2>1
<1>5. Interval \in Nat
  BY PacingAssumption
<1>6. PICK x \in Int : x = n * (Interval - a)
  BY <1>5
<1>7. PICK y \in Nat : y = n * e
  OBVIOUS
<1>8. (n + 1) * (Interval - b) = x - y + Interval - b
  <2>1. Interval - b = (Interval - a) - e
    BY <1>4, <1>5
  <2>2. n * ((Interval - a) - e) = n * (Interval - a) - n * e
    BY <1>5
  <2>3. n * (Interval - b) = x - y
    BY <1>6, <1>7, <2>1, <2>2
  <2>4. (n + 1) * (Interval - b) = n * (Interval - b) + (Interval - b)
    BY <1>5
  <2> QED
    BY <1>5, <2>3, <2>4
<1>9. t - s >= x
  BY <1>2, <1>6
<1>10. p - s >= x - y + Interval - b
  BY <1>3, <1>5, <1>7, <1>9
<1>11. p - s >= (n + 1) * (Interval - b)
  BY <1>8, <1>10
<1> QED
  BY <1>1, <1>2, <1>11

LEMMA StepDueKeepsPace ==
  TypesOfTimes /\ DueIsNear /\ DueIsNear' /\ DueKeepsPace /\ [Next]_vars => DueKeepsPace'
<1> SUFFICES ASSUME TypesOfTimes, DueIsNear, DueIsNear', DueKeepsPace, [Next]_vars
             PROVE  DueKeepsPace'
  OBVIOUS
<1>t. /\ clock \in Nat /\ due \in Nat /\ sent_at \in Seq(Nat)
      /\ clock' \in Nat /\ due' \in Nat /\ sent_at' \in Seq(Nat)
      /\ Len(sent_at) \in Nat
      /\ sent_at # <<>> => sent_at[1] \in Nat
  BY StepTypes, EmptySeq, LenProperties, ElementOfSeq DEF TypesOfTimes
<1>1. CASE CallSendBroadcastPacket
  BY <1>1 DEF CallSendBroadcastPacket, DueKeepsPace, IntervalsPassed
<1>2. CASE SendPacketChunk
  <2> DEFINE n == Len(sent_at)
  <2>1. /\ sent_at' = Append(sent_at, clock)
        /\ due' = PlusInterval(due)
        /\ phase = "sending" /\ phase' = "sleeping"
    BY <1>2 DEF SendPacketChunk
  <2>2. /\ Len(sent_at') = n + 1 /\ sent_at' # <<>>
        /\ sent_at # <<>> => sent_at'[1] = sent_at[1]
        /\ sent_at = <<>> => sent_at'[1] = clock /\ n = 0
    BY <1>t, <2>1, AppendProperties, EmptySeq, LenProperties
  <2>3. CASE sent_at # <<>>
    <3>1. due - sent_at[1] >= n * (Interval - Ulp(due))
      BY <2>1, <2>3 DEF DueKeepsPace, IntervalsPassed
    <3>2. PlusInterval(due) - sent_at[1] >= (n + 1) * (Interval - Ulp(PlusInterval(due)))
      <4>1. sent_at[1] \in Nat /\ n \in Nat
        BY <1>t, <2>3
      <4> HIDE DEF n
      <4> QED
        BY ONLY <1>t, <4>1, <3>1, OneMorePassed
    <3> QED
      BY <2>1, <2>2, <2>3, <3>2 DEF DueKeepsPace, IntervalsPassed
  <2>4. CASE sent_at = <<>>
    <3>1. due = clock
      BY <2>1, <2>4 DEF DueKeepsPace
    <3>2. due - clock >= 0 * (Interval - Ulp(due))
      <4>1. PICK u \in Nat : u = Ulp(due)
        BY <1>t, UlpGrows
      <4>2. 0 * (Interval - u) = 0
        BY PacingAssumption
      <4>3. due - clock = 0
        BY <1>t, <3>1
      <4> QED
        BY <4>1, <4>2, <4>3
    <3>3. PlusInterval(due) - clock >= (0 + 1) * (Interval - Ulp(PlusInterval(due)))
      BY ONLY <1>t, <3>2, OneMorePassed, 0 \in Nat
    <3> QED
      BY <2>1, <2>2, <2>4, <3>3 DEF DueKeepsPace, IntervalsPassed
  <2> QED
    BY <2>3, <2>4
<1>3. CASE SendFails
  BY <1>3 DEF SendFails, DueKeepsPace
<1>4. CASE Sleep
  <2>1. phase = "sleeping" /\ due' = due /\ sent_at' = sent_at /\ phase' \in {"idle", "sending"}
    BY <1>4 DEF Sleep
  <2>2. sent_at # <<>>
    BY <2>1 DEF DueKeepsPace
  <2>3. due - sent_at[1] >= Len(sent_at) * (Interval - Ulp(due))
    BY <2>1, <2>2 DEF DueKeepsPace, IntervalsPassed
  <2>4. ASSUME phase' = "idle"
        PROVE  clock' - sent_at[1] >= Len(sent_at) * (Interval - Ulp(clock'))
    <3>1. due <= clock'
      BY <2>1, <2>4 DEF DueIsNear
    <3>2. sent_at[1] \in Nat /\ Len(sent_at) \in Nat
      BY <1>t, <2>2
    <3> QED
      BY ONLY <1>t, <2>3, <3>1, <3>2, MoreTimePassed
  <2> QED
    BY <2>1, <2>2, <2>3, <2>4 DEF DueKeepsPace, IntervalsPassed
<1>5. CASE UNCHANGED vars
  BY <1>5 DEF vars, DueKeepsPace, IntervalsPassed
<1> QED
  BY <1>1, <1>2, <1>3, <1>4, <1>5 DEF Next

LEMMA StepPaceKept ==
  TypesOfTimes /\ DueIsNear /\ DueKeepsPace /\ PaceKept /\ [Next]_vars => PaceKept'
<1> SUFFICES ASSUME TypesOfTimes, DueIsNear, DueKeepsPace, PaceKept, [Next]_vars
             PROVE  PaceKept'
  OBVIOUS
<1>1. CASE SendPacketChunk
  <2> DEFINE n == Len(sent_at)
  <2>1. /\ clock \in Nat /\ due \in Nat /\ sent_at \in Seq(Nat) /\ n \in Nat
        /\ DOMAIN sent_at = 1..n
    BY LenProperties DEF TypesOfTimes
  <2>2. sent_at' = Append(sent_at, clock) /\ phase = "sending"
    BY <1>1 DEF SendPacketChunk
  <2>3. /\ DOMAIN sent_at' = 1..(n + 1)
        /\ \A i \in 1..n : sent_at'[i] = sent_at[i]
        /\ sent_at'[n + 1] = clock
    BY <2>1, <2>2, AppendProperties, LenProperties
  <2>4. ASSUME NEW i \in 1..n
        PROVE  sent_at'[i] - sent_at'[1] >= (i - 1) * (Interval - Ulp(sent_at'[i]))
    <3>1. 1 \in 1..n
      BY <2>1
    <3>2. sent_at'[i] = sent_at[i] /\ sent_at'[1] = sent_at[1]
      BY <2>3, <3>1
    <3>3. sent_at[i] - sent_at[1] >= (i - 1) * (Interval - Ulp(sent_at[i]))
      BY <2>1 DEF PaceKept
    <3> QED
      BY <3>2, <3>3
  <2>5. CASE n = 0
    <3>1. PICK u \in Nat : u = Ulp(clock)
      BY <2>1, UlpGrows
    <3>2. clock - clock >= (1 - 1) * (Interval - u)
      BY <2>1, PacingAssumption
    <3>3. n + 1 = 1
      BY <2>5
    <3>4. sent_at'[1] = clock /\ DOMAIN sent_at' = 1..1
      BY <2>3, <3>3
    <3>5. \A i \in 1..1 : i = 1
      OBVIOUS
    <3> QED
      BY <3>1, <3>2, <3>4, <3>5 DEF PaceKept
  <2>6. CASE n # 0
    <3>1. 1 \in 1..n /\ sent_at # <<>>
      BY <2>1, <2>6, EmptySeq
    <3>2. sent_at[1] \in Nat
      BY <2>1, <3>1, ElementOfSeq
    <3>3. due - sent_at[1] >= n * (Interval - Ulp(due))
      BY <2>2, <3>1 DEF DueKeepsPace, IntervalsPassed
    <3>4. due <= clock
      BY <2>2 DEF DueIsNear
    <3>5. clock - sent_at[1] >= n * (Interval - Ulp(clock))
      BY ONLY <2>1, <3>2, <3>3, <3>4, MoreTimePassed
    <3>6. (n + 1) - 1 = n
      BY <2>1
    <3>7. sent_at'[n + 1] - sent_at'[1] >= ((n + 1) - 1) * (Interval - Ulp(sent_at'[n + 1]))
      BY ONLY <2>3, <3>1, <3>5, <3>6
    <3>8. \A i \in 1..(n + 1) : i \in 1..n \/ i = n + 1
      BY <2>1
    <3> HIDE DEF n
    <3> QED
      BY <2>3, <2>4, <3>7, <3>8 DEF PaceKept
  <2> QED
    BY <2>5, <2>6
<1>2. CASE UNCHANGED sent_at
  BY <1>2 DEF PaceKept
<1> QED
  BY <1>1, <1>2 DEF Next, CallSendBroadcastPacket, SendFails, Sleep, vars

\* "The interval in seconds between transmissions" (aprs_interface.h:39) is kept
\* on average by any run of calls and transmissions, whatever the clock shows,
\* as long as the timer is wide enough for it.
THEOREM PaceIsKept ==
  ASSUME SleepsFit
  PROVE  Spec => []PaceKept
<1>1. Init => DueKeepsPace /\ PaceKept
  BY DEF Init, DueKeepsPace, PaceKept
<1>2. Spec => [](TypesOfTimes /\ DueIsNear)
  BY DueStaysNear
<1> QED
  BY <1>1, <1>2, StepDueKeepsPace, StepPaceKept, PTL DEF Spec
====
