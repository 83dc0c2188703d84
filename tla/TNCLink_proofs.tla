---------------------------- MODULE TNCLink_proofs ----------------------------
(***************************************************************************)
(* Theorems of TNCLink and of the formats it is built from.  What FlattenSeq *)
(* computes is proved by induction on the number of pieces, for sets of    *)
(* numbers in the place of predicates on them.                             *)
(***************************************************************************)
EXTENDS TNCLink, Chunking_proofs

-----------------------------------------------------------------------------
(* Concatenation of the members of a sequence.                             *)

\* The recursive function in FlattenSeq, for a sequence of n pieces.
IsFlatten(f, seqs, n) ==
  f = [i \in 1..n |-> IF i = 1 THEN seqs[i] ELSE f[i - 1] \o seqs[i]]

LEMMA FlattenExists ==
  ASSUME NEW seqs
  PROVE  \A n \in Nat : \E f : IsFlatten(f, seqs, n)
<1> DEFINE S == {n \in Nat : \E f : IsFlatten(f, seqs, n)}
<1>1. 0 \in S
  <2> DEFINE f == [i \in 1..0 |-> {}]
  <2>1. f = [i \in 1..0 |-> IF i = 1 THEN seqs[i] ELSE f[i - 1] \o seqs[i]]
    OBVIOUS
  <2> QED
    BY <2>1 DEF IsFlatten
<1>2. ASSUME NEW n \in S PROVE n + 1 \in S
  <2>1. PICK f : IsFlatten(f, seqs, n)
    OBVIOUS
  <2> DEFINE last == IF n + 1 = 1 THEN seqs[n + 1] ELSE f[n] \o seqs[n + 1]
             g == [i \in 1..(n + 1) |-> IF i = n + 1 THEN last ELSE f[i]]
  <2>2. \A i \in 1..n : g[i] = f[i]
    OBVIOUS
  <2>3. g[n + 1] = IF n + 1 = 1 THEN seqs[n + 1] ELSE g[n] \o seqs[n + 1]
    BY <2>2
  <2>4. ASSUME NEW i \in 1..n
        PROVE  g[i] = IF i = 1 THEN seqs[i] ELSE g[i - 1] \o seqs[i]
    <3>1. f[i] = IF i = 1 THEN seqs[i] ELSE f[i - 1] \o seqs[i]
      BY <2>1, Zenon DEF IsFlatten
    <3>2. CASE i = 1
      BY <3>1, <3>2, <2>2
    <3>3. CASE i # 1
      <4>1. i - 1 \in 1..n
        BY <3>3
      <4> QED
        BY <3>1, <3>3, <4>1, <2>2
    <3> QED
      BY <3>2, <3>3
  <2> HIDE DEF last
  <2>5. IsFlatten(g, seqs, n + 1)
    <3>1. \A i \in 1..(n + 1) : g[i] = IF i = 1 THEN seqs[i] ELSE g[i - 1] \o seqs[i]
      <4> SUFFICES ASSUME NEW i \in 1..(n + 1)
                   PROVE  g[i] = IF i = 1 THEN seqs[i] ELSE g[i - 1] \o seqs[i]
        OBVIOUS
      <4>1. CASE i \in 1..n
        BY <4>1, <2>4
      <4>2. CASE i = n + 1
        <5>1. i - 1 = n
          BY <4>2
        <5> QED
          BY <4>2, <5>1, <2>3, Zenon
      <4> QED
        BY <4>1, <4>2
    <3>2. g = [i \in 1..(n + 1) |-> g[i]]
      OBVIOUS
    <3> HIDE DEF g
    <3>3. [i \in 1..(n + 1) |-> g[i]]
            = [i \in 1..(n + 1) |-> IF i = 1 THEN seqs[i] ELSE g[i - 1] \o seqs[i]]
      BY <3>1, Zenon
    <3> QED
      BY <3>2, <3>3, Zenon DEF IsFlatten
  <2> QED
    BY <2>5
<1>3. S = Nat
  <2> HIDE DEF S
  <2>1. S \in SUBSET Nat
    BY DEF S
  <2> QED
    BY <1>1, <1>2, <2>1, SetInduction
<1> QED
  BY <1>3

\* FlattenSeq is a function for which the recursion holds.
LEMMA FlattenIs ==
  ASSUME NEW seqs, Len(seqs) \in Nat \ {0}
  PROVE  \E f : IsFlatten(f, seqs, Len(seqs)) /\ FlattenSeq(seqs) = f[Len(seqs)]
<1> DEFINE n == Len(seqs)
           f == CHOOSE g : g = [i \in 1..n |-> IF i = 1 THEN seqs[i] ELSE g[i - 1] \o seqs[i]]
<1>1. \E g : IsFlatten(g, seqs, n)
  BY FlattenExists
<1>2. f = [i \in 1..n |-> IF i = 1 THEN seqs[i] ELSE f[i - 1] \o seqs[i]]
  BY <1>1, Zenon DEF IsFlatten
<1>3. FlattenSeq(seqs) = f[n]
  BY Zenon DEF FlattenSeq
<1> QED
  BY <1>2, <1>3, Zenon DEF IsFlatten

\* pos tells where the first n members of seqs end in their concatenation s.
IsCut(pos, s, seqs, n) ==
  /\ pos \in [0..n -> Nat]
  /\ pos[0] = 0
  /\ pos[n] = Len(s)
  /\ \A i \in 1..n :
       /\ pos[i] = pos[i - 1] + Len(seqs[i])
       /\ pos[i] <= Len(s)
       /\ \A j \in 1..Len(seqs[i]) : s[pos[i - 1] + j] = seqs[i][j]

\* One more member.
LEMMA CutMore ==
  ASSUME NEW S, NEW seqs, NEW m \in Nat, NEW g \in Seq(S), NEW pos, IsCut(pos, g, seqs, m),
         \A i \in 1..(m + 1) : seqs[i] \in Seq(S)
  PROVE  /\ g \o seqs[m + 1] \in Seq(S)
         /\ \E p : IsCut(p, g \o seqs[m + 1], seqs, m + 1)
<1>1. PICK s : s = seqs[m + 1]
  OBVIOUS
<1>2. PICK h : h = g \o seqs[m + 1]
  OBVIOUS
<1>3. s \in Seq(S) /\ Len(s) \in Nat /\ Len(g) \in Nat
  BY <1>1, LenProperties
<1>4. /\ h \in Seq(S)
      /\ Len(h) = Len(g) + Len(s)
      /\ \A i \in 1..(Len(g) + Len(s)) : h[i] = IF i <= Len(g) THEN g[i] ELSE s[i - Len(g)]
  <2>1. h = g \o s
    BY <1>1, <1>2
  <2> QED
    BY ONLY <2>1, <1>3, ConcatProperties
<1>5. Len(h) \in Nat
  BY <1>3, <1>4
<1> DEFINE p == [i \in 0..(m + 1) |-> IF i = m + 1 THEN Len(h) ELSE pos[i]]
<1>6. pos \in [0..m -> Nat] /\ pos[0] = 0 /\ pos[m] = Len(g)
  BY DEF IsCut
<1>7. /\ p \in [0..(m + 1) -> Nat]
      /\ \A i \in 0..m : p[i] = pos[i]
      /\ p[m + 1] = Len(h)
  BY <1>5, <1>6
<1> HIDE DEF p
<1>8. ASSUME NEW i \in 1..(m + 1)
      PROVE  /\ p[i] = p[i - 1] + Len(seqs[i])
             /\ p[i] <= Len(h)
             /\ \A j \in 1..Len(seqs[i]) : h[p[i - 1] + j] = seqs[i][j]
  <2>0. Len(seqs[i]) \in Nat
    BY LenProperties
  <2>1. CASE i \in 1..m
    <3>1. i - 1 \in 0..m /\ i \in 0..m
      BY <2>1
    <3>2. p[i] = pos[i] /\ p[i - 1] = pos[i - 1] /\ pos[i - 1] \in Nat
      BY <3>1, <1>6, <1>7
    <3>3. /\ pos[i] = pos[i - 1] + Len(seqs[i])
          /\ pos[i] <= Len(g)
          /\ \A j \in 1..Len(seqs[i]) : g[pos[i - 1] + j] = seqs[i][j]
      BY <2>1 DEF IsCut
    <3>4. ASSUME NEW j \in 1..Len(seqs[i])
          PROVE  h[pos[i - 1] + j] = seqs[i][j]
      <4>1. PICK a \in Nat : a = pos[i - 1] + j
        BY <2>0, <3>2
      <4>2. a \in 1..(Len(g) + Len(s)) /\ a <= Len(g)
        BY <4>1, <3>3, <3>2, <2>0, <1>3
      <4> QED
        BY <4>1, <4>2, <3>3, <1>4
    <3> QED
      BY <3>2, <3>3, <3>4, <1>3, <1>4, <1>6, <3>1
  <2>2. CASE i = m + 1
    <3>1. i - 1 = m /\ m \in 0..m
      BY <2>2
    <3>2. p[i - 1] = Len(g) /\ p[i] = Len(h) /\ s = seqs[i]
      BY <3>1, <2>2, <1>1, <1>6, <1>7
    <3>3. \A j \in 1..Len(s) : h[Len(g) + j] = s[j]
      <4> SUFFICES ASSUME NEW j \in 1..Len(s) PROVE h[Len(g) + j] = s[j]
        OBVIOUS
      <4>1. /\ Len(g) + j \in 1..(Len(g) + Len(s))
            /\ ~(Len(g) + j <= Len(g))
            /\ (Len(g) + j) - Len(g) = j
        BY <1>3
      <4> QED
        BY <4>1, <1>4
    <3> QED
      BY <3>2, <3>3, <1>4, <1>5
  <2> QED
    BY <2>1, <2>2
<1>9. p[0] = 0
  BY <1>6, <1>7
<1>10. IsCut(p, h, seqs, m + 1)
  BY <1>7, <1>8, <1>9 DEF IsCut
<1> QED
  BY <1>2, <1>4, <1>10

\* Where the members of a sequence stand in their concatenation.
LEMMA FlattenCuts ==
  ASSUME NEW S, NEW seqs \in Seq(Seq(S))
  PROVE  FlattenSeq(seqs) \in Seq(S) /\ \E pos : IsCut(pos, FlattenSeq(seqs), seqs, Len(seqs))
<1>0. Len(seqs) \in Nat /\ \A i \in 1..Len(seqs) : seqs[i] \in Seq(S)
  BY ElementOfSeq, LenProperties
<1> DEFINE none == [i \in 0..0 |-> 0]
<1>e. <<>> \in Seq(S) /\ IsCut(none, <<>>, seqs, 0)
  <2>1. <<>> \in Seq(S) /\ Len(<<>>) = 0
    BY EmptySeq
  <2> QED
    BY <2>1 DEF IsCut
<1> HIDE DEF none
<1>1. CASE Len(seqs) = 0
  <2>1. FlattenSeq(seqs) = <<>>
    <3>1. seqs = <<>>
      BY <1>1, EmptySeq
    <3> QED
      BY <3>1, <1>1, Zenon DEF FlattenSeq
  <2> QED
    BY <2>1, <1>e, <1>1
<1>2. CASE Len(seqs) # 0
  <2>1. PICK n \in Nat \ {0} : n = Len(seqs)
    BY <1>0, <1>2
  <2>2. PICK f : IsFlatten(f, seqs, n) /\ FlattenSeq(seqs) = f[n]
    BY <2>1, FlattenIs
  <2>3. \A i \in 1..n : f[i] = IF i = 1 THEN seqs[i] ELSE f[i - 1] \o seqs[i]
    BY <2>2, Zenon DEF IsFlatten
  <2> DEFINE Fine(k) == f[k] \in Seq(S) /\ \E pos : IsCut(pos, f[k], seqs, k)
             T == {k \in Nat : k = 0 \/ k > n \/ Fine(k)}
  <2>4. 0 \in T
    OBVIOUS
  <2>5. ASSUME NEW k \in T PROVE k + 1 \in T
    <3> SUFFICES ASSUME k + 1 <= n PROVE Fine(k + 1)
      BY <2>1
    <3>1. k + 1 \in 1..n /\ \A i \in 1..(k + 1) : seqs[i] \in Seq(S)
      BY <1>0, <2>1
    <3>2. CASE k = 0
      <4>1. <<>> \o seqs[0 + 1] \in Seq(S) /\ \E p : IsCut(p, <<>> \o seqs[0 + 1], seqs, 0 + 1)
        BY <1>e, <3>1, <3>2, CutMore
      <4>2. f[1] = seqs[1] /\ seqs[1] \in Seq(S)
        BY <2>3, <3>1, <3>2
      <4>3. <<>> \o seqs[1] = seqs[1]
        BY <4>2, ConcatEmptySeq
      <4>4. 0 + 1 = 1
        OBVIOUS
      <4> QED
        BY <4>1, <4>2, <4>3, <4>4, <3>2
    <3>3. CASE k # 0
      <4>1. Fine(k)
        BY <3>1, <3>3
      <4>2. f[k + 1] = f[k] \o seqs[k + 1]
        <5>1. (k + 1) - 1 = k /\ k + 1 # 1
          BY <3>3
        <5> QED
          BY <5>1, <3>1, <2>3
      <4>3. PICK pos : IsCut(pos, f[k], seqs, k)
        BY <4>1
      <4>4. f[k] \o seqs[k + 1] \in Seq(S) /\ \E p : IsCut(p, f[k] \o seqs[k + 1], seqs, k + 1)
        BY <4>1, <4>3, <3>1, CutMore
      <4> QED
        BY <4>2, <4>4
    <3> QED
      BY <3>2, <3>3
  <2>6. T = Nat
    <3>1. T \in SUBSET Nat
      OBVIOUS
    <3> HIDE DEF T
    <3> QED
      BY <2>4, <2>5, <3>1, SetInduction
  <2>7. Fine(n)
    BY <2>1, <2>6
  <2> QED
    BY <2>1, <2>2, <2>7
<1> QED
  BY <1>1, <1>2

-----------------------------------------------------------------------------
(* AX.25 frames, byte by byte.                                             *)

\* A callsign that Send can encode.
Good(c) == c \in CallsignConfig /\ Encodable(c)

\* What Send checks of its arguments.
Sendable(call) ==
  /\ call \in Call
  /\ Len(call.digipeaters) <= 8
  /\ Encodable(call.source) /\ Encodable(call.destination)
  /\ \A i \in DOMAIN call.digipeaters : Encodable(call.digipeaters[i])

Addresses(call) == <<call.destination, call.source>> \o call.digipeaters
AddressCount(call) == Len(call.digipeaters) + 2

LEMMA EncodedCallsign ==
  ASSUME NEW c, Good(c), NEW last \in BOOLEAN
  PROVE  LET e == EncodeAX25Callsign(c, last)
         IN  /\ e \in Seq(Byte)
             /\ Len(e) = 7
             /\ e[7] = SSIDMask + 2 * c.ssid + (IF last THEN 1 ELSE 0)
             /\ \A i \in 1..6 : e[i] = IF i <= Len(c.callsign) THEN (2 * c.callsign[i]) % 256
                                       ELSE 2 * Space
<1> DEFINE e == EncodeAX25Callsign(c, last)
<1>1. /\ c.callsign \in Seq(Byte) /\ c.ssid \in 0..15
      /\ Len(c.callsign) \in 0..6
      /\ \A i \in 1..Len(c.callsign) : c.callsign[i] \in 0..255
  <2>1. c.callsign \in Seq(Byte) /\ c.ssid \in 0..15 /\ Len(c.callsign) <= 6
    BY DEF Good, CallsignConfig, Encodable
  <2>2. Len(c.callsign) \in Nat /\ \A i \in 1..Len(c.callsign) : c.callsign[i] \in Byte
    BY <2>1, ElementOfSeq, LenProperties
  <2>3. \A k \in Nat : k <= 6 => k \in 0..6
    OBVIOUS
  <2> QED
    BY <2>1, <2>2, <2>3, Zenon DEF Byte
<1>2. \A i \in 1..6 : e[i] = IF i <= Len(c.callsign) THEN (2 * c.callsign[i]) % 256 ELSE 2 * Space
  BY DEF EncodeAX25Callsign
<1>3. e[7] = SSIDMask + 2 * c.ssid + (IF last THEN 1 ELSE 0)
  <2>1. e[7] = CASE 7 = 7 -> SSIDMask + 2 * c.ssid + (IF last THEN 1 ELSE 0)
                 [] 7 <= Len(c.callsign) -> (2 * c.callsign[7]) % 256
                 [] OTHER -> 2 * Space
    <3>1. 7 \in 1..7
      OBVIOUS
    <3> QED
      BY <3>1, Zenon DEF EncodeAX25Callsign
  <2>2. ~(7 <= Len(c.callsign))
    BY <1>1
  <2> HIDE DEF e
  <2> QED
    BY <2>1, <2>2
<1>4. DOMAIN e = 1..7 /\ e = [i \in 1..7 |-> e[i]]
  BY DEF EncodeAX25Callsign
<1> HIDE DEF e
<1>5. \A i \in 1..6 : e[i] \in 0..255
  <2> SUFFICES ASSUME NEW i \in 1..6 PROVE e[i] \in 0..255
    OBVIOUS
  <2>1. CASE i <= Len(c.callsign)
    <3>1. i \in 1..Len(c.callsign)
      BY <2>1, <1>1
    <3>2. PICK b \in 0..255 : b = c.callsign[i]
      BY <3>1, <1>1
    <3>3. e[i] = (2 * b) % 256
      BY <3>2, <2>1, <1>2
    <3> QED
      BY ONLY <3>3, b \in 0..255
  <2>2. CASE ~(i <= Len(c.callsign))
    <3>1. e[i] = 64
      BY <2>2, <1>2 DEF Space
    <3> QED
      BY <3>1
  <2> QED
    BY <2>1, <2>2
<1>6. e[7] \in 0..255
  <2>1. PICK n \in 0..15 : n = c.ssid
    BY <1>1
  <2>2. e[7] = 96 + 2 * n \/ e[7] = 96 + 2 * n + 1
    BY <1>3, <2>1 DEF SSIDMask
  <2> QED
    BY <2>2
<1>7. \A i \in 1..7 : e[i] \in Byte
  BY <1>5, <1>6 DEF Byte
<1>8. e \in Seq(Byte) /\ Len(e) = 7
  <2>1. [i \in 1..7 |-> e[i]] \in Seq(Byte)
    BY <1>7, 7 \in Nat, IsASeq
  <2> QED
    BY <2>1, <1>4, LenProperties
<1> QED
  BY <1>2, <1>3, <1>8 DEF e

\* The addresses of a frame are good ones.
LEMMA AddressesOfCall ==
  ASSUME NEW call, Sendable(call)
  PROVE  /\ AddressCount(call) \in 2..10
         /\ Addresses(call) \in Seq(CallsignConfig)
         /\ Len(Addresses(call)) = AddressCount(call)
         /\ \A i \in 1..AddressCount(call) : Good(Addresses(call)[i])
         /\ Addresses(call)[1] = call.destination
         /\ Addresses(call)[2] = call.source
         /\ call.payload \in Seq(Byte)
<1> DEFINE two == <<call.destination, call.source>>
<1>1. /\ call.digipeaters \in Seq(CallsignConfig)
      /\ Good(call.destination) /\ Good(call.source)
      /\ call.payload \in Seq(Byte)
  BY DEF Sendable, Call, Good
<1>2. PICK d : d = call.digipeaters
  OBVIOUS
<1>3. d \in Seq(CallsignConfig) /\ Len(d) \in 0..8 /\ \A i \in 1..Len(d) : Good(d[i])
  <2>1. Len(d) \in Nat /\ DOMAIN d = 1..Len(d) /\ \A i \in 1..Len(d) : d[i] \in CallsignConfig
    BY <1>1, <1>2, ElementOfSeq, LenProperties
  <2> QED
    <3>1. \A i \in 1..Len(d) : Encodable(d[i])
      BY <2>1, <1>2, Zenon DEF Sendable
    <3>2. Len(d) <= 8
      BY <1>2 DEF Sendable
    <3>3. \A k \in Nat : k <= 8 => k \in 0..8
      OBVIOUS
    <3> QED
      BY <2>1, <3>1, <3>2, <3>3, <1>1, <1>2, Zenon DEF Good
<1>4. /\ two \in Seq(CallsignConfig) /\ Len(two) = 2
      /\ two[1] = call.destination /\ two[2] = call.source
  BY <1>1 DEF Good
<1> HIDE DEF two
<1>5. /\ two \o d \in Seq(CallsignConfig)
      /\ Len(two \o d) = Len(two) + Len(d)
      /\ \A i \in 1..(Len(two) + Len(d)) :
           (two \o d)[i] = IF i <= Len(two) THEN two[i] ELSE d[i - Len(two)]
  BY ONLY <1>3, <1>4, ConcatProperties
<1>6. Addresses(call) = two \o d
  BY <1>2 DEF Addresses, two
<1>7. PICK a : a = two \o d
  OBVIOUS
<1>8. \A i \in 1..(2 + Len(d)) : a[i] = IF i <= 2 THEN two[i] ELSE d[i - 2]
  BY <1>4, <1>5, <1>7
<1>9. a[1] = call.destination /\ a[2] = call.source
  BY <1>8, <1>3, <1>4
<1>10. \A i \in 1..(2 + Len(d)) : Good(a[i])
  <2> SUFFICES ASSUME NEW i \in 1..(2 + Len(d)) PROVE Good(a[i])
    OBVIOUS
  <2>1. i = 1 \/ i = 2 \/ (~(i <= 2) /\ i - 2 \in 1..Len(d))
    BY <1>3
  <2> QED
    BY <2>1, <1>1, <1>3, <1>8, <1>9
<1> QED
  <2>1. a = Addresses(call)
    BY <1>6, <1>7
  <2>2. a \in Seq(CallsignConfig) /\ Len(a) = 2 + Len(d)
    BY <1>4, <1>5, <1>7
  <2>3. PICK n \in 2..10 : n = 2 + Len(d)
    <3>1. \A k \in 0..8 : 2 + k \in 2..10
      OBVIOUS
    <3> QED
      BY <1>3, <3>1, Zenon
  <2>4. AddressCount(call) = n
    BY <1>2, <2>3 DEF AddressCount
  <2>5. \A i \in 1..n : Good(a[i])
    BY <1>10, <2>3
  <2> QED
    BY ONLY <1>1, <1>9, <2>1, <2>2, <2>3, <2>4, <2>5, Zenon

\* Pieces of seven bytes stand seven apart.
LEMMA CutsOfSeven ==
  ASSUME NEW S, NEW seqs, NEW n \in Nat, NEW s \in Seq(S), NEW pos, IsCut(pos, s, seqs, n),
         \A i \in 1..n : Len(seqs[i]) = 7
  PROVE  /\ Len(s) = 7 * n
         /\ \A i \in 1..n : \A j \in 1..7 : s[7 * (i - 1) + j] = seqs[i][j]
<1> DEFINE T == {k \in Nat : k <= n => pos[k] = 7 * k}
<1>0. /\ pos \in [0..n -> Nat] /\ pos[0] = 0 /\ pos[n] = Len(s)
      /\ \A i \in 1..n : pos[i] = pos[i - 1] + 7
      /\ \A i \in 1..n : \A j \in 1..7 : s[pos[i - 1] + j] = seqs[i][j]
  BY DEF IsCut
<1>1. 0 \in T
  BY <1>0
<1>2. ASSUME NEW k \in T PROVE k + 1 \in T
  <2> SUFFICES ASSUME k + 1 <= n PROVE pos[k + 1] = 7 * (k + 1)
    OBVIOUS
  <2>1. k + 1 \in 1..n /\ (k + 1) - 1 = k /\ pos[k] = 7 * k
    OBVIOUS
  <2>2. pos[k + 1] = pos[k] + 7
    BY <2>1, <1>0
  <2> QED
    BY <2>1, <2>2
<1>3. T = Nat
  <2>1. T \in SUBSET Nat
    OBVIOUS
  <2> HIDE DEF T
  <2> QED
    BY <1>1, <1>2, <2>1, SetInduction
<1>4. \A k \in 0..n : pos[k] = 7 * k
  BY <1>3
<1>5. \A i \in 1..n : \A j \in 1..7 : s[7 * (i - 1) + j] = seqs[i][j]
  <2> SUFFICES ASSUME NEW i \in 1..n, NEW j \in 1..7 PROVE s[7 * (i - 1) + j] = seqs[i][j]
    OBVIOUS
  <2>1. i - 1 \in 0..n
    OBVIOUS
  <2> QED
    BY <2>1, <1>0, <1>4
<1> QED
  BY <1>0, <1>4, <1>5

\* f is the frame of n addresses a with a payload p.
IsFrame(f, a, n, p) ==
  /\ f \in Seq(Byte)
  /\ Len(f) = 7 * n + 2 + Len(p)
  /\ \A i \in 1..n : \A j \in 1..7 :
       f[7 * (i - 1) + j] = EncodeAX25Callsign(a[i], i > 1 /\ i = n)[j]
  /\ f[7 * n + 1] = 3
  /\ f[7 * n + 2] = 240
  /\ \A j \in 1..Len(p) : f[7 * n + 2 + j] = p[j]

\* What Send hands to the TNC.
LEMMA FrameBytes ==
  ASSUME NEW call, Sendable(call)
  PROVE  IsFrame(EncodeAX25Frame(call), Addresses(call), AddressCount(call), call.payload)
<1>1. PICK a : a = Addresses(call)
  OBVIOUS
<1>2. PICK n \in 2..10 : n = AddressCount(call)
  BY AddressesOfCall
<1>3. a \in Seq(CallsignConfig) /\ Len(a) = n /\ DOMAIN a = 1..n /\ \A i \in 1..n : Good(a[i])
  <2>1. /\ Addresses(call) \in Seq(CallsignConfig)
        /\ Len(Addresses(call)) = AddressCount(call)
        /\ \A i \in 1..AddressCount(call) : Good(Addresses(call)[i])
    BY AddressesOfCall
  <2>2. a \in Seq(CallsignConfig) /\ Len(a) = n /\ \A i \in 1..n : Good(a[i])
    BY <2>1, <1>1, <1>2, Zenon
  <2> QED
    BY <2>2, LenProperties
<1> DEFINE e == [i \in DOMAIN a |-> EncodeAX25Callsign(a[i], i > 1 /\ i = Len(a))]
<1>4. e = [i \in 1..n |-> e[i]] /\ \A i \in 1..n : e[i] = EncodeAX25Callsign(a[i], i > 1 /\ i = n)
  BY <1>3, Zenon
<1>5. \A i \in 1..n : e[i] \in Seq(Byte) /\ Len(e[i]) = 7
  <2> SUFFICES ASSUME NEW i \in 1..n PROVE e[i] \in Seq(Byte) /\ Len(e[i]) = 7
    OBVIOUS
  <2>1. PICK last \in BOOLEAN : last = (i > 1 /\ i = n)
    OBVIOUS
  <2>2. e[i] = EncodeAX25Callsign(a[i], last)
    BY <1>4, <2>1, Zenon
  <2>3. LET x == EncodeAX25Callsign(a[i], last) IN x \in Seq(Byte) /\ Len(x) = 7
    BY <1>3, EncodedCallsign, Zenon
  <2> QED
    BY <2>2, <2>3, Zenon
<1> HIDE DEF e
<1>6. e \in Seq(Seq(Byte)) /\ Len(e) = n
  <2>1. [i \in 1..n |-> e[i]] \in Seq(Seq(Byte))
    BY <1>5, n \in Nat, IsASeq
  <2>2. e \in Seq(Seq(Byte)) /\ DOMAIN e = 1..n
    BY <2>1, <1>4, Zenon
  <2> QED
    BY <2>2, LenProperties
<1>7. PICK h : h = FlattenSeq(e)
  OBVIOUS
<1>8. h \in Seq(Byte) /\ \E pos : IsCut(pos, h, e, n)
  <2>1. FlattenSeq(e) \in Seq(Byte) /\ \E pos : IsCut(pos, FlattenSeq(e), e, Len(e))
    BY ONLY <1>6, FlattenCuts
  <2> QED
    BY <2>1, <1>6, <1>7, Zenon
<1>9. /\ Len(h) = 7 * n
      /\ \A i \in 1..n : \A j \in 1..7 : h[7 * (i - 1) + j] = e[i][j]
  <2>1. PICK pos : IsCut(pos, h, e, n)
    BY <1>8
  <2>2. \A i \in 1..n : Len(e[i]) = 7
    BY <1>5
  <2> QED
    <3>1. h \in Seq(Byte) /\ n \in Nat
      BY <1>8
    <3> QED
      BY ONLY <3>1, <2>1, <2>2, CutsOfSeven
<1>10. PICK t : t = <<3, 240>>
  OBVIOUS
<1>11. t \in Seq(Byte) /\ Len(t) = 2 /\ t[1] = 3 /\ t[2] = 240
  BY <1>10 DEF Byte
<1>12. PICK g : g = h \o t
  OBVIOUS
<1>13. /\ g \in Seq(Byte)
       /\ Len(g) = 7 * n + 2
       /\ \A i \in 1..(7 * n + 2) : g[i] = IF i <= 7 * n THEN h[i] ELSE t[i - 7 * n]
  <2>1. /\ g \in Seq(Byte)
        /\ Len(g) = Len(h) + Len(t)
        /\ \A i \in 1..(Len(h) + Len(t)) : g[i] = IF i <= Len(h) THEN h[i] ELSE t[i - Len(h)]
    <3>1. h \in Seq(Byte) /\ t \in Seq(Byte)
      BY <1>8, <1>11
    <3> QED
      BY ONLY <3>1, <1>12, ConcatProperties
  <2> QED
    BY <2>1, <1>9, <1>11
<1>14. PICK p : p = call.payload
  OBVIOUS
<1>15. p \in Seq(Byte) /\ Len(p) \in Nat
  <2>1. call.payload \in Seq(Byte)
    BY AddressesOfCall
  <2> QED
    BY <2>1, <1>14, LenProperties
<1>16. PICK f : f = g \o p
  OBVIOUS
<1>17. /\ f \in Seq(Byte)
       /\ Len(f) = 7 * n + 2 + Len(p)
       /\ \A i \in 1..(7 * n + 2 + Len(p)) :
            f[i] = IF i <= 7 * n + 2 THEN g[i] ELSE p[i - (7 * n + 2)]
  <2>1. /\ f \in Seq(Byte)
        /\ Len(f) = Len(g) + Len(p)
        /\ \A i \in 1..(Len(g) + Len(p)) : f[i] = IF i <= Len(g) THEN g[i] ELSE p[i - Len(g)]
    BY ONLY <1>13, <1>15, <1>16, ConcatProperties
  <2> QED
    BY <2>1, <1>13, <1>15
<1>18. f = EncodeAX25Frame(call)
  <2>1. EncodeAX25Frame(call) = FlattenSeq(e) \o <<3, 240>> \o call.payload
    BY <1>1, Zenon DEF EncodeAX25Frame, Addresses, e
  <2> QED
    BY <2>1, <1>7, <1>10, <1>12, <1>14, <1>16, Zenon
<1>19. \A i \in 1..n : \A j \in 1..7 :
         f[7 * (i - 1) + j] = EncodeAX25Callsign(a[i], i > 1 /\ i = n)[j]
  <2> SUFFICES ASSUME NEW i \in 1..n, NEW j \in 1..7
               PROVE  f[7 * (i - 1) + j] = EncodeAX25Callsign(a[i], i > 1 /\ i = n)[j]
    OBVIOUS
  <2>1. PICK k \in Nat : k = 7 * (i - 1) + j
    OBVIOUS
  <2>2. k >= 1 /\ k <= 7 * n
    BY <2>1
  <2>3. f[k] = h[k]
    BY <2>2, <1>13, <1>15, <1>17, SMTT(30)
  <2>4. h[k] = e[i][j]
    BY <2>1, <1>9
  <2> QED
    BY <2>1, <2>3, <2>4, <1>4, Zenon
<1>20. f[7 * n + 1] = 3 /\ f[7 * n + 2] = 240
  <2>1. /\ 7 * n + 1 \in 1..(7 * n + 2) /\ 7 * n + 2 \in 1..(7 * n + 2)
        /\ (7 * n + 1) - 7 * n = 1 /\ (7 * n + 2) - 7 * n = 2
        /\ ~(7 * n + 1 <= 7 * n) /\ ~(7 * n + 2 <= 7 * n)
    OBVIOUS
  <2>2. g[7 * n + 1] = 3 /\ g[7 * n + 2] = 240
    BY <2>1, <1>13, <1>11
  <2> QED
    BY <2>1, <2>2, <1>17, <1>15
<1>21. \A j \in 1..Len(p) : f[7 * n + 2 + j] = p[j]
  <2> SUFFICES ASSUME NEW j \in 1..Len(p) PROVE f[7 * n + 2 + j] = p[j]
    OBVIOUS
  <2>1. PICK k \in Nat : k = 7 * n + 2 + j
    BY <1>15
  <2>2. k \in 1..(7 * n + 2 + Len(p)) /\ ~(k <= 7 * n + 2) /\ k - (7 * n + 2) = j
    BY <2>1, <1>15
  <2> QED
    BY <2>1, <2>2, <1>17
<1> HIDE DEF e
<1> QED
  BY <1>1, <1>2, <1>14, <1>17, <1>18, <1>19, <1>20, <1>21, ZenonT(60) DEF IsFrame

-----------------------------------------------------------------------------
(* What Receive makes of a frame of Send.                                  *)

\* The callsigns that survive: their characters have seven bits and are no
\* spaces, and the SSID lacks the bit that the mask of the decoder drops.
Kept(c) ==
  /\ \A i \in DOMAIN c.callsign : c.callsign[i] < 128 /\ c.callsign[i] # Space
  /\ c.ssid % 8 < 4

LEMMA SevenBits == \A n \in 0..255 : n < 128 => n \in 0..127
OBVIOUS

LEMMA SSIDKept ==
  ASSUME NEW n \in 0..15, n % 8 < 4, NEW l \in 0..1
  PROVE  SSID(96 + 2 * n + l) = n
<1>1. PICK q \in 0..1, r \in 0..3 : n = 8 * q + r
  <2>1. n \div 8 \in 0..1 /\ n % 8 \in 0..3 /\ n = 8 * (n \div 8) + (n % 8)
    OBVIOUS
  <2> QED
    BY <2>1
<1>2. PICK b \in Nat : b = 96 + 2 * n + l
  OBVIOUS
<1>3. b % 8 = 2 * r + l
  BY <1>1, <1>2
<1>4. (2 * r + l) \div 2 = r
  OBVIOUS
<1>5. b \div 16 = 6 + q
  BY <1>1, <1>2
<1>6. (6 + q) % 2 = q
  OBVIOUS
<1> QED
  BY <1>1, <1>2, <1>3, <1>4, <1>5, <1>6 DEF SSID

\* A decoded callsign is the encoded one.
LEMMA CallsignSurvives ==
  ASSUME NEW f \in Seq(Byte), NEW k \in Nat, 7 * k + 7 <= Len(f),
         NEW c, Good(c), Kept(c), NEW last \in BOOLEAN,
         \A j \in 1..7 : f[7 * k + j] = EncodeAX25Callsign(c, last)[j]
  PROVE  DecodeAX25Callsign(f, k) = c
<1> DEFINE e == EncodeAX25Callsign(c, last)
<1>1. /\ Len(e) = 7
      /\ e[7] = SSIDMask + 2 * c.ssid + (IF last THEN 1 ELSE 0)
      /\ \A i \in 1..6 : e[i] = IF i <= Len(c.callsign) THEN (2 * c.callsign[i]) % 256
                                ELSE 2 * Space
  BY EncodedCallsign
<1> HIDE DEF e
<1>2. \A j \in 1..7 : f[7 * k + j] = e[j]
  BY DEF e
<1>3. PICK a : a = Address(f, k)
  OBVIOUS
<1>4. \A j \in 1..7 : a[j] = e[j]
  <2>1. PICK m \in Nat : m = 7 * k
    OBVIOUS
  <2>2. Len(f) \in Nat
    BY LenProperties
  <2>3. a = SubSeq(f, m + 1, m + 7)
    BY <1>3, <2>1 DEF Address
  <2>4. m + 1 \in 1..(Len(f) + 1) /\ m + 7 \in m..Len(f) /\ m + 1 <= (m + 7) + 1
    BY <2>1, <2>2
  <2>5. \A i \in 1..((m + 7) - (m + 1) + 1) : SubSeq(f, m + 1, m + 7)[i] = f[(m + 1) + i - 1]
    BY <2>2, <2>4, SubSeqProperties
  <2> SUFFICES ASSUME NEW j \in 1..7 PROVE a[j] = e[j]
    OBVIOUS
  <2>6. j \in 1..((m + 7) - (m + 1) + 1) /\ (m + 1) + j - 1 = m + j
    OBVIOUS
  <2> QED
    BY <2>1, <2>3, <2>5, <2>6, <1>2
<1>5. PICK s : s = c.callsign
  OBVIOUS
<1>6. PICK m \in Nat : m = Len(s) /\ m <= 6
  <2>1. Len(s) \in Nat /\ Len(s) <= 6
    BY <1>5, LenProperties DEF Good, CallsignConfig, Encodable
  <2> QED
    BY <2>1
<1>6a. s \in Seq(Byte) /\ c.ssid \in 0..15 /\ DOMAIN s = 1..m
  <2>1. s \in Seq(Byte) /\ c.ssid \in 0..15
    BY <1>5 DEF Good, CallsignConfig, Encodable
  <2> QED
    BY <2>1, <1>6, LenProperties
<1>6b. \A i \in 1..m : s[i] \in 0..127 /\ s[i] # 32
  <2> SUFFICES ASSUME NEW i \in 1..m PROVE s[i] \in 0..127 /\ s[i] # 32
    OBVIOUS
  <2>1. PICK b \in Byte : b = s[i]
    BY <1>6, <1>6a, ElementOfSeq
  <2>2. b < 128 /\ b # 32
    BY <2>1, <1>5, <1>6a DEF Kept, Space
  <2>3. b \in 0..127
    <3>2. b \in 0..255
      BY <2>1, Zenon DEF Byte
    <3> QED
      BY <2>2, <3>2, SevenBits, ZenonT(60)
  <2> QED
    BY <2>1, <2>2, <2>3
<1> DEFINE chars == [i \in 1..6 |-> Address(f, k)[i] \div 2]
           free == {n \in 0..6 : \A i \in 1..n : chars[i] # Space}
<1>7a. DOMAIN chars = 1..6 /\ chars = [i \in 1..6 |-> chars[i]]
  OBVIOUS
<1>7. ASSUME NEW i \in 1..6
      PROVE  /\ chars[i] \in Int
             /\ chars[i] = IF i <= m THEN s[i] ELSE 32
  <2>1. chars[i] = e[i] \div 2
    BY <1>3, <1>4, SMTT(30)
  <2> HIDE DEF chars
  <2>2. CASE i <= m
    <3>1. PICK b \in 0..127 : b = s[i]
      <4>1. i \in 1..m
        BY <1>6, <2>2
      <4> QED
        BY <1>6b, <4>1
    <3>2. e[i] = (2 * b) % 256
      BY <1>1, <1>5, <1>6, <2>2, <3>1
    <3>3. PICK d \in Nat : d = 2 * b
      OBVIOUS
    <3>4. d % 256 = d /\ d \div 2 = b
      <4>1. \A n \in 0..127 : (2 * n) % 256 = 2 * n
        BY SMTT(30)
      <4>2. \A n \in 0..127 : (2 * n) \div 2 = n
        OBVIOUS
      <4> QED
        BY <3>1, <3>3, <4>1, <4>2, Zenon
    <3>5. chars[i] = b
      BY <2>1, <3>2, <3>3, <3>4
    <3> QED
      BY <2>2, <3>1, <3>5
  <2>3. CASE ~(i <= m)
    <3>1. e[i] = 2 * 32
      BY <1>1, <1>5, <1>6, <2>3, Zenon DEF Space
    <3>2. (2 * 32) \div 2 = 32
      OBVIOUS
    <3>3. chars[i] = 32
      BY <2>1, <3>1, <3>2, Zenon
    <3> QED
      BY <2>3, <3>3
  <2> QED
    BY <2>2, <2>3
<1>8. chars \in Seq(Int) /\ Len(chars) = 6
  <2> HIDE DEF chars
  <2>1. [i \in 1..6 |-> chars[i]] \in Seq(Int)
    BY <1>7, 6 \in Nat, IsASeq
  <2>2. chars \in Seq(Int) /\ DOMAIN chars = 1..6
    BY <1>7a, <2>1, Zenon
  <2> QED
    BY <2>2, LenProperties
<1> HIDE DEF chars
<1>9. m \in free /\ \A n \in free : n \in Nat /\ n <= m
  <2>1. \A i \in 1..m : i \in 1..6 /\ i <= m
    BY <1>6
  <2>2. \A i \in 1..m : chars[i] # 32
    BY <1>6b, <1>7, <2>1
  <2>3. ASSUME NEW n \in free, ~(n <= m) PROVE FALSE
    <3>1. PICK i \in Nat : i = m + 1
      OBVIOUS
    <3>2. n \in 0..6
      OBVIOUS
    <3>3. i \in 1..n /\ i \in 1..6 /\ ~(i <= m)
      BY <2>3, <3>1, <3>2
    <3>4. chars[i] = 32
      BY <1>7, <3>3
    <3> QED
      BY <3>3, <3>4 DEF Space
  <2>4. m \in 0..6 /\ \A n \in 0..6 : n \in Nat
    BY ONLY <1>6, SMTT(30)
  <2> QED
    BY <2>2, <2>3, <2>4 DEF Space
<1> HIDE DEF free
<1>10. Max(free) = m
  <2>1. \E x \in free : \A y \in free : x >= y
    BY <1>9
  <2>2. PICK x : x = Max(free)
    OBVIOUS
  <2>3. x \in free /\ \A y \in free : x >= y
    BY <2>1, <2>2, Zenon DEF Max
  <2>4. x \in Nat /\ x <= m /\ x >= m
    BY <2>3, <1>9
  <2>5. x = m
    BY ONLY <2>4, m \in Nat
  <2> QED
    BY <2>2, <2>5
<1>11. SubSeq(chars, 1, m) = s
  <2>0. \A i \in 1..m : chars[i] \in Int
    <3>1. \A i \in 1..m : i \in 1..6
      BY ONLY <1>6
    <3> QED
      BY <1>7, <3>1
  <2>1. PICK u : u = SubSeq(chars, 1, m)
    OBVIOUS
  <2>2. /\ u \in Seq(Int)
        /\ Len(u) = m
        /\ \A i \in 1..m : u[i] = chars[i]
    <3>1. /\ SubSeq(chars, 1, m) \in Seq(Int)
          /\ Len(SubSeq(chars, 1, m)) = IF 1 <= m THEN m - 1 + 1 ELSE 0
          /\ \A i \in 1..(m - 1 + 1) : SubSeq(chars, 1, m)[i] = chars[1 + i - 1]
      BY ONLY <2>0, <1>6, 1 \in Int, m \in Int, SubSeqProperties
    <3>2. /\ u \in Seq(Int)
          /\ Len(u) = IF 1 <= m THEN m - 1 + 1 ELSE 0
          /\ \A i \in 1..(m - 1 + 1) : u[i] = chars[1 + i - 1]
      BY <3>1, <2>1, Zenon
    <3> QED
      BY <3>2, <1>6
  <2>3. \A i \in 1..m : u[i] = s[i]
    <3>1. \A i \in 1..m : i \in 1..6 /\ i <= m
      BY <1>6
    <3> QED
      BY <1>7, <2>2, <3>1
  <2>4. s \in Seq(Byte) /\ Len(s) = m
    BY <1>6, <1>6a
  <2>5. u = s
    BY ONLY <2>2, <2>3, <2>4, SeqEqual
  <2> QED
    BY <2>1, <2>5
<1>12. SSID(Address(f, k)[7]) = c.ssid
  <2>1. PICK l \in 0..1 : l = IF last THEN 1 ELSE 0
    OBVIOUS
  <2>2. PICK n \in 0..15 : n = c.ssid
    BY <1>6a
  <2>3. 7 \in 1..7
    OBVIOUS
  <2>4. Address(f, k)[7] = 96 + 2 * n + l
    BY <1>1, <1>3, <1>4, <2>1, <2>2, <2>3, Zenon DEF SSIDMask
  <2>5. n % 8 < 4
    BY <2>2 DEF Kept
  <2>6. SSID(96 + 2 * n + l) = n
    BY <2>5, SSIDKept
  <2> QED
    BY <2>2, <2>4, <2>6
<1>13. DecodeAX25Callsign(f, k) = [callsign |-> s, ssid |-> c.ssid]
  BY <1>10, <1>11, <1>12, Zenon DEF DecodeAX25Callsign, chars, free
<1>14. c = [callsign |-> s, ssid |-> c.ssid]
  BY <1>5 DEF Good, CallsignConfig
<1> QED
  BY <1>13, <1>14

\* The seventh byte of an address has its two bits, and the lowest for the last.
LEMMA SeventhByte ==
  ASSUME NEW call, Sendable(call), NEW i \in 1..AddressCount(call)
  PROVE  LET f == EncodeAX25Frame(call)
         IN  /\ 7 * i <= Len(f)
             /\ f[7 * i] \in 96..127
             /\ f[7 * i] % 2 = IF i > 1 /\ i = AddressCount(call) THEN 1 ELSE 0
<1>1. PICK n \in 2..10 : n = AddressCount(call)
  BY AddressesOfCall
<1>2. PICK f : f = EncodeAX25Frame(call)
  OBVIOUS
<1>3. PICK c : c = Addresses(call)[i]
  OBVIOUS
<1>4. Good(c) /\ c.ssid \in 0..15
  <2>1. Good(c)
    BY <1>3, AddressesOfCall, Zenon
  <2> QED
    BY <2>1 DEF Good, Encodable
<1>5. PICK last \in BOOLEAN : last = (i > 1 /\ i = n)
  OBVIOUS
<1>6. /\ Len(f) = 7 * n + 2 + Len(call.payload)
      /\ \A j \in 1..7 : f[7 * (i - 1) + j] = EncodeAX25Callsign(c, last)[j]
  <2>1. IsFrame(f, Addresses(call), n, call.payload)
    BY <1>1, <1>2, FrameBytes, Zenon
  <2>2. /\ Len(f) = 7 * n + 2 + Len(call.payload)
        /\ \A k \in 1..n : \A j \in 1..7 :
             f[7 * (k - 1) + j] = EncodeAX25Callsign(Addresses(call)[k], k > 1 /\ k = n)[j]
    BY <2>1, Zenon DEF IsFrame
  <2>3. i \in 1..n
    BY <1>1
  <2> QED
    BY <2>2, <2>3, <1>3, <1>5, Zenon
<1>7. EncodeAX25Callsign(c, last)[7] = SSIDMask + 2 * c.ssid + (IF last THEN 1 ELSE 0)
  BY <1>4, EncodedCallsign
<1>8. PICK l \in 0..1 : l = IF last THEN 1 ELSE 0
  OBVIOUS
<1>9. PICK s \in 0..15 : s = c.ssid
  BY <1>4
<1>10. f[7 * i] = 96 + 2 * s + l
  <2>1. 7 \in 1..7 /\ 7 * (i - 1) + 7 = 7 * i
    BY ONLY i \in 1..AddressCount(call), <1>1
  <2> QED
    BY <2>1, <1>6, <1>7, <1>8, <1>9, Zenon DEF SSIDMask
<1>11. 96 + 2 * s + l \in 96..127 /\ (96 + 2 * s + l) % 2 = l
  BY ONLY <1>8, <1>9
<1>12. Len(call.payload) \in Nat
  <2>1. call.payload \in Seq(Byte)
    BY AddressesOfCall
  <2> QED
    BY <2>1, LenProperties
<1>13. 7 * i <= 7 * n + 2 + Len(call.payload)
  BY ONLY <1>1, <1>12, i \in 1..AddressCount(call)
<1> QED
  BY <1>1, <1>2, <1>5, <1>6, <1>8, <1>10, <1>11, <1>13, Zenon

\* The loop of Receive ends at the last address.
LEMMA DigipeatersCounted ==
  ASSUME NEW call, Sendable(call)
  PROVE  DigipeaterCount(EncodeAX25Frame(call)) = Len(call.digipeaters)
<1>1. PICK f : f = EncodeAX25Frame(call)
  OBVIOUS
<1>2. PICK d \in 0..8 : d = Len(call.digipeaters)
  <2>1. Len(call.digipeaters) \in Nat
    <3>1. call.digipeaters \in Seq(CallsignConfig)
      BY DEF Sendable, Call
    <3> QED
      BY <3>1, LenProperties
  <2>2. PICK l \in Nat : l = Len(call.digipeaters)
    BY <2>1
  <2>3. l <= 8
    BY <2>2 DEF Sendable
  <2>4. l \in 0..8
    BY ONLY l \in Nat, <2>3
  <2> QED
    BY <2>2, <2>4
<1>3. AddressCount(call) = d + 2
  BY <1>2 DEF AddressCount
<1>4. \A i \in 1..(d + 2) : /\ 7 * i <= Len(f)
                            /\ f[7 * i] % 2 = IF i > 1 /\ i = d + 2 THEN 1 ELSE 0
  BY <1>1, <1>3, SeventhByte, Zenon
<1> DEFINE ends == {k \in 1..9 : IsLast(f, k)}
<1>5. d + 1 \in ends
  <2>1. d + 1 \in 1..9 /\ d + 2 \in 1..(d + 2) /\ d + 2 > 1 /\ (d + 1) + 1 = d + 2
    BY ONLY d \in 0..8
  <2>2. 7 * (d + 2) <= Len(f) /\ f[7 * (d + 2)] % 2 = 1
    BY <2>1, <1>4, Zenon
  <2> QED
    BY <2>1, <2>2, Zenon DEF IsLast
<1>6. \A k \in ends : k \in Nat /\ d + 1 <= k
  <2> SUFFICES ASSUME NEW k \in 1..9, IsLast(f, k), ~(d + 1 <= k) PROVE FALSE
    OBVIOUS
  <2>1. k + 1 \in 1..(d + 2) /\ k + 1 # d + 2
    BY ONLY <1>2, k \in 1..9, ~(d + 1 <= k)
  <2>2. f[7 * (k + 1)] % 2 = 0
    BY <2>1, <1>4, Zenon
  <2>3. f[7 * (k + 1)] % 2 = 1
    BY Zenon DEF IsLast
  <2> QED
    BY <2>2, <2>3
<1> HIDE DEF ends
<1>7. Min(ends) = d + 1
  <2>1. \E x \in ends : \A y \in ends : x =< y
    BY <1>5, <1>6
  <2>2. PICK x : x = Min(ends)
    OBVIOUS
  <2>3. x \in ends /\ \A y \in ends : x =< y
    BY <2>1, <2>2, Zenon DEF Min
  <2>4. x \in Nat /\ x <= d + 1 /\ d + 1 <= x
    BY <2>3, <1>5, <1>6
  <2>5. x = d + 1
    BY ONLY <2>4, <1>2
  <2> QED
    BY <2>2, <2>5
<1>8. ends # {}
  BY <1>5
<1>9. DigipeaterCount(f) = Min(ends) - 1
  BY <1>8, Zenon DEF DigipeaterCount, ends
<1>10. (d + 1) - 1 = d
  BY ONLY <1>2
<1> QED
  BY <1>1, <1>2, <1>7, <1>9, <1>10, Zenon

\* Receive refuses a frame whose eighth digipeater is its last address.
LEMMA EighthRefused ==
  ASSUME NEW call, Sendable(call), Len(call.digipeaters) = 8
  PROVE  ~IsReceived(EncodeAX25Frame(call))
<1>1. PICK f : f = EncodeAX25Frame(call)
  OBVIOUS
<1>2. AddressCount(call) = 10
  BY DEF AddressCount
<1>3. 10 \in 1..10 /\ 10 > 1 /\ 9 + 1 = 10
  OBVIOUS
<1>4. 7 * 10 <= Len(f) /\ f[7 * 10] % 2 = 1
  BY <1>1, <1>2, <1>3, SeventhByte, Zenon
<1>5. IsLast(f, 9)
  BY <1>3, <1>4, Zenon DEF IsLast
<1>6. DigipeaterCount(f) = 8
  BY <1>1, DigipeatersCounted, Zenon
<1> QED
  BY <1>1, <1>5, <1>6, Zenon DEF IsReceived

\* The destination survives whatever becomes of the rest.
LEMMA DestinationSurvives ==
  ASSUME NEW call, Sendable(call), Kept(call.destination)
  PROVE  DecodeAX25Callsign(EncodeAX25Frame(call), 0) = call.destination
<1>1. PICK f : f = EncodeAX25Frame(call)
  OBVIOUS
<1>2. PICK n \in 2..10 : n = AddressCount(call)
  BY AddressesOfCall
<1>3. IsFrame(f, Addresses(call), n, call.payload)
  BY <1>1, <1>2, FrameBytes, Zenon
<1>4. PICK k \in Nat, last \in BOOLEAN : k = 0 /\ last = (1 > 1 /\ 1 = n)
  OBVIOUS
<1>5. \A j \in 1..7 : f[7 * k + j] = EncodeAX25Callsign(call.destination, last)[j]
  <2>1. 1 \in 1..n /\ 7 * (1 - 1) = 7 * 0
    BY ONLY n \in 2..10
  <2>2. Addresses(call)[1] = call.destination
    BY AddressesOfCall
  <2>3. \A i \in 1..n : \A j \in 1..7 :
          f[7 * (i - 1) + j] = EncodeAX25Callsign(Addresses(call)[i], i > 1 /\ i = n)[j]
    BY <1>3, Zenon DEF IsFrame
  <2> QED
    BY <1>4, <2>1, <2>2, <2>3, ZenonT(60)
<1>6. f \in Seq(Byte) /\ Len(f) = 7 * n + 2 + Len(call.payload)
  BY <1>3, Zenon DEF IsFrame
<1>7. Len(call.payload) \in Nat
  <2>1. call.payload \in Seq(Byte)
    BY AddressesOfCall
  <2> QED
    BY <2>1, LenProperties
<1>8. 7 * k + 7 <= Len(f)
  <2>1. k = 0 /\ n \in 2..10
    BY <1>4, Zenon
  <2>2. PICK l \in Nat : l = Len(call.payload)
    BY <1>7
  <2>3. 7 * 0 + 7 <= 7 * n + 2 + l
    BY ONLY <2>1, l \in Nat
  <2> QED
    BY <1>6, <2>1, <2>2, <2>3, Zenon
<1>9. Good(call.destination)
  BY DEF Sendable, Call, Good
<1>10. DecodeAX25Callsign(f, k) = call.destination
  <2>1. f \in Seq(Byte) /\ Kept(call.destination) /\ k \in Nat /\ last \in BOOLEAN
    BY <1>6
  <2> QED
    BY ONLY <1>5, <1>8, <1>9, <2>1, CallsignSurvives
<1> QED
  BY <1>1, <1>4, <1>10

\* A frame with callsigns that survive and no eighth digipeater is received
\* as it was sent: encoding (EncodeAX25Callsign, Send) and decoding
\* (DecodeAX25Callsign, Receive) agree.  FramesWrongSSID shows that the
\* condition on the SSID is needed, FramesMixed that on the digipeaters.
THEOREM FramesSurvive ==
  ASSUME NEW call, Sendable(call), Len(call.digipeaters) <= 7,
         Kept(call.source), Kept(call.destination)
  PROVE  /\ IsReceived(EncodeAX25Frame(call))
         /\ ReceivedFrame(EncodeAX25Frame(call))
              = [source |-> call.source, destination |-> call.destination,
                 payload |-> call.payload]
<1>1. PICK f : f = EncodeAX25Frame(call)
  OBVIOUS
<1>2a. PICK d \in Nat : d = Len(call.digipeaters)
  <2>1. Len(call.digipeaters) \in Nat
    <3>1. call.digipeaters \in Seq(CallsignConfig)
      BY DEF Sendable, Call
    <3> QED
      BY <3>1, LenProperties
  <2> QED
    BY <2>1
<1>2. d <= 7
  BY <1>2a, Zenon
<1>3. AddressCount(call) = d + 2
  BY <1>2a DEF AddressCount
<1>4. PICK p : p = call.payload
  OBVIOUS
<1>5. PICK m \in Nat : m = 7 * (d + 2)
  OBVIOUS
<1>6. IsFrame(f, Addresses(call), d + 2, p)
  BY <1>1, <1>3, <1>4, FrameBytes, Zenon
<1>6a. f \in Seq(Byte) /\ Len(f) = m + 2 + Len(p) /\ f[m + 1] = 3 /\ f[m + 2] = 240
  BY <1>5, <1>6, Zenon DEF IsFrame
<1>6b. \A i \in 1..(d + 2) : \A j \in 1..7 :
         f[7 * (i - 1) + j] = EncodeAX25Callsign(Addresses(call)[i], i > 1 /\ i = d + 2)[j]
  BY <1>6, Zenon DEF IsFrame
<1>6c. \A j \in 1..Len(p) : f[m + 2 + j] = p[j]
  BY <1>5, <1>6, Zenon DEF IsFrame
<1>7. p \in Seq(Byte) /\ Len(p) \in Nat
  <2>1. call.payload \in Seq(Byte)
    BY AddressesOfCall
  <2> QED
    BY <2>1, <1>4, LenProperties
<1>8. DigipeaterCount(f) = d
  BY <1>1, <1>2a, DigipeatersCounted
<1>9. \A k \in 0..(d + 1) : Decodable(f, k)
  <2> SUFFICES ASSUME NEW k \in 0..(d + 1) PROVE Decodable(f, k)
    OBVIOUS
  <2>1. k + 1 \in 1..(d + 2)
    BY ONLY <1>2, k \in 0..(d + 1)
  <2>2. 7 * (k + 1) <= Len(f) /\ f[7 * (k + 1)] \in 96..127
    BY <2>1, <1>1, <1>3, SeventhByte, Zenon
  <2>3. \A b \in 96..127 : (b \div 32) % 4 = 3
    <3>1. \A b \in 96..127 : b \div 32 = 3
      OBVIOUS
    <3>2. 3 % 4 = 3
      OBVIOUS
    <3> QED
      BY ONLY <3>1, <3>2, Zenon
  <2> QED
    BY <2>2, <2>3, Zenon DEF Decodable
<1>10. IsReceived(f)
  <2>1. d # 8
    BY ONLY <1>2
  <2>2. m + 2 <= Len(f)
    BY ONLY <1>5, <1>6a, <1>7
  <2> QED
    BY <2>1, <2>2, <1>5, <1>6a, <1>8, <1>9, Zenon DEF IsReceived
<1>11. Addresses(call)[1] = call.destination /\ Addresses(call)[2] = call.source
  BY AddressesOfCall
<1>12. Good(call.destination) /\ Good(call.source)
  BY DEF Sendable, Call, Good
<1>13. DecodeAX25Callsign(f, 0) = call.destination
  BY <1>1, DestinationSurvives
<1>14. DecodeAX25Callsign(f, 1) = call.source
  <2>0. PICK last \in BOOLEAN : last = (2 > 1 /\ 2 = d + 2)
    OBVIOUS
  <2>1. \A j \in 1..7 : f[7 * 1 + j] = EncodeAX25Callsign(call.source, last)[j]
    <3>1. 2 \in 1..(d + 2) /\ 7 * (2 - 1) = 7 * 1
      BY ONLY <1>2
    <3> QED
      BY <2>0, <3>1, <1>6b, <1>11, Zenon
  <2>2. 7 * 1 + 7 <= Len(f)
    BY ONLY <1>2, <1>5, <1>6a, <1>7
  <2>3. f \in Seq(Byte) /\ Kept(call.source) /\ 1 \in Nat /\ last \in BOOLEAN
    BY <1>6a
  <2> QED
    BY ONLY <2>1, <2>2, <2>3, <1>12, CallsignSurvives
<1>15. SubSeq(f, m + 3, Len(f)) = p
  <2>0. PICK l \in Nat : l = Len(f) /\ l = m + 2 + Len(p)
    BY ONLY <1>5, <1>6a, <1>7
  <2>1. \A i \in (m + 3)..l : f[i] \in Byte
    <3>1. \A i \in (m + 3)..l : i \in 1..Len(f)
      BY ONLY <2>0, <1>5
    <3> QED
      BY <3>1, <1>6a, ElementOfSeq
  <2>2. /\ SubSeq(f, m + 3, l) \in Seq(Byte)
        /\ Len(SubSeq(f, m + 3, l)) = IF m + 3 <= l THEN l - (m + 3) + 1 ELSE 0
        /\ \A i \in 1..(l - (m + 3) + 1) : SubSeq(f, m + 3, l)[i] = f[(m + 3) + i - 1]
    <3>1. m + 3 \in Int /\ l \in Int
      BY ONLY <1>5, <2>0
    <3> QED
      BY ONLY <3>1, <2>1, SubSeqProperties
  <2>3. PICK u : u = SubSeq(f, m + 3, l)
    OBVIOUS
  <2>4. l - (m + 3) + 1 = Len(p) /\ (m + 3 <= l \/ Len(p) = 0)
    BY ONLY <2>0, <1>5, <1>7
  <2>5. u \in Seq(Byte) /\ Len(u) = Len(p)
    BY <2>2, <2>3, <2>4, Zenon
  <2>6. \A i \in 1..Len(p) : u[i] = p[i]
    <3> SUFFICES ASSUME NEW i \in 1..Len(p) PROVE u[i] = p[i]
      OBVIOUS
    <3>1. (m + 3) + i - 1 = m + 2 + i
      BY ONLY <1>5, <1>7, i \in 1..Len(p)
    <3>2. u[i] = f[(m + 3) + i - 1]
      BY <2>2, <2>3, <2>4, Zenon
    <3> QED
      BY <3>1, <3>2, <1>6c, Zenon
  <2>7. u = p
    BY ONLY <2>5, <2>6, <1>7, SeqEqual
  <2> QED
    BY <2>0, <2>3, <2>7, Zenon
<1>16. ReceivedFrame(f) = [source |-> call.source, destination |-> call.destination,
                           payload |-> p]
  BY <1>5, <1>8, <1>13, <1>14, <1>15, Zenon DEF ReceivedFrame
<1> QED
  BY <1>1, <1>4, <1>10, <1>16, Zenon

-----------------------------------------------------------------------------
(* Bytes that would have to be escaped.                                    *)

\* Characters that are ASCII and no backquote, the one that is encoded as FEND.
PlainCallsign(c) == \A i \in DOMAIN c.callsign : c.callsign[i] < 128 /\ c.callsign[i] # 96

Plain(call) ==
  /\ \A i \in DOMAIN Addresses(call) : PlainCallsign(Addresses(call)[i])
  /\ \A i \in DOMAIN call.payload : call.payload[i] < 128

LEMMA SevenByteBlocks ==
  ASSUME NEW n \in Nat, NEW x \in 1..(7 * n)
  PROVE  \E i \in 1..n, j \in 1..7 : x = 7 * (i - 1) + j
<1>1. PICK q \in Nat : q = (x - 1) \div 7
  OBVIOUS
<1>2. PICK r \in 0..6 : r = (x - 1) % 7
  OBVIOUS
<1>3. x - 1 = 7 * q + r
  BY <1>1, <1>2
<1>4. q < n
  BY <1>2, <1>3
<1>5. q + 1 \in 1..n /\ r + 1 \in 1..7 /\ x = 7 * ((q + 1) - 1) + (r + 1)
  BY <1>2, <1>3, <1>4
<1> QED
  BY <1>5

\* The bytes of an encoded callsign.
LEMMA PlainAddress ==
  ASSUME NEW c, Good(c), PlainCallsign(c), NEW last \in BOOLEAN, NEW j \in 1..7
  PROVE  EncodeAX25Callsign(c, last)[j] \notin {FEND, FESC}
<1> DEFINE e == EncodeAX25Callsign(c, last)
<1>1. /\ e[7] = SSIDMask + 2 * c.ssid + (IF last THEN 1 ELSE 0)
      /\ \A i \in 1..6 : e[i] = IF i <= Len(c.callsign) THEN (2 * c.callsign[i]) % 256
                                ELSE 2 * Space
  BY EncodedCallsign
<1> HIDE DEF e
<1>2. PICK s : s = c.callsign
  OBVIOUS
<1>3. s \in Seq(Byte) /\ c.ssid \in 0..15
  BY <1>2 DEF Good, CallsignConfig, Encodable
<1>4. CASE j = 7
  <2>1. PICK l \in 0..1 : l = IF last THEN 1 ELSE 0
    OBVIOUS
  <2>2. PICK n \in 0..15 : n = c.ssid
    BY <1>3
  <2>3. e[j] = 96 + 2 * n + l
    BY <1>1, <1>4, <2>1, <2>2, Zenon DEF SSIDMask
  <2>4. 96 + 2 * n + l # 192 /\ 96 + 2 * n + l # 219
    BY ONLY <2>1, <2>2
  <2> QED
    BY <2>3, <2>4 DEF e, FEND, FESC
<1>5. CASE j # 7 /\ j <= Len(s)
  <2>1. Len(s) \in Nat /\ DOMAIN s = 1..Len(s)
    BY <1>3, LenProperties
  <2>2. j \in 1..6 /\ j \in 1..Len(s)
    BY <1>5, <2>1
  <2>3. s[j] \in Byte
    BY <1>3, <2>2, ElementOfSeq
  <2>4. PICK b \in 0..255 : b = s[j]
    BY <2>3 DEF Byte
  <2>5. b < 128 /\ b # 96
    BY <1>2, <2>1, <2>2, <2>4 DEF PlainCallsign
  <2>6. e[j] = (2 * b) % 256
    BY <1>1, <1>2, <1>5, <2>2, <2>4, Zenon
  <2>7. (2 * b) % 256 # 192 /\ (2 * b) % 256 # 219
    <3>1. (2 * b) % 256 = 2 * b
      BY ONLY <2>5, b \in 0..255
    <3> QED
      BY ONLY <2>5, <3>1, b \in 0..255
  <2> QED
    BY <2>6, <2>7 DEF e, FEND, FESC
<1>6. CASE j # 7 /\ ~(j <= Len(s))
  <2>1. j \in 1..6
    BY <1>6
  <2>2. e[j] = 2 * 32
    BY <1>1, <1>2, <1>6, <2>1, Zenon DEF Space
  <2> QED
    BY <2>2 DEF e, FEND, FESC
<1> QED
  BY <1>4, <1>5, <1>6

\* The frame of a plain call needs no escaping.
LEMMA PlainFrame ==
  ASSUME NEW call, Sendable(call), Plain(call),
         NEW x \in DOMAIN EncodeAX25Frame(call)
  PROVE  EncodeAX25Frame(call)[x] \notin {FEND, FESC}
<1>1. PICK f : f = EncodeAX25Frame(call)
  OBVIOUS
<1>2. PICK n \in 2..10 : n = AddressCount(call)
  BY AddressesOfCall
<1>3. PICK a : a = Addresses(call)
  OBVIOUS
<1>4. PICK p : p = call.payload
  OBVIOUS
<1>5. IsFrame(f, a, n, p)
  BY <1>1, <1>2, <1>3, <1>4, FrameBytes, Zenon
<1>6. p \in Seq(Byte) /\ Len(p) \in Nat /\ DOMAIN p = 1..Len(p)
  <2>1. p \in Seq(Byte)
    BY <1>4, AddressesOfCall
  <2> QED
    BY <2>1, LenProperties
<1>7. x \in 1..(7 * n + 2 + Len(p))
  <2>1. f \in Seq(Byte) /\ Len(f) = 7 * n + 2 + Len(p)
    BY <1>5, Zenon DEF IsFrame
  <2>2. DOMAIN f = 1..Len(f)
    BY <2>1, LenProperties
  <2> QED
    BY <1>1, <2>1, <2>2, Zenon
<1>8. CASE x <= 7 * n
  <2>1. x \in 1..(7 * n)
    BY ONLY <1>7, <1>8, <1>6, n \in 2..10
  <2>2. PICK i \in 1..n, j \in 1..7 : x = 7 * (i - 1) + j
    BY <2>1, n \in Nat, SevenByteBlocks
  <2>3. PICK last \in BOOLEAN : last = (i > 1 /\ i = n)
    OBVIOUS
  <2>4. f[x] = EncodeAX25Callsign(a[i], last)[j]
    <3>1. \A k \in 1..n : \A m \in 1..7 :
            f[7 * (k - 1) + m] = EncodeAX25Callsign(a[k], k > 1 /\ k = n)[m]
      BY <1>5, Zenon DEF IsFrame
    <3>2. f[7 * (i - 1) + j] = EncodeAX25Callsign(a[i], i > 1 /\ i = n)[j]
      BY <2>2, <3>1, Zenon
    <3> QED
      BY <2>2, <2>3, <3>2, Zenon
  <2>5. Good(a[i]) /\ PlainCallsign(a[i])
    <3>1. \A k \in 1..n : Good(a[k])
      BY <1>2, <1>3, AddressesOfCall, Zenon
    <3>2. DOMAIN a = 1..n
      <4>1. a \in Seq(CallsignConfig) /\ Len(a) = n
        BY <1>2, <1>3, AddressesOfCall, Zenon
      <4> QED
        BY <4>1, LenProperties
    <3> QED
      BY <1>3, <2>2, <3>1, <3>2, Zenon DEF Plain
  <2> QED
    BY <1>1, <2>2, <2>4, <2>5, PlainAddress, Zenon
<1>9. CASE x = 7 * n + 1 \/ x = 7 * n + 2
  <2>1. f[x] = 3 \/ f[x] = 240
    BY <1>5, <1>9, Zenon DEF IsFrame
  <2> QED
    BY <1>1, <2>1 DEF FEND, FESC
<1>10. CASE x > 7 * n + 2
  <2>1. PICK j \in Nat : x = 7 * n + 2 + j /\ j \in 1..Len(p)
    <3>1. PICK j \in Int : j = x - (7 * n + 2)
      BY <1>7, <1>6
    <3>2. j \in 1..Len(p) /\ x = 7 * n + 2 + j
      BY ONLY <3>1, <1>7, <1>10, <1>6, n \in 2..10
    <3> QED
      BY <3>2, <1>6
  <2>2. f[x] = p[j]
    BY <1>5, <2>1, Zenon DEF IsFrame
  <2>3. p[j] < 128
    BY <1>4, <1>6, <2>1, Zenon DEF Plain
  <2>4. p[j] \in Byte
    BY <1>6, <2>1, ElementOfSeq
  <2>5. PICK b \in 0..255 : b = p[j]
    BY <2>4 DEF Byte
  <2>6. b # 192 /\ b # 219
    BY <2>3, <2>5
  <2> QED
    BY <1>1, <2>2, <2>5, <2>6 DEF FEND, FESC
<1> QED
  <2>1. x <= 7 * n \/ x = 7 * n + 1 \/ x = 7 * n + 2 \/ x > 7 * n + 2
    BY ONLY <1>7, <1>6, n \in 2..10
  <2> QED
    BY <2>1, <1>8, <1>9, <1>10

-----------------------------------------------------------------------------
(* The state machine.                                                      *)

\* What came on the wire was sent by a call that Send did not refuse.
PutWasSent == put \in Seq(Calls) /\ \A k \in DOMAIN put : Sendable(put[k])

LEMMA PutInvariance == Spec => []PutWasSent
<1>1. Init => PutWasSent
  BY EmptySeq DEF Init, PutWasSent
<1>2. PutWasSent /\ [Next]_vars => PutWasSent'
  <2> SUFFICES ASSUME PutWasSent, [Next]_vars PROVE PutWasSent'
    OBVIOUS
  <2>1. CASE UNCHANGED put
    BY <2>1 DEF PutWasSent
  <2>2. ASSUME NEW call \in Calls, Send(call) PROVE PutWasSent'
    <3>1. put' = Append(put, call) /\ put \in Seq(Calls)
      BY <2>2 DEF Send, PutWasSent
    <3>2. Sendable(call)
      BY <2>2, TNCAssumption, Zenon DEF Send, Sendable
    <3>3. /\ put' \in Seq(Calls)
          /\ Len(put') = Len(put) + 1
          /\ \A k \in 1..Len(put) : put'[k] = put[k]
          /\ put'[Len(put) + 1] = call
      BY <3>1, AppendProperties
    <3>4. DOMAIN put = 1..Len(put) /\ DOMAIN put' = 1..Len(put') /\ Len(put) \in Nat
      BY <3>1, <3>3, LenProperties
    <3>5. \A k \in DOMAIN put' : k \in DOMAIN put \/ k = Len(put) + 1
      BY <3>3, <3>4
    <3> QED
      BY <3>2, <3>3, <3>4, <3>5, Zenon DEF PutWasSent
  <2>3. ASSUME NEW bytes \in OtherBytes, GiveOther(bytes) PROVE UNCHANGED put
    BY <2>3 DEF GiveOther
  <2>4. CASE Connect \/ ConnectionLost \/ Timeout
    BY <2>4, <2>1 DEF Connect, ConnectionLost, Timeout
  <2>5. ASSUME ReadByte PROVE UNCHANGED put
    BY <2>5, Zenon DEF ReadByte, ReadEnd, ReadStart, ReadHeader, ReadOutOfFrame, ReadEscape,
        ReadEscaped, ReadBadEscape, ReadData, InBody, Take
  <2> QED
    BY <2>1, <2>2, <2>3, <2>4, <2>5, Zenon DEF Next, vars
<1> QED
  BY <1>1, <1>2, PTL DEF Spec

\* The frames of this program hold no byte that the encoder of a build with
\* signed chars would fail to escape (EncodeKISSFrame), for callsigns of ASCII
\* characters and the payloads of the program, which are base64.
THEOREM ProgramFramesNeedNoEscape ==
  ASSUME \A call \in Calls : call.payload # <<>> /\ call.payload[1] = Marker => Plain(call)
  PROVE  Spec => []NothingToEscape
<1>1. PutWasSent => NothingToEscape
  <2> SUFFICES ASSUME PutWasSent, NEW k \in DOMAIN put,
                      put[k].payload # <<>> /\ put[k].payload[1] = Marker
               PROVE  Range(EncodeAX25Frame(put[k])) \cap {FEND, FESC} = {}
    BY Zenon DEF NothingToEscape
  <2>1. put[k] \in Calls
    <3>1. put \in Seq(Calls)
      BY DEF PutWasSent
    <3>2. k \in 1..Len(put)
      BY <3>1, LenProperties
    <3> QED
      BY <3>1, <3>2, ElementOfSeq
  <2>2. Sendable(put[k])
    BY DEF PutWasSent
  <2>3. Plain(put[k])
    BY <2>1, Zenon
  <2>4. PICK f : f = EncodeAX25Frame(put[k])
    OBVIOUS
  <2>5. \A i \in DOMAIN f : f[i] \notin {FEND, FESC}
    BY <2>2, <2>3, <2>4, PlainFrame, Zenon
  <2>6. Range(f) \cap {FEND, FESC} = {}
    BY <2>5, Zenon DEF Range
  <2> QED
    BY <2>4, <2>6, Zenon
<1> QED
  BY <1>1, PutInvariance, PTL

\* A KISS frame is bytes, of which the escaped ones stand between a delimiter
\* with a zero and a delimiter.
EscapedBytes(f) == [i \in DOMAIN f |-> Escape(f[i])]

LEMMA EscapeBytes ==
  ASSUME NEW b \in Byte
  PROVE  /\ Escape(b) \in Seq(Byte)
         /\ b \notin {FEND, FESC} \/ CharIsSigned => Escape(b) = <<b>>
         /\ b = FEND /\ ~CharIsSigned => Escape(b) = <<FESC, TFEND>>
         /\ b = FESC /\ ~CharIsSigned => Escape(b) = <<FESC, TFESC>>
<1>1. b \notin {FEND, FESC} \/ CharIsSigned => Escape(b) = <<b>>
  BY DEF Escape
<1>2. b = FEND /\ ~CharIsSigned => Escape(b) = <<FESC, TFEND>>
  BY DEF Escape, FEND, FESC
<1>3. b = FESC /\ ~CharIsSigned => Escape(b) = <<FESC, TFESC>>
  BY DEF Escape, FEND, FESC
<1>4. /\ <<b>> \in Seq(Byte) /\ <<FESC, TFEND>> \in Seq(Byte)
      /\ <<FESC, TFESC>> \in Seq(Byte)
  BY DEF Byte, FESC, TFEND, TFESC
<1> QED
  BY <1>1, <1>2, <1>3, <1>4, Zenon

KISSBody(f) == FlattenSeq(EscapedBytes(f))

\* k is a body h between delimiters.
IsKISS(k, h) ==
  /\ h \in Seq(Byte)
  /\ k \in Seq(Byte)
  /\ Len(k) = Len(h) + 3
  /\ k[1] = FEND
  /\ k[2] = 0
  /\ \A i \in 1..Len(h) : k[i + 2] = h[i]
  /\ k[Len(h) + 3] = FEND

\* Where the bytes of f end in the body.
Cuts(f) == CHOOSE pos : IsCut(pos, KISSBody(f), EscapedBytes(f), Len(f))

LEMMA KISSFrame ==
  ASSUME NEW f \in Seq(Byte)
  PROVE  /\ IsKISS(EncodeKISSFrame(f), KISSBody(f))
         /\ IsCut(Cuts(f), KISSBody(f), EscapedBytes(f), Len(f))
<1>1. PICK n \in Nat : n = Len(f) /\ DOMAIN f = 1..n
  BY LenProperties
<1>2. PICK e : e = EscapedBytes(f)
  OBVIOUS
<1>3. e = [i \in 1..n |-> e[i]] /\ \A i \in 1..n : e[i] \in Seq(Byte)
  <2>1. e = [i \in 1..n |-> Escape(f[i])]
    BY <1>1, <1>2, Zenon DEF EscapedBytes
  <2>2. \A i \in 1..n : f[i] \in Byte
    BY <1>1, ElementOfSeq
  <2>3. \A i \in 1..n : Escape(f[i]) \in Seq(Byte)
    BY <2>2, EscapeBytes
  <2> QED
    BY <2>1, <2>3, Zenon
<1>4. e \in Seq(Seq(Byte)) /\ Len(e) = n
  <2>1. [i \in 1..n |-> e[i]] \in Seq(Seq(Byte))
    BY <1>3, n \in Nat, IsASeq
  <2>2. e \in Seq(Seq(Byte)) /\ DOMAIN e = 1..n
    BY <2>1, <1>3, Zenon
  <2> QED
    BY <2>2, LenProperties
<1>5. PICK h : h = FlattenSeq(e)
  OBVIOUS
<1>5a. h \in Seq(Byte) /\ \E pos : IsCut(pos, h, e, n)
  <2>1. FlattenSeq(e) \in Seq(Byte) /\ \E pos : IsCut(pos, FlattenSeq(e), e, Len(e))
    BY ONLY <1>4, FlattenCuts
  <2> QED
    BY <2>1, <1>4, <1>5, Zenon
<1>6. h \in Seq(Byte) /\ Len(h) \in Nat
  BY <1>5a, LenProperties
<1>7. PICK s : s = <<FEND, 0>>
  OBVIOUS
<1>8. s \in Seq(Byte) /\ Len(s) = 2 /\ s[1] = FEND /\ s[2] = 0
  BY <1>7 DEF Byte, FEND
<1>9. PICK t : t = <<FEND>>
  OBVIOUS
<1>10. t \in Seq(Byte) /\ Len(t) = 1 /\ t[1] = FEND
  BY <1>9 DEF Byte, FEND
<1>11. PICK g : g = s \o h
  OBVIOUS
<1>12. /\ g \in Seq(Byte)
       /\ Len(g) = 2 + Len(h)
       /\ \A i \in 1..(2 + Len(h)) : g[i] = IF i <= 2 THEN s[i] ELSE h[i - 2]
  <2>1. /\ g \in Seq(Byte)
        /\ Len(g) = Len(s) + Len(h)
        /\ \A i \in 1..(Len(s) + Len(h)) : g[i] = IF i <= Len(s) THEN s[i] ELSE h[i - Len(s)]
    BY ONLY <1>6, <1>8, <1>11, ConcatProperties
  <2> QED
    BY <2>1, <1>8
<1>13. PICK k : k = g \o t
  OBVIOUS
<1>14. /\ k \in Seq(Byte)
       /\ Len(k) = 3 + Len(h)
       /\ \A i \in 1..(3 + Len(h)) : k[i] = IF i <= 2 + Len(h) THEN g[i] ELSE t[i - (2 + Len(h))]
  <2>1. /\ k \in Seq(Byte)
        /\ Len(k) = Len(g) + Len(t)
        /\ \A i \in 1..(Len(g) + Len(t)) : k[i] = IF i <= Len(g) THEN g[i] ELSE t[i - Len(g)]
    BY ONLY <1>12, <1>10, <1>13, ConcatProperties
  <2>2. Len(g) + Len(t) = 3 + Len(h)
    BY <1>6, <1>10, <1>12
  <2> QED
    BY <2>1, <2>2, <1>12
<1>15. k = EncodeKISSFrame(f)
  <2>1. EncodeKISSFrame(f) = <<FEND, 0>> \o FlattenSeq(EscapedBytes(f)) \o <<FEND>>
    BY Zenon DEF EncodeKISSFrame, EscapedBytes
  <2> QED
    BY <2>1, <1>2, <1>5, <1>7, <1>9, <1>11, <1>13, Zenon
<1>16. k[1] = FEND /\ k[2] = 0
  <2>1. /\ 1 \in 1..(3 + Len(h)) /\ 1 \in 1..(2 + Len(h)) /\ 1 <= 2 + Len(h)
        /\ 2 \in 1..(3 + Len(h)) /\ 2 \in 1..(2 + Len(h)) /\ 2 <= 2 + Len(h) /\ 1 <= 2 /\ 2 <= 2
    BY <1>6
  <2> QED
    BY <2>1, <1>8, <1>12, <1>14
<1>17. \A i \in 1..Len(h) : k[i + 2] = h[i]
  <2> SUFFICES ASSUME NEW i \in 1..Len(h) PROVE k[i + 2] = h[i]
    OBVIOUS
  <2>1. /\ i + 2 \in 1..(3 + Len(h)) /\ i + 2 \in 1..(2 + Len(h)) /\ i + 2 <= 2 + Len(h)
        /\ ~(i + 2 <= 2) /\ (i + 2) - 2 = i
    BY <1>6
  <2> QED
    BY <2>1, <1>12, <1>14
<1>18. k[Len(h) + 3] = FEND
  <2>1. /\ Len(h) + 3 \in 1..(3 + Len(h)) /\ ~(Len(h) + 3 <= 2 + Len(h))
        /\ (Len(h) + 3) - (2 + Len(h)) = 1
    BY <1>6
  <2> QED
    BY <2>1, <1>10, <1>14
<1>19. Len(k) = Len(h) + 3
  BY <1>6, <1>14
<1>20. h = KISSBody(f)
  BY <1>2, <1>5 DEF KISSBody
<1>21. IsKISS(EncodeKISSFrame(f), KISSBody(f))
  BY <1>6, <1>14, <1>15, <1>16, <1>17, <1>18, <1>19, <1>20, Zenon DEF IsKISS
<1>22. IsCut(Cuts(f), KISSBody(f), EscapedBytes(f), Len(f))
  BY <1>1, <1>2, <1>5a, <1>20, Zenon DEF Cuts
<1> QED
  BY <1>21, <1>22

\* What Receive cuts out of a frame is bytes.
LEMMA PayloadIsBytes ==
  ASSUME NEW f \in Seq(Byte)
  PROVE  ReceivedFrame(f).payload \in Seq(Byte)
<1>1. PICK n \in Nat : n = Len(f) /\ DOMAIN f = 1..n
  BY LenProperties
<1> DEFINE ends == {k \in 1..9 : IsLast(f, k)}
<1>2. ends # {} => Min(ends) \in 1..9
  <2> SUFFICES ASSUME ends # {} PROVE Min(ends) \in 1..9
    OBVIOUS
  <2>1. ends \in SUBSET Nat
    OBVIOUS
  <2>2. \E x \in ends : \A y \in ends : x <= y
    BY <2>1, LeastElement
  <2>3. Min(ends) \in ends
    BY <2>2, Zenon DEF Min
  <2> QED
    BY <2>3
<1> HIDE DEF ends
<1>3. DigipeaterCount(f) = IF ends = {} THEN 8 ELSE Min(ends) - 1
  BY Zenon DEF DigipeaterCount, ends
<1>4. PICK d \in 0..8 : d = DigipeaterCount(f)
  BY <1>2, <1>3
<1>5. PICK m \in Nat : m = 7 * (d + 2) + 3
  OBVIOUS
<1>6. \A i \in m..n : f[i] \in Byte
  <2>1. \A i \in m..n : i \in 1..n
    BY ONLY <1>5, d \in 0..8, n \in Nat
  <2> QED
    BY <2>1, <1>1, ElementOfSeq
<1>7. SubSeq(f, m, n) \in Seq(Byte)
  <2>1. m \in Int /\ n \in Int
    OBVIOUS
  <2> QED
    BY ONLY <2>1, <1>6, SubSeqProperties
<1>8. ReceivedFrame(f).payload = SubSeq(f, m, n)
  BY <1>1, <1>4, <1>5 DEF ReceivedFrame
<1> QED
  BY <1>7, <1>8

\* The texts passed on are bytes.
PushedTexts ==
  /\ \E S : pushed \in Seq(S)
  /\ \A i \in DOMAIN pushed : pushed[i].text \in Seq(Byte)

LEMMA DispatchPushesBytes ==
  ASSUME PushedTexts, NEW f \in Seq(Byte), Dispatch(ReceivedFrame(f)), running \in BOOLEAN
  PROVE  PushedTexts' /\ running' \in BOOLEAN
<1>1. PICK g : g = ReceivedFrame(f)
  OBVIOUS
<1>2. CASE PushText(g)
  <2>1. PICK p : p = g.payload
    OBVIOUS
  <2>2. p \in Seq(Byte) /\ p # <<>>
    BY <1>1, <1>2, <2>1, PayloadIsBytes DEF PushText
  <2>3. Tail(p) \in Seq(Byte)
    BY <2>2, HeadTailProperties
  <2>4. PICK x : x = [source |-> g.source, text |-> Tail(p)]
    OBVIOUS
  <2>5. pushed' = Append(pushed, x) /\ running' = running
    BY <1>2, <2>1, <2>4 DEF PushText
  <2>6. PICK S : pushed \in Seq(S)
    BY DEF PushedTexts
  <2> DEFINE T == S \cup {x}
  <2>7. pushed \in Seq(T) /\ x \in T
    BY <2>6, SeqMonotonic
  <2> HIDE DEF T
  <2>8. /\ pushed' \in Seq(T)
        /\ Len(pushed') = Len(pushed) + 1
        /\ \A i \in 1..Len(pushed) : pushed'[i] = pushed[i]
        /\ pushed'[Len(pushed) + 1] = x
    BY <2>5, <2>7, AppendProperties
  <2>9. DOMAIN pushed = 1..Len(pushed) /\ DOMAIN pushed' = 1..Len(pushed') /\ Len(pushed) \in Nat
    BY <2>7, <2>8, LenProperties
  <2>10. \A i \in DOMAIN pushed' : i \in DOMAIN pushed \/ i = Len(pushed) + 1
    BY <2>8, <2>9
  <2>11. x.text \in Seq(Byte)
    BY <2>3, <2>4
  <2>12. \A i \in DOMAIN pushed' : pushed'[i].text \in Seq(Byte)
    BY <2>8, <2>9, <2>10, <2>11, Zenon DEF PushedTexts
  <2>13. \E U : pushed' \in Seq(U)
    BY <2>8
  <2> QED
    BY <2>5, <2>12, <2>13, Zenon DEF PushedTexts
<1>3. CASE ExitOnEmpty(g)
  BY <1>3, Zenon DEF ExitOnEmpty, PushedTexts
<1>4. CASE SkipFrame(g)
  BY <1>4, Zenon DEF SkipFrame, dispatchVars, PushedTexts
<1> QED
  BY <1>1, <1>2, <1>3, <1>4, Zenon DEF Dispatch

\* The states of DecodeKISSFrame between two bytes.
State(f, i, e, h) == [frame |-> f, in_frame |-> i, in_escape |-> e, header |-> h]
DecoderState == [frame : Seq(Byte), in_frame : BOOLEAN, in_escape : BOOLEAN, header : BOOLEAN]
Decoder == State(frame, in_frame, in_escape, next_byte_is_header)
Fresh == State(<<>>, FALSE, FALSE, FALSE)

\* From d the byte b leads to e, and no frame is returned.
Reads(d, b, e) ==
  \/ /\ b = FEND
     /\ d.frame = <<>>
     /\ e = State(d.frame, d.in_frame, d.in_escape, TRUE)
  \/ /\ b # FEND
     /\ d.header
     /\ e = State(d.frame, d.in_frame \/ b % 16 = 0, d.in_escape, FALSE)
  \/ /\ b # FEND
     /\ ~d.header /\ ~d.in_frame
     /\ e = d
  \/ /\ b # FEND
     /\ ~d.header /\ d.in_frame
     /\ \/ b = FESC /\ ~d.in_escape /\ e = State(d.frame, TRUE, TRUE, FALSE)
        \/ b = FESC /\ d.in_escape /\ e = State(<<>>, TRUE, FALSE, FALSE)
        \/ b = TFEND /\ d.in_escape /\ e = State(Append(d.frame, FEND), TRUE, FALSE, FALSE)
        \/ b = TFESC /\ d.in_escape /\ e = State(Append(d.frame, FESC), TRUE, FALSE, FALSE)
        \/ b \notin {FESC, TFEND, TFESC} /\ d.in_escape /\ e = State(<<>>, FALSE, FALSE, FALSE)
        \/ b # FESC /\ ~d.in_escape /\ e = State(Append(d.frame, b), TRUE, FALSE, FALSE)

\* With b a frame is returned.
Returns(d, b) == b = FEND /\ d.frame # <<>>

DecoderTypes ==
  /\ frame \in Seq(Byte)
  /\ in_frame \in BOOLEAN
  /\ in_escape \in BOOLEAN
  /\ next_byte_is_header \in BOOLEAN

\* One step of DecodeKISSFrame.
LEMMA ReadByteReads ==
  ASSUME DecoderTypes, ReadByte
  PROVE  /\ running /\ wire # <<>>
         /\ wire' = Tail(wire)
         /\ Head(wire) \in Byte
         /\ UNCHANGED <<connected, others, timeouts, put>>
         /\ \/ /\ Returns(Decoder, Head(wire))
               /\ heard' = Append(heard, frame)
               /\ Restarted
               /\ UNCHANGED dispatchVars \/ Dispatch(ReceivedFrame(frame))
            \/ /\ Reads(Decoder, Head(wire), Decoder')
               /\ UNCHANGED <<heard, dispatchVars>>
<1>0. /\ FEND \in Byte /\ FESC \in Byte /\ TFEND \in Byte /\ TFESC \in Byte
      /\ FEND \notin {FESC, TFEND, TFESC} /\ FESC \notin {TFEND, TFESC}
  BY DEF Byte, FEND, FESC, TFEND, TFESC
<1>a. /\ Decoder.frame = frame /\ Decoder.in_frame = in_frame
      /\ Decoder.in_escape = in_escape /\ Decoder.header = next_byte_is_header
  BY DEF Decoder, State
<1>b. Decoder' = State(frame', in_frame', in_escape', next_byte_is_header')
  BY DEF Decoder
<1> DEFINE b == Head(wire)
<1>c. ASSUME NEW x \in Byte, Take(x)
      PROVE  /\ running /\ wire # <<>> /\ x = b /\ wire' = Tail(wire)
             /\ UNCHANGED <<connected, others, timeouts, put>>
  BY <1>c, Zenon DEF Take
<1>1. CASE ReadEnd
  BY <1>1, <1>0, <1>a, <1>c, Zenon DEF ReadEnd, Returns
<1>2. CASE ReadStart
  <2>1. /\ Take(FEND) /\ frame = <<>> /\ next_byte_is_header' = TRUE /\ Reading
        /\ frame' = frame /\ in_frame' = in_frame /\ in_escape' = in_escape
    BY <1>2, Zenon DEF ReadStart
  <2> QED
    BY <2>1, <1>0, <1>a, <1>b, <1>c, Zenon DEF Reads, Reading
<1>3. CASE ReadHeader
  <2>1. PICK x \in Byte \ {FEND} : Take(x) /\ in_frame' = (in_frame \/ x % 16 = 0)
    BY <1>3, Zenon DEF ReadHeader
  <2>2. /\ next_byte_is_header /\ next_byte_is_header' = FALSE /\ Reading
        /\ frame' = frame /\ in_escape' = in_escape
    BY <1>3, Zenon DEF ReadHeader
  <2>3. x = b /\ x # FEND
    BY <2>1, <1>c, Zenon
  <2> QED
    BY <2>1, <2>2, <2>3, <1>a, <1>b, <1>c, Zenon DEF Reads, Reading
<1>4. CASE ReadOutOfFrame
  <2>1. PICK x \in Byte \ {FEND} : Take(x)
    BY <1>4, Zenon DEF ReadOutOfFrame
  <2>2. ~next_byte_is_header /\ ~in_frame /\ Reading /\ UNCHANGED decoderVars
    BY <1>4, Zenon DEF ReadOutOfFrame
  <2>3. x = b /\ x # FEND
    BY <2>1, <1>c, Zenon
  <2>4. Decoder' = Decoder
    BY <2>2, <1>b, Zenon DEF Decoder, decoderVars
  <2> QED
    BY <2>1, <2>2, <2>3, <2>4, <1>a, <1>c, Zenon DEF Reads, Reading
<1>5. CASE ReadEscape
  <2>1. /\ Take(FESC) /\ ~next_byte_is_header /\ in_frame /\ Reading
        /\ next_byte_is_header' = next_byte_is_header /\ in_frame' = in_frame
        /\ in_escape' = ~in_escape
        /\ frame' = IF in_escape THEN <<>> ELSE frame
    BY <1>5, Zenon DEF ReadEscape, InBody
  <2>2. in_frame' = TRUE /\ next_byte_is_header' = FALSE
    BY <2>1, Zenon DEF DecoderTypes
  <2>3. CASE in_escape
    <3>1. in_escape' = FALSE /\ frame' = <<>>
      BY <2>1, <2>3, Zenon
    <3> QED
      BY <2>1, <2>2, <2>3, <3>1, <1>0, <1>a, <1>b, <1>c, Zenon DEF Reads, Reading
  <2>4. CASE ~in_escape
    <3>1. in_escape' = TRUE /\ frame' = frame
      BY <2>1, <2>4, Zenon
    <3> QED
      BY <2>1, <2>2, <2>4, <3>1, <1>0, <1>a, <1>b, <1>c, Zenon DEF Reads, Reading
  <2> QED
    BY <2>3, <2>4
<1>6. CASE ReadEscaped
  <2>1. /\ \/ Take(TFEND) /\ frame' = Append(frame, FEND)
           \/ Take(TFESC) /\ frame' = Append(frame, FESC)
        /\ ~next_byte_is_header /\ in_frame /\ Reading
        /\ next_byte_is_header' = next_byte_is_header /\ in_frame' = in_frame
        /\ in_escape /\ in_escape' = FALSE
    BY <1>6, Zenon DEF ReadEscaped, InBody
  <2>2. in_frame' = TRUE /\ next_byte_is_header' = FALSE
    BY <2>1, Zenon DEF DecoderTypes
  <2> QED
    BY <2>1, <2>2, <1>0, <1>a, <1>b, <1>c, Zenon DEF Reads, Reading
<1>7. CASE ReadBadEscape
  <2>1. PICK x \in Byte \ {FEND, FESC, TFEND, TFESC} : InBody(x)
    BY <1>7, Zenon DEF ReadBadEscape
  <2>2. /\ Take(x) /\ ~next_byte_is_header /\ in_frame /\ Reading
        /\ next_byte_is_header' = next_byte_is_header
    BY <2>1, Zenon DEF InBody
  <2>3. in_escape /\ in_escape' = FALSE /\ in_frame' = FALSE /\ frame' = <<>>
    BY <1>7, Zenon DEF ReadBadEscape
  <2>4. next_byte_is_header' = FALSE
    BY <2>2, Zenon DEF DecoderTypes
  <2>5. x = b /\ x \notin {FESC, TFEND, TFESC} /\ x # FEND
    BY <2>1, <2>2, <1>c, Zenon
  <2> QED
    BY <2>1, <2>2, <2>3, <2>4, <2>5, <1>a, <1>b, <1>c, Zenon DEF Reads, Reading
<1>8. CASE ReadData
  <2>1. PICK x \in Byte \ {FEND, FESC} : InBody(x) /\ frame' = Append(frame, x)
    BY <1>8, Zenon DEF ReadData
  <2>2. /\ Take(x) /\ ~next_byte_is_header /\ in_frame /\ Reading
        /\ next_byte_is_header' = next_byte_is_header
    BY <2>1, Zenon DEF InBody
  <2>3. ~in_escape /\ in_escape' = in_escape /\ in_frame' = in_frame
    BY <1>8, Zenon DEF ReadData
  <2>4. next_byte_is_header' = FALSE /\ in_frame' = TRUE /\ in_escape' = FALSE
    BY <2>2, <2>3, Zenon DEF DecoderTypes
  <2>5. x = b /\ x # FESC /\ x # FEND
    BY <2>1, <2>2, <1>c, Zenon
  <2> QED
    BY <2>1, <2>2, <2>3, <2>4, <2>5, <1>a, <1>b, <1>c, Zenon DEF Reads, Reading
<1> QED
  BY <1>1, <1>2, <1>3, <1>4, <1>5, <1>6, <1>7, <1>8, Zenon DEF ReadByte

\* The decoder keeps what TypeOK says of it: an escape or a frame is begun
\* only after the header of a data frame, and a frame never with a header due.
WellFormed(d) ==
  /\ d \in DecoderState
  /\ d.in_escape => d.in_frame
  /\ d.frame # <<>> => d.in_frame /\ ~d.header

LEMMA StateFields ==
  ASSUME NEW f, NEW i, NEW e, NEW h
  PROVE  /\ State(f, i, e, h).frame = f /\ State(f, i, e, h).in_frame = i
         /\ State(f, i, e, h).in_escape = e /\ State(f, i, e, h).header = h
         /\ f \in Seq(Byte) /\ i \in BOOLEAN /\ e \in BOOLEAN /\ h \in BOOLEAN
              => State(f, i, e, h) \in DecoderState
BY DEF State, DecoderState

LEMMA WellFormedStates ==
  ASSUME NEW f, NEW i, NEW e, NEW h
  PROVE  WellFormed(State(f, i, e, h)) <=>
           /\ f \in Seq(Byte) /\ i \in BOOLEAN /\ e \in BOOLEAN /\ h \in BOOLEAN
           /\ e => i
           /\ f # <<>> => i /\ ~h
<1>1. PICK d : d = State(f, i, e, h)
  OBVIOUS
<1>2. d.frame = f /\ d.in_frame = i /\ d.in_escape = e /\ d.header = h
  BY <1>1, StateFields
<1>3. d \in DecoderState <=> f \in Seq(Byte) /\ i \in BOOLEAN /\ e \in BOOLEAN /\ h \in BOOLEAN
  BY <1>1, <1>2 DEF State, DecoderState
<1>4. WellFormed(d) <=> d \in DecoderState /\ (e => i) /\ (f # <<>> => i /\ ~h)
  BY <1>2, Zenon DEF WellFormed
<1> QED
  BY <1>1, <1>3, <1>4, Zenon

LEMMA FreshIsWellFormed == WellFormed(Fresh)
<1>1. <<>> \in Seq(Byte) /\ FALSE \in BOOLEAN
  OBVIOUS
<1>2. PICK no \in BOOLEAN : no = FALSE
  OBVIOUS
<1>3. WellFormed(State(<<>>, no, no, no))
  BY <1>1, <1>2, WellFormedStates, Zenon
<1> QED
  BY <1>2, <1>3 DEF Fresh

LEMMA ReadsTypes ==
  ASSUME NEW d, WellFormed(d), NEW b \in Byte, NEW e, Reads(d, b, e)
  PROVE  WellFormed(e)
<1>1. /\ d.frame \in Seq(Byte) /\ d.in_frame \in BOOLEAN
      /\ d.in_escape \in BOOLEAN /\ d.header \in BOOLEAN
  BY DEF WellFormed, DecoderState
<1>2. /\ <<>> \in Seq(Byte) /\ FEND \in Byte /\ FESC \in Byte
  BY DEF Byte, FEND, FESC
<1>3. /\ Append(d.frame, b) \in Seq(Byte) /\ Append(d.frame, FEND) \in Seq(Byte)
      /\ Append(d.frame, FESC) \in Seq(Byte)
  BY <1>1, <1>2, AppendProperties
<1>4. PICK head \in BOOLEAN : head = (d.in_frame \/ b % 16 = 0)
  OBVIOUS
<1>5. TRUE \in BOOLEAN /\ FALSE \in BOOLEAN
  OBVIOUS
<1>6. ASSUME NEW f \in Seq(Byte), NEW i \in BOOLEAN, NEW s \in BOOLEAN, NEW h \in BOOLEAN,
             s => i, f # <<>> => i /\ ~h, e = State(f, i, s, h)
      PROVE  WellFormed(e)
  BY <1>6, WellFormedStates, Zenon
<1>a. (d.in_escape => d.in_frame) /\ (d.frame # <<>> => d.in_frame /\ ~d.header)
  BY DEF WellFormed
<1>7. CASE e = State(d.frame, d.in_frame, d.in_escape, TRUE) /\ d.frame = <<>>
  <2> PICK h \in BOOLEAN : h = TRUE
    OBVIOUS
  <2> QED
    BY <1>1, <1>6, <1>7, <1>a, Zenon
<1>8. CASE e = State(d.frame, d.in_frame \/ b % 16 = 0, d.in_escape, FALSE) /\ d.header
  <2>1. e = State(d.frame, head, d.in_escape, FALSE)
    BY <1>4, <1>8
  <2>2. PICK h \in BOOLEAN : h = FALSE
    OBVIOUS
  <2>3. e = State(d.frame, head, d.in_escape, h)
    BY <2>1, <2>2
  <2>4. d.frame = <<>> /\ (d.in_escape => head)
    BY <1>4, <1>8, <1>a
  <2> QED
    BY <1>1, <1>4, <1>6, <2>2, <2>3, <2>4, Zenon
<1>9. CASE e = d
  BY <1>9
<1>10. CASE \E f \in Seq(Byte) : e = State(f, TRUE, FALSE, FALSE) \/ e = State(f, TRUE, TRUE, FALSE)
  <2>1. PICK f \in Seq(Byte) : e = State(f, TRUE, FALSE, FALSE) \/ e = State(f, TRUE, TRUE, FALSE)
    BY <1>10
  <2>2. PICK i \in BOOLEAN, h \in BOOLEAN : i = TRUE /\ h = FALSE
    OBVIOUS
  <2>3. e = State(f, i, h, h) \/ e = State(f, i, i, h)
    BY <2>1, <2>2
  <2> QED
    BY <1>6, <2>2, <2>3, Zenon
<1>11. CASE e = State(<<>>, FALSE, FALSE, FALSE)
  BY <1>11, FreshIsWellFormed DEF Fresh
<1> QED
  BY <1>1, <1>2, <1>3, <1>7, <1>8, <1>9, <1>10, <1>11, Zenon DEF Reads

\* TypeOK with what its proof needs of the other modules' variables.
TypeInv == TypeOK /\ PushedTexts

LEMMA TypeMeansWellFormed ==
  ASSUME TypeOK
  PROVE  DecoderTypes /\ WellFormed(Decoder)
<1>1. DecoderTypes
  BY DEF TypeOK, DecoderTypes
<1>2. (in_escape => in_frame) /\ (frame # <<>> => in_frame /\ ~next_byte_is_header)
  BY DEF TypeOK
<1> QED
  BY <1>1, <1>2, WellFormedStates, Zenon DEF Decoder, DecoderTypes

\* What a call puts on the wire is bytes.
LEMMA SentBytes ==
  ASSUME NEW call, Sendable(call)
  PROVE  /\ EncodeAX25Frame(call) \in Seq(Byte) /\ EncodeAX25Frame(call) # <<>>
         /\ EncodeKISSFrame(EncodeAX25Frame(call)) \in Seq(Byte)
<1>1. /\ IsFrame(EncodeAX25Frame(call), Addresses(call), AddressCount(call), call.payload)
      /\ AddressCount(call) \in 2..10 /\ call.payload \in Seq(Byte)
  BY FrameBytes, AddressesOfCall
<1>2. EncodeAX25Frame(call) \in Seq(Byte) /\ EncodeAX25Frame(call) # <<>>
  <2>1. /\ EncodeAX25Frame(call) \in Seq(Byte)
        /\ Len(EncodeAX25Frame(call)) = 7 * AddressCount(call) + 2 + Len(call.payload)
    BY <1>1, Zenon DEF IsFrame
  <2>2. PICK n \in 2..10, m \in Nat : n = AddressCount(call) /\ m = Len(call.payload)
    BY <1>1, LenProperties
  <2>3. 7 * n + 2 + m # 0
    BY ONLY <2>2, n \in 2..10, m \in Nat
  <2>4. Len(EncodeAX25Frame(call)) # 0
    BY <2>1, <2>2, <2>3
  <2> QED
    BY <2>1, <2>4
<1> QED
  BY <1>2, KISSFrame, Zenon DEF IsKISS

\* TypeOK: every variable holds what the module says, and the flags of the
\* decoder agree with its frame, whatever comes from the socket.
THEOREM TypeCorrect == Spec => []TypeOK
<1>1. Init => TypeInv
  <2> SUFFICES ASSUME Init PROVE TypeInv
    OBVIOUS
  <2>1. PushedTexts
    BY EmptySeq DEF Init, DispatchInit, PushedTexts
  <2>2. /\ <<>> \in Seq(Byte) /\ <<>> \in Seq(Seq(Byte)) /\ <<>> \in Seq(Calls)
        /\ 0 \in 0..MaxOther /\ 0 \in 0..MaxTimeouts
    BY TNCAssumption
  <2> QED
    BY <2>1, <2>2, Zenon DEF Init, DispatchInit, TypeInv, TypeOK, PushedTexts
<1>2. TypeInv /\ PutWasSent /\ PutWasSent' /\ [Next]_vars => TypeInv'
  <2> SUFFICES ASSUME TypeInv, PutWasSent, PutWasSent', [Next]_vars PROVE TypeInv'
    OBVIOUS
  <2>0. put' \in Seq(Calls)
    BY DEF PutWasSent
  <2>w. WellFormed(Decoder) /\ DecoderTypes
    BY TypeMeansWellFormed DEF TypeInv
  <2>x. /\ wire \in Seq(Byte) /\ others \in 0..MaxOther /\ timeouts \in 0..MaxTimeouts
        /\ heard \in Seq(Seq(Byte)) /\ connected \in BOOLEAN /\ running \in BOOLEAN
        /\ PushedTexts
    BY Zenon DEF TypeInv, TypeOK
  <2>y. ASSUME WellFormed(Decoder'), connected' \in BOOLEAN, wire' \in Seq(Byte),
               others' \in 0..MaxOther, timeouts' \in 0..MaxTimeouts,
               heard' \in Seq(Seq(Byte)), running' \in BOOLEAN, PushedTexts'
        PROVE  TypeInv'
    <3>1. /\ frame' \in Seq(Byte) /\ in_frame' \in BOOLEAN
          /\ in_escape' \in BOOLEAN /\ next_byte_is_header' \in BOOLEAN
          /\ in_escape' => in_frame'
          /\ frame' # <<>> => in_frame' /\ ~next_byte_is_header'
      <4>1. WellFormed(State(frame', in_frame', in_escape', next_byte_is_header'))
        BY <2>y, Zenon DEF Decoder
      <4> QED
        BY <4>1, WellFormedStates, Zenon
    <3> QED
      BY <2>0, <2>y, <3>1, Zenon DEF TypeInv, TypeOK, PushedTexts
  <2>z. ASSUME UNCHANGED decoderVars PROVE WellFormed(Decoder')
    <3>1. Decoder' = Decoder
      BY <2>z, Zenon DEF Decoder, decoderVars
    <3> QED
      BY <2>w, <3>1, Zenon
  <2>p. ASSUME UNCHANGED dispatchVars PROVE running' \in BOOLEAN /\ PushedTexts'
    BY <2>x, <2>p, Zenon DEF dispatchVars, PushedTexts
  <2>q. ASSUME UNCHANGED pushed PROVE PushedTexts'
    BY <2>x, <2>q, Zenon DEF PushedTexts
  <2>r. ASSUME Restarted PROVE WellFormed(Decoder')
    <3>1. Decoder' = Fresh
      BY <2>r, Zenon DEF Restarted, Decoder, Fresh
    <3> QED
      BY <3>1, FreshIsWellFormed, Zenon
  <2>1. CASE Connect
    <3>1. running' \in BOOLEAN /\ PushedTexts'
      BY <2>1, <2>p, <2>q, Zenon DEF Connect
    <3>2. connected' \in BOOLEAN /\ wire' \in Seq(Byte)
      BY <2>1, <2>x, TNCAssumption, Zenon DEF Connect
    <3>3. UNCHANGED <<others, timeouts, put, heard>> /\ UNCHANGED decoderVars
      BY <2>1, Zenon DEF Connect
    <3> QED
      BY <2>x, <2>y, <2>z, <3>1, <3>2, <3>3, Zenon
  <2>2. CASE ConnectionLost
    <3>1. /\ connected' = FALSE /\ running' = FALSE
          /\ UNCHANGED <<pushed, wire, others, timeouts, put, heard>> /\ UNCHANGED decoderVars
      BY <2>2, Zenon DEF ConnectionLost
    <3> QED
      BY <2>x, <2>y, <2>z, <2>q, <3>1, Zenon
  <2>3. ASSUME NEW call \in Calls, Send(call) PROVE TypeInv'
    <3>1. Sendable(call)
      BY <2>3, TNCAssumption, Zenon DEF Send, Sendable
    <3>2. PICK k : k = EncodeKISSFrame(EncodeAX25Frame(call))
      OBVIOUS
    <3>3. k \in Seq(Byte)
      BY <3>1, <3>2, SentBytes, Zenon
    <3>4. /\ wire' = wire \o k
          /\ UNCHANGED <<connected, others, timeouts, heard>>
          /\ UNCHANGED decoderVars /\ UNCHANGED dispatchVars
      BY <2>3, <3>2, Zenon DEF Send
    <3>5. wire' \in Seq(Byte)
      BY <2>x, <3>3, <3>4, ConcatProperties
    <3> QED
      BY <2>x, <2>y, <2>z, <2>p, <3>4, <3>5, Zenon
  <2>4. ASSUME NEW bytes \in OtherBytes, GiveOther(bytes) PROVE TypeInv'
    <3>1. /\ wire' = wire \o bytes /\ others < MaxOther /\ others' = others + 1
          /\ UNCHANGED <<connected, timeouts, heard>>
          /\ UNCHANGED decoderVars /\ UNCHANGED dispatchVars
      BY <2>4, Zenon DEF GiveOther
    <3>2. wire' \in Seq(Byte)
      BY <2>x, <3>1, TNCAssumption, ConcatProperties
    <3>3. others' \in 0..MaxOther
      BY <2>x, <3>1, TNCAssumption
    <3> QED
      BY <2>x, <2>y, <2>z, <2>p, <3>1, <3>2, <3>3, Zenon
  <2>5. CASE ReadByte
    <3>1. /\ wire # <<>> /\ wire' = Tail(wire) /\ Head(wire) \in Byte
          /\ UNCHANGED <<connected, others, timeouts, put>>
          /\ \/ /\ heard' = Append(heard, frame)
                /\ Restarted
                /\ UNCHANGED dispatchVars \/ Dispatch(ReceivedFrame(frame))
             \/ /\ Reads(Decoder, Head(wire), Decoder')
                /\ UNCHANGED <<heard, dispatchVars>>
      BY <2>w, <2>5, ReadByteReads, Zenon
    <3>2. wire' \in Seq(Byte)
      BY <2>x, <3>1, HeadTailProperties
    <3>3. CASE Reads(Decoder, Head(wire), Decoder') /\ UNCHANGED <<heard, dispatchVars>>
      <4>1. WellFormed(Decoder')
        BY <2>w, <3>1, <3>3, ReadsTypes, Zenon
      <4> QED
        BY <2>x, <2>y, <2>p, <3>1, <3>2, <3>3, <4>1, Zenon
    <3>4. CASE /\ heard' = Append(heard, frame)
               /\ Restarted
               /\ UNCHANGED dispatchVars \/ Dispatch(ReceivedFrame(frame))
      <4>1. frame \in Seq(Byte)
        BY <2>w DEF DecoderTypes
      <4>2. heard' \in Seq(Seq(Byte))
        BY <2>x, <3>4, <4>1, AppendProperties
      <4>3. running' \in BOOLEAN /\ PushedTexts'
        BY <2>x, <2>p, <3>4, <4>1, DispatchPushesBytes, Zenon
      <4> QED
        BY <2>x, <2>y, <2>r, <3>1, <3>2, <3>4, <4>2, <4>3, Zenon
    <3> QED
      BY <3>1, <3>3, <3>4, Zenon
  <2>6. CASE Timeout
    <3>1. /\ timeouts < MaxTimeouts /\ timeouts' = timeouts + 1 /\ Restarted
          /\ UNCHANGED <<connected, wire, others, heard>> /\ UNCHANGED dispatchVars
      BY <2>6, Zenon DEF Timeout
    <3>2. timeouts' \in 0..MaxTimeouts
      BY <2>x, <3>1, TNCAssumption
    <3> QED
      BY <2>x, <2>y, <2>r, <2>p, <3>1, <3>2, Zenon
  <2>7. CASE UNCHANGED vars
    <3>1. UNCHANGED <<connected, wire, others, timeouts, heard, dispatchVars, decoderVars>>
      BY <2>7, Zenon DEF vars
    <3> QED
      BY <2>x, <2>y, <2>z, <2>p, <3>1, Zenon
  <2> QED
    BY <2>1, <2>2, <2>3, <2>4, <2>5, <2>6, <2>7, Zenon DEF Next
<1>3. TypeInv => TypeOK
  BY DEF TypeInv
<1> QED
  BY <1>1, <1>2, <1>3, PutInvariance, PTL DEF Spec

-----------------------------------------------------------------------------
(* The decoder on the frames of Send.                                      *)

\* The states between frames: nothing has been read of one.
Due == State(<<>>, FALSE, FALSE, TRUE)
Between == {Fresh, Due}

LEMMA BetweenReads ==
  ASSUME NEW d \in Between, NEW b
  PROVE  /\ ~Returns(d, b)
         /\ \A e : Reads(d, FEND, e) => e = Due
         /\ \A e : d = Fresh /\ b # FEND /\ Reads(d, b, e) => e = Fresh
         /\ \A e : d = Due /\ Reads(d, 0, e) => e = State(<<>>, TRUE, FALSE, FALSE)
<1>1. d.frame = <<>> /\ d.in_frame = FALSE /\ d.in_escape = FALSE
  BY DEF Between, Due, Fresh, State
<1>2. d = Fresh => d.header = FALSE
  BY DEF Fresh, State
<1>3. d = Due => d.header = TRUE
  BY DEF Due, State
<1>4. ~Returns(d, b)
  BY <1>1, Zenon DEF Returns
<1>5. ASSUME NEW e, Reads(d, FEND, e) PROVE e = Due
  BY <1>1, <1>5, Zenon DEF Reads, Due
<1>6. ASSUME NEW e, d = Fresh, b # FEND, Reads(d, b, e) PROVE e = Fresh
  BY <1>1, <1>2, <1>6, Zenon DEF Reads
<1>7. ASSUME NEW e, d = Due, Reads(d, 0, e) PROVE e = State(<<>>, TRUE, FALSE, FALSE)
  <2>1. 0 # FEND /\ 0 % 16 = 0
    BY DEF FEND
  <2>2. e = State(d.frame, d.in_frame \/ 0 % 16 = 0, d.in_escape, FALSE)
    BY <1>3, <1>7, <2>1, Zenon DEF Reads
  <2>3. (d.in_frame \/ 0 % 16 = 0) = TRUE
    BY <2>1
  <2> QED
    BY <1>1, <2>2, <2>3
<1> QED
  BY <1>4, <1>5, <1>6, <1>7, Zenon

LEMMA BodyReads ==
  ASSUME NEW g, NEW b, b # FEND
  PROVE  /\ ~Returns(State(g, TRUE, FALSE, FALSE), b)
         /\ ~Returns(State(g, TRUE, TRUE, FALSE), b)
         /\ \A e : Reads(State(g, TRUE, FALSE, FALSE), b, e) =>
              e = IF b = FESC THEN State(g, TRUE, TRUE, FALSE)
                              ELSE State(Append(g, b), TRUE, FALSE, FALSE)
         /\ \A e : Reads(State(g, TRUE, TRUE, FALSE), b, e) =>
              /\ b = TFEND => e = State(Append(g, FEND), TRUE, FALSE, FALSE)
              /\ b = TFESC => e = State(Append(g, FESC), TRUE, FALSE, FALSE)
<1>1. /\ FESC # TFEND /\ FESC # TFESC /\ TFEND # TFESC
  BY DEF FESC, TFEND, TFESC
<1>2. PICK d : d = State(g, TRUE, FALSE, FALSE)
  OBVIOUS
<1>3. d.frame = g /\ d.in_frame = TRUE /\ d.in_escape = FALSE /\ d.header = FALSE
  BY <1>2 DEF State
<1>4. PICK s : s = State(g, TRUE, TRUE, FALSE)
  OBVIOUS
<1>5. s.frame = g /\ s.in_frame = TRUE /\ s.in_escape = TRUE /\ s.header = FALSE
  BY <1>4 DEF State
<1>6. ~Returns(d, b) /\ ~Returns(s, b)
  BY Zenon DEF Returns
<1>7. ASSUME NEW e, Reads(d, b, e)
      PROVE  e = IF b = FESC THEN s ELSE State(Append(g, b), TRUE, FALSE, FALSE)
  <2>1. \/ b = FESC /\ e = State(d.frame, TRUE, TRUE, FALSE)
        \/ b # FESC /\ e = State(Append(d.frame, b), TRUE, FALSE, FALSE)
    BY <1>3, <1>7, Zenon DEF Reads
  <2> QED
    BY <1>3, <1>4, <2>1
<1>8. ASSUME NEW e, Reads(s, b, e)
      PROVE  /\ b = TFEND => e = State(Append(g, FEND), TRUE, FALSE, FALSE)
             /\ b = TFESC => e = State(Append(g, FESC), TRUE, FALSE, FALSE)
  <2>1. /\ b = TFEND => e = State(Append(s.frame, FEND), TRUE, FALSE, FALSE)
        /\ b = TFESC => e = State(Append(s.frame, FESC), TRUE, FALSE, FALSE)
    BY <1>1, <1>5, <1>8, Zenon DEF Reads
  <2> QED
    BY <1>5, <2>1
<1> QED
  BY <1>2, <1>4, <1>6, <1>7, <1>8, Zenon

\* A frame the encoder can be given: one without a byte that it would fail to
\* escape.
Encodes(f) ==
  /\ f \in Seq(Byte) /\ f # <<>>
  /\ CharIsSigned => \A i \in DOMAIN f : f[i] \notin {FEND, FESC}

\* The piece of the body that stands for byte k + 1 of the frame.
IsPiece(f, h, pos, k) ==
  \/ /\ f[k + 1] \notin {FEND, FESC}
     /\ pos[k + 1] = pos[k] + 1
     /\ h[pos[k] + 1] = f[k + 1]
  \/ /\ f[k + 1] = FEND
     /\ pos[k + 1] = pos[k] + 2
     /\ h[pos[k] + 1] = FESC
     /\ h[pos[k] + 2] = TFEND
  \/ /\ f[k + 1] = FESC
     /\ pos[k + 1] = pos[k] + 2
     /\ h[pos[k] + 1] = FESC
     /\ h[pos[k] + 2] = TFESC

LEMMA BodyPieces ==
  ASSUME NEW f, Encodes(f), NEW k \in 0..(Len(f) - 1)
  PROVE  IsPiece(f, KISSBody(f), Cuts(f), k)
<1>1. PICK n \in Nat : n = Len(f) /\ DOMAIN f = 1..n
  BY LenProperties DEF Encodes
<1>2. k + 1 \in 1..n /\ (k + 1) - 1 = k
  BY <1>1
<1>3. PICK c : c = f[k + 1]
  OBVIOUS
<1>4. c \in Byte /\ (CharIsSigned => c \notin {FEND, FESC})
  BY <1>1, <1>2, <1>3, ElementOfSeq DEF Encodes
<1>5. PICK h, pos : h = KISSBody(f) /\ pos = Cuts(f)
  OBVIOUS
<1>6. IsCut(pos, h, EscapedBytes(f), n)
  BY <1>1, <1>5, KISSFrame DEF Encodes
<1>7. PICK e : e = EscapedBytes(f)[k + 1]
  OBVIOUS
<1>8. e = Escape(c)
  BY <1>1, <1>2, <1>3, <1>7, Zenon DEF EscapedBytes
<1>9. /\ pos[k + 1] = pos[k] + Len(e)
      /\ \A j \in 1..Len(e) : h[pos[k] + j] = e[j]
  BY <1>2, <1>6, <1>7 DEF IsCut
<1>10. CASE c \notin {FEND, FESC}
  <2>1. e = <<c>>
    BY <1>4, <1>8, <1>10, EscapeBytes
  <2>2. Len(e) = 1 /\ e[1] = c
    BY <2>1
  <2>3. 1 \in 1..1
    OBVIOUS
  <2> QED
    BY <1>3, <1>5, <1>9, <1>10, <2>2, <2>3, Zenon DEF IsPiece
<1>11. CASE c = FEND
  <2>1. e = <<FESC, TFEND>>
    BY <1>4, <1>8, <1>11, EscapeBytes
  <2>2. Len(e) = 2 /\ e[1] = FESC /\ e[2] = TFEND
    BY <2>1
  <2>3. 1 \in 1..2 /\ 2 \in 1..2
    OBVIOUS
  <2> QED
    BY <1>3, <1>5, <1>9, <1>11, <2>2, <2>3, Zenon DEF IsPiece
<1>12. CASE c = FESC
  <2>1. e = <<FESC, TFESC>>
    BY <1>4, <1>8, <1>12, EscapeBytes
  <2>2. Len(e) = 2 /\ e[1] = FESC /\ e[2] = TFESC
    BY <2>1
  <2>3. 1 \in 1..2 /\ 2 \in 1..2
    OBVIOUS
  <2> QED
    BY <1>3, <1>5, <1>9, <1>12, <2>2, <2>3, Zenon DEF IsPiece
<1> QED
  BY <1>10, <1>11, <1>12

\* No delimiter stands within a body.
LEMMA NoDelimiterInBody ==
  ASSUME NEW f, Encodes(f), NEW y \in 1..Len(KISSBody(f))
  PROVE  KISSBody(f)[y] # FEND
<1>1. PICK n \in Nat : n = Len(f) /\ DOMAIN f = 1..n
  BY LenProperties DEF Encodes
<1>2. PICK h, pos : h = KISSBody(f) /\ pos = Cuts(f)
  OBVIOUS
<1>3. /\ pos \in [0..n -> Nat] /\ pos[0] = 0 /\ pos[n] = Len(h)
  BY <1>1, <1>2, KISSFrame DEF Encodes, IsCut
<1> DEFINE K == {i \in 0..n : y <= pos[i]}
<1>4. K \in SUBSET Nat /\ n \in K
  BY <1>2, <1>3
<1>5. PICK k \in K : \A i \in K : k <= i
  <2>1. K # {}
    BY <1>4
  <2> QED
    BY <1>4, <2>1, LeastElement
<1>6. k \in 0..n /\ y <= pos[k]
  OBVIOUS
<1>7. k # 0
  BY <1>3, <1>6
<1>8. PICK j \in 0..(n - 1) : k = j + 1
  <2>1. k - 1 \in 0..(n - 1) /\ k = (k - 1) + 1
    BY <1>6, <1>7
  <2> QED
    BY <2>1
<1>9. j \in 0..n /\ ~(k <= j)
  BY <1>8
<1>10. ~(y <= pos[j])
  BY <1>5, <1>9
<1> HIDE DEF K
<1>11. pos[j] \in Nat /\ pos[j + 1] \in Nat /\ y \in Nat /\ pos[j] < y /\ y <= pos[j + 1]
  BY <1>3, <1>6, <1>8, <1>9, <1>10
<1>12. IsPiece(f, h, pos, j)
  BY <1>1, <1>2, BodyPieces
<1>13. PICK p \in Nat, q \in Nat : p = pos[j] /\ q = pos[j + 1]
  BY <1>11
<1>14. p < y /\ y <= q
  BY <1>11, <1>13
<1>15. FESC # FEND /\ TFEND # FEND /\ TFESC # FEND
  BY DEF FEND, FESC, TFEND, TFESC
<1>16. CASE q = p + 1 /\ f[j + 1] \notin {FEND, FESC} /\ h[p + 1] = f[j + 1]
  <2>1. y = p + 1
    BY <1>14, <1>16
  <2> QED
    BY <1>2, <1>16, <2>1
<1>17. CASE /\ q = p + 2 /\ h[p + 1] = FESC
            /\ h[p + 2] = TFEND \/ h[p + 2] = TFESC
  <2>1. y = p + 1 \/ y = p + 2
    BY <1>14, <1>17
  <2> QED
    BY <1>2, <1>15, <1>17, <2>1
<1> QED
  BY <1>12, <1>13, <1>16, <1>17, Zenon DEF IsPiece

\* The state of a decoder that has read x bytes of the KISS frame of f.
InFrame(f, x, d) ==
  \/ x = 1 /\ d = Due
  \/ \E k \in 0..Len(f) :
       /\ x = Cuts(f)[k] + 2
       /\ d = State(SubSeq(f, 1, k), TRUE, FALSE, FALSE)
  \/ \E k \in 0..(Len(f) - 1) :
       /\ x = Cuts(f)[k] + 3
       /\ Cuts(f)[k + 1] = Cuts(f)[k] + 2
       /\ d = State(SubSeq(f, 1, k), TRUE, TRUE, FALSE)

LEMMA Beginnings ==
  ASSUME NEW f \in Seq(Byte)
  PROVE  /\ SubSeq(f, 1, 0) = <<>>
         /\ SubSeq(f, 1, Len(f)) = f
         /\ \A k \in 0..Len(f) : SubSeq(f, 1, k) \in Seq(Byte)
         /\ \A k \in 0..(Len(f) - 1) : Append(SubSeq(f, 1, k), f[k + 1]) = SubSeq(f, 1, k + 1)
<1>1. PICK n \in Nat : n = Len(f) /\ DOMAIN f = 1..n
  BY LenProperties
<1>2. \A i \in 1..n : f[i] \in Byte
  BY <1>1, ElementOfSeq
<1>3. ASSUME NEW k \in 0..n
      PROVE  /\ SubSeq(f, 1, k) \in Seq(Byte)
             /\ Len(SubSeq(f, 1, k)) = k
             /\ \A i \in 1..k : SubSeq(f, 1, k)[i] = f[i]
  <2>1. 1 \in Int /\ k \in Int /\ \A i \in 1..k : f[i] \in Byte
    BY <1>2
  <2>2. /\ SubSeq(f, 1, k) \in Seq(Byte)
        /\ Len(SubSeq(f, 1, k)) = IF 1 <= k THEN k - 1 + 1 ELSE 0
        /\ \A i \in 1..(k - 1 + 1) : SubSeq(f, 1, k)[i] = f[1 + i - 1]
    BY ONLY <2>1, SubSeqProperties
  <2>3. Len(SubSeq(f, 1, k)) = k
    BY <2>2
  <2>4. \A i \in 1..k : SubSeq(f, 1, k)[i] = f[i]
    <3> SUFFICES ASSUME NEW i \in 1..k PROVE SubSeq(f, 1, k)[i] = f[i]
      OBVIOUS
    <3>1. i \in 1..(k - 1 + 1) /\ 1 + i - 1 = i
      OBVIOUS
    <3> QED
      BY <2>2, <3>1
  <2> QED
    BY <2>2, <2>3, <2>4
<1>4. SubSeq(f, 1, 0) = <<>>
  <2>1. SubSeq(f, 1, 0) \in Seq(Byte) /\ Len(SubSeq(f, 1, 0)) = 0
    BY <1>3
  <2> QED
    BY <2>1, EmptySeq
<1>5. SubSeq(f, 1, n) = f
  <2>1. PICK g : g = SubSeq(f, 1, n)
    OBVIOUS
  <2>2. g \in Seq(Byte) /\ Len(g) = Len(f) /\ \A i \in 1..Len(f) : g[i] = f[i]
    BY <1>1, <1>3, <2>1
  <2> QED
    BY <2>1, <2>2, SeqEqual
<1>6. ASSUME NEW k \in 0..(n - 1)
      PROVE  Append(SubSeq(f, 1, k), f[k + 1]) = SubSeq(f, 1, k + 1)
  <2>1. k \in 0..n /\ k + 1 \in 0..n /\ k + 1 \in 1..n
    OBVIOUS
  <2>2. PICK g : g = SubSeq(f, 1, k)
    OBVIOUS
  <2>3. g \in Seq(Byte) /\ Len(g) = k /\ \A i \in 1..k : g[i] = f[i]
    BY <1>3, <2>1, <2>2
  <2>4. PICK c \in Byte : c = f[k + 1]
    BY <1>2, <2>1
  <2>5. PICK a : a = Append(g, c)
    OBVIOUS
  <2>6. /\ a \in Seq(Byte) /\ Len(a) = k + 1
        /\ \A i \in 1..k : a[i] = f[i]
        /\ a[k + 1] = f[k + 1]
    <3>1. /\ a \in Seq(Byte) /\ Len(a) = Len(g) + 1
          /\ \A i \in 1..Len(g) : a[i] = g[i]
          /\ a[Len(g) + 1] = c
      BY <2>3, <2>4, <2>5, AppendProperties
    <3> QED
      BY <2>3, <2>4, <3>1
  <2>7. \A i \in 1..(k + 1) : a[i] = f[i]
    <3> SUFFICES ASSUME NEW i \in 1..(k + 1) PROVE a[i] = f[i]
      OBVIOUS
    <3>1. i \in 1..k \/ i = k + 1
      OBVIOUS
    <3> QED
      BY <2>6, <3>1
  <2>8. PICK b : b = SubSeq(f, 1, k + 1)
    OBVIOUS
  <2>9. b \in Seq(Byte) /\ Len(b) = k + 1 /\ \A i \in 1..(k + 1) : b[i] = f[i]
    BY <1>3, <2>1, <2>8
  <2>10. a = b
    <3>1. Len(a) = Len(b) /\ \A i \in 1..Len(a) : a[i] = b[i]
      BY <2>6, <2>7, <2>9
    <3> QED
      BY <2>6, <2>9, <3>1, SeqEqual
  <2> QED
    BY <2>2, <2>4, <2>5, <2>8, <2>10
<1> QED
  BY <1>1, <1>3, <1>4, <1>5, <1>6

\* What the lemmas below need to know of the KISS frame w of f, its body of m
\* bytes and the places where the bytes of f end in it.
OnWire(f, n, m, pos, w) ==
  /\ n = Len(f) /\ m = Len(KISSBody(f)) /\ pos = Cuts(f) /\ w = EncodeKISSFrame(f)
  /\ Len(w) = m + 3
  /\ w[1] = FEND /\ w[2] = 0 /\ w[m + 3] = FEND
  /\ \A i \in 1..m : w[i + 2] = KISSBody(f)[i] /\ w[i + 2] # FEND
  /\ pos \in [0..n -> Nat]
  /\ pos[0] = 0 /\ pos[n] = m
  /\ \A k \in 0..n : pos[k] <= m
  /\ \A k \in 0..(n - 1) : IsPiece(f, KISSBody(f), pos, k)

LEMMA FrameOnWire ==
  ASSUME NEW f, Encodes(f)
  PROVE  \E n \in Nat \ {0}, m \in Nat : \E pos : OnWire(f, n, m, pos, EncodeKISSFrame(f))
<1>1. f \in Seq(Byte) /\ f # <<>>
  BY DEF Encodes
<1>2. PICK n \in Nat : n = Len(f)
  BY <1>1, LenProperties
<1>3. n # 0
  BY <1>1, <1>2, EmptySeq
<1>4. PICK h, pos, w : h = KISSBody(f) /\ pos = Cuts(f) /\ w = EncodeKISSFrame(f)
  OBVIOUS
<1>5. IsKISS(w, h) /\ IsCut(pos, h, EscapedBytes(f), n)
  BY <1>1, <1>2, <1>4, KISSFrame
<1>6. PICK m \in Nat : m = Len(h)
  BY <1>5, LenProperties DEF IsKISS
<1>7. /\ w \in Seq(Byte) /\ Len(w) = m + 3
      /\ w[1] = FEND /\ w[2] = 0 /\ w[m + 3] = FEND
      /\ \A i \in 1..m : w[i + 2] = h[i]
  BY <1>5, <1>6 DEF IsKISS
<1>8. \A i \in 1..m : h[i] # FEND
  BY <1>4, <1>6, NoDelimiterInBody
<1>9. pos \in [0..n -> Nat] /\ pos[0] = 0 /\ pos[n] = m
  BY <1>5, <1>6 DEF IsCut
<1>10. \A k \in 0..n : pos[k] <= m
  <2>1. \A k \in 1..n : pos[k] <= Len(h)
    BY <1>5 DEF IsCut
  <2> SUFFICES ASSUME NEW k \in 0..n PROVE pos[k] <= m
    OBVIOUS
  <2>2. k = 0 \/ k \in 1..n
    OBVIOUS
  <2> QED
    BY <1>6, <1>9, <2>1, <2>2
<1>11. \A k \in 0..(n - 1) : IsPiece(f, h, pos, k)
  BY <1>2, <1>4, BodyPieces
<1>12. n \in Nat \ {0}
  BY <1>3
<1>13. OnWire(f, n, m, pos, w)
  <2>1. \A i \in 1..m : w[i + 2] = KISSBody(f)[i] /\ w[i + 2] # FEND
    BY <1>4, <1>7, <1>8
  <2> QED
    BY <2>1, <1>2, <1>4, <1>6, <1>7, <1>9, <1>10, <1>11, Zenon DEF OnWire
<1> QED
  BY <1>4, <1>12, <1>13, Zenon

\* Every byte but the last takes the decoder on in the frame, and before the
\* last the decoder holds all of it.
LEMMA FrameRead ==
  ASSUME NEW f, Encodes(f), NEW w, w = EncodeKISSFrame(f), NEW d
  PROVE  /\ \A x \in 1..(Len(w) - 2) : InFrame(f, x, d) =>
              /\ ~Returns(d, w[x + 1])
              /\ \A e : Reads(d, w[x + 1], e) => InFrame(f, x + 1, e)
         /\ InFrame(f, Len(w) - 1, d) => d = State(f, TRUE, FALSE, FALSE)
<1>1. PICK n \in Nat \ {0}, m \in Nat : \E pos : OnWire(f, n, m, pos, w)
  BY FrameOnWire, Zenon
<1>1b. PICK pos : OnWire(f, n, m, pos, w)
  BY <1>1
<1>1a. /\ pos \in [0..n -> Nat]
       /\ n = Len(f) /\ pos = Cuts(f)
       /\ Len(w) = m + 3
       /\ w[1] = FEND /\ w[2] = 0 /\ w[m + 3] = FEND
       /\ \A i \in 1..m : w[i + 2] = KISSBody(f)[i] /\ w[i + 2] # FEND
       /\ pos[0] = 0 /\ pos[n] = m
       /\ \A k \in 0..n : pos[k] <= m
       /\ \A k \in 0..(n - 1) : IsPiece(f, KISSBody(f), pos, k)
  BY <1>1b, Zenon DEF OnWire
<1>1c. \A k \in 0..n : pos[k] \in Nat
  BY <1>1a
<1>f. /\ SubSeq(f, 1, 0) = <<>>
      /\ SubSeq(f, 1, n) = f
      /\ \A k \in 0..(n - 1) : Append(SubSeq(f, 1, k), f[k + 1]) = SubSeq(f, 1, k + 1)
  BY <1>1a, Beginnings DEF Encodes
<1>2. PICK h : h = KISSBody(f)
  OBVIOUS
<1>a. \A y, e : InFrame(f, y, e) <=>
          \/ y = 1 /\ e = Due
          \/ \E k \in 0..n :
               y = pos[k] + 2 /\ e = State(SubSeq(f, 1, k), TRUE, FALSE, FALSE)
          \/ \E k \in 0..(n - 1) :
               /\ y = pos[k] + 3 /\ pos[k + 1] = pos[k] + 2
               /\ e = State(SubSeq(f, 1, k), TRUE, TRUE, FALSE)
  BY <1>1a, Zenon DEF InFrame
<1>b. FESC # FEND /\ TFEND # FEND /\ TFESC # FEND /\ 0 # FEND
  BY DEF FEND, FESC, TFEND, TFESC
<1>3. ASSUME NEW x \in 1..(m + 1), InFrame(f, x, d)
      PROVE  /\ ~Returns(d, w[x + 1])
             /\ \A e : Reads(d, w[x + 1], e) => InFrame(f, x + 1, e)
  <2>1. CASE x = 1 /\ d = Due
    <3>1. x + 1 = 2 /\ w[x + 1] = 0
      BY <1>1a, <2>1
    <3>2. Due \in Between
      BY DEF Between
    <3>3. ASSUME NEW e, Reads(d, 0, e) PROVE InFrame(f, 2, e)
      <4>1. e = State(SubSeq(f, 1, 0), TRUE, FALSE, FALSE)
        BY <1>f, <2>1, <3>2, <3>3, BetweenReads
      <4>2. 0 \in 0..n /\ 2 = pos[0] + 2
        BY <1>1a
      <4> QED
        BY <1>a, <4>1, <4>2
    <3> QED
      BY <2>1, <3>1, <3>2, <3>3, BetweenReads
  <2>2. ASSUME NEW k \in 0..n, x = pos[k] + 2,
               d = State(SubSeq(f, 1, k), TRUE, FALSE, FALSE)
        PROVE  /\ ~Returns(d, w[x + 1])
               /\ \A e : Reads(d, w[x + 1], e) => InFrame(f, x + 1, e)
    <3>0. PICK p \in Nat : p = pos[k]
      BY <1>1c, Zenon
    <3>1. k # n
      BY <1>1a, <2>2, <3>0
    <3>2. k \in 0..(n - 1) /\ k + 1 \in 0..n
      BY <3>1
    <3>3. p + 1 \in 1..m /\ (p + 1) + 2 = x + 1
      BY <2>2, <3>0
    <3>4. PICK b : b = w[x + 1]
      OBVIOUS
    <3>5. b = h[p + 1] /\ b # FEND
      BY <1>1a, <1>2, <3>3, <3>4
    <3>6. PICK g : g = SubSeq(f, 1, k)
      OBVIOUS
    <3>7. ~Returns(d, b)
      BY <2>2, <3>5, <3>6, BodyReads
    <3>8. ASSUME NEW e, Reads(d, b, e) PROVE InFrame(f, x + 1, e)
      <4>1. e = IF b = FESC THEN State(g, TRUE, TRUE, FALSE)
                            ELSE State(Append(g, b), TRUE, FALSE, FALSE)
        BY <2>2, <3>5, <3>6, <3>8, BodyReads
      <4>2. IsPiece(f, h, pos, k)
        BY <1>1a, <1>2, <3>2
      <4>3. CASE /\ f[k + 1] \notin {FEND, FESC}
                 /\ pos[k + 1] = pos[k] + 1
                 /\ h[pos[k] + 1] = f[k + 1]
        <5>1. b = f[k + 1] /\ b # FESC
          BY <3>0, <3>5, <4>3
        <5>2. e = State(SubSeq(f, 1, k + 1), TRUE, FALSE, FALSE)
          BY <1>f, <3>2, <3>6, <4>1, <5>1
        <5>3. x + 1 = pos[k + 1] + 2
          BY <2>2, <3>0, <4>3
        <5> QED
          BY <1>a, <3>2, <5>2, <5>3
      <4>4. CASE pos[k + 1] = pos[k] + 2 /\ h[pos[k] + 1] = FESC
        <5>1. e = State(SubSeq(f, 1, k), TRUE, TRUE, FALSE)
          BY <3>0, <3>5, <3>6, <4>1, <4>4
        <5>2. x + 1 = pos[k] + 3
          BY <2>2, <3>0
        <5> QED
          BY <1>a, <3>2, <4>4, <5>1, <5>2
      <4> QED
        BY <4>2, <4>3, <4>4, Zenon DEF IsPiece
    <3> QED
      BY <3>4, <3>7, <3>8
  <2>3. ASSUME NEW k \in 0..(n - 1), x = pos[k] + 3, pos[k + 1] = pos[k] + 2,
               d = State(SubSeq(f, 1, k), TRUE, TRUE, FALSE)
        PROVE  /\ ~Returns(d, w[x + 1])
               /\ \A e : Reads(d, w[x + 1], e) => InFrame(f, x + 1, e)
    <3>0. k \in 0..n /\ k + 1 \in 0..n
      OBVIOUS
    <3>1. PICK p \in Nat : p = pos[k]
      BY <1>1c, <3>0, Zenon
    <3>2. p + 2 <= m
      BY <1>1a, <2>3, <3>0, <3>1
    <3>3. p + 2 \in 1..m /\ (p + 2) + 2 = x + 1
      BY <2>3, <3>1, <3>2
    <3>4. PICK b : b = w[x + 1]
      OBVIOUS
    <3>5. b = h[p + 2] /\ b # FEND
      BY <1>1a, <1>2, <3>3, <3>4
    <3>6. PICK g : g = SubSeq(f, 1, k)
      OBVIOUS
    <3>7. ~Returns(d, b)
      BY <2>3, <3>5, <3>6, BodyReads
    <3>8. ASSUME NEW e, Reads(d, b, e) PROVE InFrame(f, x + 1, e)
      <4>1. /\ b = TFEND => e = State(Append(g, FEND), TRUE, FALSE, FALSE)
            /\ b = TFESC => e = State(Append(g, FESC), TRUE, FALSE, FALSE)
        BY <2>3, <3>5, <3>6, <3>8, BodyReads
      <4>2. IsPiece(f, h, pos, k)
        BY <1>1a, <1>2
      <4>3. ~(pos[k + 1] = pos[k] + 1)
        BY <2>3, <3>1
      <4>4. \/ h[p + 2] = TFEND /\ f[k + 1] = FEND
            \/ h[p + 2] = TFESC /\ f[k + 1] = FESC
        BY <3>1, <4>2, <4>3, Zenon DEF IsPiece
      <4>5. e = State(Append(g, f[k + 1]), TRUE, FALSE, FALSE)
        BY <3>5, <4>1, <4>4, Zenon
      <4>6. e = State(SubSeq(f, 1, k + 1), TRUE, FALSE, FALSE)
        BY <1>f, <3>6, <4>5
      <4>7. x + 1 = pos[k + 1] + 2
        BY <2>3, <3>1
      <4> QED
        BY <1>a, <3>0, <4>6, <4>7
    <3> QED
      BY <3>4, <3>7, <3>8
  <2>4. \/ x = 1 /\ d = Due
        \/ \E k \in 0..n :
             x = pos[k] + 2 /\ d = State(SubSeq(f, 1, k), TRUE, FALSE, FALSE)
        \/ \E k \in 0..(n - 1) :
             /\ x = pos[k] + 3 /\ pos[k + 1] = pos[k] + 2
             /\ d = State(SubSeq(f, 1, k), TRUE, TRUE, FALSE)
    BY <1>3, <1>a, ZenonT(60)
  <2> QED
    BY <2>1, <2>2, <2>3, <2>4, Zenon
<1>4. ASSUME InFrame(f, m + 2, d) PROVE d = State(f, TRUE, FALSE, FALSE)
  <2>1. m + 2 # 1
    OBVIOUS
  <2>2. ASSUME NEW k \in 0..(n - 1), m + 2 = pos[k] + 3, pos[k + 1] = pos[k] + 2 PROVE FALSE
    <3>1. k \in 0..n /\ k + 1 \in 0..n
      OBVIOUS
    <3>2. PICK p \in Nat : p = pos[k]
      BY <1>1c, <3>1, Zenon
    <3>3. p + 2 <= m
      BY <1>1a, <2>2, <3>1, <3>2
    <3> QED
      BY <2>2, <3>2, <3>3
  <2>3. PICK k \in 0..n : m + 2 = pos[k] + 2 /\ d = State(SubSeq(f, 1, k), TRUE, FALSE, FALSE)
    BY <1>4, <1>a, <2>1, <2>2, Zenon
  <2>4. k = n
    <3> SUFFICES ASSUME k # n PROVE FALSE
      OBVIOUS
    <3>1. k \in 0..(n - 1) /\ k + 1 \in 0..n
      OBVIOUS
    <3>2. PICK p \in Nat, q \in Nat : p = pos[k] /\ q = pos[k + 1]
      BY <1>1c, <3>1, Zenon
    <3>3. q = p + 1 \/ q = p + 2
      BY <1>1a, <3>1, <3>2, Zenon DEF IsPiece
    <3>4. q <= m /\ p = m
      BY <1>1a, <2>3, <3>1, <3>2
    <3> QED
      BY <3>3, <3>4
  <2> QED
    BY <1>f, <2>3, <2>4
<1>5. Len(w) - 2 = m + 1 /\ Len(w) - 1 = m + 2
  BY <1>1a
<1> QED
  BY <1>3, <1>4, <1>5

-----------------------------------------------------------------------------
(* What is read from a wire.                                               *)

FramesOf(calls) == [i \in DOMAIN calls |-> EncodeAX25Frame(calls[i])]

\* What may have been heard after t timeouts when these calls' frames came on
\* the wire, and what must have been when all is read.
Fits(h, t, calls) ==
  /\ h \in Seq(Seq(Byte)) /\ t \in Nat
  /\ Interface!InOrder(h, FramesOf(calls))
  /\ t = 0 => \A i \in DOMAIN h : i \in DOMAIN calls /\ h[i] = FramesOf(calls)[i]

FitsAll(h, t, calls) == Fits(h, t, calls) /\ (t = 0 => Len(h) = Len(calls))

\* S[x] holds the states <<decoder, heard, timeouts>> in which x bytes of the
\* wire w have been read; a timeout may come anywhere.  Nothing but frames of
\* the calls is heard, and in the end all of them unless a timeout came.
Paths(S, w, calls) ==
  \A x \in 0..Len(w) : \A d, h, t : <<d, h, t>> \in S[x] =>
    /\ Fits(h, t, calls)
    /\ <<Fresh, h, t + 1>> \in S[x]
    /\ x < Len(w) =>
         /\ Returns(d, w[x + 1]) => <<Fresh, Append(h, d.frame), t>> \in S[x + 1]
         /\ \A e : Reads(d, w[x + 1], e) => <<e, h, t>> \in S[x + 1]
    /\ x = Len(w) => d \in Between /\ FitsAll(h, t, calls)

\* S leaves from wherever the decoder may be when all before has been read.
Starts(S, from, calls) ==
  \A d, h, t : d \in from /\ FitsAll(h, t, calls) => <<d, h, t>> \in S[0]

LEMMA FitsAfterTimeout ==
  ASSUME NEW h, NEW t, NEW calls, Fits(h, t, calls)
  PROVE  Fits(h, t + 1, calls) /\ FitsAll(h, t + 1, calls)
<1>1. t \in Nat
  BY DEF Fits
<1>2. t + 1 \in Nat /\ t + 1 # 0
  BY <1>1
<1> QED
  BY <1>2, Zenon DEF Fits, FitsAll

LEMMA MoreFrames ==
  ASSUME NEW calls \in Seq(Calls), NEW call \in Calls
  PROVE  /\ DOMAIN calls = 1..Len(calls) /\ Len(calls) \in Nat
         /\ DOMAIN FramesOf(calls) = 1..Len(calls)
         /\ DOMAIN Append(calls, call) = 1..(Len(calls) + 1)
         /\ Len(Append(calls, call)) = Len(calls) + 1
         /\ DOMAIN FramesOf(Append(calls, call)) = 1..(Len(calls) + 1)
         /\ \A i \in 1..Len(calls) : FramesOf(Append(calls, call))[i] = FramesOf(calls)[i]
         /\ FramesOf(Append(calls, call))[Len(calls) + 1] = EncodeAX25Frame(call)
<1>1. PICK n \in Nat : n = Len(calls) /\ DOMAIN calls = 1..n
  BY LenProperties
<1>2. PICK more : more = Append(calls, call)
  OBVIOUS
<1>3. /\ more \in Seq(Calls) /\ Len(more) = n + 1
      /\ \A i \in 1..n : more[i] = calls[i]
      /\ more[n + 1] = call
  BY <1>1, <1>2, AppendProperties
<1>4. DOMAIN more = 1..(n + 1)
  BY <1>3, LenProperties
<1>5. \A i \in 1..n : FramesOf(calls)[i] = EncodeAX25Frame(calls[i])
  BY <1>1, Zenon DEF FramesOf
<1>6. \A i \in 1..(n + 1) : FramesOf(more)[i] = EncodeAX25Frame(more[i])
  BY <1>4, Zenon DEF FramesOf
<1>7. \A i \in 1..n : i \in 1..(n + 1)
  OBVIOUS
<1>8. n + 1 \in 1..(n + 1)
  OBVIOUS
<1>9. DOMAIN FramesOf(calls) = 1..n /\ DOMAIN FramesOf(more) = 1..(n + 1)
  BY <1>1, <1>4, Zenon DEF FramesOf
<1>10. \A i \in 1..n : FramesOf(more)[i] = FramesOf(calls)[i]
  BY <1>3, <1>5, <1>6, <1>7, Zenon
<1>11. FramesOf(more)[n + 1] = EncodeAX25Frame(call)
  BY <1>3, <1>6, <1>8, Zenon
<1> QED
  BY <1>1, <1>2, <1>3, <1>4, <1>9, <1>10, <1>11

LEMMA FitsMore ==
  ASSUME NEW calls \in Seq(Calls), NEW call \in Calls, NEW h, NEW t, Fits(h, t, calls)
  PROVE  Fits(h, t, Append(calls, call))
<1>1. PICK n \in Nat : n = Len(calls)
  BY LenProperties
<1>2. PICK F, G, more : F = FramesOf(calls) /\ more = Append(calls, call) /\ G = FramesOf(more)
  OBVIOUS
<1>3. /\ DOMAIN calls = 1..n /\ DOMAIN F = 1..n
      /\ DOMAIN more = 1..(n + 1) /\ DOMAIN G = 1..(n + 1)
      /\ \A i \in 1..n : G[i] = F[i]
  BY <1>1, <1>2, MoreFrames
<1>4. \A i \in 1..n : i \in 1..(n + 1)
  OBVIOUS
<1>5. PICK at \in [DOMAIN h -> 1..n] :
        /\ \A i, j \in DOMAIN h : i < j => at[i] < at[j]
        /\ \A i \in DOMAIN h : h[i] = F[at[i]]
  BY <1>2, <1>3, Zenon DEF Fits, Interface!InOrder
<1>6. at \in [DOMAIN h -> 1..(n + 1)] /\ \A i \in DOMAIN h : at[i] \in 1..n
  BY <1>4
<1>7. \A i \in DOMAIN h : h[i] = G[at[i]]
  BY <1>3, <1>5, <1>6, Zenon
<1>8. Interface!InOrder(h, G)
  BY <1>3, <1>5, <1>6, <1>7, Zenon DEF Interface!InOrder
<1>9. t = 0 => \A i \in DOMAIN h : i \in DOMAIN more /\ h[i] = G[i]
  BY <1>2, <1>3, <1>4, Zenon DEF Fits
<1> QED
  BY <1>2, <1>8, <1>9, Zenon DEF Fits

LEMMA FitsOneMore ==
  ASSUME NEW calls \in Seq(Calls), NEW call \in Calls, NEW h, NEW t, FitsAll(h, t, calls),
         EncodeAX25Frame(call) \in Seq(Byte)
  PROVE  FitsAll(Append(h, EncodeAX25Frame(call)), t, Append(calls, call))
<1>1. PICK n \in Nat : n = Len(calls)
  BY LenProperties
<1>2. PICK F, G, more : F = FramesOf(calls) /\ more = Append(calls, call) /\ G = FramesOf(more)
  OBVIOUS
<1>f. PICK f \in Seq(Byte) : f = EncodeAX25Frame(call)
  OBVIOUS
<1>3. /\ DOMAIN calls = 1..n /\ DOMAIN F = 1..n
      /\ DOMAIN more = 1..(n + 1) /\ DOMAIN G = 1..(n + 1) /\ Len(more) = n + 1
      /\ \A i \in 1..n : G[i] = F[i]
      /\ G[n + 1] = f
  BY <1>1, <1>2, <1>f, MoreFrames
<1>4. h \in Seq(Seq(Byte)) /\ t \in Nat
  BY DEF FitsAll, Fits
<1>5. PICK m \in Nat : m = Len(h) /\ DOMAIN h = 1..m
  BY <1>4, LenProperties
<1>6. PICK g : g = Append(h, f)
  OBVIOUS
<1>7. /\ g \in Seq(Seq(Byte)) /\ Len(g) = m + 1
      /\ \A i \in 1..m : g[i] = h[i]
      /\ g[m + 1] = f
  BY <1>4, <1>5, <1>6, AppendProperties
<1>8. DOMAIN g = 1..(m + 1)
  BY <1>7, LenProperties
<1>9. PICK at \in [1..m -> 1..n] :
        /\ \A i, j \in 1..m : i < j => at[i] < at[j]
        /\ \A i \in 1..m : h[i] = F[at[i]]
  <2>1. Interface!InOrder(h, F)
    BY <1>2, Zenon DEF FitsAll, Fits
  <2>2. PICK at \in [DOMAIN h -> DOMAIN F] :
        /\ \A i, j \in DOMAIN h : i < j => at[i] < at[j]
        /\ \A i \in DOMAIN h : h[i] = F[at[i]]
    BY <2>1, Zenon DEF Interface!InOrder
  <2> QED
    BY <1>3, <1>5, <2>2
<1> DEFINE to == [i \in 1..(m + 1) |-> IF i = m + 1 THEN n + 1 ELSE at[i]]
<1>10. \A i \in 1..(m + 1) : i = m + 1 \/ i \in 1..m
  OBVIOUS
<1>11. \A i \in 1..m : to[i] = at[i] /\ at[i] \in 1..n /\ i \in 1..(m + 1)
  OBVIOUS
<1>12. to[m + 1] = n + 1 /\ m + 1 \in 1..(m + 1)
  OBVIOUS
<1>13. to \in [1..(m + 1) -> 1..(n + 1)]
  OBVIOUS
<1> HIDE DEF to
<1>14. ASSUME NEW i \in 1..(m + 1), NEW j \in 1..(m + 1), i < j PROVE to[i] < to[j]
  <2>1. i \in 1..m
    BY <1>14
  <2>2. CASE j \in 1..m
    BY <1>9, <1>11, <1>14, <2>1, <2>2
  <2>3. CASE j = m + 1
    <3>1. PICK a \in 1..n : a = at[i]
      BY <1>11, <2>1
    <3> QED
      BY <1>11, <1>12, <2>1, <2>3, <3>1
  <2> QED
    BY <1>10, <2>2, <2>3
<1>15. ASSUME NEW i \in 1..(m + 1) PROVE g[i] = G[to[i]]
  <2>1. CASE i \in 1..m
    BY <1>3, <1>7, <1>9, <1>11, <2>1, ZenonT(60)
  <2>2. CASE i = m + 1
    BY <1>3, <1>7, <1>12, <2>2, Zenon
  <2> QED
    BY <1>10, <2>1, <2>2
<1>16. Interface!InOrder(g, G)
  BY <1>3, <1>8, <1>13, <1>14, <1>15, Zenon DEF Interface!InOrder
<1>17. ASSUME t = 0 PROVE /\ \A i \in DOMAIN g : i \in DOMAIN more /\ g[i] = G[i]
                          /\ Len(g) = Len(more)
  <2>1. m = n
    BY <1>1, <1>5, <1>17 DEF FitsAll
  <2>2. \A i \in 1..m : h[i] = F[i]
    BY <1>2, <1>5, <1>17, Zenon DEF FitsAll, Fits
  <2>3. \A i \in 1..m : g[i] = G[i]
    BY <1>3, <1>7, <2>1, <2>2
  <2>4. g[m + 1] = G[m + 1]
    BY <1>3, <1>7, <2>1
  <2> QED
    BY <1>3, <1>7, <1>8, <1>10, <2>1, <2>3, <2>4
<1>18. FitsAll(g, t, more)
  BY <1>2, <1>4, <1>7, <1>16, <1>17, Zenon DEF Fits, FitsAll
<1> QED
  BY <1>2, <1>f, <1>6, <1>18

LEMMA PathsTail ==
  ASSUME NEW w \in Seq(Byte), w # <<>>, NEW S, NEW calls, Paths(S, w, calls)
  PROVE  Paths([x \in 0..(Len(w) - 1) |-> S[x + 1]], Tail(w), calls)
<1>1. PICK n \in Nat : Len(w) = n + 1
  BY EmptySeq, LenProperties
<1>2. PICK v : v = Tail(w)
  OBVIOUS
<1>3. v \in Seq(Byte) /\ Len(v) = n /\ \A x \in 1..n : v[x] = w[x + 1]
  <2>1. v \in Seq(Byte) /\ Len(v) = Len(w) - 1 /\ \A x \in 1..Len(v) : v[x] = w[x + 1]
    BY <1>2, HeadTailProperties
  <2> QED
    BY <1>1, <2>1
<1>4. PICK T : T = [x \in 0..n |-> S[x + 1]]
  OBVIOUS
<1>5. ASSUME NEW x \in 0..n, NEW d, NEW h, NEW t, <<d, h, t>> \in T[x]
      PROVE  /\ Fits(h, t, calls)
             /\ <<Fresh, h, t + 1>> \in T[x]
             /\ x < n =>
                  /\ Returns(d, v[x + 1]) => <<Fresh, Append(h, d.frame), t>> \in T[x + 1]
                  /\ \A e : Reads(d, v[x + 1], e) => <<e, h, t>> \in T[x + 1]
             /\ x = n => d \in Between /\ FitsAll(h, t, calls)
  <2>1. PICK y \in 0..(n + 1) : y = x + 1
    OBVIOUS
  <2>2. T[x] = S[y]
    BY <1>4, <2>1
  <2>3. /\ Fits(h, t, calls)
        /\ <<Fresh, h, t + 1>> \in S[y]
        /\ y < n + 1 =>
             /\ Returns(d, w[y + 1]) => <<Fresh, Append(h, d.frame), t>> \in S[y + 1]
             /\ \A e : Reads(d, w[y + 1], e) => <<e, h, t>> \in S[y + 1]
        /\ y = n + 1 => d \in Between /\ FitsAll(h, t, calls)
    <3>1. <<d, h, t>> \in S[y] /\ y \in 0..Len(w)
      BY <1>1, <1>5, <2>2
    <3> QED
      BY <1>1, <3>1, Zenon DEF Paths
  <2>4. x = n => y = n + 1
    BY <2>1
  <2>5. x < n => y < n + 1 /\ x + 1 \in 1..n /\ x + 1 \in 0..n /\ y + 1 = (x + 1) + 1
    BY <2>1
  <2>6. x < n => v[x + 1] = w[y + 1] /\ T[x + 1] = S[y + 1]
    BY <1>3, <1>4, <2>1, <2>5
  <2> QED
    BY <2>2, <2>3, <2>4, <2>5, <2>6, Zenon
<1>6. Paths(T, v, calls)
  BY <1>3, <1>5, ZenonT(60) DEF Paths
<1>7. Len(w) - 1 = n
  BY <1>1
<1> QED
  BY <1>2, <1>4, <1>6, <1>7

LEMMA PathsJoin ==
  ASSUME NEW w \in Seq(Byte), NEW v \in Seq(Byte), NEW S, NEW T, NEW calls, NEW more,
         Paths(S, w, calls), Starts(T, Between, calls), Paths(T, v, more),
         \A h, t : Fits(h, t, calls) => Fits(h, t, more)
  PROVE  \E U : /\ Paths(U, w \o v, more)
               /\ \A d, h, t : <<d, h, t>> \in S[0] => <<d, h, t>> \in U[0]
<1>1. PICK m \in Nat, n \in Nat : m = Len(w) /\ n = Len(v)
  BY LenProperties
<1>2. PICK u : u = w \o v
  OBVIOUS
<1>3. /\ u \in Seq(Byte) /\ Len(u) = m + n
      /\ \A i \in 1..(m + n) : u[i] = IF i <= m THEN w[i] ELSE v[i - m]
  BY <1>1, <1>2, ConcatProperties
<1>4. PICK U : U = [x \in 0..(m + n) |-> IF x < m THEN S[x] ELSE T[x - m]]
  OBVIOUS
\* The two agree where they meet.
<1>5. ASSUME NEW x \in 0..m, NEW d, NEW h, NEW t, <<d, h, t>> \in S[x]
      PROVE  <<d, h, t>> \in U[x]
  <2>1. CASE x < m
    <3>1. x \in 0..(m + n)
      OBVIOUS
    <3> QED
      BY <1>4, <1>5, <2>1, <3>1
  <2>2. CASE x = m
    <3>1. d \in Between /\ FitsAll(h, t, calls)
      <4>1. x \in 0..Len(w) /\ x = Len(w)
        BY <1>1, <2>2
      <4> QED
        BY <1>5, <4>1, Zenon DEF Paths
    <3>2. <<d, h, t>> \in T[0]
      BY <3>1, Zenon DEF Starts
    <3>3. x \in 0..(m + n) /\ ~(x < m) /\ x - m = 0
      BY <2>2
    <3> QED
      BY <1>4, <3>2, <3>3
  <2> QED
    BY <2>1, <2>2
<1>6. ASSUME NEW x \in 0..(m + n), NEW d, NEW h, NEW t, <<d, h, t>> \in U[x]
      PROVE  /\ Fits(h, t, more)
             /\ <<Fresh, h, t + 1>> \in U[x]
             /\ x < m + n =>
                  /\ Returns(d, u[x + 1]) => <<Fresh, Append(h, d.frame), t>> \in U[x + 1]
                  /\ \A e : Reads(d, u[x + 1], e) => <<e, h, t>> \in U[x + 1]
             /\ x = m + n => d \in Between /\ FitsAll(h, t, more)
  <2>1. CASE x < m
    <3>1. x \in 0..m /\ x \in 0..Len(w) /\ x < Len(w) /\ x + 1 \in 0..m /\ x + 1 \in 1..(m + n)
          /\ x + 1 <= m /\ x # m + n
      BY <1>1, <2>1
    <3>2. <<d, h, t>> \in S[x]
      BY <1>4, <1>6, <2>1
    <3>3. /\ Fits(h, t, calls)
          /\ <<Fresh, h, t + 1>> \in S[x]
          /\ Returns(d, w[x + 1]) => <<Fresh, Append(h, d.frame), t>> \in S[x + 1]
          /\ \A e : Reads(d, w[x + 1], e) => <<e, h, t>> \in S[x + 1]
      BY <3>1, <3>2, Zenon DEF Paths
    <3>4. u[x + 1] = w[x + 1]
      BY <1>3, <3>1
    <3>5. PICK y \in 0..m : y = x + 1
      BY <3>1
    <3>6. Fits(h, t, more)
      BY <3>3, Zenon
    <3>7. <<Fresh, h, t + 1>> \in U[x]
      BY <1>5, <3>1, <3>3, Zenon
    <3>8. Returns(d, u[x + 1]) => <<Fresh, Append(h, d.frame), t>> \in U[x + 1]
      BY <1>5, <3>3, <3>4, <3>5, Zenon
    <3>9. \A e : Reads(d, u[x + 1], e) => <<e, h, t>> \in U[x + 1]
      BY <1>5, <3>3, <3>4, <3>5, Zenon
    <3> QED
      BY <3>1, <3>6, <3>7, <3>8, <3>9, Zenon
  <2>2. CASE ~(x < m)
    <3>1. PICK y \in 0..n : y = x - m
      BY <2>2
    <3>2. x = m + y /\ (x < m + n => y < n) /\ (x = m + n => y = n)
      BY <3>1
    <3>3. U[x] = T[y]
      BY <1>4, <2>2, <3>1
    <3>4. y \in 0..Len(v)
      BY <1>1
    <3>5. /\ Fits(h, t, more)
          /\ <<Fresh, h, t + 1>> \in T[y]
          /\ y < n =>
               /\ Returns(d, v[y + 1]) => <<Fresh, Append(h, d.frame), t>> \in T[y + 1]
               /\ \A e : Reads(d, v[y + 1], e) => <<e, h, t>> \in T[y + 1]
          /\ y = n => d \in Between /\ FitsAll(h, t, more)
      BY <1>1, <1>6, <3>3, <3>4, Zenon DEF Paths
    <3>6. x < m + n => u[x + 1] = v[y + 1] /\ U[x + 1] = T[y + 1]
      <4> SUFFICES ASSUME x < m + n PROVE u[x + 1] = v[y + 1] /\ U[x + 1] = T[y + 1]
        OBVIOUS
      <4>1. /\ x + 1 \in 1..(m + n) /\ x + 1 \in 0..(m + n) /\ ~(x + 1 <= m) /\ ~(x + 1 < m)
            /\ (x + 1) - m = y + 1
        BY <2>2, <3>2
      <4> QED
        BY <1>3, <1>4, <4>1
    <3> QED
      BY <3>2, <3>3, <3>5, <3>6, Zenon
  <2> QED
    BY <2>1, <2>2
<1>7. Paths(U, u, more)
  BY <1>3, <1>6, ZenonT(60) DEF Paths
<1>8. 0 \in 0..m
  OBVIOUS
<1> QED
  BY <1>2, <1>5, <1>7, <1>8, Zenon

\* Bytes that are no data frame: from the states in from, wherever a timeout
\* comes, the decoder returns nothing and ends between two frames.
Harmless(bytes, from) ==
  \E ok :
    /\ from \subseteq ok[0]
    /\ \A x \in 0..Len(bytes) : Fresh \in ok[x]
    /\ \A x \in 0..(Len(bytes) - 1) : \A d \in ok[x] :
         /\ ~Returns(d, bytes[x + 1])
         /\ \A e : Reads(d, bytes[x + 1], e) => e \in ok[x + 1]
    /\ ok[Len(bytes)] \subseteq Between

LEMMA HarmlessPaths ==
  ASSUME NEW bytes \in Seq(Byte), NEW from, Harmless(bytes, from), NEW calls
  PROVE  \E T : Starts(T, from, calls) /\ Paths(T, bytes, calls)
<1>1. PICK n \in Nat : n = Len(bytes)
  BY LenProperties
<1>2. PICK ok :
        /\ from \subseteq ok[0]
        /\ \A x \in 0..n : Fresh \in ok[x]
        /\ \A x \in 0..(n - 1) : \A d \in ok[x] :
             /\ ~Returns(d, bytes[x + 1])
             /\ \A e : Reads(d, bytes[x + 1], e) => e \in ok[x + 1]
        /\ ok[n] \subseteq Between
  BY <1>1, Zenon DEF Harmless
<1>3. PICK T : T = [x \in 0..n |-> {c \in ok[x] \X Seq(Seq(Byte)) \X Nat : FitsAll(c[2], c[3], calls)}]
  OBVIOUS
<1>4. ASSUME NEW x \in 0..n, NEW d, NEW h, NEW t
      PROVE  <<d, h, t>> \in T[x] <=> d \in ok[x] /\ FitsAll(h, t, calls)
  <2>1. PICK c : c = <<d, h, t>>
    OBVIOUS
  <2>2. c[2] = h /\ c[3] = t
    BY <2>1
  <2>3. c \in ok[x] \X Seq(Seq(Byte)) \X Nat <=> d \in ok[x] /\ h \in Seq(Seq(Byte)) /\ t \in Nat
    BY <2>1
  <2>4. FitsAll(h, t, calls) => h \in Seq(Seq(Byte)) /\ t \in Nat
    BY Zenon DEF FitsAll, Fits
  <2>5. c \in T[x] <=> c \in ok[x] \X Seq(Seq(Byte)) \X Nat /\ FitsAll(c[2], c[3], calls)
    BY <1>3, Zenon
  <2>6. FitsAll(c[2], c[3], calls) <=> FitsAll(h, t, calls)
    BY <2>2, Zenon
  <2> QED
    BY <2>1, <2>3, <2>4, <2>5, <2>6, Zenon
<1>5. Starts(T, from, calls)
  <2>1. 0 \in 0..n
    OBVIOUS
  <2> QED
    BY <1>2, <1>4, <2>1, Zenon DEF Starts
<1>6. ASSUME NEW x \in 0..n, NEW d, NEW h, NEW t, <<d, h, t>> \in T[x]
      PROVE  /\ Fits(h, t, calls)
             /\ <<Fresh, h, t + 1>> \in T[x]
             /\ x < n =>
                  /\ Returns(d, bytes[x + 1]) => <<Fresh, Append(h, d.frame), t>> \in T[x + 1]
                  /\ \A e : Reads(d, bytes[x + 1], e) => <<e, h, t>> \in T[x + 1]
             /\ x = n => d \in Between /\ FitsAll(h, t, calls)
  <2>0. d \in ok[x] /\ FitsAll(h, t, calls)
    BY <1>4, <1>6, Zenon
  <2>1. d \in ok[x] /\ FitsAll(h, t, calls) /\ Fits(h, t, calls)
    BY <2>0, Zenon DEF FitsAll
  <2>2. <<Fresh, h, t + 1>> \in T[x]
    BY <1>2, <1>4, <2>1, FitsAfterTimeout, Zenon
  <2>3. x < n => x \in 0..(n - 1) /\ x + 1 \in 0..n
    OBVIOUS
  <2>4. x < n => /\ ~Returns(d, bytes[x + 1])
                 /\ \A e : Reads(d, bytes[x + 1], e) => <<e, h, t>> \in T[x + 1]
    BY <1>2, <1>4, <2>1, <2>3, Zenon
  <2>5. x = n => d \in Between
    BY <1>2, <2>1
  <2> QED
    BY <2>1, <2>2, <2>4, <2>5, Zenon
<1>7. Paths(T, bytes, calls)
  BY <1>1, <1>6, ZenonT(60) DEF Paths
<1> QED
  BY <1>5, <1>7

\* The n bytes that stand for the frame f on a wire after the frames of calls,
\* of which d has read x after h was heard: it is in the frame, or past it, or
\* passes over it after a timeout.
AtFrame(f, n, x, d, h, t, calls) ==
  \/ x = 0 /\ d \in Between /\ FitsAll(h, t, calls)
  \/ x \in 1..(n - 1) /\ InFrame(f, x, d) /\ FitsAll(h, t, calls)
  \/ x \in 1..(n - 1) /\ d = Fresh /\ t # 0 /\ Fits(h, t, calls)
  \/ x = n /\ d = Fresh /\ \E g : FitsAll(g, t, calls) /\ h = Append(g, f)
  \/ x = n /\ d \in Between /\ t # 0 /\ Fits(h, t, calls)

LEMMA FramePaths ==
  ASSUME NEW calls \in Seq(Calls), NEW call \in Calls, NEW f, f = EncodeAX25Frame(call), Encodes(f)
  PROVE  \E T : /\ Starts(T, Between, calls)
                /\ Paths(T, EncodeKISSFrame(f), Append(calls, call))
<1>1. PICK w : w = EncodeKISSFrame(f)
  OBVIOUS
<1>2. PICK m \in Nat : /\ Len(w) = m + 3
                       /\ w[1] = FEND /\ w[2] = 0 /\ w[m + 3] = FEND
                       /\ \A i \in 1..m : w[i + 2] # FEND
  <2>1. PICK n \in Nat \ {0}, m \in Nat : \E pos : OnWire(f, n, m, pos, w)
    BY <1>1, FrameOnWire, Zenon
  <2>2. PICK pos : OnWire(f, n, m, pos, w)
    BY <2>1
  <2> QED
    BY <2>2, Zenon DEF OnWire
<1>3. PICK n \in Nat : n = m + 3
  OBVIOUS
<1>4. Len(w) = n /\ w[1] = FEND /\ w[n] = FEND /\ \A i \in 2..(n - 1) : w[i] # FEND
  <2>1. \A i \in 3..(n - 1) : w[i] # FEND
    <3> SUFFICES ASSUME NEW i \in 3..(n - 1) PROVE w[i] # FEND
      OBVIOUS
    <3>1. PICK j \in 1..m : j + 2 = i
      <4>1. i - 2 \in 1..m /\ (i - 2) + 2 = i
        BY <1>3
      <4> QED
        BY <4>1
    <3> QED
      BY <1>2, <3>1
  <2>2. w[2] # FEND
    BY <1>2 DEF FEND
  <2>3. \A i \in 2..(n - 1) : i = 2 \/ i \in 3..(n - 1)
    OBVIOUS
  <2> QED
    BY <1>2, <1>3, <2>1, <2>2, <2>3
<1>a. \A x, d, h, t : AtFrame(f, n, x, d, h, t, calls) <=>
          \/ x = 0 /\ d \in Between /\ FitsAll(h, t, calls)
          \/ x \in 1..(n - 1) /\ InFrame(f, x, d) /\ FitsAll(h, t, calls)
          \/ x \in 1..(n - 1) /\ d = Fresh /\ t # 0 /\ Fits(h, t, calls)
          \/ x = n /\ d = Fresh /\ \E g : FitsAll(g, t, calls) /\ h = Append(g, f)
          \/ x = n /\ d \in Between /\ t # 0 /\ Fits(h, t, calls)
  BY ZenonT(60) DEF AtFrame
<1>5. PICK T : T = [x \in 0..n |-> {c \in DecoderState \X Seq(Seq(Byte)) \X Nat :
                                      AtFrame(f, n, x, c[1], c[2], c[3], calls)}]
  OBVIOUS
<1>6. ASSUME NEW x \in 0..n, NEW d, NEW h, NEW t
      PROVE  <<d, h, t>> \in T[x] <=> /\ d \in DecoderState /\ h \in Seq(Seq(Byte)) /\ t \in Nat
                                     /\ AtFrame(f, n, x, d, h, t, calls)
  <2>1. PICK c : c = <<d, h, t>>
    OBVIOUS
  <2>2. c[1] = d /\ c[2] = h /\ c[3] = t
    BY <2>1
  <2>3. c \in DecoderState \X Seq(Seq(Byte)) \X Nat
          <=> d \in DecoderState /\ h \in Seq(Seq(Byte)) /\ t \in Nat
    BY <2>1
  <2>5. c \in T[x] <=> /\ c \in DecoderState \X Seq(Seq(Byte)) \X Nat
                      /\ AtFrame(f, n, x, c[1], c[2], c[3], calls)
    BY <1>5, Zenon
  <2>6. AtFrame(f, n, x, c[1], c[2], c[3], calls) <=> AtFrame(f, n, x, d, h, t, calls)
    BY <2>2, Zenon
  <2> QED
    BY <2>1, <2>3, <2>5, <2>6, Zenon
<1>7. Fresh \in Between /\ Due \in Between /\ Between \subseteq DecoderState
  <2>1. <<>> \in Seq(Byte)
    OBVIOUS
  <2> QED
    BY <2>1 DEF Between, Fresh, Due, State, DecoderState
<1>8. \A h, t, c : FitsAll(h, t, c) => h \in Seq(Seq(Byte)) /\ t \in Nat /\ Fits(h, t, c)
  BY Zenon DEF FitsAll, Fits
<1>9. Starts(T, Between, calls)
  <2>1. 0 \in 0..n
    OBVIOUS
  <2> QED
    BY <1>6, <1>7, <1>8, <1>a, <2>1, Zenon DEF Starts
<1>10. f \in Seq(Byte) /\ f # <<>>
  BY DEF Encodes
<1> DEFINE more == Append(calls, call)
<1>11. \A h, t : Fits(h, t, calls) => Fits(h, t, more)
  BY FitsMore, Zenon
<1>12. \A h, t : FitsAll(h, t, calls) => FitsAll(Append(h, f), t, more)
  <2>1. EncodeAX25Frame(call) \in Seq(Byte)
    BY <1>10
  <2> QED
    BY <2>1, FitsOneMore, Zenon
<1> HIDE DEF more
<1>13. ASSUME NEW x \in 0..n, NEW d, NEW h, NEW t, <<d, h, t>> \in T[x]
      PROVE  /\ Fits(h, t, more)
             /\ <<Fresh, h, t + 1>> \in T[x]
             /\ x < n =>
                  /\ Returns(d, w[x + 1]) => <<Fresh, Append(h, d.frame), t>> \in T[x + 1]
                  /\ \A e : Reads(d, w[x + 1], e) => <<e, h, t>> \in T[x + 1]
             /\ x = n => d \in Between /\ FitsAll(h, t, more)
  <2>1. /\ d \in DecoderState /\ h \in Seq(Seq(Byte)) /\ t \in Nat
        /\ AtFrame(f, n, x, d, h, t, calls)
    BY <1>6, <1>13, Zenon
  <2>2. t + 1 \in Nat /\ t + 1 # 0
    BY <2>1
  <2>3. ASSUME NEW y \in 0..n, NEW e, NEW g, NEW s, e \in Between, FitsAll(g, s, calls), y = 0
        PROVE  <<e, g, s>> \in T[y]
    BY <1>6, <1>7, <1>8, <1>a, <2>3, Zenon
  <2>4. ASSUME NEW y \in 0..n, NEW g, NEW s, y \in 1..(n - 1), s # 0, Fits(g, s, calls)
        PROVE  <<Fresh, g, s>> \in T[y]
    <3>1. g \in Seq(Seq(Byte)) /\ s \in Nat
      BY <2>4, Zenon DEF Fits
    <3> QED
      BY <1>6, <1>7, <1>a, <2>4, <3>1, Zenon
  <2>5. ASSUME NEW y \in 0..n, NEW e, NEW g, NEW s, y = n, e \in Between, s # 0, Fits(g, s, calls)
        PROVE  <<e, g, s>> \in T[y]
    <3>1. g \in Seq(Seq(Byte)) /\ s \in Nat
      BY <2>5, Zenon DEF Fits
    <3> QED
      BY <1>6, <1>7, <1>a, <2>5, <3>1, Zenon
  <2>6. ASSUME NEW y \in 0..n, NEW e, NEW g, NEW s, y \in 1..(n - 1), e \in DecoderState,
               InFrame(f, y, e), FitsAll(g, s, calls)
        PROVE  <<e, g, s>> \in T[y]
    BY <1>6, <1>8, <1>a, <2>6, Zenon
  <2>r. ASSUME NEW b \in Byte, NEW e, Reads(d, b, e), WellFormed(d) PROVE e \in DecoderState
    BY <2>r, ReadsTypes, Zenon DEF WellFormed
  <2>7. CASE x = 0 /\ d \in Between /\ FitsAll(h, t, calls)
    <3>1. Fits(h, t, more) /\ Fits(h, t, calls)
      BY <1>8, <1>11, <2>7, Zenon
    <3>2. <<Fresh, h, t + 1>> \in T[x]
      BY <1>7, <2>3, <2>7, <3>1, FitsAfterTimeout, Zenon
    <3>3. 0 + 1 = 1 /\ 1 \in 1..(n - 1) /\ 1 \in 0..n /\ x # n /\ x + 1 = 1
      BY <1>3, <2>7
    <3>4. w[x + 1] = FEND
      BY <1>4, <3>3
    <3>5. ~Returns(d, w[x + 1])
      BY <2>7, BetweenReads, Zenon
    <3>6. ASSUME NEW e, Reads(d, w[x + 1], e) PROVE <<e, h, t>> \in T[x + 1]
      <4>1. e = Due
        BY <2>7, <3>4, <3>6, BetweenReads, Zenon
      <4>2. InFrame(f, 1, Due)
        BY Zenon DEF InFrame
      <4>3. <<Due, h, t>> \in T[1]
        BY <1>7, <2>6, <2>7, <3>3, <4>2, Zenon
      <4> QED
        BY <3>3, <4>1, <4>3, Zenon
    <3> QED
      BY <3>1, <3>2, <3>3, <3>5, <3>6, Zenon
  <2>8. CASE x \in 1..(n - 1) /\ InFrame(f, x, d) /\ FitsAll(h, t, calls)
    <3>1. Fits(h, t, more) /\ Fits(h, t, calls)
      BY <1>8, <1>11, <2>8, Zenon
    <3>2. <<Fresh, h, t + 1>> \in T[x]
      BY <2>2, <2>4, <2>8, <3>1, FitsAfterTimeout, Zenon
    <3>3. x # n /\ x + 1 \in 1..n /\ x + 1 \in 0..n
      BY <2>8
    <3>4. CASE x = n - 1
      <4>1. d = State(f, TRUE, FALSE, FALSE)
        <5>1. InFrame(f, Len(w) - 1, d)
          BY <1>4, <2>8, <3>4
        <5> QED
          BY <1>1, <5>1, FrameRead, Zenon
      <4>2. d.frame = f
        BY <4>1 DEF State
      <4>3. x + 1 = n /\ w[x + 1] = FEND
        BY <1>4, <3>4
      <4>4. <<Fresh, Append(h, f), t>> \in T[n]
        <5>1. n \in 0..n
          OBVIOUS
        <5>2. Append(h, f) \in Seq(Seq(Byte))
          BY <1>10, <2>1, AppendProperties
        <5>3. AtFrame(f, n, n, Fresh, Append(h, f), t, calls)
          BY <1>a, <2>8, Zenon
        <5> QED
          BY <1>6, <1>7, <2>1, <5>1, <5>2, <5>3, Zenon
      <4>5. \A e : ~Reads(d, w[x + 1], e)
        BY <1>10, <4>2, <4>3, Zenon DEF Reads
      <4> QED
        BY <3>1, <3>2, <3>3, <4>2, <4>3, <4>4, <4>5, Zenon
    <3>5. CASE x # n - 1
      <4>1. x \in 1..(Len(w) - 2) /\ x + 1 \in 1..(n - 1)
        BY <1>4, <2>8, <3>5
      <4>2. /\ ~Returns(d, w[x + 1])
            /\ \A e : Reads(d, w[x + 1], e) => InFrame(f, x + 1, e)
        BY <1>1, <2>8, <4>1, FrameRead, Zenon
      <4>3. ASSUME NEW e, InFrame(f, x + 1, e) PROVE e \in DecoderState
        <5>1. Due \in DecoderState
          BY <1>7
        <5>2. TRUE \in BOOLEAN /\ FALSE \in BOOLEAN
          OBVIOUS
        <5>3. ASSUME NEW k \in 0..Len(f)
              PROVE  /\ State(SubSeq(f, 1, k), TRUE, FALSE, FALSE) \in DecoderState
                     /\ State(SubSeq(f, 1, k), TRUE, TRUE, FALSE) \in DecoderState
          <6>1. PICK g \in Seq(Byte) : g = SubSeq(f, 1, k)
            BY <1>10, Beginnings
          <6> QED
            BY <6>1 DEF State, DecoderState
        <5>4. \A k \in 0..(Len(f) - 1) : k \in 0..Len(f)
          BY <1>10, LenProperties
        <5> QED
          BY <4>3, <5>1, <5>3, <5>4, Zenon DEF InFrame
      <4>4. \A e : Reads(d, w[x + 1], e) => <<e, h, t>> \in T[x + 1]
        BY <2>6, <2>8, <3>3, <4>1, <4>2, <4>3, Zenon
      <4> QED
        BY <3>1, <3>2, <3>3, <4>2, <4>4, Zenon
    <3> QED
      BY <3>4, <3>5
  <2>9. CASE x \in 1..(n - 1) /\ d = Fresh /\ t # 0 /\ Fits(h, t, calls)
    <3>1. Fits(h, t, more)
      BY <1>11, <2>9, Zenon
    <3>2. <<Fresh, h, t + 1>> \in T[x]
      BY <2>2, <2>4, <2>9, FitsAfterTimeout, Zenon
    <3>3. x # n /\ x + 1 \in 1..n /\ x + 1 \in 0..n
      BY <2>9
    <3>4. ~Returns(d, w[x + 1])
      BY <1>7, <2>9, BetweenReads, Zenon
    <3>5. CASE x = n - 1
      <4>1. x + 1 = n /\ w[x + 1] = FEND
        BY <1>4, <3>5
      <4>2. \A e : Reads(d, w[x + 1], e) => e = Due
        BY <1>7, <2>9, <4>1, BetweenReads, Zenon
      <4>3. n \in 0..n
        OBVIOUS
      <4>4. <<Due, h, t>> \in T[n]
        BY <1>7, <2>5, <2>9, <4>3, Zenon
      <4> QED
        BY <3>1, <3>2, <3>3, <3>4, <4>1, <4>2, <4>4, Zenon
    <3>6. CASE x # n - 1
      <4>1. x + 1 \in 2..(n - 1) /\ x + 1 \in 1..(n - 1)
        BY <2>9, <3>6
      <4>2. w[x + 1] # FEND
        BY <1>4, <4>1
      <4>3. \A e : Reads(d, w[x + 1], e) => e = Fresh
        BY <1>7, <2>9, <4>2, BetweenReads, Zenon
      <4>4. <<Fresh, h, t>> \in T[x + 1]
        BY <2>4, <2>9, <3>3, <4>1, Zenon
      <4> QED
        BY <3>1, <3>2, <3>3, <3>4, <4>3, <4>4, Zenon
    <3> QED
      BY <3>5, <3>6
  <2>10. CASE x = n /\ d = Fresh /\ \E g : FitsAll(g, t, calls) /\ h = Append(g, f)
    <3>1. PICK g : FitsAll(g, t, calls) /\ h = Append(g, f)
      BY <2>10
    <3>2. FitsAll(h, t, more) /\ Fits(h, t, more)
      BY <1>8, <1>12, <3>1, Zenon
    <3>3. FitsAll(g, t + 1, calls)
      BY <1>8, <3>1, FitsAfterTimeout, Zenon
    <3>4. <<Fresh, h, t + 1>> \in T[x]
      <4>1. AtFrame(f, n, x, Fresh, h, t + 1, calls)
        BY <1>a, <2>10, <3>1, <3>3, Zenon
      <4> QED
        BY <1>6, <1>7, <2>1, <2>2, <4>1, Zenon
    <3>5. ~(x < n)
      BY <2>10
    <3> QED
      BY <1>7, <2>10, <3>2, <3>4, <3>5, Zenon
  <2>11. CASE x = n /\ d \in Between /\ t # 0 /\ Fits(h, t, calls)
    <3>1. Fits(h, t, more)
      BY <1>11, <2>11, Zenon
    <3>2. FitsAll(h, t, more)
      BY <2>11, <3>1, Zenon DEF FitsAll
    <3>3. <<Fresh, h, t + 1>> \in T[x]
      BY <1>7, <2>2, <2>5, <2>11, FitsAfterTimeout, Zenon
    <3>4. ~(x < n)
      BY <2>11
    <3> QED
      BY <2>11, <3>1, <3>2, <3>3, <3>4, Zenon
  <2>12. \/ x = 0 /\ d \in Between /\ FitsAll(h, t, calls)
         \/ x \in 1..(n - 1) /\ InFrame(f, x, d) /\ FitsAll(h, t, calls)
         \/ x \in 1..(n - 1) /\ d = Fresh /\ t # 0 /\ Fits(h, t, calls)
         \/ x = n /\ d = Fresh /\ \E g : FitsAll(g, t, calls) /\ h = Append(g, f)
         \/ x = n /\ d \in Between /\ t # 0 /\ Fits(h, t, calls)
    BY <1>a, <2>1, Zenon
  <2> QED
    BY <2>7, <2>8, <2>9, <2>10, <2>11, <2>12
<1>14. Paths(T, w, more)
  BY <1>4, <1>13, ZenonT(60) DEF Paths
<1> QED
  BY <1>1, <1>9, <1>14, Zenon DEF more

-----------------------------------------------------------------------------
(* Frames come out whole, once and in order.                               *)

\* What the socket gives besides data frames is none: the rest of a frame from
\* before the connection, other commands, delimiters, bytes between frames.
OthersAreHarmless ==
  /\ \A bytes \in Preludes : Harmless(bytes, {Fresh})
  /\ \A bytes \in OtherBytes : Harmless(bytes, Between)

\* No call has a byte that the encoder fails to escape.
EscapesWork ==
  CharIsSigned => \A call \in Calls : Sendable(call) =>
    \A i \in DOMAIN EncodeAX25Frame(call) : EncodeAX25Frame(call)[i] \notin {FEND, FESC}

\* From here on the decoder can only hear what FramesInOrder and
\* NoFrameSkipped allow, however the wire is read and whenever a call ends.
WireIsSound == \E S : Paths(S, wire, put) /\ <<Decoder, heard, timeouts>> \in S[0]

NothingBeforeConnect ==
  ~connected /\ running => wire = <<>> /\ Decoder = Fresh /\ heard = <<>> /\ put = <<>>

LEMMA NothingFits == ASSUME NEW t \in Nat PROVE FitsAll(<<>>, t, <<>>)
<1>1. <<>> \in Seq(Seq(Byte)) /\ Len(<<>>) = Len(<<>>)
  OBVIOUS
<1>2. PICK e : e = <<>>
  OBVIOUS
<1>3. DOMAIN e = {} /\ e \in [{} -> {}]
  BY <1>2
<1>4. DOMAIN FramesOf(e) = {}
  BY <1>3 DEF FramesOf
<1>5. Interface!InOrder(e, FramesOf(e))
  BY <1>3, <1>4, Zenon DEF Interface!InOrder
<1>6. e \in Seq(Seq(Byte))
  BY <1>1, <1>2
<1>7. Fits(e, t, e)
  BY <1>3, <1>5, <1>6, Zenon DEF Fits
<1> QED
  BY <1>2, <1>7, Zenon DEF FitsAll

LEMMA SilenceIsHarmless == Harmless(<<>>, {Fresh})
<1>1. PICK ok : ok = [x \in {0} |-> {Fresh}]
  OBVIOUS
<1>2. ok[0] = {Fresh}
  BY <1>1
<1>3. Len(<<>>) = 0 /\ 0..0 = {0} /\ 0..(0 - 1) = {}
  OBVIOUS
<1>4. Fresh \in Between
  BY DEF Between
<1>5. PICK n : n = Len(<<>>)
  OBVIOUS
<1>6. n = 0 /\ 0..n = {0} /\ 0..(n - 1) = {}
  BY <1>3, <1>5
<1> QED
  BY <1>2, <1>4, <1>5, <1>6, Zenon DEF Harmless

LEMMA InitWire == ASSUME Init PROVE WireIsSound /\ NothingBeforeConnect
<1>1. /\ wire = <<>> /\ heard = <<>> /\ put = <<>> /\ timeouts = 0 /\ 0 \in Nat
      /\ Decoder = Fresh
  BY DEF Init, Decoder, Fresh
<1>2. <<>> \in Seq(Byte)
  OBVIOUS
<1>3. PICK T : Starts(T, {Fresh}, put) /\ Paths(T, wire, put)
  BY <1>1, <1>2, SilenceIsHarmless, HarmlessPaths, Zenon
<1>4. FitsAll(heard, timeouts, put)
  BY <1>1, NothingFits, Zenon
<1>5. <<Decoder, heard, timeouts>> \in T[0]
  <2>1. Decoder \in {Fresh}
    BY <1>1
  <2> QED
    BY <1>3, <1>4, <2>1, Zenon DEF Starts
<1> QED
  BY <1>1, <1>3, <1>5, Zenon DEF WireIsSound, NothingBeforeConnect

LEMMA NextWire ==
  ASSUME OthersAreHarmless, EscapesWork,
         TypeOK, PutWasSent, WireIsSound, NothingBeforeConnect, [Next]_vars
  PROVE  WireIsSound' /\ NothingBeforeConnect'
<1>1. PICK S : Paths(S, wire, put) /\ <<Decoder, heard, timeouts>> \in S[0]
  BY DEF WireIsSound
<1>2. /\ wire \in Seq(Byte) /\ timeouts \in Nat /\ put \in Seq(Calls) /\ DecoderTypes
  <2>1. timeouts \in 0..MaxTimeouts /\ wire \in Seq(Byte) /\ put \in Seq(Calls)
    BY DEF TypeOK
  <2> QED
    BY <2>1, TypeMeansWellFormed, TNCAssumption
<1>d. UNCHANGED decoderVars => Decoder' = Decoder
  BY Zenon DEF Decoder, decoderVars
<1>r. Restarted => Decoder' = Fresh
  BY Zenon DEF Restarted, Decoder, Fresh
<1>u. ASSUME NEW U, Paths(U, wire', put'), <<Decoder', heard', timeouts'>> \in U[0]
      PROVE  WireIsSound'
  BY <1>u, Zenon DEF WireIsSound
<1>v. ASSUME UNCHANGED <<wire, put, heard, timeouts>>, UNCHANGED decoderVars
      PROVE  WireIsSound'
  BY <1>1, <1>d, <1>v, Zenon DEF WireIsSound
<1>3. CASE Connect
  <2>1. /\ UNCHANGED <<put, heard, timeouts>> /\ UNCHANGED decoderVars
        /\ running /\ ~connected
        /\ \/ connected' = TRUE /\ wire' \in Preludes
           \/ running' = FALSE /\ connected' = connected /\ wire' = wire
    BY <1>3, Zenon DEF Connect
  <2>2. CASE connected' = TRUE /\ wire' \in Preludes
    <3>1. wire' \in Seq(Byte) /\ Harmless(wire', {Fresh})
      BY <2>2, TNCAssumption, Zenon DEF OthersAreHarmless
    <3>2. PICK T : Starts(T, {Fresh}, put') /\ Paths(T, wire', put')
      BY <3>1, HarmlessPaths, Zenon
    <3>3. Decoder' = Fresh /\ heard' = <<>> /\ put' = <<>> /\ timeouts' \in Nat
      BY <1>2, <1>d, <2>1, Zenon DEF NothingBeforeConnect
    <3>4. FitsAll(heard', timeouts', put')
      BY <3>3, NothingFits, Zenon
    <3>5. Decoder' \in {Fresh}
      BY <3>3
    <3>6. <<Decoder', heard', timeouts'>> \in T[0]
      BY <3>2, <3>4, <3>5, Zenon DEF Starts
    <3> QED
      BY <1>u, <2>2, <3>2, <3>6, Zenon DEF NothingBeforeConnect
  <2>3. CASE running' = FALSE /\ connected' = connected /\ wire' = wire
    BY <1>v, <2>1, <2>3, Zenon DEF NothingBeforeConnect
  <2> QED
    BY <2>1, <2>2, <2>3
<1>4. CASE ConnectionLost
  <2>1. UNCHANGED <<wire, put, heard, timeouts>> /\ UNCHANGED decoderVars /\ running' = FALSE
    BY <1>4, Zenon DEF ConnectionLost
  <2> QED
    BY <1>v, <2>1, Zenon DEF NothingBeforeConnect
<1>5. ASSUME NEW call \in Calls, Send(call) PROVE WireIsSound' /\ NothingBeforeConnect'
  <2>1. Sendable(call)
    BY <1>5, TNCAssumption, Zenon DEF Send, Sendable
  <2>2. PICK f : f = EncodeAX25Frame(call)
    OBVIOUS
  <2>3. f \in Seq(Byte) /\ f # <<>> /\ EncodeKISSFrame(f) \in Seq(Byte)
    BY <2>1, <2>2, SentBytes, Zenon
  <2>4. Encodes(f)
    BY <2>1, <2>2, <2>3, Zenon DEF Encodes, EscapesWork
  <2>5. /\ wire' = wire \o EncodeKISSFrame(f) /\ put' = Append(put, call)
        /\ UNCHANGED <<heard, timeouts, connected>> /\ UNCHANGED decoderVars /\ connected
    BY <1>5, <2>2, Zenon DEF Send
  <2>6. PICK T : Starts(T, Between, put) /\ Paths(T, EncodeKISSFrame(f), put')
    BY <1>2, <2>2, <2>4, <2>5, FramePaths, Zenon
  <2>7. \A h, t : Fits(h, t, put) => Fits(h, t, put')
    BY <1>2, <2>5, FitsMore, Zenon
  <2>8. PICK U : /\ Paths(U, wire', put')
                 /\ \A d, h, t : <<d, h, t>> \in S[0] => <<d, h, t>> \in U[0]
    BY <1>1, <1>2, <2>3, <2>5, <2>6, <2>7, PathsJoin, Zenon
  <2>9. <<Decoder', heard', timeouts'>> \in U[0]
    BY <1>1, <1>d, <2>5, <2>8, Zenon
  <2> QED
    BY <1>u, <2>5, <2>8, <2>9, Zenon DEF NothingBeforeConnect
<1>6. ASSUME NEW bytes \in OtherBytes, GiveOther(bytes)
      PROVE  WireIsSound' /\ NothingBeforeConnect'
  <2>1. /\ wire' = wire \o bytes
        /\ UNCHANGED <<put, heard, timeouts, connected>> /\ UNCHANGED decoderVars /\ connected
    BY <1>6, Zenon DEF GiveOther
  <2>2. bytes \in Seq(Byte) /\ Harmless(bytes, Between)
    BY TNCAssumption, Zenon DEF OthersAreHarmless
  <2>3. PICK T : Starts(T, Between, put) /\ Paths(T, bytes, put)
    BY <2>2, HarmlessPaths, Zenon
  <2>4. PICK U : /\ Paths(U, wire \o bytes, put)
                 /\ \A d, h, t : <<d, h, t>> \in S[0] => <<d, h, t>> \in U[0]
    BY <1>1, <1>2, <2>2, <2>3, PathsJoin, Zenon
  <2>5. Paths(U, wire', put') /\ <<Decoder', heard', timeouts'>> \in U[0]
    BY <1>1, <1>d, <2>1, <2>4, Zenon
  <2> QED
    BY <1>u, <2>1, <2>5, Zenon DEF NothingBeforeConnect
<1>7. CASE ReadByte
  <2>1. PICK b : b = Head(wire)
    OBVIOUS
  <2>2. /\ running /\ wire # <<>> /\ wire' = Tail(wire)
        /\ UNCHANGED <<connected, timeouts, put>>
        /\ \/ /\ Returns(Decoder, b)
              /\ heard' = Append(heard, frame)
              /\ Restarted
           \/ /\ Reads(Decoder, b, Decoder')
              /\ heard' = heard
    BY <1>2, <1>7, <2>1, ReadByteReads, Zenon
  <2>3. PICK n \in Nat : Len(wire) = n + 1
    BY <1>2, <2>2, EmptySeq, LenProperties
  <2>4. 0 \in 0..Len(wire) /\ 0 < Len(wire) /\ 0 + 1 = 1 /\ 0 \in 0..(Len(wire) - 1)
    BY <2>3
  <2>5. b = wire[0 + 1]
    BY <1>2, <2>1, <2>2, <2>4, HeadTailProperties
  <2>6. /\ Returns(Decoder, b) => <<Fresh, Append(heard, Decoder.frame), timeouts>> \in S[0 + 1]
        /\ \A e : Reads(Decoder, b, e) => <<e, heard, timeouts>> \in S[0 + 1]
    BY <1>1, <2>4, <2>5, Zenon DEF Paths
  <2>7. Decoder.frame = frame
    BY DEF Decoder, State
  <2>8. <<Decoder', heard', timeouts'>> \in S[0 + 1]
    BY <1>r, <2>2, <2>6, <2>7, Zenon
  <2>9. PICK U : U = [x \in 0..(Len(wire) - 1) |-> S[x + 1]]
    OBVIOUS
  <2>10. Paths(U, wire', put')
    BY <1>1, <1>2, <2>2, <2>9, PathsTail, Zenon
  <2>11. U[0] = S[0 + 1]
    BY <2>4, <2>9, Zenon
  <2>12. connected
    <3> SUFFICES ASSUME ~connected PROVE FALSE
      OBVIOUS
    <3>1. wire = <<>>
      BY <2>2, Zenon DEF NothingBeforeConnect
    <3> QED
      BY <2>2, <3>1
  <2> QED
    BY <1>u, <2>2, <2>8, <2>10, <2>11, <2>12, Zenon DEF NothingBeforeConnect
<1>8. CASE Timeout
  <2>1. /\ timeouts' = timeouts + 1 /\ Restarted
        /\ UNCHANGED <<connected, wire, put, heard>> /\ connected
    BY <1>8, Zenon DEF Timeout
  <2>2. 0 \in 0..Len(wire)
    BY <1>2, LenProperties
  <2>3. <<Fresh, heard, timeouts + 1>> \in S[0]
    BY <1>1, <2>2, Zenon DEF Paths
  <2>4. <<Decoder', heard', timeouts'>> \in S[0] /\ Paths(S, wire', put')
    BY <1>1, <1>r, <2>1, <2>3, Zenon
  <2> QED
    BY <1>u, <2>1, <2>4, Zenon DEF NothingBeforeConnect
<1>9. CASE UNCHANGED vars
  <2>1. /\ UNCHANGED <<wire, put, heard, timeouts>> /\ UNCHANGED decoderVars
        /\ UNCHANGED connected /\ UNCHANGED dispatchVars
    BY <1>9, Zenon DEF vars
  <2> QED
    BY <1>d, <1>v, <2>1, Zenon DEF NothingBeforeConnect, dispatchVars
<1> QED
  BY <1>3, <1>4, <1>5, <1>6, <1>7, <1>8, <1>9, Zenon DEF Next

LEMMA WireInvariance ==
  ASSUME OthersAreHarmless, EscapesWork
  PROVE  Spec => []WireIsSound
<1>1. TypeOK /\ PutWasSent /\ WireIsSound /\ NothingBeforeConnect /\ [Next]_vars
        => WireIsSound' /\ NothingBeforeConnect'
  BY NextWire, Zenon
<1>2. Init => WireIsSound /\ NothingBeforeConnect
  BY InitWire
<1> QED
  BY <1>1, <1>2, TypeCorrect, PutInvariance, PTL DEF Spec

\* FramesInOrder: what is heard was put on the wire, whole, each frame once
\* and in order, with other bytes between them and timeouts anywhere.
THEOREM FramesComeInOrder ==
  ASSUME OthersAreHarmless, EscapesWork
  PROVE  Spec => []FramesInOrder
<1>1. TypeOK /\ WireIsSound => FramesInOrder
  <2> SUFFICES ASSUME TypeOK, WireIsSound PROVE FramesInOrder
    OBVIOUS
  <2>1. PICK S : Paths(S, wire, put) /\ <<Decoder, heard, timeouts>> \in S[0]
    BY DEF WireIsSound
  <2>2. 0 \in 0..Len(wire)
    BY LenProperties DEF TypeOK
  <2>3. Interface!InOrder(heard, FramesOf(put))
    BY <2>1, <2>2, Zenon DEF Paths, Fits
  <2> QED
    BY <2>3, Zenon DEF FramesInOrder, FramesOf
<1> QED
  BY <1>1, WireInvariance, TypeCorrect, PTL

\* NoFrameSkipped: when all has been read and no call timed out, every frame
\* that came on the wire has been heard.
THEOREM NoFrameIsSkipped ==
  ASSUME OthersAreHarmless, EscapesWork
  PROVE  Spec => []NoFrameSkipped
<1>1. WireIsSound => NoFrameSkipped
  <2> SUFFICES ASSUME WireIsSound, AllRead PROVE Len(heard) = Len(put)
    BY DEF NoFrameSkipped
  <2>1. PICK S : Paths(S, wire, put) /\ <<Decoder, heard, timeouts>> \in S[0]
    BY DEF WireIsSound
  <2>2. wire = <<>> /\ timeouts = 0
    BY DEF AllRead
  <2>3. 0 \in 0..Len(wire) /\ 0 = Len(wire)
    BY <2>2
  <2>4. FitsAll(heard, timeouts, put)
    BY <2>1, <2>3, Zenon DEF Paths
  <2> QED
    BY <2>2, <2>4, Zenon DEF FitsAll
<1> QED
  BY <1>1, WireInvariance, PTL

-----------------------------------------------------------------------------
(* The hypotheses are met: by bytes in which no header of a data frame      *)
(* stands where a header may, such as delimiters, other commands and the    *)
(* rest of a frame, and by calls of ASCII characters.                       *)

NoDataHeader(bytes, from) ==
  \A x \in 1..Len(bytes) : bytes[x] % 16 = 0 /\ bytes[x] # FEND =>
    IF x = 1 THEN from = {Fresh} ELSE bytes[x - 1] # FEND

LEMMA BetweenStays ==
  ASSUME NEW d \in Between, NEW b, NEW e, Reads(d, b, e),
         b # FEND /\ b % 16 = 0 => d = Fresh
  PROVE  IF b = FEND THEN e = Due ELSE e = Fresh
<1>1. CASE b = FEND
  BY <1>1, BetweenReads, Zenon
<1>2. CASE b # FEND /\ d = Fresh
  BY <1>2, BetweenReads, Zenon
<1>3. CASE b # FEND /\ d # Fresh
  <2>1. b % 16 # 0 /\ d = Due
    BY <1>3 DEF Between
  <2>2. d.frame = <<>> /\ d.in_frame = FALSE /\ d.in_escape = FALSE /\ d.header = TRUE
    BY <2>1 DEF Due, State
  <2>3. e = State(d.frame, d.in_frame \/ b % 16 = 0, d.in_escape, FALSE)
    BY <1>3, <2>2, Zenon DEF Reads
  <2>4. (d.in_frame \/ b % 16 = 0) = FALSE
    BY <2>1, <2>2
  <2> QED
    BY <1>3, <2>2, <2>3, <2>4 DEF Fresh
<1> QED
  BY <1>1, <1>2, <1>3

LEMMA NoiseIsHarmless ==
  ASSUME NEW bytes \in Seq(Byte), NEW from, from \subseteq Between,
         NoDataHeader(bytes, from)
  PROVE  Harmless(bytes, from)
<1>1. PICK n \in Nat : n = Len(bytes)
  BY LenProperties
<1>2. PICK ok : ok = [x \in 0..n |->
                       IF x = 0 THEN from \union {Fresh}
                       ELSE IF bytes[x] = FEND THEN Between ELSE {Fresh}]
  OBVIOUS
<1>3. Fresh \in Between /\ Due \in Between
  BY DEF Between
<1>4. \A x \in 0..n : ok[x] \subseteq Between /\ Fresh \in ok[x]
  BY <1>2, <1>3
<1>5. ASSUME NEW x \in 0..(n - 1), NEW d \in ok[x]
      PROVE  /\ ~Returns(d, bytes[x + 1])
             /\ \A e : Reads(d, bytes[x + 1], e) => e \in ok[x + 1]
  <2>1. PICK b : b = bytes[x + 1]
    OBVIOUS
  <2>2. x \in 0..n /\ x + 1 \in 0..n /\ x + 1 \in 1..n /\ (x + 1) - 1 = x /\ x + 1 # 0
    BY <1>1
  <2>3. d \in Between
    BY <1>4, <2>2
  <2>4. ASSUME b # FEND, b % 16 = 0 PROVE d = Fresh
    <3>1. IF x + 1 = 1 THEN from = {Fresh} ELSE bytes[x] # FEND
      BY <1>1, <2>1, <2>2, <2>4, Zenon DEF NoDataHeader
    <3>2. x + 1 = 1 <=> x = 0
      BY <2>2
    <3> QED
      BY <1>2, <2>2, <3>1, <3>2
  <2>5. ok[x + 1] = IF b = FEND THEN Between ELSE {Fresh}
    BY <1>2, <2>1, <2>2
  <2>6. ASSUME NEW e, Reads(d, b, e) PROVE e \in ok[x + 1]
    <3>0. b # FEND /\ b % 16 = 0 => d = Fresh
      BY <2>4
    <3>1. IF b = FEND THEN e = Due ELSE e = Fresh
      BY <2>3, <2>6, <3>0, BetweenStays
    <3> QED
      BY <1>3, <2>5, <3>1
  <2>7. ~Returns(d, b)
    BY <2>3, BetweenReads, Zenon
  <2> QED
    BY <2>1, <2>6, <2>7, Zenon
<1>6. from \subseteq ok[0]
  BY <1>1, <1>2
<1>7. ok[n] \subseteq Between
  BY <1>1, <1>4
<1> QED
  BY <1>1, <1>4, <1>5, <1>6, <1>7, Zenon DEF Harmless

LEMMA HypothesesAreMet ==
  ASSUME \A bytes \in Preludes : NoDataHeader(bytes, {Fresh}),
         \A bytes \in OtherBytes : NoDataHeader(bytes, Between),
         CharIsSigned => \A call \in Calls : Plain(call)
  PROVE  OthersAreHarmless /\ EscapesWork
<1>1. {Fresh} \subseteq Between
  BY DEF Between
<1>2. \A bytes \in Preludes : Harmless(bytes, {Fresh})
  BY <1>1, NoiseIsHarmless, TNCAssumption
<1>3. \A bytes \in OtherBytes : Harmless(bytes, Between)
  BY NoiseIsHarmless, TNCAssumption
<1>4. EscapesWork
  BY PlainFrame, Zenon DEF EscapesWork
<1> QED
  BY <1>2, <1>3, <1>4 DEF OthersAreHarmless

-----------------------------------------------------------------------------
(* What goes on of the frames that are heard.                              *)

GoodFrame(f) ==
  /\ IsReceived(f)
  /\ ReceivedFrame(f).destination = Broadcast
  /\ ReceivedFrame(f).payload # <<>>
EmptyFrame(f) ==
  /\ IsReceived(f)
  /\ ReceivedFrame(f).destination = Broadcast
  /\ ReceivedFrame(f).payload = <<>>
FrameText(f) == [source |-> ReceivedFrame(f).source, text |-> Tail(ReceivedFrame(f).payload)]

\* The formats lose nothing of a broadcast, nor make one of another frame.
BroadcastsAreKept ==
  \A call \in Calls : Sendable(call) =>
    /\ Kept(call.destination)
    /\ Passable(call) => Kept(call.source)

LEMMA BroadcastFrames ==
  ASSUME BroadcastsAreKept, NEW call \in Calls, Sendable(call)
  PROVE  LET f == EncodeAX25Frame(call)
         IN  /\ GoodFrame(f) <=> HasText(call)
             /\ EmptyFrame(f) <=> Passable(call) /\ call.payload = <<>>
             /\ HasText(call) => FrameText(f) = CallText(call)
<1>1. PICK f : f = EncodeAX25Frame(call)
  OBVIOUS
<1>2. /\ Kept(call.destination)
      /\ Passable(call) => Kept(call.source)
  BY Zenon DEF BroadcastsAreKept
<1>3. ReceivedFrame(f).destination = call.destination
  <2>1. DecodeAX25Callsign(f, 0) = call.destination
    BY <1>1, <1>2, DestinationSurvives, Zenon
  <2> QED
    BY <2>1 DEF ReceivedFrame
<1>4. CASE call.destination # Broadcast
  BY <1>1, <1>3, <1>4, Zenon DEF GoodFrame, EmptyFrame, HasText, Passable
<1>5. CASE Passable(call)
  <2>1. PICK r : r = [source |-> call.source, destination |-> call.destination,
                      payload |-> call.payload]
    OBVIOUS
  <2>2. Len(call.digipeaters) <= 7 /\ call.destination = Broadcast
    BY <1>5, Zenon DEF Passable
  <2>3. IsReceived(f) /\ ReceivedFrame(f) = r
    BY <1>1, <1>2, <1>5, <2>1, <2>2, FramesSurvive, Zenon
  <2>4. r.source = call.source /\ r.payload = call.payload
    BY <2>1
  <2> QED
    BY <1>1, <1>3, <1>5, <2>2, <2>3, <2>4, Zenon
    DEF GoodFrame, EmptyFrame, FrameText, HasText, CallText
<1>6. CASE call.destination = Broadcast /\ ~Passable(call)
  <2>1. PICK l : l = Len(call.digipeaters)
    OBVIOUS
  <2>2. l \in Nat
    <3>1. call.digipeaters \in Seq(CallsignConfig)
      BY DEF Sendable, Call
    <3> QED
      BY <2>1, <3>1, LenProperties
  <2>3. l <= 8 /\ ~(l <= 7)
    BY <1>6, <2>1, Zenon DEF Sendable, Passable
  <2>4. l = 8
    BY ONLY <2>2, <2>3
  <2>5. ~IsReceived(f)
    BY <1>1, <2>1, <2>4, EighthRefused, Zenon
  <2> QED
    BY <1>1, <1>6, <2>5, Zenon DEF GoodFrame, EmptyFrame, HasText
<1> QED
  BY <1>4, <1>5, <1>6, Zenon

\* at lists the members of G in their order.
Lists(at, n, G) ==
  /\ at \in [1..n -> G]
  /\ \A i, j \in 1..n : i < j => at[i] < at[j]
  /\ \A g \in G : \E i \in 1..n : at[i] = g

GoodPlaces(frames) == {k \in DOMAIN frames : GoodFrame(frames[k])}

\* The texts are those of the good frames.
Selects(texts, frames) ==
  /\ \E S : texts \in Seq(S)
  /\ \E at :
       /\ Lists(at, Len(texts), GoodPlaces(frames))
       /\ \A i \in 1..Len(texts) : texts[i] = FrameText(frames[at[i]])

LEMMA NothingSelected == Selects(<<>>, <<>>)
<1>1. PICK e : e = <<>>
  OBVIOUS
<1>2. DOMAIN e = {} /\ Len(e) = 0 /\ e \in Seq({}) /\ 1..0 = {}
  BY <1>1
<1>3. PICK at : at = [i \in {} |-> 0]
  OBVIOUS
<1>4. GoodPlaces(e) = {}
  BY <1>2 DEF GoodPlaces
<1>5. at \in [{} -> {}]
  BY <1>3
<1>6. Lists(at, Len(e), GoodPlaces(e))
  BY <1>2, <1>4, <1>5, Zenon DEF Lists
<1> QED
  BY <1>1, <1>2, <1>6, Zenon DEF Selects

\* A frame that is no good selects nothing.
LEMMA SelectsNoMore ==
  ASSUME NEW frames \in Seq(Seq(Byte)), NEW f \in Seq(Byte), ~GoodFrame(f),
         NEW texts, Selects(texts, frames)
  PROVE  Selects(texts, Append(frames, f))
<1>1. PICK n \in Nat : n = Len(frames) /\ DOMAIN frames = 1..n
  BY LenProperties
<1>2. PICK more : more = Append(frames, f)
  OBVIOUS
<1>3. /\ more \in Seq(Seq(Byte)) /\ Len(more) = n + 1
      /\ \A k \in 1..n : more[k] = frames[k]
      /\ more[n + 1] = f
  BY <1>1, <1>2, AppendProperties
<1>4. DOMAIN more = 1..(n + 1)
  BY <1>3, LenProperties
<1>5. \A k \in 1..(n + 1) : k \in 1..n \/ k = n + 1
  OBVIOUS
<1>6. \A k \in 1..n : k \in 1..(n + 1)
  OBVIOUS
<1>7. \A k : k \in GoodPlaces(more) <=> k \in GoodPlaces(frames)
  BY <1>1, <1>3, <1>4, <1>5, <1>6, Zenon DEF GoodPlaces
<1>8. GoodPlaces(more) = GoodPlaces(frames)
  BY <1>7
<1>9. PICK at :
        /\ Lists(at, Len(texts), GoodPlaces(frames))
        /\ \A i \in 1..Len(texts) : texts[i] = FrameText(frames[at[i]])
  BY Zenon DEF Selects
<1>10. \A i \in 1..Len(texts) : at[i] \in 1..n
  BY <1>1, <1>9, Zenon DEF Lists, GoodPlaces
<1>11. \A i \in 1..Len(texts) : texts[i] = FrameText(more[at[i]])
  BY <1>3, <1>9, <1>10, Zenon
<1> QED
  BY <1>2, <1>8, <1>9, <1>11, Zenon DEF Selects

\* A good one selects its text.
LEMMA SelectsMore ==
  ASSUME NEW frames \in Seq(Seq(Byte)), NEW f \in Seq(Byte), GoodFrame(f),
         NEW texts, Selects(texts, frames)
  PROVE  Selects(Append(texts, FrameText(f)), Append(frames, f))
<1>1. PICK n \in Nat : n = Len(frames) /\ DOMAIN frames = 1..n
  BY LenProperties
<1>2. PICK more : more = Append(frames, f)
  OBVIOUS
<1>3. /\ more \in Seq(Seq(Byte)) /\ Len(more) = n + 1
      /\ \A k \in 1..n : more[k] = frames[k]
      /\ more[n + 1] = f
  BY <1>1, <1>2, AppendProperties
<1>4. DOMAIN more = 1..(n + 1)
  BY <1>3, LenProperties
<1>5. \A k \in 1..(n + 1) : k \in 1..n \/ k = n + 1
  OBVIOUS
<1>6. \A k \in 1..n : k \in 1..(n + 1) /\ k < n + 1
  OBVIOUS
<1>7. n + 1 \in 1..(n + 1)
  OBVIOUS
<1>8. /\ n + 1 \in GoodPlaces(more)
      /\ \A k \in GoodPlaces(frames) : k \in GoodPlaces(more) /\ k \in 1..n
      /\ \A k \in GoodPlaces(more) : k \in GoodPlaces(frames) \/ k = n + 1
  BY <1>1, <1>3, <1>4, <1>5, <1>6, <1>7, Zenon DEF GoodPlaces
<1>9. PICK at :
        /\ Lists(at, Len(texts), GoodPlaces(frames))
        /\ \A i \in 1..Len(texts) : texts[i] = FrameText(frames[at[i]])
  BY Zenon DEF Selects
<1>10. PICK S : texts \in Seq(S)
  BY DEF Selects
<1>11. PICK m \in Nat : m = Len(texts)
  BY <1>10, LenProperties
<1>12. PICK x : x = FrameText(f)
  OBVIOUS
<1>13. PICK out : out = Append(texts, x)
  OBVIOUS
<1>14. PICK U : U = S \cup {x}
  OBVIOUS
<1>15. texts \in Seq(U) /\ x \in U
  BY <1>10, <1>14, SeqMonotonic
<1>16. /\ out \in Seq(U) /\ Len(out) = m + 1
       /\ \A i \in 1..m : out[i] = texts[i]
       /\ out[m + 1] = x
  BY <1>11, <1>13, <1>15, AppendProperties
<1>17. PICK to : to = [i \in 1..(m + 1) |-> IF i = m + 1 THEN n + 1 ELSE at[i]]
  OBVIOUS
<1>18. \A i \in 1..(m + 1) : i \in 1..m \/ i = m + 1
  OBVIOUS
<1>19. \A i \in 1..m : i \in 1..(m + 1) /\ i # m + 1
  OBVIOUS
<1>20. m + 1 \in 1..(m + 1)
  OBVIOUS
<1>21. to[m + 1] = n + 1 /\ \A i \in 1..m : to[i] = at[i]
  BY <1>17, <1>19, <1>20
<1>22. \A i \in 1..m : at[i] \in GoodPlaces(frames) /\ at[i] \in 1..n
  BY <1>8, <1>9, <1>11, Zenon DEF Lists
<1>23. to \in [1..(m + 1) -> GoodPlaces(more)]
  <2>1. \A i \in 1..(m + 1) : to[i] \in GoodPlaces(more)
    BY <1>8, <1>18, <1>21, <1>22, Zenon
  <2>2. to = [i \in 1..(m + 1) |-> to[i]]
    BY <1>17
  <2> QED
    BY <2>1, <2>2, Zenon
<1>24. ASSUME NEW i \in 1..(m + 1), NEW j \in 1..(m + 1), i < j PROVE to[i] < to[j]
  <2>1. i \in 1..m
    BY <1>24
  <2>2. CASE j \in 1..m
    BY <1>9, <1>11, <1>21, <1>24, <2>1, <2>2, Zenon DEF Lists
  <2>3. CASE j = m + 1
    BY <1>6, <1>21, <1>22, <2>1, <2>3, Zenon
  <2> QED
    BY <1>18, <2>2, <2>3
<1>25. ASSUME NEW k \in GoodPlaces(more) PROVE \E i \in 1..(m + 1) : to[i] = k
  <2>1. CASE k = n + 1
    BY <1>20, <1>21, <2>1
  <2>2. CASE k \in GoodPlaces(frames)
    <3>1. PICK i \in 1..m : at[i] = k
      BY <1>9, <1>11, <2>2, Zenon DEF Lists
    <3> QED
      BY <1>19, <1>21, <3>1, Zenon
  <2> QED
    BY <1>8, <2>1, <2>2
<1>26. Lists(to, m + 1, GoodPlaces(more))
  BY <1>23, <1>24, <1>25, Zenon DEF Lists
<1>27. \A i \in 1..(m + 1) : out[i] = FrameText(more[to[i]])
  <2>1. \A i \in 1..m : out[i] = FrameText(more[to[i]])
    <3> SUFFICES ASSUME NEW i \in 1..m PROVE out[i] = FrameText(more[to[i]])
      OBVIOUS
    <3>1. to[i] = at[i] /\ out[i] = texts[i] /\ more[at[i]] = frames[at[i]]
      BY <1>3, <1>16, <1>21, <1>22, Zenon
    <3>2. texts[i] = FrameText(frames[at[i]])
      BY <1>9, <1>11, Zenon
    <3> QED
      BY <3>1, <3>2, Zenon
  <2>2. out[m + 1] = FrameText(more[to[m + 1]])
    BY <1>3, <1>12, <1>16, <1>21, Zenon
  <2> QED
    BY <1>18, <2>1, <2>2, Zenon
<1> QED
  BY <1>2, <1>12, <1>13, <1>16, <1>26, <1>27, Zenon DEF Selects

-----------------------------------------------------------------------------
(* The broadcasts on the wire.                                             *)

\* The recursive function in TextsOf, for the first n calls.
IsFirst(f, calls, n) ==
  f = [k \in 0..n |-> IF k = 0 THEN <<>>
                      ELSE IF HasText(calls[k]) THEN Append(f[k - 1], CallText(calls[k]))
                      ELSE f[k - 1]]

LEMMA FirstExists ==
  ASSUME NEW calls
  PROVE  \A n \in Nat : \E f : IsFirst(f, calls, n)
<1> DEFINE S == {n \in Nat : \E f : IsFirst(f, calls, n)}
           Step(f, k) == IF HasText(calls[k]) THEN Append(f[k - 1], CallText(calls[k]))
                         ELSE f[k - 1]
<1>1. 0 \in S
  <2>1. PICK f : f = [k \in 0..0 |-> <<>>]
    OBVIOUS
  <2>2. \A k \in 0..0 : k = 0
    OBVIOUS
  <2>3. f = [k \in 0..0 |-> IF k = 0 THEN <<>> ELSE Step(f, k)]
    <3> HIDE DEF Step
    <3> QED
      BY <2>1, <2>2
  <2> QED
    BY <2>3, Zenon DEF IsFirst
<1>2. ASSUME NEW n \in S PROVE n + 1 \in S
  <2>1. PICK f : IsFirst(f, calls, n)
    OBVIOUS
  <2>2. PICK g : g = [k \in 0..(n + 1) |-> IF k = n + 1 THEN Step(f, n + 1) ELSE f[k]]
    OBVIOUS
  <2>3. n \in Nat /\ n + 1 \in 0..(n + 1) /\ (n + 1) - 1 = n /\ n \in 0..n /\ n + 1 # 0
    OBVIOUS
  <2>4. \A k \in 0..(n + 1) : k \in 0..n \/ k = n + 1
    BY <2>3
  <2>5. \A k \in 0..n : k \in 0..(n + 1) /\ k # n + 1 /\ (k # 0 => k - 1 \in 0..n)
    BY <2>3
  <2> HIDE DEF Step, S
  <2>6. g[n + 1] = Step(f, n + 1) /\ \A k \in 0..n : g[k] = f[k]
    BY <2>2, <2>3, <2>5, Zenon
  <2>7. \A k \in 0..n : f[k] = IF k = 0 THEN <<>> ELSE Step(f, k)
    BY <2>1, Zenon DEF IsFirst, Step
  <2>8. \A k \in 0..n : k # 0 => Step(g, k) = Step(f, k)
    BY <2>5, <2>6, Zenon DEF Step
  <2>9. Step(g, n + 1) = Step(f, n + 1)
    BY <2>3, <2>6, Zenon DEF Step
  <2>10. \A k \in 0..(n + 1) : g[k] = IF k = 0 THEN <<>> ELSE Step(g, k)
    BY <2>3, <2>4, <2>6, <2>7, <2>8, <2>9, Zenon
  <2>11. g = [k \in 0..(n + 1) |-> g[k]]
    BY <2>2, Zenon
  <2>12. [k \in 0..(n + 1) |-> g[k]]
           = [k \in 0..(n + 1) |-> IF k = 0 THEN <<>> ELSE Step(g, k)]
    BY <2>10, Zenon
  <2>13. IsFirst(g, calls, n + 1)
    BY <2>11, <2>12, Zenon DEF IsFirst, Step
  <2> QED
    BY <2>3, <2>13 DEF S
<1>3. S = Nat
  <2> HIDE DEF S
  <2>1. S \in SUBSET Nat
    BY DEF S
  <2> QED
    BY <1>1, <1>2, <2>1, SetInduction
<1> QED
  BY <1>3

LEMMA FirstAgrees ==
  ASSUME NEW n \in Nat, NEW m \in Nat, n <= m, NEW calls, NEW more,
         \A k \in 1..n : more[k] = calls[k],
         NEW f, IsFirst(f, calls, n), NEW g, IsFirst(g, more, m)
  PROVE  f[n] = g[n]
<1> DEFINE S == {k \in Nat : k <= n => f[k] = g[k]}
<1>1. \A k \in 0..n : f[k] = IF k = 0 THEN <<>>
                             ELSE IF HasText(calls[k]) THEN Append(f[k - 1], CallText(calls[k]))
                             ELSE f[k - 1]
  BY Zenon DEF IsFirst
<1>2. \A k \in 0..m : g[k] = IF k = 0 THEN <<>>
                             ELSE IF HasText(more[k]) THEN Append(g[k - 1], CallText(more[k]))
                             ELSE g[k - 1]
  BY Zenon DEF IsFirst
<1>3. 0 \in S
  <2>1. 0 \in 0..n /\ 0 \in 0..m
    OBVIOUS
  <2>2. f[0] = <<>> /\ g[0] = <<>>
    BY <1>1, <1>2, <2>1, Zenon
  <2> QED
    BY <2>2
<1>4. ASSUME NEW k \in S PROVE k + 1 \in S
  <2> SUFFICES ASSUME k + 1 <= n PROVE f[k + 1] = g[k + 1]
    OBVIOUS
  <2>1. k + 1 \in 0..n /\ k + 1 \in 0..m /\ k + 1 \in 1..n /\ (k + 1) - 1 = k /\ k + 1 # 0
    OBVIOUS
  <2>2. f[k] = g[k]
    OBVIOUS
  <2> HIDE DEF S
  <2>3. f[k + 1] = IF HasText(calls[k + 1]) THEN Append(f[k], CallText(calls[k + 1])) ELSE f[k]
    BY <1>1, <2>1, Zenon
  <2>4. g[k + 1] = IF HasText(more[k + 1]) THEN Append(g[k], CallText(more[k + 1])) ELSE g[k]
    BY <1>2, <2>1, Zenon
  <2>5. more[k + 1] = calls[k + 1]
    BY <2>1
  <2> QED
    BY <2>2, <2>3, <2>4, <2>5
<1>5. S = Nat
  <2> HIDE DEF S
  <2>1. S \in SUBSET Nat
    BY DEF S
  <2> QED
    BY <1>3, <1>4, <2>1, SetInduction
<1> QED
  BY <1>5

LEMMA TextsAre ==
  ASSUME NEW calls, Len(calls) \in Nat
  PROVE  \E f : IsFirst(f, calls, Len(calls)) /\ TextsOf(calls) = f[Len(calls)]
<1>1. PICK n \in Nat : n = Len(calls)
  OBVIOUS
<1> DEFINE f == CHOOSE g : g = [k \in 0..n |->
                  IF k = 0 THEN <<>>
                  ELSE IF HasText(calls[k]) THEN Append(g[k - 1], CallText(calls[k]))
                  ELSE g[k - 1]]
<1>2. \E g : IsFirst(g, calls, n)
  BY FirstExists, Zenon
<1>3. f = [k \in 0..n |->
             IF k = 0 THEN <<>>
             ELSE IF HasText(calls[k]) THEN Append(f[k - 1], CallText(calls[k]))
             ELSE f[k - 1]]
  BY <1>2, Zenon DEF IsFirst
<1>4. TextsOf(calls) = f[n]
  BY <1>1, Zenon DEF TextsOf
<1> QED
  BY <1>1, <1>3, <1>4, Zenon DEF IsFirst

LEMMA NoTexts == TextsOf(<<>>) = <<>>
<1>1. PICK e : e = <<>>
  OBVIOUS
<1>2. Len(e) = 0 /\ Len(e) \in Nat /\ 0 \in 0..0
  BY <1>1
<1>3. PICK f : IsFirst(f, e, 0) /\ TextsOf(e) = f[0]
  BY <1>2, TextsAre, Zenon
<1>4. f[0] = <<>>
  BY <1>2, <1>3, Zenon DEF IsFirst
<1> QED
  BY <1>1, <1>3, <1>4, Zenon

LEMMA TextsOfMore ==
  ASSUME NEW calls \in Seq(Calls), NEW call \in Calls
  PROVE  TextsOf(Append(calls, call))
           = IF HasText(call) THEN Append(TextsOf(calls), CallText(call)) ELSE TextsOf(calls)
<1>1. PICK n \in Nat : n = Len(calls)
  BY LenProperties
<1>2. PICK more : more = Append(calls, call)
  OBVIOUS
<1>3. /\ Len(more) = n + 1 /\ n + 1 \in Nat
      /\ \A k \in 1..n : more[k] = calls[k]
      /\ more[n + 1] = call
  BY <1>1, <1>2, AppendProperties
<1>4. PICK f : IsFirst(f, calls, n) /\ TextsOf(calls) = f[n]
  BY <1>1, TextsAre, Zenon
<1>5. PICK g : IsFirst(g, more, n + 1) /\ TextsOf(more) = g[n + 1]
  BY <1>3, TextsAre, Zenon
<1>6. f[n] = g[n]
  <2>1. n <= n + 1
    OBVIOUS
  <2> QED
    BY <1>3, <1>4, <1>5, <2>1, FirstAgrees
<1>7. n + 1 \in 0..(n + 1) /\ (n + 1) - 1 = n /\ n + 1 # 0
  OBVIOUS
<1>8. g[n + 1] = IF HasText(more[n + 1]) THEN Append(g[n], CallText(more[n + 1])) ELSE g[n]
  BY <1>5, <1>7, Zenon DEF IsFirst
<1> QED
  BY <1>2, <1>3, <1>4, <1>5, <1>6, <1>8, Zenon

LEMMA FramesAreBytes ==
  ASSUME NEW calls \in Seq(Calls), \A k \in DOMAIN calls : Sendable(calls[k])
  PROVE  FramesOf(calls) \in Seq(Seq(Byte))
<1>1. PICK n \in Nat : n = Len(calls) /\ DOMAIN calls = 1..n
  BY LenProperties
<1>2. \A k \in 1..n : EncodeAX25Frame(calls[k]) \in Seq(Byte)
  BY <1>1, SentBytes, Zenon
<1>3. PICK F : F = FramesOf(calls)
  OBVIOUS
<1>4. F = [k \in 1..n |-> EncodeAX25Frame(calls[k])]
  BY <1>1, <1>3 DEF FramesOf
<1>5. F \in [1..n -> Seq(Byte)]
  BY <1>2, <1>4
<1> QED
  BY <1>3, <1>5, IsASeq

LEMMA FramesOfMore ==
  ASSUME NEW calls \in Seq(Calls), NEW call \in Calls,
         \A k \in DOMAIN calls : Sendable(calls[k]), Sendable(call)
  PROVE  FramesOf(Append(calls, call)) = Append(FramesOf(calls), EncodeAX25Frame(call))
<1>1. PICK F : F = FramesOf(calls)
  OBVIOUS
<1>2. PICK G : G = FramesOf(Append(calls, call))
  OBVIOUS
<1>3. PICK f : f = EncodeAX25Frame(call)
  OBVIOUS
<1>4. F \in Seq(Seq(Byte)) /\ f \in Seq(Byte)
  BY <1>1, <1>3, FramesAreBytes, SentBytes, Zenon
<1>5. PICK n \in Nat : n = Len(calls)
  BY LenProperties
<1>6. /\ DOMAIN F = 1..n /\ DOMAIN G = 1..(n + 1)
      /\ \A i \in 1..n : G[i] = F[i]
      /\ G[n + 1] = f
  BY <1>1, <1>2, <1>3, <1>5, MoreFrames
<1>7. Len(F) = n
  BY <1>4, <1>5, <1>6, LenProperties
<1>8. PICK H : H = Append(F, f)
  OBVIOUS
<1>9. /\ H \in Seq(Seq(Byte)) /\ Len(H) = n + 1
      /\ \A i \in 1..n : H[i] = F[i]
      /\ H[n + 1] = f
  BY <1>4, <1>7, <1>8, AppendProperties
<1>10. \A i \in 1..(n + 1) : i \in 1..n \/ i = n + 1
  OBVIOUS
<1>11. \A i \in 1..(n + 1) : G[i] = H[i]
  BY <1>6, <1>9, <1>10, Zenon
<1>12. G = [i \in 1..(n + 1) |-> G[i]]
  BY <1>2, <1>6 DEF FramesOf
<1>13. H = [i \in 1..(n + 1) |-> H[i]]
  BY <1>9, LenProperties
<1> QED
  BY <1>1, <1>2, <1>3, <1>8, <1>11, <1>12, <1>13

-----------------------------------------------------------------------------
(* The texts of two sequences of frames.                                   *)

ChosenAt(at, texts, m, frames, n) ==
  /\ m \in Nat /\ m = Len(texts) /\ DOMAIN texts = 1..m
  /\ n \in Nat /\ n = Len(frames) /\ DOMAIN frames = 1..n
  /\ Lists(at, m, GoodPlaces(frames))
  /\ \A i \in 1..m : /\ at[i] \in 1..n
                     /\ GoodFrame(frames[at[i]])
                     /\ texts[i] = FrameText(frames[at[i]])

LEMMA Selected ==
  ASSUME NEW texts, NEW frames \in Seq(Seq(Byte)), Selects(texts, frames)
  PROVE  \E at : ChosenAt(at, texts, Len(texts), frames, Len(frames))
<1>1. PICK S : texts \in Seq(S)
  BY DEF Selects
<1>2. DOMAIN texts = 1..Len(texts) /\ Len(texts) \in Nat
  BY <1>1, LenProperties
<1>3. DOMAIN frames = 1..Len(frames) /\ Len(frames) \in Nat
  BY LenProperties
<1>4. PICK at :
        /\ Lists(at, Len(texts), GoodPlaces(frames))
        /\ \A i \in 1..Len(texts) : texts[i] = FrameText(frames[at[i]])
  BY Zenon DEF Selects
<1>5. \A i \in 1..Len(texts) : at[i] \in 1..Len(frames) /\ GoodFrame(frames[at[i]])
  BY <1>3, <1>4, Zenon DEF Lists, GoodPlaces
<1> QED
  BY <1>2, <1>3, <1>4, <1>5, Zenon DEF ChosenAt

\* Frames heard in order give texts in order.
LEMMA SelectsInOrder ==
  ASSUME NEW h \in Seq(Seq(Byte)), NEW F \in Seq(Seq(Byte)), Interface!InOrder(h, F),
         NEW p, Selects(p, h), NEW b, Selects(b, F)
  PROVE  Interface!InOrder(p, b)
<1>a. PICK m, l, n, s : m = Len(p) /\ l = Len(b) /\ n = Len(F) /\ s = Len(h)
  OBVIOUS
<1>b. PICK lp : ChosenAt(lp, p, m, h, s)
  BY <1>a, Selected, Zenon
<1>c. PICK lb : ChosenAt(lb, b, l, F, n)
  BY <1>a, Selected, Zenon
<1>1. /\ m \in Nat /\ l \in Nat /\ n \in Nat /\ s \in Nat
      /\ DOMAIN p = 1..m /\ DOMAIN b = 1..l /\ DOMAIN F = 1..n /\ DOMAIN h = 1..s
  BY <1>b, <1>c, Zenon DEF ChosenAt
<1>2. /\ Lists(lp, m, GoodPlaces(h))
      /\ \A i \in 1..m : /\ lp[i] \in 1..s
                         /\ GoodFrame(h[lp[i]])
                         /\ p[i] = FrameText(h[lp[i]])
  BY <1>b, Zenon DEF ChosenAt
<1>3. /\ Lists(lb, l, GoodPlaces(F))
      /\ \A i \in 1..l : /\ lb[i] \in 1..n
                         /\ GoodFrame(F[lb[i]])
                         /\ b[i] = FrameText(F[lb[i]])
  BY <1>c, Zenon DEF ChosenAt
<1>4. PICK at \in [1..s -> 1..n] :
        /\ \A i, j \in 1..s : i < j => at[i] < at[j]
        /\ \A i \in 1..s : h[i] = F[at[i]]
  BY <1>1, Zenon DEF Interface!InOrder
<1>5. ASSUME NEW i \in 1..m
      PROVE  \E j \in 1..l : lb[j] = at[lp[i]]
  <2>1. lp[i] \in 1..s /\ GoodFrame(h[lp[i]])
    BY <1>2
  <2>2. at[lp[i]] \in 1..n /\ h[lp[i]] = F[at[lp[i]]]
    BY <1>4, <2>1
  <2>3. at[lp[i]] \in GoodPlaces(F)
    BY <1>1, <2>1, <2>2, Zenon DEF GoodPlaces
  <2> QED
    BY <1>3, <2>3, Zenon DEF Lists
<1>6. PICK q : q = [i \in 1..m |-> CHOOSE j \in 1..l : lb[j] = at[lp[i]]]
  OBVIOUS
<1>7. \A i \in 1..m : q[i] \in 1..l /\ lb[q[i]] = at[lp[i]]
  BY <1>5, <1>6, Zenon
<1>8. q \in [DOMAIN p -> DOMAIN b]
  BY <1>1, <1>6, <1>7
<1>9. ASSUME NEW i \in 1..m, NEW j \in 1..m, i < j PROVE q[i] < q[j]
  <2>1. lp[i] < lp[j] /\ lp[i] \in 1..s /\ lp[j] \in 1..s
    BY <1>2, <1>9, Zenon DEF Lists
  <2>2. at[lp[i]] < at[lp[j]]
    BY <1>4, <2>1, Zenon
  <2>3. lb[q[i]] < lb[q[j]] /\ q[i] \in 1..l /\ q[j] \in 1..l
    BY <1>7, <2>2, Zenon
  <2>4. lb[q[i]] \in 1..n /\ lb[q[j]] \in 1..n
    BY <1>3, <2>3, Zenon
  <2>5. q[j] < q[i] => lb[q[j]] < lb[q[i]]
    BY <1>3, <2>3, Zenon DEF Lists
  <2>6. ~(q[j] < q[i])
    BY <1>1, <2>3, <2>4, <2>5
  <2>7. q[i] # q[j]
    BY <1>1, <2>3, <2>4
  <2> QED
    BY <1>1, <2>3, <2>6, <2>7
<1>10. ASSUME NEW i \in 1..m PROVE p[i] = b[q[i]]
  <2>1. h[lp[i]] = F[at[lp[i]]]
    BY <1>2, <1>4, Zenon
  <2>2. q[i] \in 1..l /\ F[lb[q[i]]] = h[lp[i]]
    BY <1>7, <2>1, Zenon
  <2>3. b[q[i]] = FrameText(F[lb[q[i]]])
    BY <1>3, <2>2, Zenon
  <2>4. p[i] = FrameText(h[lp[i]])
    BY <1>2, Zenon
  <2> QED
    BY <2>2, <2>3, <2>4, Zenon
<1> QED
  BY <1>1, <1>8, <1>9, <1>10, Zenon DEF Interface!InOrder

\* H is what G has up to s.
AreUpTo(H, G, s) == \A g : g \in H <=> g \in G /\ g <= s

Agree(a, m, c, l) == \A i \in 1..m : i \in 1..l /\ a[i] = c[i]

\* Two lists of the same places agree as far as both go.
LEMMA ListsAgree ==
  ASSUME NEW n \in Nat, NEW s \in Nat, NEW m \in Nat, NEW l \in Nat,
         NEW G, G \subseteq 1..n, NEW H, AreUpTo(H, G, s),
         NEW a, Lists(a, m, H), NEW c, Lists(c, l, G)
  PROVE  Agree(a, m, c, l)
<1> DEFINE S == {k \in Nat : \A i \in 1..k : i <= m => i \in 1..l /\ a[i] = c[i]}
<1>h. \A g : g \in H <=> g \in G /\ g <= s
  BY DEF AreUpTo
<1>1. 0 \in S
  OBVIOUS
<1>2. ASSUME NEW k \in S PROVE k + 1 \in S
  <2>1. k \in Nat /\ \A i \in 1..k : i <= m => i \in 1..l /\ a[i] = c[i]
    OBVIOUS
  <2> HIDE DEF S
  <2>2. ASSUME k + 1 <= m PROVE k + 1 \in 1..l /\ a[k + 1] = c[k + 1]
    <3>1. k + 1 \in 1..m
      BY <2>1, <2>2
    <3>2. PICK x \in 1..n : x = a[k + 1] /\ x \in G /\ x \in H /\ x <= s
      BY <1>h, <3>1 DEF Lists
    <3>3. PICK j \in 1..l : c[j] = x
      BY <3>2, Zenon DEF Lists
    <3>4. ~(j <= k)
      <4> SUFFICES ASSUME j <= k PROVE FALSE
        OBVIOUS
      <4>1. j \in 1..k /\ j \in 1..m /\ j < k + 1
        BY <2>1, <3>1
      <4>2. a[j] = c[j]
        BY <2>1, <2>2, <4>1
      <4>3. a[j] < a[k + 1]
        BY <3>1, <4>1, Zenon DEF Lists
      <4> QED
        BY <3>2, <3>3, <4>2, <4>3
    <3>5. k + 1 \in 1..l
      BY <2>1, <3>4
    <3>6. ~(k + 1 < j)
      <4> SUFFICES ASSUME k + 1 < j PROVE FALSE
        OBVIOUS
      <4>1. PICK y \in 1..n : y = c[k + 1] /\ y \in G
        BY <3>5 DEF Lists
      <4>2. y < x
        BY <3>3, <3>5, <4>1, Zenon DEF Lists
      <4>3. y \in H
        BY <1>h, <3>2, <4>1, <4>2
      <4>4. PICK i \in 1..m : a[i] = y
        BY <4>3, Zenon DEF Lists
      <4>5. k + 1 < i => a[k + 1] < a[i]
        BY <3>1, <4>4, Zenon DEF Lists
      <4>6. i # k + 1
        BY <3>2, <4>2, <4>4
      <4>7. ~(k + 1 < i)
        BY <3>2, <4>2, <4>4, <4>5
      <4>8. i \in 1..k
        BY <2>1, <4>6, <4>7
      <4>9. i \in 1..l /\ c[i] = y
        BY <2>1, <4>4, <4>8
      <4>10. i < k + 1
        BY <2>1, <4>8
      <4>11. c[i] < c[k + 1]
        BY <3>5, <4>9, <4>10, Zenon DEF Lists
      <4> QED
        BY <4>1, <4>9, <4>11
    <3>7. j = k + 1
      BY <2>1, <3>4, <3>6
    <3> QED
      BY <3>2, <3>3, <3>5, <3>7
  <2>3. \A i \in 1..(k + 1) : i \in 1..k \/ i = k + 1
    BY <2>1
  <2> QED
    BY <2>1, <2>2, <2>3 DEF S
<1>3. S = Nat
  <2> HIDE DEF S
  <2>1. S \in SUBSET Nat
    BY DEF S
  <2> QED
    BY <1>1, <1>2, <2>1, SetInduction
<1>4. \A i \in 1..m : i \in 1..l /\ a[i] = c[i]
  <2>1. m \in S
    BY <1>3
  <2> QED
    BY <2>1
<1> HIDE DEF S
<1> QED
  BY <1>4, Zenon DEF Agree

\* All that was heard so far gives the first of the texts.
LEMMA SelectsPrefix ==
  ASSUME NEW h \in Seq(Seq(Byte)), NEW F \in Seq(Seq(Byte)), Len(h) <= Len(F),
         \A i \in 1..Len(h) : h[i] = F[i],
         NEW p, Selects(p, h), NEW b, Selects(b, F)
  PROVE  IsPrefix(p, b)
<1>a. PICK m, l, n, s : m = Len(p) /\ l = Len(b) /\ n = Len(F) /\ s = Len(h)
  OBVIOUS
<1>b. PICK lp : ChosenAt(lp, p, m, h, s)
  BY <1>a, Selected, Zenon
<1>c. PICK lb : ChosenAt(lb, b, l, F, n)
  BY <1>a, Selected, Zenon
<1>1. /\ m \in Nat /\ l \in Nat /\ n \in Nat /\ s \in Nat
      /\ DOMAIN p = 1..m /\ DOMAIN b = 1..l /\ DOMAIN F = 1..n /\ DOMAIN h = 1..s
  BY <1>b, <1>c, Zenon DEF ChosenAt
<1>2. /\ Lists(lp, m, GoodPlaces(h))
      /\ \A i \in 1..m : p[i] = FrameText(h[lp[i]]) /\ lp[i] \in 1..s
  BY <1>b, Zenon DEF ChosenAt
<1>3. /\ Lists(lb, l, GoodPlaces(F))
      /\ \A i \in 1..l : b[i] = FrameText(F[lb[i]])
  BY <1>c, Zenon DEF ChosenAt
<1>4. s <= n /\ \A i \in 1..s : i \in 1..n /\ h[i] = F[i]
  BY <1>a, <1>1
<1>5. \A i \in 1..n : i <= s => i \in 1..s
  BY <1>1
<1>6. \A i \in 1..s : i <= s
  BY <1>1
<1>7. \A k : k \in GoodPlaces(h) <=> k \in GoodPlaces(F) /\ k <= s
  BY <1>1, <1>4, <1>5, <1>6, Zenon DEF GoodPlaces
<1>8. GoodPlaces(F) \subseteq 1..n
  BY <1>1 DEF GoodPlaces
<1>10. m <= l /\ \A i \in 1..m : lp[i] = lb[i]
  <2>1. PICK G, H : G = GoodPlaces(F) /\ H = GoodPlaces(h)
    OBVIOUS
  <2>2. G \subseteq 1..n /\ AreUpTo(H, G, s)
    BY <1>7, <1>8, <2>1 DEF AreUpTo
  <2>3. Lists(lp, m, H) /\ Lists(lb, l, G)
    BY <1>2, <1>3, <2>1
  <2>4. Agree(lp, m, lb, l)
    BY <1>1, <2>2, <2>3, ListsAgree, Zenon
  <2> QED
    BY <1>1, <2>4 DEF Agree
<1>11. \A i \in 1..m : i \in 1..l
  BY <1>1, <1>10
<1>12. ASSUME NEW i \in 1..m PROVE p[i] = b[i]
  <2>1. p[i] = FrameText(h[lp[i]]) /\ h[lp[i]] = F[lp[i]] /\ lp[i] = lb[i]
    BY <1>2, <1>4, <1>10, Zenon
  <2>2. b[i] = FrameText(F[lb[i]])
    BY <1>3, <1>11, Zenon
  <2> QED
    BY <2>1, <2>2, Zenon
<1>13. (\E S : p \in Seq(S)) /\ (\E S : b \in Seq(S))
  BY Zenon DEF Selects
<1>14. SubSeq(p, 1, m) = SubSeq(b, 1, m)
  BY <1>a, <1>1, <1>10, <1>12, <1>13
<1> QED
  BY <1>a, <1>10, <1>14, Zenon DEF IsPrefix

-----------------------------------------------------------------------------
(* What goes on, in every state.                                           *)

HeardFits == Fits(heard, timeouts, put)

LEMMA HeardInvariance ==
  ASSUME OthersAreHarmless, EscapesWork
  PROVE  Spec => []HeardFits
<1>1. TypeOK /\ WireIsSound => HeardFits
  <2> SUFFICES ASSUME TypeOK, WireIsSound PROVE HeardFits
    OBVIOUS
  <2>1. PICK S : Paths(S, wire, put) /\ <<Decoder, heard, timeouts>> \in S[0]
    BY DEF WireIsSound
  <2>2. 0 \in 0..Len(wire)
    BY LenProperties DEF TypeOK
  <2> QED
    BY <2>1, <2>2, Zenon DEF Paths, HeardFits
<1> QED
  BY <1>1, WireInvariance, TypeCorrect, PTL

WhatGoesOn ==
  /\ Selects(pushed, heard)
  /\ Selects(Broadcasts, FramesOf(put))
  /\ running => \A k \in DOMAIN heard : ~EmptyFrame(heard[k])

\* What a step does with what is heard and passed on.
LEMMA ReadByteDispatches ==
  ASSUME ReadByte
  PROVE  \/ UNCHANGED <<heard, pushed, running>>
         \/ /\ heard' = Append(heard, frame)
            /\ \/ /\ GoodFrame(frame)
                  /\ pushed' = Append(pushed, FrameText(frame))
                  /\ running' = running
               \/ /\ ~GoodFrame(frame)
                  /\ pushed' = pushed
                  /\ running' => running /\ ~EmptyFrame(frame)
<1>1. CASE ReadEnd
  <2>1. heard' = Append(heard, frame)
    BY <1>1 DEF ReadEnd
  <2>2. CASE IsReceived(frame) /\ PushText(ReceivedFrame(frame))
    BY <2>1, <2>2, Zenon DEF PushText, IsBroadcast, GoodFrame, FrameText
  <2>3. CASE IsReceived(frame) /\ ExitOnEmpty(ReceivedFrame(frame))
    BY <2>1, <2>3, Zenon DEF ExitOnEmpty, GoodFrame
  <2>4. CASE IsReceived(frame) /\ SkipFrame(ReceivedFrame(frame))
    BY <2>1, <2>4, Zenon DEF SkipFrame, IsBroadcast, GoodFrame, EmptyFrame, dispatchVars
  <2>5. CASE ~IsReceived(frame) /\ UNCHANGED dispatchVars
    BY <2>1, <2>5, Zenon DEF GoodFrame, EmptyFrame, dispatchVars
  <2> QED
    BY <1>1, <2>2, <2>3, <2>4, <2>5, Zenon DEF ReadEnd, Dispatch
<1>2. CASE ReadStart
  BY <1>2, Zenon DEF ReadStart, Reading, dispatchVars
<1>3. CASE ReadHeader
  BY <1>3, Zenon DEF ReadHeader, Reading, dispatchVars
<1>4. CASE ReadOutOfFrame
  BY <1>4, Zenon DEF ReadOutOfFrame, Reading, dispatchVars
<1>5. CASE ReadEscape
  BY <1>5, Zenon DEF ReadEscape, InBody, Reading, dispatchVars
<1>6. CASE ReadEscaped
  BY <1>6, Zenon DEF ReadEscaped, InBody, Reading, dispatchVars
<1>7. CASE ReadBadEscape
  BY <1>7, Zenon DEF ReadBadEscape, InBody, Reading, dispatchVars
<1>8. CASE ReadData
  BY <1>8, Zenon DEF ReadData, InBody, Reading, dispatchVars
<1> QED
  BY <1>1, <1>2, <1>3, <1>4, <1>5, <1>6, <1>7, <1>8, Zenon DEF ReadByte

LEMMA InitWhatGoesOn == ASSUME Init PROVE WhatGoesOn
<1>1. pushed = <<>> /\ heard = <<>> /\ put = <<>>
  BY Zenon DEF Init, DispatchInit
<1>2. PICK e : e = <<>>
  OBVIOUS
<1>3. DOMAIN e = {}
  BY <1>2
<1>4. FramesOf(e) = e
  BY <1>2, <1>3 DEF FramesOf
<1>5. Broadcasts = e
  BY <1>1, <1>2, NoTexts, Zenon DEF Broadcasts
<1>6. Selects(e, e)
  BY <1>2, NothingSelected, Zenon
<1> QED
  BY <1>1, <1>2, <1>3, <1>4, <1>5, <1>6, Zenon DEF WhatGoesOn

LEMMA NextWhatGoesOn ==
  ASSUME BroadcastsAreKept, TypeOK, PutWasSent, WhatGoesOn, [Next]_vars
  PROVE  WhatGoesOn'
<1>1. /\ put \in Seq(Calls) /\ (\A k \in DOMAIN put : Sendable(put[k]))
      /\ heard \in Seq(Seq(Byte)) /\ frame \in Seq(Byte)
  BY Zenon DEF TypeOK, PutWasSent
<1>2. FramesOf(put) \in Seq(Seq(Byte))
  BY <1>1, FramesAreBytes, Zenon
<1>3. UNCHANGED put => UNCHANGED <<Broadcasts, FramesOf(put)>>
  BY Zenon DEF Broadcasts
<1>4. ASSUME UNCHANGED <<put, heard, pushed>>, running' => running PROVE WhatGoesOn'
  BY <1>3, <1>4, Zenon DEF WhatGoesOn
<1>5. ASSUME NEW call \in Calls, Send(call) PROVE WhatGoesOn'
  <2>1. Sendable(call)
    BY <1>5, TNCAssumption, Zenon DEF Send, Sendable
  <2>2. PICK f : f = EncodeAX25Frame(call)
    OBVIOUS
  <2>3. f \in Seq(Byte)
    BY <2>1, <2>2, SentBytes, Zenon
  <2>4. put' = Append(put, call) /\ UNCHANGED <<pushed, running, heard>>
    BY <1>5, Zenon DEF Send, dispatchVars
  <2>5. FramesOf(put') = Append(FramesOf(put), f)
    BY <1>1, <2>1, <2>2, <2>4, FramesOfMore, Zenon
  <2>6. Broadcasts' = IF HasText(call) THEN Append(Broadcasts, CallText(call)) ELSE Broadcasts
    BY <1>1, <2>4, TextsOfMore, Zenon DEF Broadcasts
  <2>7. /\ GoodFrame(f) <=> HasText(call)
        /\ HasText(call) => FrameText(f) = CallText(call)
    BY <2>1, <2>2, BroadcastFrames, Zenon
  <2>8. CASE HasText(call)
    <3>1. Selects(Append(Broadcasts, FrameText(f)), Append(FramesOf(put), f))
      BY <1>2, <2>3, <2>7, <2>8, SelectsMore, Zenon DEF WhatGoesOn
    <3>2. Broadcasts' = Append(Broadcasts, FrameText(f))
      BY <2>6, <2>7, <2>8
    <3> QED
      BY <2>4, <2>5, <3>1, <3>2, Zenon DEF WhatGoesOn
  <2>9. CASE ~HasText(call)
    <3>1. Selects(Broadcasts, Append(FramesOf(put), f))
      BY <1>2, <2>3, <2>7, <2>9, SelectsNoMore, Zenon DEF WhatGoesOn
    <3>2. Broadcasts' = Broadcasts
      BY <2>6, <2>9
    <3> QED
      BY <2>4, <2>5, <3>1, <3>2, Zenon DEF WhatGoesOn
  <2> QED
    BY <2>8, <2>9
<1>6. CASE ReadByte
  <2>1. UNCHANGED put
    BY <1>6, Zenon DEF ReadByte, ReadEnd, ReadStart, ReadHeader, ReadOutOfFrame, ReadEscape,
        ReadEscaped, ReadBadEscape, ReadData, InBody, Take
  <2>2. CASE UNCHANGED <<heard, pushed, running>>
    BY <1>4, <2>1, <2>2, Zenon
  <2>3. CASE heard' = Append(heard, frame) /\ ~UNCHANGED <<heard, pushed, running>>
    <3>1. PICK n \in Nat : n = Len(heard) /\ DOMAIN heard = 1..n
      BY <1>1, LenProperties
    <3>2. /\ heard' \in Seq(Seq(Byte)) /\ Len(heard') = n + 1
          /\ \A k \in 1..n : heard'[k] = heard[k]
          /\ heard'[n + 1] = frame
      BY <1>1, <2>3, <3>1, AppendProperties
    <3>3. DOMAIN heard' = 1..(n + 1)
      BY <3>2, LenProperties
    <3>4. \A k \in 1..(n + 1) : k \in 1..n \/ k = n + 1
      BY <3>1
    <3>5. ASSUME running' => running /\ ~EmptyFrame(frame), running'
          PROVE  \A k \in DOMAIN heard' : ~EmptyFrame(heard'[k])
      BY <3>1, <3>2, <3>3, <3>4, <3>5, Zenon DEF WhatGoesOn
    <3>6. CASE GoodFrame(frame) /\ pushed' = Append(pushed, FrameText(frame)) /\ running' = running
      <4>1. Selects(pushed', heard')
        BY <1>1, <2>3, <3>6, SelectsMore, Zenon DEF WhatGoesOn
      <4>2. ~EmptyFrame(frame)
        BY <3>6, Zenon DEF GoodFrame, EmptyFrame
      <4> QED
        BY <1>3, <2>1, <3>5, <3>6, <4>1, <4>2, Zenon DEF WhatGoesOn
    <3>7. CASE ~GoodFrame(frame) /\ pushed' = pushed /\ (running' => running /\ ~EmptyFrame(frame))
      <4>1. Selects(pushed', heard')
        BY <1>1, <2>3, <3>7, SelectsNoMore, Zenon DEF WhatGoesOn
      <4> QED
        BY <1>3, <2>1, <3>5, <3>7, <4>1, Zenon DEF WhatGoesOn
    <3> QED
      BY <1>6, <2>3, <3>6, <3>7, ReadByteDispatches, Zenon
  <2> QED
    BY <1>6, <2>2, <2>3, ReadByteDispatches, Zenon
<1>7. CASE Connect
  BY <1>4, <1>7, Zenon DEF Connect, dispatchVars
<1>8. CASE ConnectionLost
  BY <1>4, <1>8, Zenon DEF ConnectionLost
<1>9. ASSUME NEW bytes \in OtherBytes, GiveOther(bytes) PROVE WhatGoesOn'
  BY <1>4, <1>9, Zenon DEF GiveOther, dispatchVars
<1>10. CASE Timeout
  BY <1>4, <1>10, Zenon DEF Timeout, dispatchVars
<1>11. CASE UNCHANGED vars
  BY <1>4, <1>11, Zenon DEF vars, dispatchVars
<1> QED
  BY <1>5, <1>6, <1>7, <1>8, <1>9, <1>10, <1>11, Zenon DEF Next

LEMMA GoesOnInvariance ==
  ASSUME BroadcastsAreKept
  PROVE  Spec => []WhatGoesOn
<1>1. TypeOK /\ PutWasSent /\ WhatGoesOn /\ [Next]_vars => WhatGoesOn'
  BY NextWhatGoesOn, Zenon
<1>2. Init => WhatGoesOn
  BY InitWhatGoesOn
<1> QED
  BY <1>1, <1>2, TypeCorrect, PutInvariance, PTL DEF Spec

\* A list of m places is one of m places.
LEMMA ListedCount ==
  ASSUME NEW n \in Nat, NEW m \in Nat, NEW G, G \subseteq 1..n, NEW at, Lists(at, m, G)
  PROVE  Cardinality(G) = m
<1>1. /\ at \in [1..m -> G]
      /\ \A i, j \in 1..m : i < j => at[i] < at[j]
      /\ \A g \in G : \E i \in 1..m : at[i] = g
  BY Zenon DEF Lists
<1>2. ASSUME NEW i \in 1..m, NEW j \in 1..m, at[i] = at[j] PROVE i = j
  <2>1. at[i] \in 1..n /\ at[j] \in 1..n
    BY <1>1
  <2>2. ~(i < j) /\ ~(j < i)
    BY <1>1, <1>2, <2>1
  <2> QED
    BY <2>2
<1>3. at \in Bijection(1..m, G)
  BY <1>1, <1>2, Fun_IsBij, Zenon
<1>4. ExistsBijection(1..m, G)
  BY <1>3 DEF ExistsBijection
<1> QED
  BY <1>4, FS_CountingElements

\* What goes on follows from what is heard.
PushedInOrder ==
  /\ Interface!InOrder(pushed, Broadcasts)
  /\ timeouts = 0 => IsPrefix(pushed, Broadcasts)

LEMMA PushedFollows ==
  ASSUME TypeOK, PutWasSent, HeardFits, WhatGoesOn
  PROVE  PushedInOrder
<1>1. PICK F : F = FramesOf(put)
  OBVIOUS
<1>2. heard \in Seq(Seq(Byte)) /\ F \in Seq(Seq(Byte)) /\ put \in Seq(Calls)
  BY <1>1, FramesAreBytes, Zenon DEF TypeOK, PutWasSent
<1>3. Selects(pushed, heard) /\ Selects(Broadcasts, F)
  BY <1>1, Zenon DEF WhatGoesOn
<1>4. Interface!InOrder(pushed, Broadcasts)
  <2>1. Interface!InOrder(heard, F)
    BY <1>1, Zenon DEF HeardFits, Fits
  <2> QED
    BY <1>2, <1>3, <2>1, SelectsInOrder, Zenon
<1>5. ASSUME timeouts = 0 PROVE IsPrefix(pushed, Broadcasts)
  <2>1. PICK n, s : n = Len(F) /\ s = Len(heard)
    OBVIOUS
  <2>2. n \in Nat /\ s \in Nat /\ DOMAIN heard = 1..s /\ DOMAIN put = 1..n
    <3>1. DOMAIN F = 1..n /\ DOMAIN heard = 1..s /\ n \in Nat /\ s \in Nat
      BY <1>2, <2>1, LenProperties
    <3>2. DOMAIN F = DOMAIN put
      BY <1>1 DEF FramesOf
    <3> QED
      BY <3>1, <3>2
  <2>3. \A i \in 1..s : i \in 1..n /\ heard[i] = F[i]
    BY <1>1, <1>5, <2>2, Zenon DEF HeardFits, Fits
  <2>4. s <= n
    <3>1. s # 0 => s \in 1..s
      BY <2>2
    <3> QED
      BY <2>2, <2>3, <3>1
  <2> QED
    BY <1>2, <1>3, <2>1, <2>3, <2>4, SelectsPrefix, Zenon
<1> QED
  BY <1>4, <1>5, Zenon DEF PushedInOrder

\* OnlyEighthRefused: when all has been read and no call timed out, every
\* frame to the broadcast callsign without an eighth digipeater has been
\* passed on by ReceiveBroadcastPacket, and nothing else.
THEOREM BroadcastsGoOn ==
  ASSUME OthersAreHarmless, EscapesWork, BroadcastsAreKept
  PROVE  Spec => []OnlyEighthRefused
<1>1. TypeOK /\ PutWasSent /\ HeardFits /\ NoFrameSkipped /\ WhatGoesOn => OnlyEighthRefused
  <2> SUFFICES ASSUME TypeOK, PutWasSent, HeardFits, NoFrameSkipped, WhatGoesOn, AllRead
               PROVE  Len(pushed) = Cardinality({k \in DOMAIN put : Passable(put[k])})
    BY DEF OnlyEighthRefused
  <2>1. PICK G : G = {k \in DOMAIN put : Passable(put[k])}
    OBVIOUS
  <2>2. /\ running /\ timeouts = 0 /\ Len(heard) = Len(put)
        /\ heard \in Seq(Seq(Byte)) /\ put \in Seq(Calls)
    BY DEF AllRead, NoFrameSkipped, TypeOK
  <2>3. PICK n : n = Len(put)
    OBVIOUS
  <2>4. n \in Nat /\ DOMAIN put = 1..n /\ DOMAIN heard = 1..n
    BY <2>2, <2>3, LenProperties
  <2>5. \A k \in 1..n : heard[k] = EncodeAX25Frame(put[k])
    BY <2>2, <2>4, Zenon DEF HeardFits, Fits, FramesOf
  <2>6. \A k \in 1..n : GoodFrame(heard[k]) <=> Passable(put[k])
    <3> SUFFICES ASSUME NEW k \in 1..n
                 PROVE  GoodFrame(heard[k]) <=> Passable(put[k])
      OBVIOUS
    <3>1. put[k] \in Calls /\ Sendable(put[k])
      <4>1. Sendable(put[k])
        BY <2>4, Zenon DEF PutWasSent
      <4>2. put[k] \in Calls
        BY <2>2, <2>3, ElementOfSeq
      <4> QED
        BY <4>1, <4>2
    <3>2. PICK f : f = EncodeAX25Frame(put[k])
      OBVIOUS
    <3>3. /\ GoodFrame(f) <=> HasText(put[k])
          /\ EmptyFrame(f) <=> Passable(put[k]) /\ put[k].payload = <<>>
      BY <3>1, <3>2, BroadcastFrames, Zenon
    <3>4. heard[k] = f /\ ~EmptyFrame(f)
      BY <2>2, <2>4, <2>5, <3>2, Zenon DEF WhatGoesOn
    <3> QED
      BY <3>3, <3>4, Zenon DEF HasText
  <2>7. \A k : k \in GoodPlaces(heard) <=> k \in G
    BY <2>1, <2>4, <2>6, Zenon DEF GoodPlaces
  <2>8. GoodPlaces(heard) = G /\ G \subseteq 1..n
    BY <2>1, <2>4, <2>7
  <2>9. PICK m : m = Len(pushed)
    OBVIOUS
  <2>10. PICK at : ChosenAt(at, pushed, m, heard, Len(heard))
    BY <2>2, <2>9, Selected, Zenon DEF WhatGoesOn
  <2>11. m \in Nat /\ Lists(at, m, G)
    BY <2>8, <2>10, Zenon DEF ChosenAt
  <2>12. Cardinality(G) = m
    BY <2>4, <2>8, <2>11, ListedCount, Zenon
  <2> QED
    BY <2>1, <2>9, <2>12, Zenon
<1> QED
  BY <1>1, HeardInvariance, NoFrameIsSkipped, GoesOnInvariance, TypeCorrect, PutInvariance, PTL

\* ImplementsFrameLink: with Receive and the loop around it a TNC keeps what
\* FrameLink promises of every implementation of Receive.
THEOREM TNCRefinement ==
  ASSUME OthersAreHarmless, EscapesWork, BroadcastsAreKept
  PROVE  Spec => ImplementsFrameLink
<1>1. Init => Interface!Init
  BY NoTexts, Zenon DEF Init, DispatchInit, Interface!Init, Broadcasts
<1>2. /\ TypeOK /\ PutWasSent /\ WhatGoesOn /\ [Next]_vars
      /\ TypeOK' /\ PushedInOrder'
      => [Interface!Next]_Interface!vars
  <2> SUFFICES ASSUME TypeOK, PutWasSent, WhatGoesOn, [Next]_vars,
                      TypeOK', PushedInOrder'
               PROVE  [Interface!Next]_Interface!vars
    OBVIOUS
  <2>1. ASSUME UNCHANGED <<put, pushed>> PROVE [Interface!Next]_Interface!vars
    BY <2>1, Zenon DEF Interface!vars, Broadcasts
  <2>2. ASSUME NEW call \in Calls, Send(call) PROVE [Interface!Next]_Interface!vars
    <3>1. put' = Append(put, call) /\ UNCHANGED pushed /\ put \in Seq(Calls)
      BY <2>2, Zenon DEF Send, dispatchVars, TypeOK
    <3>2. Broadcasts' = IF HasText(call) THEN Append(Broadcasts, CallText(call)) ELSE Broadcasts
      BY <3>1, TextsOfMore, Zenon DEF Broadcasts
    <3>3. CASE HasText(call)
      <4>1. PICK b, x : b = Broadcasts /\ x = CallText(call)
        OBVIOUS
      <4>2. PICK S : b \in Seq(S)
        BY <4>1, Zenon DEF WhatGoesOn, Selects
      <4>3. Broadcasts' = Append(b, x)
        BY <3>2, <3>3, <4>1
      <4>4. x \in Range(Broadcasts')
        BY <4>2, <4>3 DEF Range
      <4>5. Interface!Give
        BY <3>1, <4>1, <4>3, <4>4, Zenon DEF Interface!Give, Interface!Range, Range
      <4> QED
        BY <4>5 DEF Interface!Next
    <3>4. CASE ~HasText(call)
      BY <3>1, <3>2, <3>4, Zenon DEF Interface!vars
    <3> QED
      BY <3>3, <3>4
  <2>3. CASE ReadByte
    <3>1. UNCHANGED put
      BY <2>3, Zenon DEF ReadByte, ReadEnd, ReadStart, ReadHeader, ReadOutOfFrame, ReadEscape,
          ReadEscaped, ReadBadEscape, ReadData, InBody, Take
    <3>2. UNCHANGED Broadcasts
      BY <3>1, Zenon DEF Broadcasts
    <3>3. CASE pushed' = Append(pushed, FrameText(frame))
      <4>1. PICK m \in Nat : m = Len(pushed)
        <5>1. \E S : pushed \in Seq(S)
          BY Zenon DEF WhatGoesOn, Selects
        <5> QED
          BY <5>1, LenProperties
      <4>2. PICK x : x = FrameText(frame)
        OBVIOUS
      <4>3. m + 1 \in DOMAIN pushed' /\ pushed'[m + 1] = x
        <5>1. PICK S : pushed \in Seq(S)
          BY Zenon DEF WhatGoesOn, Selects
        <5> QED
          BY <3>3, <4>1, <4>2, <5>1
      <4>4. /\ Interface!InOrder(pushed', Broadcasts')
            /\ timeouts' = 0 => IsPrefix(pushed', Broadcasts')
        BY Zenon DEF PushedInOrder
      <4>5. x \in Range(Broadcasts)
        <5>1. PICK at \in [DOMAIN pushed' -> DOMAIN Broadcasts] :
                \A i \in DOMAIN pushed' : pushed'[i] = Broadcasts[at[i]]
          BY <3>2, <4>4, Zenon DEF Interface!InOrder
        <5>2. at[m + 1] \in DOMAIN Broadcasts /\ Broadcasts[at[m + 1]] = x
          BY <4>3, <5>1
        <5> QED
          BY <5>2, Zenon DEF Range
      <4>6. MaxTimeouts > 0 \/ timeouts' = 0
        BY TNCAssumption DEF TypeOK
      <4>7. Interface!Pass
        BY <3>2, <3>3, <4>2, <4>4, <4>5, <4>6, Zenon DEF Interface!Pass, Interface!Range, Interface!IsPrefix, Range, IsPrefix
      <4> QED
        BY <4>7 DEF Interface!Next
    <3> QED
      BY <2>1, <2>3, <3>1, <3>3, ReadByteDispatches, Zenon
  <2>4. CASE Connect
    BY <2>1, <2>4, Zenon DEF Connect, dispatchVars
  <2>5. CASE ConnectionLost
    BY <2>1, <2>5, Zenon DEF ConnectionLost
  <2>6. ASSUME NEW bytes \in OtherBytes, GiveOther(bytes)
        PROVE  [Interface!Next]_Interface!vars
    BY <2>1, <2>6, Zenon DEF GiveOther, dispatchVars
  <2>7. CASE Timeout
    BY <2>1, <2>7, Zenon DEF Timeout, dispatchVars
  <2>8. CASE UNCHANGED vars
    BY <2>1, <2>8, Zenon DEF vars, dispatchVars
  <2> QED
    BY <2>2, <2>3, <2>4, <2>5, <2>6, <2>7, <2>8, Zenon DEF Next
<1>3. TypeOK /\ PutWasSent /\ HeardFits /\ WhatGoesOn => PushedInOrder
  BY PushedFollows, Zenon
<1> QED
  BY <1>1, <1>2, <1>3, HeardInvariance, GoesOnInvariance, TypeCorrect, PutInvariance,
     PTL DEF Spec, ImplementsFrameLink, Interface!Spec
=============================================================================
