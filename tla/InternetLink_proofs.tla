-------------------------- MODULE InternetLink_proofs --------------------------
(***************************************************************************)
(* Theorems of InternetLink.  What will be read decides what is passed on, *)
(* so the invariant speaks of all that the stream still holds.             *)
(***************************************************************************)
EXTENDS InternetLink, Chunking_proofs

LEMMA Bounds == MaxLineLength \in Nat /\ MaxLines \in Nat
  BY InternetAssumption, Zenon

LEMMA SpecialChars ==
  /\ ">" \in Chars /\ "," \in Chars /\ ":" \in Chars
  /\ "\r" \in Chars /\ "\n" \in Chars
<1>1. {">", ",", ":", "\r", "\n"} \subseteq Chars
  BY InternetAssumption, Zenon
<1> QED
  BY <1>1, Zenon

LEMMA TypedLines ==
  ASSUME NEW l \in LineRecord
  PROVE  /\ l.kind \in {"packet", "other"}
         /\ l.source \in Seq(Chars) /\ l.destination \in Seq(Chars)
         /\ l.path \in Seq(Chars) /\ l.payload \in Seq(Chars)
  BY DEF LineRecord

LEMMA NewlineChars == Newline \in Seq(Chars) /\ Len(Newline) = 2 /\ Newline[1] = "\r" /\ Newline[2] = "\n"
<1>1. \A a, b \in Chars : /\ <<a, b>> \in Seq(Chars) /\ Len(<<a, b>>) = 2
                         /\ <<a, b>>[1] = a /\ <<a, b>>[2] = b
  OBVIOUS
<1> QED
  BY <1>1, SpecialChars, Zenon DEF Newline

LEMMA LineIsText == ASSUME NEW l \in LineRecord PROVE TextOf(l) \in Seq(Chars)
<1>1. \A t, u \in Seq(Chars) : t \o u \in Seq(Chars)
  OBVIOUS
<1>2. <<">">> \in Seq(Chars) /\ <<",">> \in Seq(Chars) /\ <<":">> \in Seq(Chars)
  <2>1. \A a \in Chars : <<a>> \in Seq(Chars)
    OBVIOUS
  <2> QED
    BY <2>1, SpecialChars, Zenon
<1> QED
  BY <1>1, <1>2, TypedLines, Zenon DEF TextOf

LEMMA ServerLinesGiven == MayGive \subseteq ServerLines /\ ServerLines \subseteq LineRecord
<1>1. ServerLines \subseteq LineRecord
  BY InternetAssumption, Zenon
<1> QED
  BY <1>1, Zenon DEF MayGive, ServerLines

LEMMA Regrouped == \A u, v, w \in Seq(Chars) : (u \o v) \o w = u \o (v \o w)
  BY ConcatAssociative

\* A line behind what was left is its text behind it.
LEMMA BehindIs ==
  ASSUME NEW l \in LineRecord, NEW left \in Seq(Chars)
  PROVE  /\ Behind(l, left) \in LineRecord
         /\ IsPacket(Behind(l, left)) <=> IsPacket(l)
         /\ TextOf(Behind(l, left)) = left \o TextOf(l)
<1>1. PICK g : g = Behind(l, left)
  OBVIOUS
<1>2. CASE IsPacket(l)
  <2>1. PICK a, d, p, y : a = l.source /\ d = l.destination /\ p = l.path /\ y = l.payload
    OBVIOUS
  <2>2. a \in Seq(Chars) /\ d \in Seq(Chars) /\ p \in Seq(Chars) /\ y \in Seq(Chars)
    BY <2>1, TypedLines
  <2>3. PICK b \in Seq(Chars) : b = left \o a
    BY <2>2, ConcatProperties
  <2>4. g = [l EXCEPT !.source = b]
    BY <1>1, <1>2, <2>1, <2>3 DEF Behind
  <2>5. /\ g \in LineRecord /\ g.kind = l.kind /\ g.source = b
        /\ g.destination = d /\ g.path = p /\ g.payload = y
    BY <2>1, <2>4 DEF LineRecord
  <2>6. IsPacket(g)
    BY <1>2, <2>5 DEF IsPacket
  <2>7. PICK r \in Seq(Chars), c \in Seq(Chars), q \in Seq(Chars) :
          r = <<">">> /\ c = <<",">> /\ q = <<":">>
    <3>1. \A z \in Chars : <<z>> \in Seq(Chars)
      OBVIOUS
    <3> QED
      BY <3>1, SpecialChars, Zenon
  <2>8. TextOf(l) = a \o r \o d \o c \o p \o q \o y
    BY <1>2, <2>1, <2>7, Zenon DEF TextOf
  <2>9. TextOf(g) = b \o r \o d \o c \o p \o q \o y
    BY <2>5, <2>6, <2>7, Zenon DEF TextOf
  <2>10. \A x, z \in Seq(Chars) : x \o z \in Seq(Chars)
    OBVIOUS
  <2>11. \A x, z \in Seq(Chars) : (left \o x) \o z = left \o (x \o z)
    BY Regrouped, Zenon
  <2>12. PICK t1, t2, t3, t4, t5 :
           t1 = a \o r /\ t2 = t1 \o d /\ t3 = t2 \o c /\ t4 = t3 \o p /\ t5 = t4 \o q
    OBVIOUS
  <2>13. /\ t1 \in Seq(Chars) /\ t2 \in Seq(Chars) /\ t3 \in Seq(Chars) /\ t4 \in Seq(Chars)
         /\ t5 \in Seq(Chars)
    BY <2>2, <2>7, <2>10, <2>12, Zenon
  <2>14. b \o r = left \o t1
    BY <2>2, <2>3, <2>7, <2>11, <2>12, Zenon
  <2>15. (left \o t1) \o d = left \o t2
    <3>1. (left \o t1) \o d = left \o (t1 \o d)
      BY <2>2, <2>7, <2>11, <2>13, Zenon
    <3> QED
      BY <2>12, <3>1, Zenon
  <2>15a. (left \o t2) \o c = left \o t3
    <3>1. (left \o t2) \o c = left \o (t2 \o c)
      BY <2>2, <2>7, <2>11, <2>13, Zenon
    <3> QED
      BY <2>12, <3>1, Zenon
  <2>15b. (left \o t3) \o p = left \o t4
    <3>1. (left \o t3) \o p = left \o (t3 \o p)
      BY <2>2, <2>7, <2>11, <2>13, Zenon
    <3> QED
      BY <2>12, <3>1, Zenon
  <2>15c. (left \o t4) \o q = left \o t5
    <3>1. (left \o t4) \o q = left \o (t4 \o q)
      BY <2>2, <2>7, <2>11, <2>13, Zenon
    <3> QED
      BY <2>12, <3>1, Zenon
  <2>15d. (left \o t5) \o y = left \o (t5 \o y)
    BY <2>2, <2>11, <2>13, Zenon
  <2>16. TextOf(g) = left \o (t5 \o y)
    BY <2>9, <2>14, <2>15, <2>15a, <2>15b, <2>15c, <2>15d, Zenon
  <2> QED
    BY <1>1, <1>2, <2>5, <2>6, <2>8, <2>12, <2>16, Zenon
<1>3. CASE ~IsPacket(l)
  <2>1. PICK y \in Seq(Chars) : y = l.payload
    BY TypedLines
  <2>2. PICK b \in Seq(Chars) : b = left \o y
    BY ConcatProperties
  <2>3. g = [l EXCEPT !.payload = b]
    BY <1>1, <1>3, <2>1, <2>2 DEF Behind
  <2>4. g \in LineRecord /\ g.kind = l.kind /\ g.payload = b
    BY <2>3 DEF LineRecord
  <2>5. ~IsPacket(g)
    BY <1>3, <2>4 DEF IsPacket
  <2> QED
    BY <1>1, <1>3, <2>1, <2>2, <2>4, <2>5, Zenon DEF TextOf
<1> QED
  BY <1>2, <1>3

\* What may be left of a line.
IsLeft(c) == c = <<>> \/ (c = <<"\n">> /\ MaxLineLength > 0)

LEMMA LeftOfLine == ASSUME NEW text \in Seq(Chars) PROVE IsLeft(LeftBehind(text))
<1>1. HeldAtEnd(text) = 1 => MaxLineLength > 0
  <2> SUFFICES ASSUME MaxLineLength = 0 PROVE HeldAtEnd(text) # 1
    BY Bounds
  <2>1. Len(text) + 2 \in Nat
    BY LenProperties
  <2>2. \A n \in Nat : n % 1 = 0
    OBVIOUS
  <2>3. HeldAtEnd(text) = (Len(text) + 2) % 1
    BY DEF HeldAtEnd, Unit
  <2>4. HeldAtEnd(text) = 0
    BY <2>1, <2>2, <2>3, Zenon
  <2> QED
    BY <2>4
<1> QED
  BY <1>1, Zenon DEF LeftBehind, IsLeft

LEMMA LeftIs ==
  ASSUME given \in Seq(LineRecord)
  PROVE  IsLeft(Left) /\ Left \in Seq(Chars)
<1>1. IsLeft(Left)
  <2>1. CASE given = <<>>
    BY <2>1, Zenon DEF Left, IsLeft
  <2>2. CASE given # <<>>
    <3>1. PICK l \in LineRecord : l = Last(given)
      <4>1. PICK n \in Nat : n = Len(given)
        BY LenProperties
      <4>2. n \in 1..Len(given)
        BY <2>2, <4>1, EmptySeq
      <4>3. given[n] \in LineRecord
        BY <4>2, ElementOfSeq
      <4> QED
        BY <4>1, <4>3 DEF Last
    <3>2. Left = LeftBehind(TextOf(l))
      BY <2>2, <3>1, Zenon DEF Left
    <3>3. TextOf(l) \in Seq(Chars)
      BY LineIsText
    <3> QED
      BY <3>2, <3>3, LeftOfLine, Zenon
  <2> QED
    BY <2>1, <2>2
<1>2. <<>> \in Seq(Chars) /\ \A c \in Chars : <<c>> \in Seq(Chars)
  OBVIOUS
<1> QED
  BY <1>1, <1>2, SpecialChars, Zenon DEF IsLeft

\* Two neighbours in a sequence.
LEMMA PairIn ==
  ASSUME NEW C, NEW u \in Seq(C), NEW n \in Nat, Len(u) = n + 1, NEW i \in 1..n
  PROVE  SubSeq(u, i, i + 1) = <<u[i], u[i + 1]>>
<1>1. PICK v : v = SubSeq(u, i, i + 1)
  OBVIOUS
<1>2. PICK p : p = <<u[i], u[i + 1]>>
  OBVIOUS
<1>3. v \in Seq(C) /\ Len(v) = 2 /\ v[1] = u[i] /\ v[2] = u[i + 1]
  BY <1>1
<1>4. p \in Seq(C) /\ Len(p) = 2 /\ p[1] = u[i] /\ p[2] = u[i + 1]
  BY <1>2
<1>5. \A j \in 1..Len(v) : v[j] = p[j]
  BY <1>3, <1>4
<1> QED
  BY <1>1, <1>2, <1>3, <1>4, <1>5, SeqEqual

-----------------------------------------------------------------------------
\* TypeOK: the line being read never outgrows the limit, nor does the end of
\* a line stand in it, whatever the server sends.
THEOREM TypeCorrect == Spec => []TypeOK
<1>1. Init => TypeOK
  <2>1. /\ <<>> \in Seq(Chars) /\ <<>> \in Seq(LineRecord)
        /\ Len(<<>>) <= MaxLineLength /\ Len(<<>>) <= MaxLines
        /\ \A i \in 1..(Len(<<>>) - 1) : FALSE
    BY Bounds
  <2> QED
    BY <2>1, Zenon DEF Init, DispatchInit, TypeOK
<1>2. ASSUME TypeOK, [Next]_vars PROVE TypeOK'
  <2>0. /\ line \in Seq(Chars) /\ stream \in Seq(Chars) /\ given \in Seq(LineRecord)
        /\ running \in BOOLEAN /\ Len(line) <= MaxLineLength /\ Len(given) <= MaxLines
        /\ \A i \in 1..(Len(line) - 1) : SubSeq(line, i, i + 1) # Newline
        /\ stage \in {"connecting", "reading version", "authenticating", "listening"}
    BY <1>2, Zenon DEF TypeOK
  <2>1. CASE ServerGives
    <3>1. PICK l \in LineRecord : /\ stream' = stream \o TextOf(l) \o Newline
                                  /\ given' = Append(given, Behind(l, Left))
      BY <2>1, ServerLinesGiven, Zenon DEF ServerGives
    <3>2. stream' \in Seq(Chars)
      BY <2>0, <3>1, LineIsText, NewlineChars, ConcatProperties, Zenon
    <3>3. given' \in Seq(LineRecord) /\ Len(given') = Len(given) + 1
      <4>1. PICK g \in LineRecord : g = Behind(l, Left)
        BY <2>0, LeftIs, BehindIs
      <4>2. given' = Append(given, g)
        BY <3>1, <4>1
      <4> QED
        BY <2>0, <4>2, AppendProperties, Zenon
    <3>4. Len(given') <= MaxLines
      <4>1. Len(given) \in Nat /\ Len(given) < MaxLines
        BY <2>0, <2>1, LenProperties DEF ServerGives
      <4> QED
        BY <3>3, <4>1, Bounds
    <3>5. UNCHANGED <<stage, line, running>>
      BY <2>1 DEF ServerGives, dispatchVars, sessionVars
    <3> QED
      BY <2>0, <3>2, <3>3, <3>4, <3>5, Zenon DEF TypeOK
  <2>2. ASSUME UNCHANGED <<line, stream, given>>, running' \in BOOLEAN,
               stage' \in {"connecting", "reading version", "authenticating", "listening"}
        PROVE  TypeOK'
    BY <2>0, <2>2, Zenon DEF TypeOK
  <2>3. CASE Connect
    <3>1. UNCHANGED <<line, stream, given>> /\ running' \in BOOLEAN
      BY <2>0, <2>3 DEF Connect, Exit, dispatchVars, sessionVars
    <3>2. stage' \in {"connecting", "reading version", "authenticating", "listening"}
      BY <2>0, <2>3 DEF Connect, Exit, dispatchVars, sessionVars
    <3> QED
      BY <2>2, <3>1, <3>2
  <2>4. CASE LoginTimeout \/ ConnectionLost
    <3>1. UNCHANGED <<line, stream, given, stage>> /\ running' = FALSE
      BY <2>4 DEF LoginTimeout, ConnectionLost, Exit, sessionVars
    <3> QED
      BY <2>0, <2>2, <3>1
  <2>5. CASE UNCHANGED vars
    BY <2>0, <2>2, <2>5 DEF vars, dispatchVars, sessionVars
  <2>6. CASE Read
    <3>1. ReadChar
      BY <2>6, Zenon DEF Read, ReadOn, ReadTooLong, ReadServerVersion, ReadAnswer, Receive, ReadLine
    <3>2. stream' \in Seq(Chars) /\ given' = given /\ Head(stream) \in Chars
      BY <2>0, <3>1, HeadTailProperties, Zenon DEF ReadChar
    <3>3. ASSUME line' = <<>>, running' \in BOOLEAN,
                 stage' \in {"connecting", "reading version", "authenticating", "listening"}
          PROVE  TypeOK'
      <4>1. /\ line' \in Seq(Chars) /\ Len(line') <= MaxLineLength
            /\ \A i \in 1..(Len(line') - 1) : SubSeq(line', i, i + 1) # Newline
        <5>1. /\ <<>> \in Seq(Chars) /\ Len(<<>>) <= MaxLineLength
              /\ \A i \in 1..(Len(<<>>) - 1) : FALSE
          BY Bounds
        <5> QED
          BY <3>3, <5>1, Zenon
      <4> QED
        BY <2>0, <3>2, <3>3, <4>1, Zenon DEF TypeOK
    <3>4. CASE ReadOn
      <4>1. PICK u, c : u = line' /\ c = Head(stream)
        OBVIOUS
      <4>2. PICK n \in Nat : n = Len(line)
        BY <2>0, LenProperties
      <4>3. u = Append(line, c)
        BY <3>4, <4>1 DEF ReadOn, Extended
      <4>4. /\ u \in Seq(Chars) /\ Len(u) = n + 1 /\ u[n + 1] = c
            /\ \A i \in 1..n : u[i] = line[i]
        <5>1. line \in Seq(Chars) /\ c \in Chars
          BY <2>0, <3>2, <4>1
        <5> QED
          BY <4>2, <4>3, <5>1, AppendProperties
      <4>5. n + 1 <= MaxLineLength
        BY <3>4, <4>2, Bounds DEF ReadOn, TooLong
      <4>6. ASSUME NEW i \in 1..n PROVE SubSeq(u, i, i + 1) # Newline
        <5>1. SubSeq(u, i, i + 1) = <<u[i], u[i + 1]>>
          BY <4>2, <4>4, PairIn
        <5>2. CASE i = n
          <6>1. n > 0 /\ u[i] = Last(line) /\ u[i + 1] = c
            BY <4>2, <4>4, <5>2 DEF Last
          <6>2. <<Last(line), c>> # Newline
            BY <3>4, <4>1, <4>2, <6>1 DEF ReadOn, EndsLine
          <6> QED
            BY <5>1, <6>1, <6>2
        <5>3. CASE i # n
          <6>1. i \in 1..(n - 1) /\ i + 1 \in 1..n
            BY <5>3
          <6>2. SubSeq(line, i, i + 1) = <<line[i], line[i + 1]>>
            <7>1. n - 1 \in Nat /\ Len(line) = (n - 1) + 1
              BY <4>2, <6>1
            <7> QED
              BY <2>0, <6>1, <7>1, PairIn
          <6>3. SubSeq(line, i, i + 1) # Newline
            BY <2>0, <4>2, <6>1
          <6> QED
            BY <4>4, <5>1, <6>1, <6>2, <6>3
        <5> QED
          BY <5>2, <5>3
      <4>7. \A i \in 1..(Len(line') - 1) : SubSeq(line', i, i + 1) # Newline
        <5>1. Len(u) - 1 = n
          BY <4>4
        <5> QED
          BY <4>1, <4>6, <5>1
      <4>8. UNCHANGED <<stage, running>>
        BY <3>4 DEF ReadOn, dispatchVars
      <4>9. line' \in Seq(Chars) /\ Len(line') <= MaxLineLength
        BY <4>1, <4>4, <4>5
      <4> QED
        BY <2>0, <3>2, <4>7, <4>8, <4>9, Zenon DEF TypeOK
    <3>5. CASE ReadTooLong
      <4>1. line' = <<>> /\ running' \in BOOLEAN /\ stage' = stage
        BY <3>5 DEF ReadTooLong
      <4> QED
        BY <2>0, <3>3, <4>1
    <3>6. CASE ReadServerVersion \/ ReadAnswer \/ Receive
      <4>1. line' = <<>>
        BY <3>6 DEF ReadServerVersion, ReadAnswer, Receive, ReadLine
      <4>2. running' \in BOOLEAN
        BY <2>0, <3>6 DEF ReadServerVersion, ReadAnswer, Receive, Dispatch, PushText, ExitOnEmpty,
                          SkipFrame, dispatchVars
      <4>3. stage' \in {"connecting", "reading version", "authenticating", "listening"}
        BY <2>0, <3>6 DEF ReadServerVersion, ReadAnswer, Receive
      <4> QED
        BY <3>3, <4>1, <4>2, <4>3
    <3> QED
      BY <2>6, <3>4, <3>5, <3>6 DEF Read
  <2> QED
    BY <1>2, <2>1, <2>3, <2>4, <2>5, <2>6, Zenon DEF Next
<1> QED
  BY <1>1, <1>2, PTL DEF Spec

-----------------------------------------------------------------------------
(* The texts of the lines a server gave.                                   *)

\* The recursive function in TextsOf, for the first n lines.
IsFirst(f, lines, n) ==
  f = [k \in 0..n |-> IF k = 0 THEN <<>>
                      ELSE IF HasText(lines[k]) THEN Append(f[k - 1], LineText(lines[k]))
                      ELSE f[k - 1]]

LEMMA FirstExists ==
  ASSUME NEW lines
  PROVE  \A n \in Nat : \E f : IsFirst(f, lines, n)
<1> DEFINE S == {n \in Nat : \E f : IsFirst(f, lines, n)}
           Step(f, k) == IF HasText(lines[k]) THEN Append(f[k - 1], LineText(lines[k]))
                         ELSE f[k - 1]
<1>1. 0 \in S
  <2>1. PICK f : f = [k \in 0..0 |-> <<>>]
    OBVIOUS
  <2>2. \A k \in 0..0 : k = 0
    OBVIOUS
  <2>3. f = [k \in 0..0 |-> IF k = 0 THEN <<>> ELSE Step(f, k)]
    <3> HIDE DEF Step
    <3> QED
      BY <2>1, <2>2
  <2> QED
    BY <2>3, Zenon DEF IsFirst
<1>2. ASSUME NEW n \in S PROVE n + 1 \in S
  <2>1. PICK f : IsFirst(f, lines, n)
    OBVIOUS
  <2>2. PICK g : g = [k \in 0..(n + 1) |-> IF k = n + 1 THEN Step(f, n + 1) ELSE f[k]]
    OBVIOUS
  <2>3. n \in Nat /\ n + 1 \in 0..(n + 1) /\ (n + 1) - 1 = n /\ n \in 0..n /\ n + 1 # 0
    OBVIOUS
  <2>4. \A k \in 0..(n + 1) : k \in 0..n \/ k = n + 1
    BY <2>3
  <2>5. \A k \in 0..n : k \in 0..(n + 1) /\ k # n + 1 /\ (k # 0 => k - 1 \in 0..n)
    BY <2>3
  <2> HIDE DEF Step, S
  <2>6. g[n + 1] = Step(f, n + 1) /\ \A k \in 0..n : g[k] = f[k]
    BY <2>2, <2>3, <2>5, Zenon
  <2>7. \A k \in 0..n : f[k] = IF k = 0 THEN <<>> ELSE Step(f, k)
    BY <2>1, Zenon DEF IsFirst, Step
  <2>8. \A k \in 0..n : k # 0 => Step(g, k) = Step(f, k)
    BY <2>5, <2>6, Zenon DEF Step
  <2>9. Step(g, n + 1) = Step(f, n + 1)
    BY <2>3, <2>6, Zenon DEF Step
  <2>10. \A k \in 0..(n + 1) : g[k] = IF k = 0 THEN <<>> ELSE Step(g, k)
    BY <2>3, <2>4, <2>6, <2>7, <2>8, <2>9, Zenon
  <2>11. g = [k \in 0..(n + 1) |-> g[k]]
    BY <2>2, Zenon
  <2>12. [k \in 0..(n + 1) |-> g[k]]
           = [k \in 0..(n + 1) |-> IF k = 0 THEN <<>> ELSE Step(g, k)]
    BY <2>10, Zenon
  <2>13. IsFirst(g, lines, n + 1)
    BY <2>11, <2>12, Zenon DEF IsFirst, Step
  <2> QED
    BY <2>3, <2>13 DEF S
<1>3. S = Nat
  <2> HIDE DEF S
  <2>1. S \in SUBSET Nat
    BY DEF S
  <2> QED
    BY <1>1, <1>2, <2>1, SetInduction
<1> QED
  BY <1>3

LEMMA FirstAgrees ==
  ASSUME NEW n \in Nat, NEW m \in Nat, n <= m, NEW lines, NEW more,
         \A k \in 1..n : more[k] = lines[k],
         NEW f, IsFirst(f, lines, n), NEW g, IsFirst(g, more, m)
  PROVE  f[n] = g[n]
<1> DEFINE S == {k \in Nat : k <= n => f[k] = g[k]}
<1>1. \A k \in 0..n : f[k] = IF k = 0 THEN <<>>
                             ELSE IF HasText(lines[k]) THEN Append(f[k - 1], LineText(lines[k]))
                             ELSE f[k - 1]
  BY Zenon DEF IsFirst
<1>2. \A k \in 0..m : g[k] = IF k = 0 THEN <<>>
                             ELSE IF HasText(more[k]) THEN Append(g[k - 1], LineText(more[k]))
                             ELSE g[k - 1]
  BY Zenon DEF IsFirst
<1>3. 0 \in S
  <2>1. 0 \in 0..n /\ 0 \in 0..m
    OBVIOUS
  <2>2. f[0] = <<>> /\ g[0] = <<>>
    BY <1>1, <1>2, <2>1, Zenon
  <2> QED
    BY <2>2
<1>4. ASSUME NEW k \in S PROVE k + 1 \in S
  <2> SUFFICES ASSUME k + 1 <= n PROVE f[k + 1] = g[k + 1]
    OBVIOUS
  <2>1. k + 1 \in 0..n /\ k + 1 \in 0..m /\ k + 1 \in 1..n /\ (k + 1) - 1 = k /\ k + 1 # 0
    OBVIOUS
  <2>2. f[k] = g[k]
    OBVIOUS
  <2> HIDE DEF S
  <2>3. f[k + 1] = IF HasText(lines[k + 1]) THEN Append(f[k], LineText(lines[k + 1])) ELSE f[k]
    BY <1>1, <2>1, Zenon
  <2>4. g[k + 1] = IF HasText(more[k + 1]) THEN Append(g[k], LineText(more[k + 1])) ELSE g[k]
    BY <1>2, <2>1, Zenon
  <2>5. more[k + 1] = lines[k + 1]
    BY <2>1
  <2> QED
    BY <2>2, <2>3, <2>4, <2>5
<1>5. S = Nat
  <2> HIDE DEF S
  <2>1. S \in SUBSET Nat
    BY DEF S
  <2> QED
    BY <1>3, <1>4, <2>1, SetInduction
<1> QED
  BY <1>5

LEMMA TextsAre ==
  ASSUME NEW lines, Len(lines) \in Nat
  PROVE  \E f : IsFirst(f, lines, Len(lines)) /\ TextsOf(lines) = f[Len(lines)]
<1>1. PICK n \in Nat : n = Len(lines)
  OBVIOUS
<1> DEFINE f == CHOOSE g : g = [k \in 0..n |->
                  IF k = 0 THEN <<>>
                  ELSE IF HasText(lines[k]) THEN Append(g[k - 1], LineText(lines[k]))
                  ELSE g[k - 1]]
<1>2. \E g : IsFirst(g, lines, n)
  BY FirstExists, Zenon
<1>3. f = [k \in 0..n |->
             IF k = 0 THEN <<>>
             ELSE IF HasText(lines[k]) THEN Append(f[k - 1], LineText(lines[k]))
             ELSE f[k - 1]]
  BY <1>2, Zenon DEF IsFirst
<1>4. TextsOf(lines) = f[n]
  BY <1>1, Zenon DEF TextsOf
<1> QED
  BY <1>1, <1>3, <1>4, Zenon DEF IsFirst

LEMMA NoTexts == TextsOf(<<>>) = <<>>
<1>1. PICK e : e = <<>>
  OBVIOUS
<1>2. Len(e) = 0 /\ Len(e) \in Nat /\ 0 \in 0..0
  BY <1>1
<1>3. PICK f : IsFirst(f, e, 0) /\ TextsOf(e) = f[0]
  BY <1>2, TextsAre, Zenon
<1>4. f[0] = <<>>
  BY <1>2, <1>3, Zenon DEF IsFirst
<1> QED
  BY <1>1, <1>3, <1>4, Zenon

LEMMA TextsOfMore ==
  ASSUME NEW lines \in Seq(LineRecord), NEW l \in LineRecord
  PROVE  TextsOf(Append(lines, l))
           = IF HasText(l) THEN Append(TextsOf(lines), LineText(l)) ELSE TextsOf(lines)
<1>1. PICK n \in Nat : n = Len(lines)
  BY LenProperties
<1>2. PICK more : more = Append(lines, l)
  OBVIOUS
<1>3. /\ Len(more) = n + 1 /\ n + 1 \in Nat
      /\ \A k \in 1..n : more[k] = lines[k]
      /\ more[n + 1] = l
  BY <1>1, <1>2, AppendProperties
<1>4. PICK f : IsFirst(f, lines, n) /\ TextsOf(lines) = f[n]
  BY <1>1, TextsAre, Zenon
<1>5. PICK g : IsFirst(g, more, n + 1) /\ TextsOf(more) = g[n + 1]
  BY <1>3, TextsAre, Zenon
<1>6. f[n] = g[n]
  <2>1. n <= n + 1
    OBVIOUS
  <2> QED
    BY <1>3, <1>4, <1>5, <2>1, FirstAgrees
<1>7. n + 1 \in 0..(n + 1) /\ (n + 1) - 1 = n /\ n + 1 # 0
  OBVIOUS
<1>8. g[n + 1] = IF HasText(more[n + 1]) THEN Append(g[n], LineText(more[n + 1])) ELSE g[n]
  BY <1>5, <1>7, Zenon DEF IsFirst
<1> QED
  BY <1>2, <1>3, <1>4, <1>5, <1>6, <1>8, Zenon

-----------------------------------------------------------------------------
(* Reading.                                                                *)

\* What ReceiveBroadcastPacket passes on of a line.
PassedText(text) ==
  [source |-> ReceivedFrame(text).source, text |-> Tail(ReceivedFrame(text).payload)]

\* The stage after the line text, unless the process ends or text goes on.
EndsAs(s, text, s2) ==
  \/ s = "reading version" /\ s2 = "authenticating"
  \/ s = "authenticating" /\ s2 = "listening"
  \/ s = "listening" /\ s2 = s /\ ~Goes(text)

\* c is the last character of the line that begins with u.
IsEnd(u, c) == Len(u) > 0 /\ <<Last(u), c>> = Newline

\* From stage s with the line u, the character c leads to stage s2 with the
\* line u2, and nothing is passed on.
Reads(s, u, c, s2, u2) ==
  \/ ~TooLong(Len(u) + 1) /\ ~IsEnd(u, c) /\ s2 = s /\ u2 = Append(u, c)
  \/ TooLong(Len(u) + 1) /\ s = "listening" /\ s2 = s /\ u2 = <<>>
  \/ ~TooLong(Len(u) + 1) /\ IsEnd(u, c) /\ u2 = <<>> /\ EndsAs(s, Front(u), s2)

\* It completes a line that is passed on.
Passes(s, u, c) ==
  s = "listening" /\ ~TooLong(Len(u) + 1) /\ IsEnd(u, c) /\ Goes(Front(u))

LEMMA ReadSteps ==
  ASSUME TypeOK, Read
  PROVE  /\ running /\ stage # "connecting" /\ stream # <<>>
         /\ stream' = Tail(stream) /\ given' = given
         /\ \/ pushed' = pushed /\ running' = FALSE
            \/ pushed' = pushed /\ Reads(stage, line, Head(stream), stage', line')
            \/ /\ Passes(stage, line, Head(stream))
               /\ stage' = stage /\ line' = <<>>
               /\ pushed' = Append(pushed, PassedText(Front(line)))
<1>1. ReadChar
  BY Zenon DEF Read, ReadOn, ReadTooLong, ReadServerVersion, ReadAnswer, Receive, ReadLine
<1>2. /\ running /\ stage # "connecting" /\ stream # <<>>
      /\ stream' = Tail(stream) /\ given' = given
  BY <1>1, Zenon DEF ReadChar
<1>3. ASSUME ReadOn
      PROVE  pushed' = pushed /\ Reads(stage, line, Head(stream), stage', line')
  BY <1>3, Zenon DEF ReadOn, dispatchVars, Extended, EndsLine, IsEnd, Reads
<1>4. ASSUME ReadTooLong
      PROVE  /\ pushed' = pushed
             /\ running' = FALSE \/ Reads(stage, line, Head(stream), stage', line')
  BY <1>4, Zenon DEF ReadTooLong, Reads
<1>5. ASSUME ReadServerVersion \/ ReadAnswer
      PROVE  /\ pushed' = pushed
             /\ running' = FALSE \/ Reads(stage, line, Head(stream), stage', line')
  BY <1>5, Zenon DEF ReadServerVersion, ReadAnswer, ReadLine, EndsLine, IsEnd, Text, dispatchVars,
                     Reads, EndsAs
<1>6. ASSUME Receive
      PROVE  \/ pushed' = pushed /\ running' = FALSE
             \/ pushed' = pushed /\ Reads(stage, line, Head(stream), stage', line')
             \/ /\ Passes(stage, line, Head(stream))
                /\ stage' = stage /\ line' = <<>>
                /\ pushed' = Append(pushed, PassedText(Front(line)))
  <2>1. /\ stage = "listening" /\ stage' = stage /\ line' = <<>>
        /\ ~TooLong(Len(line) + 1) /\ IsEnd(line, Head(stream))
    BY <1>6, Zenon DEF Receive, ReadLine, EndsLine, IsEnd
  <2>2. PICK text : text = Front(line)
    OBVIOUS
  <2>3. CASE Goes(text)
    <3>1. PushText(ReceivedFrame(text))
      BY <1>6, <2>2, <2>3, Zenon DEF Receive, Text, Goes, Dispatch, ExitOnEmpty, SkipFrame
    <3> QED
      BY <2>1, <2>2, <2>3, <3>1, Zenon DEF Passes, PushText, PassedText
  <2>4. CASE ~Goes(text)
    <3>1. Reads(stage, line, Head(stream), stage', line')
      BY <2>1, <2>2, <2>4, Zenon DEF Reads, EndsAs
    <3>2. pushed' = pushed
      BY <1>6, <2>2, <2>4, Zenon DEF Receive, Text, Goes, Dispatch, PushText, ExitOnEmpty,
                                     SkipFrame, dispatchVars
    <3> QED
      BY <3>1, <3>2
  <2> QED
    BY <2>3, <2>4
<1> QED
  BY <1>2, <1>3, <1>4, <1>5, <1>6, Zenon DEF Read

-----------------------------------------------------------------------------
(* All that will be read.                                                  *)

Stages == {"reading version", "authenticating", "listening"}

\* Where the session is when all of n lines has been read.
AtStage(s, n) ==
  \/ n = 0 /\ s = "reading version"
  \/ n = 1 /\ s = "authenticating"
  \/ n > 1 /\ s = "listening"

\* Where it is with all the lines of end read, and the line it then holds.
AtEnd(s, u, end) == u = end.left /\ AtStage(s, end.lines)

\* S[x] holds the states <<stage, line, texts passed on>> in which x
\* characters of w have been read.  Those passed on are the first ones of T,
\* and at the end all of them.
Paths(S, w, T, end) ==
  \A x \in 0..Len(w) : \A s, u, k : <<s, u, k>> \in S[x] =>
    /\ k \in 0..Len(T)
    /\ x < Len(w) =>
         /\ \A s2, u2 : Reads(s, u, w[x + 1], s2, u2) => <<s2, u2, k>> \in S[x + 1]
         /\ Passes(s, u, w[x + 1]) =>
              /\ k + 1 \in 1..Len(T) /\ T[k + 1] = PassedText(Front(u))
              /\ <<s, <<>>, k + 1>> \in S[x + 1]
    /\ x = Len(w) => k = Len(T) /\ AtEnd(s, u, end)

\* After a character is read, what follows it remains.
LEMMA PathsTail ==
  ASSUME NEW C, NEW w \in Seq(C), w # <<>>, NEW S, NEW T, NEW end, Paths(S, w, T, end)
  PROVE  Paths([x \in 0..(Len(w) - 1) |-> S[x + 1]], Tail(w), T, end)
<1>1. PICK m \in Nat : Len(w) = m + 1
  BY EmptySeq, LenProperties
<1>2. PICK v : v = Tail(w)
  OBVIOUS
<1>3. v \in Seq(C) /\ Len(v) = m /\ \A x \in 1..m : v[x] = w[x + 1]
  <2>1. v \in Seq(C) /\ Len(v) = Len(w) - 1 /\ \A x \in 1..Len(v) : v[x] = w[x + 1]
    BY <1>2, HeadTailProperties
  <2> QED
    BY <1>1, <2>1
<1>4. PICK G : G = [x \in 0..m |-> S[x + 1]]
  OBVIOUS
<1>5. ASSUME NEW x \in 0..m, NEW s, NEW u, NEW k, <<s, u, k>> \in G[x]
      PROVE  /\ k \in 0..Len(T)
             /\ x < m =>
                  /\ \A s2, u2 : Reads(s, u, v[x + 1], s2, u2) => <<s2, u2, k>> \in G[x + 1]
                  /\ Passes(s, u, v[x + 1]) =>
                       /\ k + 1 \in 1..Len(T) /\ T[k + 1] = PassedText(Front(u))
                       /\ <<s, <<>>, k + 1>> \in G[x + 1]
             /\ x = m => k = Len(T) /\ AtEnd(s, u, end)
  <2>1. PICK y \in 0..(m + 1) : y = x + 1
    OBVIOUS
  <2>2. G[x] = S[y]
    BY <1>4, <2>1
  <2>3. /\ k \in 0..Len(T)
        /\ y < m + 1 =>
             /\ \A s2, u2 : Reads(s, u, w[y + 1], s2, u2) => <<s2, u2, k>> \in S[y + 1]
             /\ Passes(s, u, w[y + 1]) =>
                  /\ k + 1 \in 1..Len(T) /\ T[k + 1] = PassedText(Front(u))
                  /\ <<s, <<>>, k + 1>> \in S[y + 1]
        /\ y = m + 1 => k = Len(T) /\ AtEnd(s, u, end)
    <3>1. <<s, u, k>> \in S[y] /\ y \in 0..Len(w)
      BY <1>1, <1>5, <2>2
    <3> QED
      BY <1>1, <3>1, ZenonT(60) DEF Paths
  <2>4. x = m => y = m + 1
    BY <2>1
  <2>5. x < m => y < m + 1 /\ x + 1 \in 1..m /\ x + 1 \in 0..m /\ y + 1 = (x + 1) + 1
    BY <2>1
  <2>6. x < m => v[x + 1] = w[y + 1] /\ G[x + 1] = S[y + 1]
    BY <1>3, <1>4, <2>1, <2>5
  <2> QED
    BY <2>3, <2>4, <2>5, <2>6, ZenonT(60)
<1>6. Paths(G, v, T, end)
  BY <1>3, <1>5, ZenonT(60) DEF Paths
<1>7. Len(w) - 1 = m
  BY <1>1
<1> QED
  BY <1>2, <1>4, <1>6, <1>7

\* All that S may read first leads to the end of w.
LeadsOn(S, w, T, end) ==
  \E U : /\ Paths(U, w, T, end)
         /\ \A s, u, k : <<s, u, k>> \in S[0] => <<s, u, k>> \in U[0]

\* What is put behind the rest is read after it.
LEMMA PathsJoin ==
  ASSUME NEW C, NEW w \in Seq(C), NEW v \in Seq(C), NEW S, NEW G,
         NEW T, NEW more, NEW end, NEW end2, Paths(S, w, T, end), Paths(G, v, more, end2),
         \A s, u : AtEnd(s, u, end) => <<s, u, Len(T)>> \in G[0],
         \A k \in 0..Len(T) : k \in 0..Len(more),
         \A k \in 1..Len(T) : k \in 1..Len(more) /\ more[k] = T[k]
  PROVE  LeadsOn(S, w \o v, more, end2)
<1>1. PICK p \in Nat, q \in Nat : p = Len(w) /\ q = Len(v)
  BY LenProperties
<1>2. PICK z : z = w \o v
  OBVIOUS
<1>3. /\ z \in Seq(C) /\ Len(z) = p + q
      /\ \A i \in 1..(p + q) : z[i] = IF i <= p THEN w[i] ELSE v[i - p]
  BY <1>1, <1>2, ConcatProperties
<1>4. PICK U : U = [x \in 0..(p + q) |-> IF x < p THEN S[x] ELSE G[x - p]]
  OBVIOUS
\* The two agree where they meet.
<1>5. ASSUME NEW x \in 0..p, NEW s, NEW u, NEW k, <<s, u, k>> \in S[x]
      PROVE  <<s, u, k>> \in U[x]
  <2>1. CASE x < p
    <3>1. x \in 0..(p + q)
      OBVIOUS
    <3> QED
      BY <1>4, <1>5, <2>1, <3>1
  <2>2. CASE x = p
    <3>1. k = Len(T) /\ AtEnd(s, u, end)
      <4>1. x \in 0..Len(w) /\ x = Len(w)
        BY <1>1, <2>2
      <4> QED
        BY <1>5, <4>1, Zenon DEF Paths
    <3>2. <<s, u, k>> \in G[0]
      BY <3>1, Zenon
    <3>3. x \in 0..(p + q) /\ ~(x < p) /\ x - p = 0
      BY <2>2
    <3> QED
      BY <1>4, <3>2, <3>3
  <2> QED
    BY <2>1, <2>2
<1>6. ASSUME NEW x \in 0..(p + q), NEW s, NEW u, NEW k, <<s, u, k>> \in U[x]
      PROVE  /\ k \in 0..Len(more)
             /\ x < p + q =>
                  /\ \A s2, u2 : Reads(s, u, z[x + 1], s2, u2) => <<s2, u2, k>> \in U[x + 1]
                  /\ Passes(s, u, z[x + 1]) =>
                       /\ k + 1 \in 1..Len(more) /\ more[k + 1] = PassedText(Front(u))
                       /\ <<s, <<>>, k + 1>> \in U[x + 1]
             /\ x = p + q => k = Len(more) /\ AtEnd(s, u, end2)
  <2>1. CASE x < p
    <3>1. x \in 0..Len(w) /\ x < Len(w) /\ x + 1 \in 0..p /\ x + 1 \in 1..(p + q)
          /\ x + 1 <= p /\ x # p + q
      BY <1>1, <2>1
    <3>2. <<s, u, k>> \in S[x]
      BY <1>4, <1>6, <2>1
    <3>3. /\ k \in 0..Len(T)
          /\ \A s2, u2 : Reads(s, u, w[x + 1], s2, u2) => <<s2, u2, k>> \in S[x + 1]
          /\ Passes(s, u, w[x + 1]) =>
               /\ k + 1 \in 1..Len(T) /\ T[k + 1] = PassedText(Front(u))
               /\ <<s, <<>>, k + 1>> \in S[x + 1]
      BY <3>1, <3>2, Zenon DEF Paths
    <3>4. z[x + 1] = w[x + 1]
      BY <1>3, <3>1
    <3>5. PICK y \in 0..p : y = x + 1
      BY <3>1
    <3>6. k \in 0..Len(more)
      BY <3>3, Zenon
    <3>7. \A s2, u2 : Reads(s, u, z[x + 1], s2, u2) => <<s2, u2, k>> \in U[x + 1]
      BY <1>5, <3>3, <3>4, <3>5, Zenon
    <3>8. ASSUME Passes(s, u, z[x + 1])
          PROVE  /\ k + 1 \in 1..Len(more) /\ more[k + 1] = PassedText(Front(u))
                 /\ <<s, <<>>, k + 1>> \in U[x + 1]
      <4>1. PICK j : j = k + 1
        OBVIOUS
      <4>2. j \in 1..Len(T) /\ T[j] = PassedText(Front(u)) /\ <<s, <<>>, j>> \in S[y]
        BY <3>3, <3>4, <3>5, <3>8, <4>1, Zenon
      <4>3. j \in 1..Len(more) /\ more[j] = PassedText(Front(u)) /\ <<s, <<>>, j>> \in U[y]
        BY <1>5, <4>2, Zenon
      <4> QED
        BY <3>5, <4>1, <4>3, Zenon
    <3> QED
      BY <3>1, <3>6, <3>7, <3>8, Zenon
  <2>2. CASE ~(x < p)
    <3>1. PICK y \in 0..q : y = x - p
      BY <2>2
    <3>2. x = p + y /\ (x < p + q => y < q) /\ (x = p + q => y = q)
      BY <3>1
    <3>3. U[x] = G[y]
      BY <1>4, <2>2, <3>1
    <3>4. y \in 0..Len(v)
      BY <1>1
    <3>5. /\ k \in 0..Len(more)
          /\ y < q =>
               /\ \A s2, u2 : Reads(s, u, v[y + 1], s2, u2) => <<s2, u2, k>> \in G[y + 1]
               /\ Passes(s, u, v[y + 1]) =>
                    /\ k + 1 \in 1..Len(more) /\ more[k + 1] = PassedText(Front(u))
                    /\ <<s, <<>>, k + 1>> \in G[y + 1]
          /\ y = q => k = Len(more) /\ AtEnd(s, u, end2)
      BY <1>1, <1>6, <3>3, <3>4, Zenon DEF Paths
    <3>6. x < p + q => z[x + 1] = v[y + 1] /\ U[x + 1] = G[y + 1]
      <4> SUFFICES ASSUME x < p + q PROVE z[x + 1] = v[y + 1] /\ U[x + 1] = G[y + 1]
        OBVIOUS
      <4>1. /\ x + 1 \in 1..(p + q) /\ x + 1 \in 0..(p + q) /\ ~(x + 1 <= p) /\ ~(x + 1 < p)
            /\ (x + 1) - p = y + 1
        BY <2>2, <3>2
      <4> QED
        BY <1>3, <1>4, <4>1
    <3> QED
      BY <3>2, <3>5, <3>6, ZenonT(60)
  <2> QED
    BY <2>1, <2>2
<1>7. Paths(U, z, more, end2)
  BY <1>3, <1>6, ZenonT(60) DEF Paths
<1>8. 0 \in 0..p
  OBVIOUS
<1> QED
  BY <1>2, <1>5, <1>7, <1>8, Zenon DEF LeadsOn

-----------------------------------------------------------------------------
(* Counting up to a limit and again from 0.                                *)

LEMMA Remainder ==
  ASSUME NEW x \in Nat, NEW m \in Nat \ {0}, NEW q \in Nat, NEW r \in 0..(m - 1),
         x = m * q + r
  PROVE  x % m = r
  BY Z3

LEMMA Quotient ==
  ASSUME NEW x \in Nat, NEW m \in Nat \ {0}
  PROVE  \E q \in Nat : \E r \in 0..(m - 1) : x = m * q + r
<1>1. PICK q : q = x \div m
  OBVIOUS
<1>2. PICK r : r = x % m
  OBVIOUS
<1>3. q \in Nat /\ r \in 0..(m - 1)
  BY <1>1, <1>2, Z3
<1>4. x = m * q + r
  BY <1>1, <1>2, Z3
<1> QED
  BY <1>3, <1>4

LEMMA CountOn ==
  ASSUME NEW x \in Nat, NEW m \in Nat \ {0}
  PROVE  /\ x % m \in 0..(m - 1)
         /\ (x + 1) % m = IF x % m = m - 1 THEN 0 ELSE (x % m) + 1
         /\ x < m => x % m = x
         /\ x % m <= x
<1>1. PICK q \in Nat, r \in 0..(m - 1) : x = m * q + r
  BY Quotient, Zenon
<1>2. x % m = r
  BY <1>1, Remainder
<1>3. PICK y \in Nat : y = x + 1
  OBVIOUS
<1>4. y % m = IF r = m - 1 THEN 0 ELSE r + 1
  <2>1. CASE r = m - 1
    <3>1. PICK p \in Nat : p = q + 1
      OBVIOUS
    <3>2. 0 \in 0..(m - 1) /\ y = m * p + 0
      BY <1>1, <1>3, <2>1, <3>1
    <3>3. y % m = 0
      BY <3>2, Remainder
    <3> QED
      BY <2>1, <3>3
  <2>2. CASE r # m - 1
    <3>1. PICK p \in 0..(m - 1) : p = r + 1
      BY <2>2
    <3>2. y = m * q + p
      BY <1>1, <1>3, <3>1
    <3>3. y % m = p
      BY <3>2, Remainder
    <3> QED
      BY <2>2, <3>1, <3>3
  <2> QED
    BY <2>1, <2>2
<1>5. x < m => x % m = x
  <2>1. ASSUME x < m PROVE x % m = x
    <3>1. x \in 0..(m - 1) /\ x = m * 0 + x /\ 0 \in Nat
      BY <2>1
    <3> QED
      BY <3>1, Remainder
  <2> QED
    BY <2>1
<1>6. x % m <= x
  <2>1. m * q \in Nat
    OBVIOUS
  <2> QED
    BY <1>1, <1>2, <2>1
<1> QED
  BY <1>2, <1>3, <1>4, <1>5, <1>6

-----------------------------------------------------------------------------
(* One line of the server.                                                 *)

\* What ReadLine has kept of the first x characters: it starts again whenever
\* it has read one more than the limit.
Kept(bytes, x) == SubSeq(bytes, x - (x % Unit) + 1, x)

\* With text read from stage s after k texts, all is as T and end say.
EndsWell(text, s, k, T, end) ==
  /\ s = "listening" /\ ~(HeldAtEnd(text) > 1) =>
       k = Len(T) /\ AtEnd(s, LeftBehind(text), end)
  /\ HeldAtEnd(text) > 1 =>
       /\ \A s2 : EndsAs(s, Rest(text), s2) => k = Len(T) /\ AtEnd(s2, <<>>, end)
       /\ s = "listening" /\ Goes(Rest(text)) =>
            k + 1 = Len(T) /\ T[k + 1] = PassedText(Rest(text)) /\ AtEnd(s, <<>>, end)

\* Where reading bytes may be after x of them.
InLine(bytes, s, k, T, end, x, s2, u, j) ==
  \/ /\ x < Len(bytes) /\ s2 = s /\ j = k /\ u = Kept(bytes, x)
     /\ s = "listening" \/ x < Unit
  \/ x = Len(bytes) /\ j = Len(T) /\ AtEnd(s2, u, end)

LEMMA UnitIs == Unit \in Nat \ {0} /\ Unit - 1 = MaxLineLength /\ MaxLineLength \in Nat
  BY Bounds DEF Unit

\* What is kept, as it grows.
LEMMA KeptGrows ==
  ASSUME NEW bytes \in Seq(Chars), NEW x \in 0..Len(bytes)
  PROVE  /\ Kept(bytes, x) \in Seq(Chars) /\ Len(Kept(bytes, x)) = x % Unit
         /\ x % Unit > 0 => Last(Kept(bytes, x)) = bytes[x]
         /\ x < Len(bytes) =>
              /\ TooLong(Len(Kept(bytes, x)) + 1) => Kept(bytes, x + 1) = <<>>
              /\ ~TooLong(Len(Kept(bytes, x)) + 1) =>
                   Kept(bytes, x + 1) = Append(Kept(bytes, x), bytes[x + 1])
<1>1. PICK r : r = x % Unit
  OBVIOUS
<1>2. Len(bytes) \in Nat /\ x \in Nat /\ \A i \in 1..Len(bytes) : bytes[i] \in Chars
  BY LenProperties, ElementOfSeq
<1>3. /\ r \in 0..MaxLineLength /\ r <= x
      /\ (x + 1) % Unit = IF r = MaxLineLength THEN 0 ELSE r + 1
  <2>1. Unit \in Nat \ {0} /\ Unit - 1 = MaxLineLength
    BY UnitIs
  <2> QED
    BY <1>1, <1>2, <2>1, CountOn
<1>4. PICK u : u = SubSeq(bytes, x - r + 1, x)
  OBVIOUS
<1>5. u = Kept(bytes, x)
  BY <1>1, <1>4 DEF Kept
<1>6. PICK a \in Nat : a = x - r
  BY <1>2, <1>3
<1>7. u \in Seq(Chars) /\ Len(u) = r /\ \A i \in 1..r : u[i] = bytes[a + i]
  <2>1. u = SubSeq(bytes, a + 1, x) /\ a + 1 \in Int /\ x \in Int
    BY <1>2, <1>4, <1>6
  <2>2. \A i \in (a + 1)..x : bytes[i] \in Chars
    BY <1>2, <1>6
  <2>3. /\ u \in Seq(Chars)
        /\ Len(u) = IF a + 1 <= x THEN x - (a + 1) + 1 ELSE 0
        /\ \A i \in 1..(x - (a + 1) + 1) : u[i] = bytes[(a + 1) + i - 1]
    BY <2>1, <2>2, SubSeqProperties
  <2>4. x = a + r /\ r \in Nat
    BY <1>2, <1>3, <1>6
  <2> QED
    BY <2>3, <2>4, <1>6
<1>8. r > 0 => Last(u) = bytes[x]
  BY <1>2, <1>3, <1>6, <1>7 DEF Last
<1>9. ASSUME x < Len(bytes)
      PROVE  /\ TooLong(r + 1) => Kept(bytes, x + 1) = <<>>
             /\ ~TooLong(r + 1) => Kept(bytes, x + 1) = Append(u, bytes[x + 1])
  <2>1. PICK v : v = Kept(bytes, x + 1)
    OBVIOUS
  <2>2. MaxLineLength \in Nat
    BY UnitIs
  <2>3. CASE r = MaxLineLength
    <3>1. v = SubSeq(bytes, (x + 1) - 0 + 1, x + 1)
      BY <1>3, <2>1, <2>3 DEF Kept
    <3>2. v = <<>>
      BY <1>2, <3>1
    <3>3. TooLong(r + 1)
      BY <2>2, <2>3 DEF TooLong
    <3> QED
      BY <2>1, <3>2, <3>3
  <2>4. CASE r # MaxLineLength
    <3>1. ~TooLong(r + 1)
      BY <1>3, <2>2, <2>4 DEF TooLong
    <3>2. v = SubSeq(bytes, (x + 1) - (r + 1) + 1, x + 1)
      BY <1>3, <2>1, <2>4 DEF Kept
    <3>3. v = SubSeq(bytes, a + 1, x + 1) /\ x = a + r /\ r \in Nat
      BY <1>2, <1>3, <1>6, <3>2
    <3>4. \A i \in (a + 1)..(x + 1) : bytes[i] \in Chars
      BY <1>2, <1>6, <1>9
    <3>5. /\ v \in Seq(Chars)
          /\ Len(v) = IF a + 1 <= x + 1 THEN (x + 1) - (a + 1) + 1 ELSE 0
          /\ \A i \in 1..((x + 1) - (a + 1) + 1) : v[i] = bytes[(a + 1) + i - 1]
      <4>1. a + 1 \in Int /\ x + 1 \in Int
        BY <1>2, <1>6
      <4> QED
        BY <3>3, <3>4, <4>1, SubSeqProperties, SMTT(30)
    <3>6. /\ v \in Seq(Chars) /\ Len(v) = r + 1
          /\ \A i \in 1..(r + 1) : v[i] = bytes[a + i]
      BY <1>6, <3>3, <3>5
    <3>7. PICK w : w = Append(u, bytes[x + 1])
      OBVIOUS
    <3>8. bytes[x + 1] \in Chars
      BY <1>2, <1>9
    <3>9. /\ w \in Seq(Chars) /\ Len(w) = r + 1 /\ w[r + 1] = bytes[x + 1]
          /\ \A i \in 1..r : w[i] = u[i]
      BY <1>7, <3>7, <3>8, AppendProperties
    <3>10. ASSUME NEW i \in 1..(r + 1) PROVE v[i] = w[i]
      <4>1. CASE i = r + 1
        BY <3>3, <3>6, <3>9, <4>1
      <4>2. CASE i # r + 1
        <5>1. i \in 1..r
          BY <1>3, <4>2
        <5> QED
          BY <1>7, <3>6, <3>9, <5>1
      <4> QED
        BY <4>1, <4>2
    <3>11. v = w
      BY <3>6, <3>9, <3>10, SeqEqual
    <3> QED
      BY <2>1, <3>1, <3>7, <3>11
  <2> QED
    BY <2>3, <2>4
<1> QED
  BY <1>1, <1>5, <1>7, <1>8, <1>9

LEMMA LinePath ==
  ASSUME NEW text \in Seq(Chars), OneLine(text), NEW s \in Stages, NEW k,
         NEW T, Len(T) \in Nat, NEW end, k \in 0..Len(T), EndsWell(text, s, k, T, end)
  PROVE  \E G : Paths(G, text \o Newline, T, end) /\ <<s, <<>>, k>> \in G[0]
<1>1. PICK b : b = text \o Newline
  OBVIOUS
<1>2. PICK t \in Nat : t = Len(text)
  BY LenProperties
<1>3. /\ b \in Seq(Chars) /\ Len(b) = t + 2 /\ b[t + 1] = "\r" /\ b[t + 2] = "\n"
      /\ \A i \in 1..t : b[i] = text[i]
  <2>1. PICK e : e = Newline
    OBVIOUS
  <2>2. e \in Seq(Chars) /\ Len(e) = 2 /\ e[1] = "\r" /\ e[2] = "\n"
    BY <2>1, NewlineChars
  <2>3. /\ b \in Seq(Chars) /\ Len(b) = t + 2
        /\ \A i \in 1..(t + 2) : b[i] = IF i <= t THEN text[i] ELSE e[i - t]
    <3>1. /\ b \in Seq(Chars) /\ Len(b) = Len(text) + Len(e)
          /\ \A i \in 1..(Len(text) + Len(e)) : b[i] = IF i <= Len(text) THEN text[i]
                                                     ELSE e[i - Len(text)]
      BY <1>1, <2>1, <2>2, ConcatProperties, Zenon
    <3> QED
      BY <1>2, <2>2, <3>1
  <2>4. (t + 1) - t = 1 /\ (t + 2) - t = 2 /\ ~(t + 1 <= t) /\ ~(t + 2 <= t)
        /\ t + 1 \in 1..(t + 2) /\ t + 2 \in 1..(t + 2)
    OBVIOUS
  <2>5. b[t + 1] = "\r" /\ b[t + 2] = "\n"
    BY <2>2, <2>3, <2>4
  <2> QED
    BY <2>3, <2>5
\* Within the line there is no end of one.
<1>4. ASSUME NEW i \in 1..t PROVE <<b[i], b[i + 1]>> # Newline
  <2>1. CASE i = t
    <3>1. b[i + 1] = "\r"
      BY <1>3, <2>1
    <3> QED
      BY <3>1 DEF Newline
  <2>2. CASE i # t
    <3>1. i \in 1..(Len(text) - 1) /\ i + 1 \in 1..t
      BY <1>2, <2>2
    <3>2. b[i] = text[i] /\ b[i + 1] = text[i + 1]
      BY <1>3, <3>1
    <3> QED
      BY <3>1, <3>2, Zenon DEF OneLine
  <2> QED
    BY <2>1, <2>2
<1>5. PICK G : G = [x \in 0..(t + 2) |->
                     {c \in Stages \X Seq(Chars) \X (0..Len(T)) :
                        InLine(b, s, k, T, end, x, c[1], c[2], c[3])}]
  OBVIOUS
<1>6. ASSUME NEW x \in 0..(t + 2), NEW s2, NEW u, NEW j
      PROVE  <<s2, u, j>> \in G[x] <=>
               /\ s2 \in Stages /\ u \in Seq(Chars) /\ j \in 0..Len(T)
               /\ InLine(b, s, k, T, end, x, s2, u, j)
  BY <1>5
<1>7. \A x \in 0..(t + 2) :
        /\ Kept(b, x) \in Seq(Chars) /\ Len(Kept(b, x)) = x % Unit
        /\ x % Unit > 0 => Last(Kept(b, x)) = b[x]
        /\ x < t + 2 =>
             /\ TooLong(Len(Kept(b, x)) + 1) => Kept(b, x + 1) = <<>>
             /\ ~TooLong(Len(Kept(b, x)) + 1) =>
                  Kept(b, x + 1) = Append(Kept(b, x), b[x + 1])
  BY <1>3, KeptGrows
<1>8. \A x \in Nat : /\ x % Unit \in 0..MaxLineLength
                     /\ (x + 1) % Unit = IF x % Unit = MaxLineLength THEN 0 ELSE (x % Unit) + 1
                     /\ x < Unit => x % Unit = x
                     /\ x % Unit <= x
  BY UnitIs, CountOn
<1>9. Unit \in Nat /\ Unit = MaxLineLength + 1 /\ MaxLineLength \in Nat
  BY UnitIs
\* Before the line has ended.
<1>10. ASSUME NEW x \in 0..t, NEW u, u = Kept(b, x)
       PROVE  /\ ~IsEnd(u, b[x + 1])
              /\ s = "listening" \/ x < Unit =>
                   \A s2, u2 : Reads(s, u, b[x + 1], s2, u2) => <<s2, u2, k>> \in G[x + 1]
  <2>1. PICK y : y = x + 1
    OBVIOUS
  <2>2. x \in 0..(t + 2) /\ y \in 0..(t + 2) /\ x \in Nat /\ x < t + 2 /\ y < t + 2
    BY <2>1
  <2>3. ~IsEnd(u, b[y])
    <3> SUFFICES ASSUME Len(u) > 0, <<Last(u), b[y]>> = Newline PROVE FALSE
      BY DEF IsEnd
    <3>1. x % Unit > 0 /\ Last(u) = b[x]
      BY <1>7, <1>10, <2>2
    <3>2. x \in 1..t
      BY <1>8, <2>2, <3>1
    <3> QED
      BY <1>4, <2>1, <3>1, <3>2
  <2>4. ASSUME s = "listening" \/ x < Unit, NEW s2, NEW u2, Reads(s, u, b[y], s2, u2)
        PROVE  <<s2, u2, k>> \in G[y]
    <3>1. \/ ~TooLong(Len(u) + 1) /\ s2 = s /\ u2 = Append(u, b[y])
          \/ TooLong(Len(u) + 1) /\ s = "listening" /\ s2 = s /\ u2 = <<>>
      BY <2>3, <2>4, Zenon DEF Reads
    <3>2. s2 = s /\ u2 = Kept(b, y)
      BY <1>7, <1>10, <2>1, <2>2, <3>1
    <3>3. s = "listening" \/ y < Unit
      <4> SUFFICES ASSUME x < Unit, ~TooLong(Len(u) + 1) PROVE y < Unit
        BY <2>4, <3>1
      <4>1. Len(u) = x
        BY <1>7, <1>8, <1>10, <2>2
      <4> QED
        BY <1>9, <2>1, <2>2, <4>1 DEF TooLong
    <3>4. u2 \in Seq(Chars)
      BY <1>7, <2>2, <3>2
    <3>5. InLine(b, s, k, T, end, y, s2, u2, k)
      BY <1>3, <2>2, <3>2, <3>3 DEF InLine
    <3> QED
      BY <1>6, <2>2, <3>2, <3>4, <3>5
  <2> QED
    BY <2>1, <2>3, <2>4
\* Its last character.
<1>11. ASSUME NEW u, u = Kept(b, t + 1), s = "listening" \/ t + 1 < Unit
       PROVE  /\ \A s2, u2 : Reads(s, u, b[t + 2], s2, u2) => <<s2, u2, k>> \in G[t + 2]
              /\ Passes(s, u, b[t + 2]) =>
                   /\ k + 1 \in 1..Len(T) /\ T[k + 1] = PassedText(Front(u))
                   /\ <<s, <<>>, k + 1>> \in G[t + 2]
  <2>1. PICK x : x = t + 1
    OBVIOUS
  <2>2. PICK r : r = x % Unit
    OBVIOUS
  <2>3. x \in Nat /\ x \in 0..(t + 2) /\ x < t + 2 /\ t + 2 \in 0..(t + 2) /\ x + 1 = t + 2
    BY <2>1
  <2>4. u \in Seq(Chars) /\ Len(u) = r /\ r \in 0..MaxLineLength /\ r <= x
    BY <1>7, <1>8, <1>11, <2>1, <2>2, <2>3
  <2>5. HeldAtEnd(text) = IF r = MaxLineLength THEN 0 ELSE r + 1
    BY <1>2, <1>8, <2>2, <2>3 DEF HeldAtEnd
  <2>6. TooLong(r + 1) <=> r = MaxLineLength
    BY <1>9, <2>4 DEF TooLong
  <2>7. ASSUME NEW s2 \in Stages, NEW u2 \in Seq(Chars), NEW j \in 0..Len(T), j = Len(T),
               AtEnd(s2, u2, end)
        PROVE  <<s2, u2, j>> \in G[t + 2]
    <3>1. InLine(b, s, k, T, end, t + 2, s2, u2, j)
      BY <1>3, <2>7 DEF InLine
    <3> QED
      BY <1>6, <2>3, <2>7, <3>1
  <2>7a. <<>> \in Seq(Chars) /\ <<"\n">> \in Seq(Chars)
    <3>1. \A c \in Chars : <<c>> \in Seq(Chars)
      OBVIOUS
    <3>2. <<>> \in Seq(Chars)
      OBVIOUS
    <3> QED
      BY <3>1, <3>2, SpecialChars, Zenon
  <2>8. CASE r = MaxLineLength
    <3>1. ~Passes(s, u, b[t + 2])
      BY <2>4, <2>6, <2>8, Zenon DEF Passes
    <3>2. ASSUME NEW s2, NEW u2, Reads(s, u, b[t + 2], s2, u2) PROVE <<s2, u2, k>> \in G[t + 2]
      <4>1. s = "listening" /\ s2 = s /\ u2 = <<>>
        BY <2>4, <2>6, <2>8, <3>2, Zenon DEF Reads
      <4>2. k = Len(T) /\ AtEnd(s, <<>>, end)
        <5>1. ~(HeldAtEnd(text) > 1) /\ HeldAtEnd(text) # 1
          BY <2>5, <2>8
        <5>2. LeftBehind(text) = <<>>
          BY <5>1, Zenon DEF LeftBehind
        <5> QED
          BY <4>1, <5>1, <5>2, Zenon DEF EndsWell
      <4> QED
        BY <2>7, <2>7a, <4>1, <4>2
    <3> QED
      BY <3>1, <3>2
\* The limit falls between the two characters of the end.
  <2>8a. CASE r # MaxLineLength /\ r = 0
    <3>1. u = <<>> /\ Len(u) = 0
      BY <2>4, <2>8a, EmptySeq
    <3>2. ~IsEnd(u, b[t + 2]) /\ ~TooLong(Len(u) + 1)
      BY <2>4, <2>6, <2>8a, <3>1 DEF IsEnd
    <3>3. s = "listening"
      <4>1. CASE t + 1 < Unit
        <5>1. r = x
          BY <1>8, <2>1, <2>2, <2>3, <4>1
        <5> QED
          BY <2>1, <2>8a, <5>1
      <4> QED
        BY <1>11, <4>1
    <3>4. ~(HeldAtEnd(text) > 1) /\ HeldAtEnd(text) = 1
      BY <2>5, <2>8a
    <3>5. k = Len(T) /\ AtEnd(s, <<"\n">>, end)
      <4>1. LeftBehind(text) = <<"\n">>
        BY <3>4, Zenon DEF LeftBehind
      <4> QED
        BY <3>3, <3>4, <4>1, Zenon DEF EndsWell
    <3>6. <<s, <<"\n">>, k>> \in G[t + 2]
      BY <2>7, <2>7a, <3>5
    <3>7. ASSUME NEW s2, NEW u2, Reads(s, u, b[t + 2], s2, u2) PROVE <<s2, u2, k>> \in G[t + 2]
      <4>1. s2 = s /\ u2 = Append(u, b[t + 2])
        BY <3>2, <3>7, Zenon DEF Reads
      <4>2. u2 = <<"\n">>
        <5>1. Append(<<>>, "\n") = <<"\n">>
          OBVIOUS
        <5> QED
          BY <1>3, <3>1, <4>1, <5>1, Zenon
      <4> QED
        BY <3>6, <4>1, <4>2, Zenon
    <3>8. ~Passes(s, u, b[t + 2])
      BY <3>2, Zenon DEF Passes
    <3> QED
      BY <3>7, <3>8
  <2>9. CASE r # MaxLineLength /\ r # 0
    <3>1. r > 0
      BY <2>4, <2>9
    <3>2. HeldAtEnd(text) > 1 /\ HeldAtEnd(text) = r + 1
      BY <2>4, <2>5, <2>9, <3>1
    <3>3. Last(u) = "\r"
      BY <1>3, <1>7, <1>11, <2>1, <2>2, <2>3, <3>1
    <3>4. IsEnd(u, b[t + 2]) /\ ~TooLong(Len(u) + 1)
      <4>1. <<Last(u), b[t + 2]>> = Newline
        BY <1>3, <3>3 DEF Newline
      <4> QED
        BY <2>4, <2>6, <2>9, <3>1, <4>1 DEF IsEnd
    <3>5. Front(u) = Rest(text)
      <4>1. PICK a \in Nat : a = x - r
        BY <2>3, <2>4
      <4>2. u = SubSeq(b, a + 1, x)
        BY <1>11, <2>1, <2>2, <4>1 DEF Kept
      <4>3. PICK f : f = SubSeq(u, 1, r - 1)
        OBVIOUS
      <4>4. Front(u) = f
        BY <2>4, <4>3 DEF Front
      <4>5. PICK g : g = SubSeq(text, a + 1, t)
        OBVIOUS
      <4>6. Rest(text) = g
        <5>1. t + 2 - (r + 1) + 1 = a + 1
          BY <2>1, <2>4, <4>1
        <5> QED
          BY <1>2, <3>2, <4>5, <5>1 DEF Rest
      <4>7. r \in Nat /\ r - 1 \in Nat /\ t = a + (r - 1)
        BY <2>1, <2>4, <3>1, <4>1
      <4>8. f \in Seq(Chars) /\ Len(f) = r - 1 /\ \A i \in 1..(r - 1) : f[i] = u[i]
        <5>1. \A i \in 1..(r - 1) : u[i] \in Chars
          BY <2>4, <4>7
        <5>2. 1 \in Int /\ r - 1 \in Int
          BY <4>7
        <5>3. /\ f \in Seq(Chars) /\ Len(f) = IF 1 <= r - 1 THEN (r - 1) - 1 + 1 ELSE 0
              /\ \A i \in 1..((r - 1) - 1 + 1) : f[i] = u[1 + i - 1]
          BY <4>3, <5>1, <5>2, SubSeqProperties
        <5> QED
          BY <4>7, <5>3
      <4>9. \A i \in 1..(r - 1) : u[i] = b[a + i]
        <5>1. \A i \in (a + 1)..x : b[i] \in Chars
          BY <1>3, <2>3, <4>1, ElementOfSeq
        <5>2. a + 1 \in Int /\ x \in Int
          BY <2>3
        <5>3. \A i \in 1..(x - (a + 1) + 1) : u[i] = b[(a + 1) + i - 1]
          BY <4>2, <5>1, <5>2, SubSeqProperties
        <5> QED
          BY <2>3, <4>1, <4>7, <5>3
      <4>10. g \in Seq(Chars) /\ Len(g) = r - 1 /\ \A i \in 1..(r - 1) : g[i] = text[a + i]
        <5>1. \A i \in (a + 1)..t : text[i] \in Chars
          BY <1>2, ElementOfSeq
        <5>2. a + 1 \in Int /\ t \in Int
          OBVIOUS
        <5>3. /\ g \in Seq(Chars) /\ Len(g) = IF a + 1 <= t THEN t - (a + 1) + 1 ELSE 0
              /\ \A i \in 1..(t - (a + 1) + 1) : g[i] = text[(a + 1) + i - 1]
          BY <4>5, <5>1, <5>2, SubSeqProperties
        <5> QED
          BY <4>7, <5>3
      <4>11. \A i \in 1..Len(f) : f[i] = g[i]
        <5> SUFFICES ASSUME NEW i \in 1..(r - 1) PROVE f[i] = g[i]
          BY <4>8
        <5>1. a + i \in 1..t
          BY <4>7
        <5>2. b[a + i] = text[a + i]
          BY <1>3, <5>1
        <5> QED
          BY <4>8, <4>9, <4>10, <5>2
      <4>12. f = g
        BY <4>8, <4>10, <4>11, SeqEqual
      <4> QED
        BY <4>4, <4>6, <4>12
    <3>6. ASSUME NEW s2, NEW u2, Reads(s, u, b[t + 2], s2, u2) PROVE <<s2, u2, k>> \in G[t + 2]
      <4>1. u2 = <<>> /\ EndsAs(s, Rest(text), s2)
        BY <3>4, <3>5, <3>6, Zenon DEF Reads
      <4>2. k = Len(T) /\ AtEnd(s2, <<>>, end)
        BY <3>2, <4>1, Zenon DEF EndsWell
      <4>3. s2 \in Stages
        BY <4>1, Zenon DEF EndsAs, Stages
      <4> QED
        BY <2>7, <2>7a, <4>1, <4>2, <4>3
    <3>7. ASSUME Passes(s, u, b[t + 2])
          PROVE  /\ k + 1 \in 1..Len(T) /\ T[k + 1] = PassedText(Front(u))
                 /\ <<s, <<>>, k + 1>> \in G[t + 2]
      <4>1. s = "listening" /\ Goes(Rest(text))
        BY <3>5, <3>7, Zenon DEF Passes
      <4>2. k + 1 = Len(T) /\ T[k + 1] = PassedText(Rest(text)) /\ AtEnd(s, <<>>, end)
        BY <3>2, <4>1, Zenon DEF EndsWell
      <4>3. k + 1 \in 1..Len(T) /\ k + 1 \in 0..Len(T)
        BY <4>2
      <4> QED
        BY <2>7, <2>7a, <3>5, <4>2, <4>3
    <3> QED
      BY <3>6, <3>7
  <2> QED
    BY <2>8, <2>8a, <2>9
<1>12. ASSUME NEW x \in 0..(t + 2), NEW s1, NEW u, NEW j, <<s1, u, j>> \in G[x]
       PROVE  /\ j \in 0..Len(T)
              /\ x < t + 2 =>
                   /\ \A s2, u2 : Reads(s1, u, b[x + 1], s2, u2) => <<s2, u2, j>> \in G[x + 1]
                   /\ Passes(s1, u, b[x + 1]) =>
                        /\ j + 1 \in 1..Len(T) /\ T[j + 1] = PassedText(Front(u))
                        /\ <<s1, <<>>, j + 1>> \in G[x + 1]
              /\ x = t + 2 => j = Len(T) /\ AtEnd(s1, u, end)
  <2>1. j \in 0..Len(T) /\ InLine(b, s, k, T, end, x, s1, u, j)
    BY <1>6, <1>12
  <2>2. CASE x = t + 2
    BY <1>3, <2>1, <2>2 DEF InLine
  <2>3. ASSUME x < t + 2
        PROVE s1 = s /\ j = k /\ u = Kept(b, x) /\ (s = "listening" \/ x < Unit)
    BY <1>3, <2>1, <2>3 DEF InLine
  <2>4. CASE x = t + 1
    <3>1. x < t + 2 /\ x + 1 = t + 2 /\ x # t + 2
      BY <2>4
    <3> QED
      BY <1>11, <2>1, <2>3, <2>4, <3>1, ZenonT(60)
  <2>5. CASE x \in 0..t
    <3>1. x < t + 2 /\ x # t + 2
      BY <2>5
    <3>2. ~Passes(s, u, b[x + 1])
      BY <1>10, <2>3, <2>5, <3>1, Zenon DEF Passes
    <3> QED
      BY <1>10, <2>1, <2>3, <2>5, <3>1, <3>2, ZenonT(60)
  <2>6. x = t + 2 \/ x = t + 1 \/ x \in 0..t
    OBVIOUS
  <2> QED
    BY <2>2, <2>4, <2>5, <2>6
<1>13. Paths(G, b, T, end)
  BY <1>3, <1>12, ZenonT(60) DEF Paths
<1>14. <<s, <<>>, k>> \in G[0]
  <2>1. 0 \in 0..(t + 2) /\ 0 < t + 2 /\ 0 < Unit /\ 0 \in Nat
    BY <1>9
  <2>2. Kept(b, 0) = <<>>
    <3>1. 0 % Unit = 0
      BY <1>8, <2>1
    <3>2. Kept(b, 0) \in Seq(Chars) /\ Len(Kept(b, 0)) = 0
      BY <1>7, <2>1, <3>1
    <3> QED
      BY <3>2, EmptySeq
  <2>3. InLine(b, s, k, T, end, 0, s, <<>>, k)
    BY <1>3, <2>1, <2>2 DEF InLine
  <2>4. <<>> \in Seq(Chars)
    OBVIOUS
  <2> QED
    BY <1>6, <2>1, <2>3, <2>4
<1> QED
  BY <1>1, <1>13, <1>14

LEMMA TailOfMore ==
  ASSUME NEW c \in Chars, NEW v \in Seq(Chars)
  PROVE  /\ <<c>> \o v \in Seq(Chars) /\ <<c>> \o v # <<>> /\ Len(<<c>> \o v) = Len(v) + 1
         /\ (<<c>> \o v)[1] = c /\ Tail(<<c>> \o v) = v
<1>1. PICK e, w : e = <<c>> /\ w = e \o v
  OBVIOUS
<1>2. PICK n \in Nat : n = Len(v)
  BY LenProperties
<1>3. e \in Seq(Chars) /\ Len(e) = 1 /\ e[1] = c
  BY <1>1
<1>4. /\ w \in Seq(Chars) /\ Len(w) = n + 1
      /\ \A i \in 1..(n + 1) : w[i] = IF i <= 1 THEN e[i] ELSE v[i - 1]
  <2>1. /\ w \in Seq(Chars) /\ Len(w) = Len(e) + Len(v)
        /\ \A i \in 1..(Len(e) + Len(v)) : w[i] = IF i <= Len(e) THEN e[i] ELSE v[i - Len(e)]
    BY <1>1, <1>3, ConcatProperties, Zenon
  <2> QED
    BY <1>2, <1>3, <2>1
<1>5. w # <<>> /\ w[1] = c
  <2>1. 1 \in 1..(n + 1)
    OBVIOUS
  <2>2. w[1] = c
    BY <1>3, <1>4, <2>1
  <2>3. Len(w) # 0
    BY <1>4
  <2> QED
    BY <2>2, <2>3
<1>6. PICK u : u = Tail(w)
  OBVIOUS
<1>7. u \in Seq(Chars) /\ Len(u) = n /\ \A i \in 1..n : u[i] = w[i + 1]
  <2>1. u \in Seq(Chars) /\ Len(u) = Len(w) - 1 /\ \A i \in 1..Len(u) : u[i] = w[i + 1]
    BY <1>4, <1>5, <1>6, HeadTailProperties
  <2> QED
    BY <1>4, <2>1
<1>8. \A i \in 1..n : u[i] = v[i]
  <2> SUFFICES ASSUME NEW i \in 1..n PROVE u[i] = v[i]
    OBVIOUS
  <2>1. i + 1 \in 1..(n + 1) /\ ~(i + 1 <= 1) /\ (i + 1) - 1 = i
    OBVIOUS
  <2> QED
    BY <1>4, <1>7, <2>1
<1>9. u = v
  BY <1>2, <1>7, <1>8, SeqEqual
<1> QED
  BY <1>1, <1>2, <1>4, <1>5, <1>6, <1>9, Zenon

\* A line is read behind what was left of the line before it as one that
\* begins with it.
LEMMA LeftPath ==
  ASSUME NEW text \in Seq(Chars), NEW left, IsLeft(left), OneLine(left \o text),
         NEW s \in Stages, NEW k, NEW T, Len(T) \in Nat, NEW end, k \in 0..Len(T),
         EndsWell(left \o text, s, k, T, end)
  PROVE  \E G : Paths(G, text \o Newline, T, end) /\ <<s, left, k>> \in G[0]
<1>1. CASE left = <<>>
  <2>1. <<>> \o text = text
    OBVIOUS
  <2>2. OneLine(text) /\ EndsWell(text, s, k, T, end)
    BY <1>1, <2>1
  <2> QED
    BY <1>1, <2>2, LinePath, Zenon
<1>2. CASE left = <<"\n">> /\ MaxLineLength > 0
  <2>1. PICK v : v = text \o Newline
    OBVIOUS
  <2>2. v \in Seq(Chars)
    BY <2>1, NewlineChars, ConcatProperties
  <2>3. PICK w : w = left \o v
    OBVIOUS
  <2>4. w \in Seq(Chars) /\ w # <<>> /\ Len(w) = Len(v) + 1 /\ w[1] = "\n" /\ Tail(w) = v
    BY <1>2, <2>2, <2>3, SpecialChars, TailOfMore, Zenon
  <2>5. left \in Seq(Chars)
    <3>1. \A c \in Chars : <<c>> \in Seq(Chars)
      OBVIOUS
    <3> QED
      BY <1>2, <3>1, SpecialChars, Zenon
  <2>6. left \o text \in Seq(Chars) /\ (left \o text) \o Newline = w
    <3>1. left \o text \in Seq(Chars)
      BY <2>5, ConcatProperties
    <3> QED
      BY <2>1, <2>3, <2>5, <3>1, NewlineChars, Regrouped, Zenon
  <2>7. PICK g : g = left \o text
    OBVIOUS
  <2>8. PICK S : Paths(S, g \o Newline, T, end) /\ <<s, <<>>, k>> \in S[0]
    <3>1. g \in Seq(Chars) /\ OneLine(g) /\ EndsWell(g, s, k, T, end)
      BY <2>6, <2>7
    <3> QED
      BY <3>1, LinePath, Zenon
  <2>9. Paths(S, w, T, end)
    BY <2>6, <2>7, <2>8, Zenon
  <2>10. Len(v) \in Nat /\ 0 \in 0..Len(w) /\ 0 < Len(w) /\ 0 + 1 = 1 /\ 0 \in 0..(Len(w) - 1)
    <3>1. Len(v) \in Nat
      BY <2>2, LenProperties
    <3> QED
      BY <2>4, <3>1
  <2>11. Reads(s, <<>>, "\n", s, left)
    <3>1. Len(<<>>) = 0 /\ ~(Len(<<>>) > 0) /\ Append(<<>>, "\n") = <<"\n">>
      OBVIOUS
    <3>2. ~TooLong(Len(<<>>) + 1)
      BY <1>2, <3>1, Bounds DEF TooLong
    <3> QED
      BY <1>2, <3>1, <3>2, Zenon DEF Reads, IsEnd
  <2>12. <<s, left, k>> \in S[1]
    <3>1. \A s2, u2 : Reads(s, <<>>, w[0 + 1], s2, u2) => <<s2, u2, k>> \in S[0 + 1]
      BY <2>8, <2>9, <2>10, Zenon DEF Paths
    <3> QED
      BY <2>4, <2>10, <2>11, <3>1, Zenon
  <2>13. PICK G : G = [x \in 0..(Len(w) - 1) |-> S[x + 1]]
    OBVIOUS
  <2>14. Paths(G, v, T, end)
    BY <2>4, <2>9, <2>13, PathsTail, Zenon
  <2>15. G[0] = S[1]
    BY <2>10, <2>13
  <2> QED
    BY <2>1, <2>12, <2>14, <2>15, Zenon
<1> QED
  BY <1>1, <1>2, Zenon DEF IsLeft

-----------------------------------------------------------------------------
(* The lines of the server.                                                *)

\* w is u with its m characters, then c, then v with its n.
Joins(w, u, c, v, m, n) ==
  /\ w \in Seq(Chars) /\ Len(w) = m + 1 + n
  /\ \A i \in 1..m : w[i] = u[i]
  /\ w[m + 1] = c
  /\ \A i \in 1..n : w[m + 1 + i] = v[i]

LEMMA Joined ==
  ASSUME NEW u \in Seq(Chars), NEW c \in Chars, NEW v \in Seq(Chars),
         NEW m \in Nat, m = Len(u), NEW n \in Nat, n = Len(v), NEW w, w = u \o <<c>> \o v
  PROVE  Joins(w, u, c, v, m, n)
<1>1. PICK e : e = <<c>>
  OBVIOUS
<1>2. e \in Seq(Chars) /\ Len(e) = 1 /\ e[1] = c
  BY <1>1
<1>3. PICK t : t = u \o e
  OBVIOUS
<1>4. /\ t \in Seq(Chars) /\ Len(t) = m + 1
      /\ \A i \in 1..(m + 1) : t[i] = IF i <= m THEN u[i] ELSE e[i - m]
  <2>1. /\ t \in Seq(Chars) /\ Len(t) = Len(u) + Len(e)
        /\ \A i \in 1..(Len(u) + Len(e)) : t[i] = IF i <= Len(u) THEN u[i] ELSE e[i - Len(u)]
    BY <1>2, <1>3, ConcatProperties, Zenon
  <2> QED
    BY <1>2, <2>1
<1>5. /\ w \in Seq(Chars) /\ Len(w) = m + 1 + n
      /\ \A i \in 1..(m + 1 + n) : w[i] = IF i <= m + 1 THEN t[i] ELSE v[i - (m + 1)]
  <2>0. w = t \o v
    BY <1>1, <1>3, Zenon
  <2>1. PICK z : z = t \o v
    OBVIOUS
  <2>2. /\ z \in Seq(Chars) /\ Len(z) = Len(t) + Len(v)
        /\ \A i \in 1..(Len(t) + Len(v)) : z[i] = IF i <= Len(t) THEN t[i] ELSE v[i - Len(t)]
    BY <1>4, <2>1, ConcatProperties, Zenon
  <2> QED
    BY <1>4, <2>0, <2>1, <2>2
<1>6. \A i \in 1..m : w[i] = u[i]
  BY <1>4, <1>5
<1>7. w[m + 1] = c
  <2>1. m + 1 \in 1..(m + 1) /\ m + 1 \in 1..(m + 1 + n) /\ ~(m + 1 <= m) /\ (m + 1) - m = 1
    OBVIOUS
  <2> QED
    BY <1>2, <1>4, <1>5, <2>1
<1>8. ASSUME NEW i \in 1..n PROVE w[m + 1 + i] = v[i]
  <2>1. m + 1 + i \in 1..(m + 1 + n) /\ ~(m + 1 + i <= m + 1) /\ (m + 1 + i) - (m + 1) = i
    OBVIOUS
  <2> QED
    BY <1>5, <2>1
<1> QED
  BY <1>5, <1>6, <1>7, <1>8 DEF Joins

LEMMA Found ==
  ASSUME NEW text, NEW c, NEW from \in Nat, NEW n \in Nat, n = Len(text), NEW p \in from..n,
         text[p] = c, \A i \in from..(p - 1) : text[i] # c
  PROVE  Find(text, c, from) = p
<1>1. PICK places : places = {i \in from..n : text[i] = c}
  OBVIOUS
<1>2. p \in places /\ \A i \in places : p <= i
  BY <1>1
<1>3. \A i \in places : (\A j \in places : i <= j) => i = p
  BY <1>1, <1>2
<1>4. Min(places) = p
  BY <1>2, <1>3, Zenon DEF Min
<1>5. Find(text, c, from) = IF places = {} THEN 0 ELSE Min(places)
  BY <1>1, Zenon DEF Find
<1> QED
  BY <1>2, <1>4, <1>5

LEMMA PartIs ==
  ASSUME NEW text \in Seq(Chars), NEW v \in Seq(Chars), NEW m \in Nat, NEW n \in Nat,
         n = Len(v), m + n <= Len(text), \A i \in 1..n : text[m + i] = v[i]
  PROVE  SubSeq(text, m + 1, m + n) = v
<1>1. PICK u : u = SubSeq(text, m + 1, m + n)
  OBVIOUS
<1>2. \A i \in (m + 1)..(m + n) : text[i] \in Chars
  <2>1. Len(text) \in Nat /\ \A i \in 1..Len(text) : text[i] \in Chars
    BY LenProperties, ElementOfSeq
  <2> QED
    BY <2>1
<1>3. /\ u \in Seq(Chars) /\ Len(u) = IF m + 1 <= m + n THEN (m + n) - (m + 1) + 1 ELSE 0
      /\ \A i \in 1..((m + n) - (m + 1) + 1) : u[i] = text[(m + 1) + i - 1]
  <2>1. m + 1 \in Int /\ m + n \in Int
    OBVIOUS
  <2> QED
    BY <1>1, <1>2, <2>1, SubSeqProperties, SMTT(30)
<1>4. u \in Seq(Chars) /\ Len(u) = n /\ \A i \in 1..n : u[i] = text[m + i]
  BY <1>3
<1>5. \A i \in 1..Len(u) : u[i] = v[i]
  BY <1>4
<1> QED
  BY <1>1, <1>4, <1>5, SeqEqual

\* What Receive takes out of a packet's line.
LEMMA PacketIsRead ==
  ASSUME NEW l \in LineRecord, IsPacket(l), WellFormed(l)
  PROVE  /\ IsReceived(TextOf(l))
         /\ ReceivedFrame(TextOf(l)) =
              [source |-> Callsign(l.source), destination |-> Callsign(l.destination),
               payload |-> l.payload]
<1>1. PICK a, d, p, y : a = l.source /\ d = l.destination /\ p = l.path /\ y = l.payload
  OBVIOUS
<1>2. a \in Seq(Chars) /\ d \in Seq(Chars) /\ p \in Seq(Chars) /\ y \in Seq(Chars)
  BY <1>1, TypedLines
<1>3. PICK na \in Nat, nd \in Nat, np \in Nat, ny \in Nat :
        na = Len(a) /\ nd = Len(d) /\ np = Len(p) /\ ny = Len(y)
  BY <1>2, LenProperties
<1>4. PICK t : t = TextOf(l)
  OBVIOUS
<1>5. PICK u : u = a \o <<">">> \o d
  OBVIOUS
<1>6. PICK v : v = u \o <<",">> \o p
  OBVIOUS
<1>7. t = v \o <<":">> \o y
  BY <1>1, <1>4, <1>5, <1>6, Zenon DEF TextOf
<1>8. /\ u \in Seq(Chars) /\ Len(u) = na + 1 + nd /\ u[na + 1] = ">"
      /\ \A i \in 1..na : u[i] = a[i]
      /\ \A i \in 1..nd : u[na + 1 + i] = d[i]
  <2>1. Joins(u, a, ">", d, na, nd)
    BY <1>2, <1>3, <1>5, SpecialChars, Joined, Zenon
  <2> QED
    BY <2>1 DEF Joins
<1>9. PICK nu \in Nat : nu = na + 1 + nd
  OBVIOUS
<1>10. /\ v \in Seq(Chars) /\ Len(v) = nu + 1 + np /\ v[nu + 1] = ","
       /\ \A i \in 1..nu : v[i] = u[i]
       /\ \A i \in 1..np : v[nu + 1 + i] = p[i]
  <2>1. Joins(v, u, ",", p, nu, np)
    BY <1>2, <1>3, <1>6, <1>8, <1>9, SpecialChars, Joined, Zenon
  <2> QED
    BY <2>1 DEF Joins
<1>11. PICK nv \in Nat : nv = nu + 1 + np
  OBVIOUS
<1>12. /\ t \in Seq(Chars) /\ Len(t) = nv + 1 + ny /\ t[nv + 1] = ":"
       /\ \A i \in 1..nv : t[i] = v[i]
       /\ \A i \in 1..ny : t[nv + 1 + i] = y[i]
  <2>1. Joins(t, v, ":", y, nv, ny)
    BY <1>2, <1>3, <1>7, <1>10, <1>11, SpecialChars, Joined, Zenon
  <2> QED
    BY <2>1 DEF Joins
<1>13. \A i \in 1..na : t[i] = a[i]
  <2>1. \A i \in 1..na : i \in 1..nu /\ i \in 1..nv
    BY <1>9, <1>11
  <2> QED
    BY <1>8, <1>10, <1>12, <2>1
<1>14. t[na + 1] = ">" /\ \A i \in 1..nd : t[na + 1 + i] = d[i]
  <2>1. na + 1 \in 1..nu /\ na + 1 \in 1..nv
    BY <1>9, <1>11
  <2>2. \A i \in 1..nd : na + 1 + i \in 1..nu /\ na + 1 + i \in 1..nv
    BY <1>9, <1>11
  <2> QED
    BY <1>8, <1>10, <1>12, <2>1, <2>2
<1>15. t[nu + 1] = "," /\ \A i \in 1..np : t[nu + 1 + i] = p[i]
  <2>1. nu + 1 \in 1..nv
    BY <1>11
  <2>2. \A i \in 1..np : nu + 1 + i \in 1..nv
    BY <1>11
  <2> QED
    BY <1>10, <1>12, <2>1, <2>2
<1>16. /\ \A i \in 1..na : a[i] # ">" /\ a[i] # ":"
       /\ \A i \in 1..nd : d[i] # "," /\ d[i] # ":"
       /\ \A i \in 1..np : p[i] # ":"
  BY <1>1, <1>3, Zenon DEF WellFormed, Lacks
<1>17. Find(t, ">", 1) = na + 1
  <2>1. PICK n \in Nat : n = Len(t)
    BY <1>12
  <2>2. na + 1 \in 1..n /\ (na + 1) - 1 = na
    BY <1>9, <1>11, <1>12, <2>1
  <2>3. \A i \in 1..na : t[i] # ">"
    BY <1>13, <1>16, Zenon
  <2> QED
    BY <1>14, <2>1, <2>2, <2>3, Found
<1>18. Find(t, ",", na + 1) = nu + 1
  <2>1. PICK n \in Nat : n = Len(t)
    BY <1>12
  <2>2. nu + 1 \in (na + 1)..n
    BY <1>9, <1>11, <1>12, <2>1
  <2>3. ASSUME NEW i \in (na + 1)..((nu + 1) - 1) PROVE t[i] # ","
    <3>1. CASE i = na + 1
      BY <1>14, <3>1
    <3>2. CASE i # na + 1
      <4>1. PICK j \in 1..nd : i = na + 1 + j
        <5>1. i - (na + 1) \in 1..nd /\ i = na + 1 + (i - (na + 1))
          BY <1>9, <3>2
        <5> QED
          BY <5>1
      <4> QED
        BY <1>14, <1>16, <4>1
    <3> QED
      BY <3>1, <3>2
  <2>4. PICK m \in Nat, q \in Nat : m = na + 1 /\ q = nu + 1
    OBVIOUS
  <2>5. q \in m..n /\ t[q] = "," /\ \A i \in m..(q - 1) : t[i] # ","
    BY <1>15, <2>2, <2>3, <2>4
  <2>6. Find(t, ",", m) = q
    BY <2>1, <2>5, Found
  <2> QED
    BY <2>4, <2>6
<1>19. Find(t, ":", 1) = nv + 1
  <2>1. PICK n \in Nat : n = Len(t)
    BY <1>12
  <2>2. nv + 1 \in 1..n
    BY <1>12, <2>1
  <2>3. ASSUME NEW i \in 1..((nv + 1) - 1) PROVE t[i] # ":"
    <3>1. CASE i \in 1..na
      BY <1>13, <1>16, <3>1
    <3>2. CASE i = na + 1 \/ i = nu + 1
      BY <1>14, <1>15, <3>2
    <3>3. CASE i > na + 1 /\ i < nu + 1
      <4>1. PICK j \in 1..nd : i = na + 1 + j
        <5>1. i - (na + 1) \in 1..nd /\ i = na + 1 + (i - (na + 1))
          BY <1>9, <3>3
        <5> QED
          BY <5>1
      <4> QED
        BY <1>14, <1>16, <4>1
    <3>4. CASE i > nu + 1
      <4>1. PICK j \in 1..np : i = nu + 1 + j
        <5>1. i - (nu + 1) \in 1..np /\ i = nu + 1 + (i - (nu + 1))
          BY <1>11, <3>4
        <5> QED
          BY <5>1
      <4> QED
        BY <1>15, <1>16, <4>1
    <3> QED
      BY <3>1, <3>2, <3>3, <3>4
  <2> QED
    BY <1>12, <2>1, <2>2, <2>3, Found
<1>20. IsReceived(t)
  <2>1. na + 1 # 0 /\ nu + 1 # 0 /\ nv + 1 # 0
    OBVIOUS
  <2> QED
    BY <1>17, <1>18, <1>19, <2>1, Zenon DEF IsReceived
<1>21. SubSeq(t, 1, (na + 1) - 1) = a
  <2>1. \A i \in 1..na : t[0 + i] = a[i]
    BY <1>13
  <2>2. 0 + na <= Len(t) /\ 0 \in Nat
    BY <1>9, <1>11, <1>12
  <2>3. SubSeq(t, 0 + 1, 0 + na) = a
    BY <1>2, <1>3, <1>12, <2>1, <2>2, PartIs
  <2>4. 0 + 1 = 1 /\ 0 + na = (na + 1) - 1
    OBVIOUS
  <2> QED
    BY <2>3, <2>4
<1>22. SubSeq(t, (na + 1) + 1, (nu + 1) - 1) = d
  <2>1. PICK m \in Nat : m = na + 1
    OBVIOUS
  <2>2. m + nd <= Len(t) /\ \A i \in 1..nd : t[m + i] = d[i]
    BY <1>9, <1>11, <1>12, <1>14, <2>1
  <2>3. SubSeq(t, m + 1, m + nd) = d
    <3>1. t \in Seq(Chars) /\ d \in Seq(Chars) /\ nd = Len(d)
      BY <1>2, <1>3, <1>12
    <3> QED
      BY <2>2, <3>1, PartIs
  <2>4. m + nd = (nu + 1) - 1
    BY <1>9, <2>1
  <2> QED
    BY <2>1, <2>3, <2>4
<1>23. SubSeq(t, (nv + 1) + 1, Len(t)) = y
  <2>1. PICK m \in Nat : m = nv + 1
    OBVIOUS
  <2>2. m + ny <= Len(t) /\ \A i \in 1..ny : t[m + i] = y[i]
    BY <1>12, <2>1
  <2>3. SubSeq(t, m + 1, m + ny) = y
    <3>1. t \in Seq(Chars) /\ y \in Seq(Chars) /\ ny = Len(y)
      BY <1>2, <1>3, <1>12
    <3> QED
      BY <2>2, <3>1, PartIs
  <2> QED
    BY <1>12, <2>1, <2>3
<1>24. ReceivedFrame(t) = [source |-> Callsign(a), destination |-> Callsign(d), payload |-> y]
  BY <1>17, <1>18, <1>19, <1>21, <1>22, <1>23, Zenon DEF ReceivedFrame, Payload
<1> QED
  BY <1>1, <1>4, <1>20, <1>24

-----------------------------------------------------------------------------
(* What a line adds to what is expected, and to what will be passed on.    *)

Texts == {LineText(l) : l \in LineRecord}

LEMMA WholeLineHeld ==
  ASSUME NEW text \in Seq(Chars), Len(text) + 2 <= MaxLineLength
  PROVE  HeldAtEnd(text) > 1 /\ Rest(text) = text
<1>1. PICK n \in Nat : n = Len(text)
  BY LenProperties
<1>2. n + 2 \in Nat /\ n + 2 < Unit /\ Unit \in Nat \ {0}
  BY <1>1, Bounds DEF Unit
<1>3. HeldAtEnd(text) = n + 2
  BY <1>1, <1>2, CountOn DEF HeldAtEnd
<1>4. Rest(text) = SubSeq(text, 1, n)
  <2>1. n + 2 - (n + 2) + 1 = 1
    OBVIOUS
  <2> QED
    BY <1>1, <1>3, <2>1 DEF Rest
<1> QED
  BY <1>1, <1>3, <1>4, SubSeqFull

\* A well-formed packet goes on exactly when it is expected, as it is expected.
LEMMA PacketGoesOn ==
  ASSUME NEW l \in LineRecord, IsPacket(l), Fits(l), WellFormed(l)
  PROVE  /\ Goes(TextOf(l)) <=> HasText(l)
         /\ PassedText(TextOf(l)) = LineText(l)
<1>1. PICK f : f = ReceivedFrame(TextOf(l))
  OBVIOUS
<1>2. /\ IsReceived(TextOf(l)) /\ ~StartsWith(TextOf(l), <<"#">>)
      /\ f.source = Callsign(l.source) /\ f.destination = Callsign(l.destination)
      /\ f.payload = l.payload
  <2>1. PICK a, d, y : a = Callsign(l.source) /\ d = Callsign(l.destination) /\ y = l.payload
    OBVIOUS
  <2>2. IsReceived(TextOf(l)) /\ f = [source |-> a, destination |-> d, payload |-> y]
    BY <1>1, <2>1, PacketIsRead, Zenon
  <2>3. f.source = a /\ f.destination = d /\ f.payload = y
    BY <2>2
  <2>4. ~StartsWith(TextOf(l), <<"#">>)
    BY Zenon DEF WellFormed
  <2> QED
    BY <2>1, <2>2, <2>3, <2>4
<1>3. Callsign(l.destination) = Broadcast <=> l.destination = Broadcast.callsign
  BY Zenon DEF WellFormed
<1>4. Goes(TextOf(l)) <=> HasText(l)
  BY <1>1, <1>2, <1>3, Zenon DEF Goes, IsBroadcast, HasText
<1>5. PassedText(TextOf(l)) = LineText(l)
  BY <1>1, <1>2, Zenon DEF PassedText, LineText
<1> QED
  BY <1>4, <1>5

LEMMA TypedTexts ==
  ASSUME NEW T \in Seq(Texts), NEW l \in LineRecord
  PROVE  /\ Len(T) \in Nat
         /\ Append(T, LineText(l)) \in Seq(Texts) /\ Len(Append(T, LineText(l))) = Len(T) + 1
         /\ Append(T, LineText(l))[Len(T) + 1] = LineText(l)
         /\ \A i \in 1..Len(T) : Append(T, LineText(l))[i] = T[i]
<1>1. LineText(l) \in Texts
  BY Zenon DEF Texts
<1>2. PICK e \in Texts : e = LineText(l)
  BY <1>1
<1>3. /\ Append(T, e) \in Seq(Texts) /\ Len(Append(T, e)) = Len(T) + 1
      /\ Append(T, e)[Len(T) + 1] = e
      /\ \A i \in 1..Len(T) : Append(T, e)[i] = T[i]
  BY AppendProperties
<1>4. Len(T) \in Nat
  BY LenProperties
<1> QED
  BY <1>2, <1>3, <1>4, Zenon

LEMMA BehindNothing == ASSUME NEW l \in LineRecord PROVE Behind(l, <<>>) = l
<1>1. PICK a \in Seq(Chars), y \in Seq(Chars) : a = l.source /\ y = l.payload
  BY TypedLines
<1>2. <<>> \o a = a /\ <<>> \o y = y
  OBVIOUS
<1>3. [l EXCEPT !.source = a] = l /\ [l EXCEPT !.payload = y] = l
  BY <1>1 DEF LineRecord
<1> QED
  BY <1>1, <1>2, <1>3, Zenon DEF Behind

\* A "\n" before a line ends none.
LEMMA OneLineBehind ==
  ASSUME NEW text \in Seq(Chars), OneLine(text), NEW left, IsLeft(left)
  PROVE  OneLine(left \o text)
<1>1. CASE left = <<>>
  <2>1. <<>> \o text = text
    OBVIOUS
  <2> QED
    BY <1>1, <2>1
<1>2. CASE left = <<"\n">>
  <2>1. PICK w : w = left \o text
    OBVIOUS
  <2>2. PICK n \in Nat : n = Len(text)
    BY LenProperties
  <2>3. w \in Seq(Chars) /\ w # <<>> /\ Len(w) = n + 1 /\ w[1] = "\n" /\ Tail(w) = text
    BY <1>2, <2>1, <2>2, SpecialChars, TailOfMore, Zenon
  <2>4. \A i \in 1..n : text[i] = w[i + 1]
    <3>1. /\ Len(text) = Len(w) - 1
          /\ \A i \in 1..Len(text) : text[i] = w[i + 1]
      BY <2>3, HeadTailProperties
    <3> QED
      BY <2>2, <3>1
  <2>5. ASSUME NEW i \in 1..n PROVE <<w[i], w[i + 1]>> # Newline
    <3>1. CASE i = 1
      <4>1. w[i] = "\n"
        BY <2>3, <3>1
      <4>2. "\n" # "\r"
        BY Zenon
      <4>3. w[i] # "\r"
        BY <4>1, <4>2, Zenon
      <4> QED
        BY <4>3 DEF Newline
    <3>2. CASE i # 1
      <4>1. PICK j \in 1..(Len(text) - 1) : i = j + 1
        <5>1. i - 1 \in 1..(n - 1) /\ i = (i - 1) + 1
          BY <3>2
        <5> QED
          BY <2>2, <5>1
      <4>2. w[i] = text[j] /\ w[i + 1] = text[j + 1]
        <5>1. j \in 1..n /\ j + 1 \in 1..n
          BY <2>2, <4>1
        <5> QED
          BY <2>4, <4>1, <5>1
      <4>3. <<text[j], text[j + 1]>> # Newline
        BY <4>1, Zenon DEF OneLine
      <4> QED
        BY <4>2, <4>3, Zenon
    <3> QED
      BY <3>1, <3>2
  <2>6. (n + 1) - 1 = n
    OBVIOUS
  <2> QED
    BY <2>1, <2>3, <2>5, <2>6, Zenon DEF OneLine
<1> QED
  BY <1>1, <1>2, Zenon DEF IsLeft

\* A line behind what was left is read as the server's soundness says.
LEMMA SoundBehind ==
  ASSUME ServerIsSound, NEW l \in Lines, l \in LineRecord, NEW left, IsLeft(left)
  PROVE  ReadSoundly(Behind(l, left))
<1>1. ReadSoundly(l) /\ ReadSoundly(Behind(l, <<"\n">>))
  BY Zenon DEF ServerIsSound
<1>2. Behind(l, <<>>) = l
  BY BehindNothing
<1> QED
  BY <1>1, <1>2, Zenon DEF IsLeft

\* Where the session is when all lines given are read.
End == [lines |-> Len(given), left |-> Left]

\* The line g as it is given in the stage in which all before it has been
\* read, and what it leads to.
LineIsGiven(l, g, s, T, more, end) ==
  /\ s \in Stages
  /\ l \in LineRecord /\ g \in LineRecord
  /\ TextOf(g) = Left \o TextOf(l) /\ OneLine(TextOf(g)) /\ IsLeft(Left)
  /\ more = IF HasText(g) THEN Append(T, LineText(g)) ELSE T
  /\ EndsWell(TextOf(g), s, Len(T), more, end)

LEMMA LineEndsWell ==
  ASSUME TypeOK, ServerIsSound, NEW l \in MayGive, NEW s, AtStage(s, Len(given)),
         NEW g, g = Behind(l, Left), NEW T, T = Expected, T \in Seq(Texts),
         NEW more, more = TextsOf(Append(given, g)),
         NEW end, end = [lines |-> Len(given) + 1, left |-> LeftBehind(TextOf(g))]
  PROVE  LineIsGiven(l, g, s, T, more, end)
<1>1. /\ given \in Seq(LineRecord) /\ l \in ServerLines /\ l \in LineRecord
      /\ IsLeft(Left) /\ Left \in Seq(Chars)
  <2>1. given \in Seq(LineRecord) /\ l \in ServerLines /\ l \in LineRecord
    BY ServerLinesGiven, Zenon DEF TypeOK
  <2> QED
    BY <2>1, LeftIs
<1>2. PICK n \in Nat : n = Len(given)
  BY <1>1, LenProperties
<1>3a. /\ g \in LineRecord /\ (IsPacket(g) <=> IsPacket(l)) /\ TextOf(g) = Left \o TextOf(l)
  BY <1>1, BehindIs
<1>3. more = IF HasText(g) THEN Append(T, LineText(g)) ELSE T
  BY <1>1, <1>3a, TextsOfMore, Zenon DEF Expected
<1>4. s \in Stages
  BY Zenon DEF AtStage, Stages
<1>5. PICK text : text = TextOf(g)
  OBVIOUS
<1>6. text \in Seq(Chars)
  BY <1>3a, <1>5, LineIsText
<1>6a. OneLine(text)
  <2>1. TextOf(l) \in Seq(Chars) /\ OneLine(TextOf(l))
    BY <1>1, LineIsText, Zenon DEF ServerIsSound
  <2> QED
    BY <1>1, <1>3a, <1>5, <2>1, OneLineBehind, Zenon
\* Where the line leads to.
<1>6b. ASSUME NEW s2, AtStage(s2, n + 1)
       PROVE  /\ AtEnd(s2, LeftBehind(text), end)
              /\ HeldAtEnd(text) > 1 => AtEnd(s2, <<>>, end)
  <2>1. PICK left : left = LeftBehind(text)
    OBVIOUS
  <2>2. end.lines = n + 1 /\ end.left = left
    BY <1>2, <1>5, <2>1
  <2>3. AtEnd(s2, left, end)
    BY <1>6b, <2>2, Zenon DEF AtEnd
  <2>4. HeldAtEnd(text) > 1 => HeldAtEnd(text) # 1
    OBVIOUS
  <2>5. HeldAtEnd(text) > 1 => left = <<>>
    BY <2>1, <2>4, Zenon DEF LeftBehind
  <2> QED
    BY <2>1, <2>3, <2>5
<1>7. ASSUME EndsWell(text, s, Len(T), more, end)
      PROVE  LineIsGiven(l, g, s, T, more, end)
  BY <1>1, <1>3, <1>3a, <1>4, <1>5, <1>6a, <1>7, Zenon DEF LineIsGiven
<1>11. given = <<>> <=> n = 0
  BY <1>1, <1>2, EmptySeq
\* During the login.
<1>8. CASE n = 0 \/ n = 1
  <2>1. l \in Greetings \cup {Answer}
    <3>1. CASE n = 0
      <4>1. given = <<>>
        BY <1>11, <3>1
      <4>2. l \in Greetings
        BY <4>1 DEF MayGive
      <4> QED
        BY <4>2
    <3>2. CASE n = 1
      <4>1. given # <<>>
        BY <1>11, <3>2
      <4>2. l = Answer
        BY <1>2, <3>2, <4>1, Zenon DEF MayGive
      <4> QED
        BY <4>2
    <3> QED
      BY <1>8, <3>1, <3>2
  <2>2. ~HasText(g)
    BY <1>3a, <2>1, Zenon DEF ServerIsSound, HasText
  <2>3. s # "listening" /\ \A s2 : EndsAs(s, Rest(text), s2) => AtStage(s2, n + 1)
    <3>1. CASE n = 0
      <4>1. n + 1 = 1 /\ n # 1 /\ ~(n > 1)
        BY <3>1
      <4>2. s = "reading version"
        BY <1>2, <4>1, Zenon DEF AtStage
      <4>3. s # "listening" /\ s # "authenticating"
        BY <4>2, Zenon
      <4> QED
        BY <4>1, <4>3, Zenon DEF EndsAs, AtStage
    <3>2. CASE n = 1
      <4>1. n + 1 > 1 /\ n # 0 /\ ~(n > 1)
        BY <3>2
      <4>2. s = "authenticating"
        BY <1>2, <4>1, Zenon DEF AtStage
      <4>3. s # "listening" /\ s # "reading version"
        BY <4>2, Zenon
      <4> QED
        BY <4>1, <4>3, Zenon DEF EndsAs, AtStage
    <3> QED
      BY <1>8, <3>1, <3>2
  <2>4. more = T
    BY <1>3, <2>2
  <2>5. EndsWell(text, s, Len(T), more, end)
    BY <1>6b, <2>3, <2>4, Zenon DEF EndsWell
  <2> QED
    BY <1>7, <2>5
<1>9. CASE n > 1
  <2>1. given # <<>> /\ n # 1 /\ n # 0
    BY <1>9, <1>11
  <2>2. l \in Lines /\ s = "listening"
    <3>1. l \in Lines
      BY <1>2, <2>1, Zenon DEF MayGive
    <3>2. AtStage(s, n)
      BY <1>2
    <3> QED
      BY <2>1, <3>1, <3>2, Zenon DEF AtStage
  <2>3. AtStage(s, n + 1)
    <3>1. n + 1 > 1
      BY <1>9
    <3> QED
      BY <2>2, <3>1, Zenon DEF AtStage
  <2>4. \A s2 : EndsAs(s, Rest(text), s2) => s2 = s /\ ~Goes(Rest(text))
    <3>1. s # "reading version" /\ s # "authenticating"
      BY <2>2
    <3> QED
      BY <3>1, Zenon DEF EndsAs
  <2>5. ReadSoundly(g)
    BY <1>1, <2>2, SoundBehind, Zenon
  <2>5a. /\ AtEnd(s, LeftBehind(text), end)
         /\ HeldAtEnd(text) > 1 => AtEnd(s, <<>>, end)
    BY <1>6b, <2>3
  <2>6. CASE IsPacket(g) /\ Fits(g)
    <3>1. WellFormed(g)
      BY <2>5, <2>6, Zenon DEF ReadSoundly
    <3>2. HeldAtEnd(text) > 1 /\ Rest(text) = text
      BY <1>5, <1>6, <2>6, WholeLineHeld DEF Fits
    <3>3. (Goes(text) <=> HasText(g)) /\ PassedText(text) = LineText(g)
      BY <1>3a, <1>5, <2>6, <3>1, PacketGoesOn
    <3>4. ASSUME ~HasText(g) PROVE EndsWell(text, s, Len(T), more, end)
      BY <1>3, <2>4, <2>5a, <3>2, <3>3, <3>4, Zenon DEF EndsWell
    <3>5. ASSUME HasText(g) PROVE EndsWell(text, s, Len(T), more, end)
      <4>1. Len(T) + 1 = Len(more) /\ more[Len(T) + 1] = LineText(g)
        BY <1>3, <1>3a, <3>5, TypedTexts
      <4> QED
        BY <2>4, <2>5a, <3>2, <3>3, <3>5, <4>1, Zenon DEF EndsWell
    <3> QED
      BY <1>7, <3>4, <3>5
  <2>7. CASE ~(IsPacket(g) /\ Fits(g))
    <3>1. HeldAtEnd(text) > 1 => ~Goes(Rest(text))
      BY <1>5, <2>5, <2>7, Zenon DEF ReadSoundly, NoPacket
    <3>2. more = T
      BY <1>3, <2>7, Zenon DEF HasText
    <3>3. EndsWell(text, s, Len(T), more, end)
      BY <2>4, <2>5a, <3>1, <3>2, Zenon DEF EndsWell
    <3> QED
      BY <1>7, <3>3
  <2> QED
    BY <2>6, <2>7
<1>10. n = 0 \/ n = 1 \/ n > 1
  OBVIOUS
<1> QED
  BY <1>8, <1>9, <1>10

LEMMA OneStage == ASSUME NEW n \in Nat, NEW s, AtStage(s, n), NEW s2, AtStage(s2, n) PROVE s2 = s
<1>1. ~(n = 0 /\ n = 1) /\ ~(n = 0 /\ n > 1) /\ ~(n = 1 /\ n > 1)
  OBVIOUS
<1>2. CASE n = 0 /\ s = "reading version"
  BY <1>1, <1>2, Zenon DEF AtStage
<1>3. CASE n = 1 /\ s = "authenticating"
  BY <1>1, <1>3, Zenon DEF AtStage
<1>4. CASE n > 1 /\ s = "listening"
  BY <1>1, <1>4, Zenon DEF AtStage
<1> QED
  BY <1>2, <1>3, <1>4, Zenon DEF AtStage

LEMMA SomeStage == ASSUME NEW n \in Nat PROVE \E s : AtStage(s, n)
<1>1. n = 0 => AtStage("reading version", n)
  BY DEF AtStage
<1>2. n = 1 => AtStage("authenticating", n)
  BY DEF AtStage
<1>3. n > 1 => AtStage("listening", n)
  BY DEF AtStage
<1>4. n = 0 \/ n = 1 \/ n > 1
  OBVIOUS
<1> QED
  BY <1>1, <1>2, <1>3, <1>4

\* Whatever is given, the paths go on to its end.
LEMMA GivenPath ==
  ASSUME TypeOK, ServerIsSound, NEW l \in MayGive, NEW g, g = Behind(l, Left),
         Expected \in Seq(Texts), NEW S, Paths(S, stream, Expected, End),
         NEW more, more = TextsOf(Append(given, g)),
         NEW end, end = [lines |-> Len(given) + 1, left |-> LeftBehind(TextOf(g))]
  PROVE  LeadsOn(S, stream \o TextOf(l) \o Newline, more, end)
<1>1. given \in Seq(LineRecord) /\ stream \in Seq(Chars)
  BY Zenon DEF TypeOK
<1>2. PICK n \in Nat : n = Len(given)
  BY <1>1, LenProperties
<1>3. PICK s : AtStage(s, n)
  BY <1>2, SomeStage
<1>4. PICK T : T = Expected
  OBVIOUS
<1>5. PICK k \in Nat : k = Len(T)
  BY <1>4, LenProperties
<1>6. LineIsGiven(l, g, s, T, more, end)
  <2>1. AtStage(s, Len(given)) /\ T \in Seq(Texts)
    BY <1>2, <1>3, <1>4
  <2> QED
    BY <1>4, <2>1, LineEndsWell, Zenon
<1>6a. /\ s \in Stages /\ l \in LineRecord /\ g \in LineRecord
       /\ TextOf(g) = Left \o TextOf(l) /\ OneLine(TextOf(g)) /\ IsLeft(Left)
       /\ more = IF HasText(g) THEN Append(T, LineText(g)) ELSE T
       /\ EndsWell(TextOf(g), s, k, more, end)
  BY <1>5, <1>6, Zenon DEF LineIsGiven
<1>7. /\ Len(more) \in Nat /\ k \in 0..Len(more)
      /\ \A i \in 1..k : i \in 1..Len(more) /\ more[i] = T[i]
  <2>1. CASE HasText(g)
    <3>1. Len(more) = k + 1 /\ \A i \in 1..k : more[i] = T[i]
      BY <1>4, <1>5, <1>6a, <2>1, TypedTexts
    <3> QED
      BY <3>1
  <2>2. CASE ~HasText(g)
    <3>1. more = T
      BY <1>6a, <2>2
    <3> QED
      BY <1>5, <3>1
  <2> QED
    BY <2>1, <2>2
<1>8. PICK text, left : text = TextOf(l) /\ left = Left
  OBVIOUS
<1>9. /\ text \in Seq(Chars) /\ IsLeft(left) /\ OneLine(left \o text)
      /\ EndsWell(left \o text, s, k, more, end)
  BY <1>6a, <1>8, LineIsText, Zenon
<1>10. PICK G : Paths(G, text \o Newline, more, end) /\ <<s, left, k>> \in G[0]
  BY <1>6a, <1>7, <1>9, LeftPath, Zenon
<1>11. PICK v : v = text \o Newline
  OBVIOUS
<1>12. v \in Seq(Chars)
  BY <1>9, <1>11, NewlineChars, ConcatProperties
<1>13. stream \o text \o Newline = stream \o v
  <2>1. PICK e \in Seq(Chars) : e = Newline
    BY NewlineChars
  <2>2. stream \o text \o e = stream \o (text \o e)
    BY <1>1, <1>9, Regrouped, Zenon
  <2> QED
    BY <1>11, <2>1, <2>2, Zenon
<1>14. ASSUME NEW s2, NEW u2, AtEnd(s2, u2, End) PROVE <<s2, u2, Len(T)>> \in G[0]
  <2>1. PICK here : here = End
    OBVIOUS
  <2>2. here.lines = n /\ here.left = left
    BY <1>2, <1>8, <2>1 DEF End
  <2>3. u2 = left /\ AtStage(s2, n)
    BY <1>14, <2>1, <2>2, Zenon DEF AtEnd
  <2>4. s2 = s
    BY <1>3, <2>3, OneStage, Zenon
  <2> QED
    BY <1>5, <1>10, <2>3, <2>4
<1>15. /\ \A i \in 0..Len(T) : i \in 0..Len(more)
       /\ \A i \in 1..Len(T) : i \in 1..Len(more) /\ more[i] = T[i]
  BY <1>5, <1>7
<1>16. LeadsOn(S, stream \o v, more, end)
  <2>1. PICK w, here : w = stream /\ here = End
    OBVIOUS
  <2>2. Paths(S, w, T, here) /\ Paths(G, v, more, end) /\ w \in Seq(Chars)
    BY <1>1, <1>4, <1>10, <1>11, <2>1, Zenon
  <2>3. \A s2, u2 : AtEnd(s2, u2, here) => <<s2, u2, Len(T)>> \in G[0]
    BY <1>14, <2>1, Zenon
  <2>4. LeadsOn(S, w \o v, more, end)
    <3>1. \A i \in 0..Len(T) : i \in 0..Len(more)
      BY <1>15, Zenon
    <3>2. \A i \in 1..Len(T) : i \in 1..Len(more) /\ more[i] = T[i]
      BY <1>15, Zenon
    <3> QED
      BY <1>12, <2>2, <2>3, <3>1, <3>2, PathsJoin, ZenonT(60)
  <2> QED
    BY <2>1, <2>4, Zenon
<1> QED
  BY <1>8, <1>13, <1>16, Zenon

-----------------------------------------------------------------------------
(* A session.                                                              *)

\* From stage s with the line u and k texts passed on, reading w passes on
\* the others of T.
Ahead(s, u, w, T, end, k) == \E S : Paths(S, w, T, end) /\ <<s, u, k>> \in S[0]

\* So it does after the character c.
StaysAhead(s, u, c, w, T, end, k) ==
  /\ \A s2, u2 : Reads(s, u, c, s2, u2) => Ahead(s2, u2, w, T, end, k)
  /\ Passes(s, u, c) =>
       /\ k + 1 \in 1..Len(T) /\ T[k + 1] = PassedText(Front(u))
       /\ Ahead(s, <<>>, w, T, end, k + 1)

LEMMA AheadReads ==
  ASSUME NEW w \in Seq(Chars), w # <<>>, NEW s, NEW u, NEW T, NEW end, NEW k,
         Ahead(s, u, w, T, end, k)
  PROVE  StaysAhead(s, u, Head(w), Tail(w), T, end, k)
<1>1. PICK S : Paths(S, w, T, end) /\ <<s, u, k>> \in S[0]
  BY Zenon DEF Ahead
<1>2. PICK G : G = [x \in 0..(Len(w) - 1) |-> S[x + 1]]
  OBVIOUS
<1>3. Paths(G, Tail(w), T, end)
  BY <1>1, <1>2, PathsTail, Zenon
<1>4. Len(w) \in Nat /\ 0 \in 0..Len(w) /\ 0 < Len(w) /\ 0 \in 0..(Len(w) - 1) /\ 0 + 1 = 1
  BY EmptySeq, LenProperties
<1>5. G[0] = S[1]
  BY <1>2, <1>4
<1>6. Head(w) = w[1]
  OBVIOUS
<1>7. /\ \A s2, u2 : Reads(s, u, w[0 + 1], s2, u2) => <<s2, u2, k>> \in S[0 + 1]
      /\ Passes(s, u, w[0 + 1]) =>
           /\ k + 1 \in 1..Len(T) /\ T[k + 1] = PassedText(Front(u))
           /\ <<s, <<>>, k + 1>> \in S[0 + 1]
  BY <1>1, <1>4, Zenon DEF Paths
<1>8. /\ \A s2, u2 : Reads(s, u, Head(w), s2, u2) => <<s2, u2, k>> \in G[0]
      /\ Passes(s, u, Head(w)) =>
           /\ k + 1 \in 1..Len(T) /\ T[k + 1] = PassedText(Front(u))
           /\ <<s, <<>>, k + 1>> \in G[0]
  BY <1>4, <1>5, <1>6, <1>7, Zenon
<1> QED
  BY <1>3, <1>8, Zenon DEF StaysAhead, Ahead

\* When all was read, all of them are passed on.
LEMMA AheadEnds ==
  ASSUME NEW s, NEW u, NEW T, NEW end, NEW k, Ahead(s, u, <<>>, T, end, k)
  PROVE  k = Len(T)
<1>1. PICK w : w = <<>>
  OBVIOUS
<1>2. 0 = Len(w) /\ 0 \in 0..Len(w)
  BY <1>1
<1>3. PICK S : Paths(S, w, T, end) /\ <<s, u, k>> \in S[0]
  BY <1>1, Zenon DEF Ahead
<1>4. 0 = Len(w) => k = Len(T) /\ AtEnd(s, u, end)
  BY <1>2, <1>3, Zenon DEF Paths
<1> QED
  BY <1>2, <1>4

LEMMA AheadGoesOn ==
  ASSUME NEW s, NEW u, NEW w, NEW v, NEW T, NEW more, NEW end, NEW end2, NEW k,
         Ahead(s, u, w, T, end, k),
         \A S : Paths(S, w, T, end) => LeadsOn(S, v, more, end2)
  PROVE  Ahead(s, u, v, more, end2, k)
<1>1. PICK S : Paths(S, w, T, end) /\ <<s, u, k>> \in S[0]
  BY Zenon DEF Ahead
<1>2. PICK U : Paths(U, v, more, end2) /\ <<s, u, k>> \in U[0]
  BY <1>1, Zenon DEF LeadsOn
<1> QED
  BY <1>2, Zenon DEF Ahead

\* Nothing is ahead when the session begins.
LEMMA AheadAtFirst ==
  ASSUME NEW end, end = [lines |-> 0, left |-> <<>>]
  PROVE  Ahead("reading version", <<>>, <<>>, <<>>, end, 0)
<1>1. PICK w : w = <<>>
  OBVIOUS
<1>2. Len(w) = 0 /\ 0 \in 0..0 /\ ~(0 < 0) /\ \A x \in 0..0 : x = 0
  BY <1>1
<1>3. PICK S : S = [x \in {0} |-> {<<"reading version", w, 0>>}]
  OBVIOUS
<1>4. \A s, u, k : <<s, u, k>> \in S[0] <=> s = "reading version" /\ u = w /\ k = 0
  BY <1>3
<1>5. AtEnd("reading version", w, end)
  <2>1. end.lines = 0 /\ end.left = w
    BY <1>1
  <2>2. AtStage("reading version", 0)
    BY Zenon DEF AtStage
  <2> QED
    BY <2>1, <2>2, Zenon DEF AtEnd
<1>6. Paths(S, w, w, end)
  BY <1>1, <1>2, <1>4, <1>5, Zenon DEF Paths
<1> QED
  BY <1>1, <1>4, <1>6, Zenon DEF Ahead

\* The first ones of a sequence.
LEMMA FirstOnes ==
  ASSUME NEW C, NEW T \in Seq(C), NEW k \in 0..Len(T)
  PROVE  /\ SubSeq(T, 1, k) \in Seq(C) /\ Len(SubSeq(T, 1, k)) = k
         /\ \A i \in 1..k : SubSeq(T, 1, k)[i] = T[i]
<1>1. Len(T) \in Nat /\ \A i \in 1..Len(T) : T[i] \in C
  BY LenProperties, ElementOfSeq
<1>2. \A i \in 1..k : T[i] \in C
  BY <1>1
<1>3. PICK u : u = SubSeq(T, 1, k)
  OBVIOUS
<1>4. /\ u \in Seq(C) /\ Len(u) = IF 1 <= k THEN k - 1 + 1 ELSE 0
      /\ \A i \in 1..(k - 1 + 1) : u[i] = T[1 + i - 1]
  BY <1>1, <1>2, <1>3, SubSeqProperties
<1> QED
  BY <1>1, <1>3, <1>4

LEMMA FirstOfMore ==
  ASSUME NEW C, NEW T \in Seq(C), NEW more \in Seq(C), NEW k \in 0..Len(T), k \in 0..Len(more),
         \A i \in 1..k : more[i] = T[i]
  PROVE  SubSeq(more, 1, k) = SubSeq(T, 1, k)
<1>1. PICK u, v : u = SubSeq(T, 1, k) /\ v = SubSeq(more, 1, k)
  OBVIOUS
<1>2. u \in Seq(C) /\ Len(u) = k /\ \A i \in 1..k : u[i] = T[i]
  BY <1>1, FirstOnes
<1>3. v \in Seq(C) /\ Len(v) = k /\ \A i \in 1..k : v[i] = more[i]
  BY <1>1, FirstOnes
<1>4. \A i \in 1..Len(v) : v[i] = u[i]
  BY <1>2, <1>3
<1> QED
  BY <1>1, <1>2, <1>3, <1>4, SeqEqual

LEMMA OneMore ==
  ASSUME NEW C, NEW T \in Seq(C), NEW k \in 0..Len(T), k + 1 \in 1..Len(T)
  PROVE  SubSeq(T, 1, k + 1) = Append(SubSeq(T, 1, k), T[k + 1])
<1>1. PICK u, v : u = SubSeq(T, 1, k) /\ v = SubSeq(T, 1, k + 1)
  OBVIOUS
<1>2. u \in Seq(C) /\ Len(u) = k /\ \A i \in 1..k : u[i] = T[i]
  BY <1>1, FirstOnes
<1>3. PICK m \in 0..Len(T) : m = k + 1
  OBVIOUS
<1>4. v \in Seq(C) /\ Len(v) = m /\ \A i \in 1..m : v[i] = T[i]
  BY <1>1, <1>3, FirstOnes
<1>5. PICK e \in C : e = T[k + 1]
  BY ElementOfSeq
<1>6. PICK a : a = Append(u, e)
  OBVIOUS
<1>7. a \in Seq(C) /\ Len(a) = k + 1 /\ a[k + 1] = e /\ \A i \in 1..k : a[i] = u[i]
  BY <1>2, <1>6, AppendProperties
<1>8. ASSUME NEW i \in 1..m PROVE v[i] = a[i]
  <2>1. CASE i = k + 1
    BY <1>3, <1>4, <1>5, <1>7, <2>1
  <2>2. CASE i # k + 1
    <3>1. i \in 1..k
      BY <1>3, <2>2
    <3> QED
      BY <1>2, <1>4, <1>7, <3>1
  <2> QED
    BY <2>1, <2>2
<1>9. v = a
  BY <1>3, <1>4, <1>7, <1>8, SeqEqual
<1> QED
  BY <1>1, <1>5, <1>6, <1>9

-----------------------------------------------------------------------------
\* What was passed on are the first ones of what is expected, and as long as
\* the session lives what is still to be read brings the others.
PassedFirst(k) ==
  /\ pushed = SubSeq(Expected, 1, k)
  /\ running /\ stage # "connecting" =>
       Ahead(stage, line, stream, Expected, End, k)

SessionIsSound ==
  /\ Expected \in Seq(Texts)
  /\ \E k \in 0..Len(Expected) : PassedFirst(k)
  /\ stage = "connecting" => stream = <<>> /\ line = <<>> /\ given = <<>>

LEMMA SoundAtFirst == Init => SessionIsSound
<1> SUFFICES ASSUME Init PROVE SessionIsSound
  OBVIOUS
<1>1. /\ stage = "connecting" /\ stream = <<>> /\ line = <<>> /\ given = <<>>
      /\ pushed = <<>>
  BY Zenon DEF Init, DispatchInit
<1>2. PICK T : T = Expected
  OBVIOUS
<1>3. T = <<>>
  BY <1>1, <1>2, NoTexts, Zenon DEF Expected
<1>4. T \in Seq(Texts) /\ 0 \in 0..Len(T) /\ SubSeq(T, 1, 0) = <<>>
  BY <1>3
<1>5. PassedFirst(0)
  BY <1>1, <1>2, <1>4, Zenon DEF PassedFirst
<1> QED
  BY <1>1, <1>2, <1>4, <1>5, Zenon DEF SessionIsSound

\* What the server gives next is ahead as well.
LEMMA SoundGiven == ServerIsSound /\ TypeOK /\ SessionIsSound /\ ServerGives => SessionIsSound'
<1> SUFFICES ASSUME ServerIsSound, TypeOK, SessionIsSound, ServerGives PROVE SessionIsSound'
  OBVIOUS
<1>1. PICK l \in MayGive : /\ stream' = stream \o TextOf(l) \o Newline
                           /\ given' = Append(given, Behind(l, Left))
  BY Zenon DEF ServerGives
<1>2. UNCHANGED <<pushed, running, stage, line>>
  BY DEF ServerGives, dispatchVars, sessionVars
<1>3. PICK g : g = Behind(l, Left)
  OBVIOUS
<1>3a. given \in Seq(LineRecord) /\ g \in LineRecord /\ given' = Append(given, g)
  <2>1. given \in Seq(LineRecord) /\ l \in LineRecord
    BY ServerLinesGiven, Zenon DEF TypeOK
  <2>2. Left \in Seq(Chars)
    BY <2>1, LeftIs
  <2> QED
    BY <1>1, <1>3, <2>1, <2>2, BehindIs, Zenon
<1>4. PICK T, more : T = Expected /\ more = Expected'
  OBVIOUS
<1>5. more = TextsOf(Append(given, g)) /\ more = IF HasText(g) THEN Append(T, LineText(g)) ELSE T
  <2>1. more = TextsOf(Append(given, g))
    BY <1>3a, <1>4 DEF Expected
  <2> QED
    BY <1>3a, <1>4, <2>1, TextsOfMore, Zenon DEF Expected
<1>6. T \in Seq(Texts) /\ stage # "connecting"
  <2>1. stage # "connecting"
    BY DEF SessionIsSound, MayGive
  <2> QED
    BY <1>4, <2>1 DEF SessionIsSound
<1>7. /\ more \in Seq(Texts)
      /\ \A i \in 0..Len(T) : i \in 0..Len(more)
      /\ \A i \in 1..Len(T) : more[i] = T[i]
  <2>1. CASE HasText(g)
    <3>1. more = Append(T, LineText(g))
      BY <1>5, <2>1
    <3>2. /\ Len(T) \in Nat /\ more \in Seq(Texts) /\ Len(more) = Len(T) + 1
          /\ \A i \in 1..Len(T) : more[i] = T[i]
      BY <1>3a, <1>6, <3>1, TypedTexts
    <3> QED
      BY <3>2
  <2>2. CASE ~HasText(g)
    BY <1>5, <1>6, <2>2
  <2> QED
    BY <2>1, <2>2
<1>8. PICK k \in 0..Len(T) : PassedFirst(k)
  BY <1>4 DEF SessionIsSound
<1>9. pushed' = SubSeq(more, 1, k)
  <2>1. SubSeq(more, 1, k) = SubSeq(T, 1, k)
    <3>1. \A i \in 1..k : more[i] = T[i]
      <4>1. Len(T) \in Nat
        BY <1>6, LenProperties
      <4> QED
        BY <1>7, <4>1
    <3> QED
      BY <1>6, <1>7, <3>1, FirstOfMore
  <2> QED
    BY <1>2, <1>4, <1>8, <2>1 DEF PassedFirst
<1>10. PICK end : end = [lines |-> Len(given) + 1, left |-> LeftBehind(TextOf(g))]
  OBVIOUS
<1>10a. End' = end
  <2>1. PICK n \in Nat : n = Len(given)
    BY <1>3a, LenProperties
  <2>2. PICK lines : lines = Append(given, g)
    OBVIOUS
  <2>3. Len(lines) = n + 1 /\ lines[n + 1] = g
    BY <1>3a, <2>1, <2>2, AppendProperties
  <2>4. Last(lines) = g
    BY <2>3, Zenon DEF Last
  <2>5. lines # <<>>
    BY <2>1, <2>3
  <2>6. given' = lines
    BY <1>3a, <2>2, Zenon
  <2>7. Left' = IF lines = <<>> THEN <<>> ELSE LeftBehind(TextOf(Last(lines)))
    BY <2>6 DEF Left
  <2>8. Left' = LeftBehind(TextOf(g))
    BY <2>4, <2>5, <2>7
  <2>9. End' = [lines |-> Len(lines), left |-> Left']
    BY <2>6 DEF End
  <2> QED
    BY <1>10, <2>1, <2>3, <2>8, <2>9
<1>11. ASSUME running
       PROVE  Ahead(stage, line, stream', more, End', k)
  <2>1. Ahead(stage, line, stream, T, End, k)
    BY <1>4, <1>6, <1>8, <1>11, Zenon DEF PassedFirst
  <2>2. PICK v, here : v = stream' /\ here = End
    OBVIOUS
  <2>3. ASSUME NEW S, Paths(S, stream, T, here) PROVE LeadsOn(S, v, more, end)
    <3>1. Paths(S, stream, Expected, End) /\ Expected \in Seq(Texts)
      BY <1>4, <1>6, <2>2, <2>3
    <3>2. LeadsOn(S, stream \o TextOf(l) \o Newline, more, end)
      BY <1>3, <1>5, <1>10, <3>1, GivenPath, Zenon
    <3> QED
      BY <1>1, <2>2, <3>2, Zenon
  <2>4. Ahead(stage, line, v, more, end, k)
    BY <2>1, <2>2, <2>3, AheadGoesOn, Zenon
  <2> QED
    BY <1>10a, <2>2, <2>4, Zenon
<1>12. PassedFirst(k)'
  BY <1>2, <1>4, <1>9, <1>11, Zenon DEF PassedFirst
<1> QED
  BY <1>2, <1>4, <1>6, <1>7, <1>12, Zenon DEF SessionIsSound

LEMMA SameEnd == given' = given => End' = End
  BY DEF End, Left

\* What one character brings: k2 are passed on then.
LEMMA SoundRead ==
  ASSUME TypeOK, SessionIsSound, Read, NEW T, T = Expected
  PROVE  /\ T \in Seq(Texts) /\ Expected' = T /\ given' = given /\ stage' # "connecting"
         /\ \E k2 \in 0..Len(T) : /\ PassedFirst(k2)'
                                  /\ \/ pushed' = pushed
                                     \/ k2 > 0 /\ pushed' = Append(pushed, T[k2])
<1>1. /\ running /\ stage # "connecting" /\ stream # <<>>
      /\ stream' = Tail(stream) /\ given' = given
      /\ \/ pushed' = pushed /\ running' = FALSE
         \/ pushed' = pushed /\ Reads(stage, line, Head(stream), stage', line')
         \/ /\ Passes(stage, line, Head(stream))
            /\ stage' = stage /\ line' = <<>>
            /\ pushed' = Append(pushed, PassedText(Front(line)))
  BY ReadSteps, Zenon
<1>2. stage' # "connecting"
  BY <1>1, Zenon DEF Read, ReadOn, ReadTooLong, ReadServerVersion, ReadAnswer, Receive
<1>3. Expected' = T
  BY <1>1 DEF Expected
<1>4. T \in Seq(Texts) /\ Len(T) \in Nat
  <2>1. T \in Seq(Texts)
    BY DEF SessionIsSound
  <2> QED
    BY <2>1, LenProperties
<1>5. PICK k \in 0..Len(T) : PassedFirst(k)
  BY DEF SessionIsSound
<1>6. /\ pushed = SubSeq(T, 1, k)
      /\ Ahead(stage, line, stream, T, End, k)
  BY <1>1, <1>5, Zenon DEF PassedFirst
<1>7. stream \in Seq(Chars)
  BY DEF TypeOK
<1>8. /\ \A s2, u2 : Reads(stage, line, Head(stream), s2, u2)
                       => Ahead(s2, u2, Tail(stream), T, End, k)
      /\ Passes(stage, line, Head(stream)) =>
           /\ k + 1 \in 1..Len(T) /\ T[k + 1] = PassedText(Front(line))
           /\ Ahead(stage, <<>>, Tail(stream), T, End, k + 1)
  <2>1. StaysAhead(stage, line, Head(stream), Tail(stream), T, End, k)
    BY <1>1, <1>6, <1>7, AheadReads, Zenon
  <2> QED
    BY <2>1, Zenon DEF StaysAhead
<1>9. ASSUME NEW j \in 0..Len(T), pushed' = SubSeq(T, 1, j),
             running' => Ahead(stage', line', Tail(stream), T, End, j)
      PROVE  PassedFirst(j)'
  <2>1. End' = End
    BY <1>1, SameEnd
  <2> QED
    BY <1>1, <1>3, <1>9, <2>1, Zenon DEF PassedFirst
<1>10. CASE pushed' = pushed /\ running' = FALSE
  <2>1. PassedFirst(k)'
    BY <1>6, <1>9, <1>10, Zenon
  <2> QED
    BY <1>1, <1>2, <1>3, <1>4, <1>10, <2>1, Zenon
<1>11. CASE pushed' = pushed /\ Reads(stage, line, Head(stream), stage', line')
  <2>1. Ahead(stage', line', Tail(stream), T, End, k)
    BY <1>8, <1>11, Zenon
  <2>2. PassedFirst(k)'
    BY <1>6, <1>9, <1>11, <2>1, Zenon
  <2> QED
    BY <1>1, <1>2, <1>3, <1>4, <1>11, <2>2, Zenon
<1>12. CASE /\ Passes(stage, line, Head(stream))
            /\ stage' = stage /\ line' = <<>>
            /\ pushed' = Append(pushed, PassedText(Front(line)))
  <2>1. /\ k + 1 \in 1..Len(T) /\ T[k + 1] = PassedText(Front(line))
        /\ Ahead(stage, <<>>, Tail(stream), T, End, k + 1)
    BY <1>8, <1>12, Zenon
  <2>2. PICK j \in 0..Len(T) : j = k + 1 /\ j > 0
    BY <1>4, <2>1
  <2>3. pushed' = SubSeq(T, 1, j) /\ pushed' = Append(pushed, T[j])
    <3>1. SubSeq(T, 1, k + 1) = Append(SubSeq(T, 1, k), T[k + 1])
      BY <1>4, <2>1, OneMore
    <3> QED
      BY <1>6, <1>12, <2>1, <2>2, <3>1, Zenon
  <2>4. Ahead(stage', line', Tail(stream), T, End, j)
    BY <1>12, <2>1, <2>2, Zenon
  <2>5. PassedFirst(j)'
    BY <1>9, <2>3, <2>4, Zenon
  <2> QED
    BY <1>1, <1>2, <1>3, <1>4, <2>2, <2>3, <2>5, Zenon
<1> QED
  BY <1>1, <1>10, <1>11, <1>12, Zenon

\* The connection ends, or the session goes no further.
LEMMA SoundAtEnd ==
  ASSUME SessionIsSound, UNCHANGED <<pushed, stream, given, stage, line>>,
         running' = FALSE \/ running' = running
  PROVE  SessionIsSound'
<1>1. Expected' = Expected
  BY Zenon DEF Expected
<1>2. PICK k \in 0..Len(Expected) : PassedFirst(k)
  BY Zenon DEF SessionIsSound
<1>3. /\ pushed' = pushed /\ stream' = stream /\ given' = given
      /\ stage' = stage /\ line' = line
  OBVIOUS
<1>4. ASSUME running', stage' # "connecting"
      PROVE  Ahead(stage', line', stream', Expected', End', k)
  <2>1. running /\ stage # "connecting"
    BY <1>3, <1>4
  <2>2. Ahead(stage, line, stream, Expected, End, k)
    BY <1>2, <2>1, Zenon DEF PassedFirst
  <2>3. End' = End
    BY <1>3, SameEnd
  <2> QED
    BY <1>1, <1>3, <2>2, <2>3, Zenon
<1>5. PassedFirst(k)'
  BY <1>1, <1>2, <1>3, <1>4, Zenon DEF PassedFirst
<1> QED
  BY <1>1, <1>3, <1>5, Zenon DEF SessionIsSound

LEMMA SoundConnected == SessionIsSound /\ Connect => SessionIsSound'
<1> SUFFICES ASSUME SessionIsSound, Connect PROVE SessionIsSound'
  OBVIOUS
<1>1. CASE Exit
  <2>1. UNCHANGED <<pushed, stream, given, stage, line>> /\ running' = FALSE
    BY <1>1 DEF Exit, sessionVars
  <2> QED
    BY <2>1, SoundAtEnd
<1>2. CASE stage' = "reading version" /\ UNCHANGED <<dispatchVars, line, stream, given>>
  <2>1. /\ line' = <<>> /\ stream' = <<>> /\ given' = <<>> /\ stage' = "reading version"
        /\ pushed' = pushed /\ given = <<>>
    BY <1>2 DEF SessionIsSound, Connect, dispatchVars
  <2>2. Expected = <<>> /\ Expected' = <<>>
    <3>1. TextsOf(<<>>) = <<>>
      BY NoTexts
    <3> QED
      BY <2>1, <3>1, Zenon DEF Expected
  <2>3. PICK T : T = <<>>
    OBVIOUS
  <2>4. T \in Seq(Texts) /\ Len(T) = 0 /\ 0 \in 0..0 /\ \A k \in 0..0 : k = 0
    BY <2>3
  <2>5. PICK k \in 0..0 : PassedFirst(k)
    BY <2>2, <2>3, <2>4 DEF SessionIsSound
  <2>6. PassedFirst(0)
    BY <2>4, <2>5
  <2>7. PICK end : end = [lines |-> 0, left |-> <<>>]
    OBVIOUS
  <2>8. Ahead(stage', line', stream', Expected', end, 0)
    BY <2>1, <2>2, <2>7, AheadAtFirst, Zenon
  <2>8a. End' = end
    BY <2>1, <2>7 DEF End, Left
  <2>9. PassedFirst(0)'
    BY <2>1, <2>2, <2>6, <2>8, <2>8a, Zenon DEF PassedFirst
  <2>10. stage' # "connecting"
    BY <2>1, Zenon
  <2> QED
    BY <2>2, <2>3, <2>4, <2>9, <2>10, Zenon DEF SessionIsSound
<1> QED
  BY <1>1, <1>2, Zenon DEF Connect

LEMMA SoundStep == ServerIsSound /\ TypeOK /\ SessionIsSound /\ [Next]_vars => SessionIsSound'
<1> SUFFICES ASSUME ServerIsSound, TypeOK, SessionIsSound, [Next]_vars PROVE SessionIsSound'
  OBVIOUS
<1>1. CASE ServerGives
  BY <1>1, SoundGiven
<1>2. CASE Connect
  BY <1>2, SoundConnected
<1>3. CASE Read
  <2>1. PICK T : T = Expected
    OBVIOUS
  <2>2. /\ T \in Seq(Texts) /\ Expected' = T /\ stage' # "connecting"
        /\ \E k2 \in 0..Len(T) : PassedFirst(k2)'
    BY <1>3, <2>1, SoundRead, Zenon
  <2> QED
    BY <2>2, Zenon DEF SessionIsSound
<1>4. CASE LoginTimeout \/ ConnectionLost
  <2>1. UNCHANGED <<pushed, stream, given, stage, line>> /\ running' = FALSE
    BY <1>4 DEF LoginTimeout, ConnectionLost, Exit, sessionVars
  <2> QED
    BY <2>1, SoundAtEnd
<1>5. CASE UNCHANGED vars
  <2>1. UNCHANGED <<pushed, stream, given, stage, line, running>>
    BY <1>5 DEF vars, dispatchVars, sessionVars
  <2> QED
    BY <2>1, SoundAtEnd
<1> QED
  BY <1>1, <1>2, <1>3, <1>4, <1>5, Zenon DEF Next

LEMMA SoundInvariance == ServerIsSound => (Spec => []SessionIsSound)
<1> SUFFICES ASSUME ServerIsSound PROVE Spec => []SessionIsSound
  OBVIOUS
<1>1. TypeOK /\ SessionIsSound /\ [Next]_vars => SessionIsSound'
  BY SoundStep, Zenon
<1> QED
  BY <1>1, SoundAtFirst, TypeCorrect, PTL DEF Spec

\* NoPacketSkipped: with a server whose lines are sound, also behind what is
\* left of a line cut at the limit, when the stream has been read every packet
\* to the broadcast callsign within the limit has been passed on, however long
\* the lines between them were.
THEOREM NoPacketIsSkipped == ASSUME ServerIsSound PROVE Spec => []NoPacketSkipped
<1>1. SessionIsSound => NoPacketSkipped
  <2> SUFFICES ASSUME SessionIsSound, running, stage = "listening", stream = <<>>
               PROVE  Len(pushed) >= Len(Expected)
    BY DEF NoPacketSkipped
  <2>1. PICK T \in Seq(Texts) : T = Expected
    BY Zenon DEF SessionIsSound
  <2>2. PICK k \in 0..Len(T) : PassedFirst(k)
    BY <2>1, Zenon DEF SessionIsSound
  <2>3. stage # "connecting"
    BY Zenon
  <2>4. pushed = SubSeq(T, 1, k) /\ Ahead(stage, line, <<>>, T, End, k)
    BY <2>1, <2>2, <2>3, Zenon DEF PassedFirst
  <2>5. k = Len(T)
    BY <2>4, AheadEnds, Zenon
  <2>6. pushed = T
    BY <2>4, <2>5, SubSeqFull
  <2>7. Len(T) \in Nat
    BY LenProperties
  <2> QED
    BY <2>1, <2>6, <2>7
<1> QED
  BY <1>1, SoundInvariance, PTL

\* ImplementsFrameLink: a session keeps what FrameLink says of every
\* implementation of Receive: the packets within the limit are passed on each
\* once, in order, none is passed over and nothing is cut out of another line.
THEOREM SessionRefinement == ASSUME ServerIsSound PROVE Spec => ImplementsFrameLink
<1>1. Init => Interface!Init
  BY NoTexts, Zenon DEF Init, DispatchInit, Interface!Init, Expected
<1>2. TypeOK /\ SessionIsSound /\ [Next]_vars => [Interface!Next]_Interface!vars
  <2> SUFFICES ASSUME TypeOK, SessionIsSound, [Next]_vars
               PROVE  [Interface!Next]_Interface!vars
    OBVIOUS
  <2>1. ASSUME UNCHANGED <<given, pushed>> PROVE [Interface!Next]_Interface!vars
    BY <2>1, Zenon DEF Interface!vars, Expected
  <2>2. CASE ServerGives
    <3>1. given \in Seq(LineRecord) /\ UNCHANGED pushed
      BY <2>2, Zenon DEF ServerGives, dispatchVars, TypeOK
    <3>2. PICK l \in LineRecord : given' = Append(given, l)
      <4>1. PICK l \in MayGive : given' = Append(given, Behind(l, Left))
        BY <2>2, Zenon DEF ServerGives
      <4>2. l \in LineRecord /\ Left \in Seq(Chars)
        BY <3>1, ServerLinesGiven, LeftIs, Zenon
      <4>3. Behind(l, Left) \in LineRecord
        BY <4>2, BehindIs
      <4> QED
        BY <4>1, <4>3, Zenon
    <3>3. Expected' = IF HasText(l) THEN Append(Expected, LineText(l)) ELSE Expected
      BY <3>1, <3>2, TextsOfMore, Zenon DEF Expected
    <3>4. CASE HasText(l)
      <4>1. PICK b, x : b = Expected /\ x = LineText(l)
        OBVIOUS
      <4>2. b \in Seq(Texts)
        BY <4>1, Zenon DEF SessionIsSound
      <4>3. Expected' = Append(b, x)
        BY <3>3, <3>4, <4>1
      <4>4. x \in Range(Expected')
        BY <4>2, <4>3 DEF Range
      <4>5. Interface!Give
        BY <3>1, <4>1, <4>3, <4>4, Zenon DEF Interface!Give, Interface!Range, Range
      <4> QED
        BY <4>5 DEF Interface!Next
    <3>5. CASE ~HasText(l)
      BY <3>1, <3>3, <3>5, Zenon DEF Interface!vars
    <3> QED
      BY <3>4, <3>5
  <2>3. CASE Read
    <3>1. PICK T : T = Expected
      OBVIOUS
    <3>2. T \in Seq(Texts) /\ Expected' = T /\ given' = given
      BY <2>3, <3>1, SoundRead, Zenon
    <3>3. PICK k \in 0..Len(T) : /\ PassedFirst(k)'
                                 /\ \/ pushed' = pushed
                                    \/ k > 0 /\ pushed' = Append(pushed, T[k])
      BY <2>3, <3>1, SoundRead, Zenon
    <3>4. CASE k > 0 /\ pushed' = Append(pushed, T[k])
      <4>1. k \in 1..Len(T)
        BY <3>4
      <4>2. T[k] \in Range(T)
        BY <3>2, <4>1 DEF Range
      <4>3. PICK u : u = SubSeq(T, 1, k)
        OBVIOUS
      <4>4. pushed' = u
        BY <3>2, <3>3, <4>3, Zenon DEF PassedFirst
      <4>5. Len(u) = k /\ k <= Len(T) /\ u \in Seq(Texts)
        BY <3>2, <4>1, <4>3, FirstOnes
      <4>6. SubSeq(u, 1, Len(u)) = u
        BY <4>5, SubSeqFull
      <4>7. IsPrefix(u, T)
        BY <4>3, <4>5, <4>6, Zenon DEF IsPrefix
      <4>8. Interface!Pass
        BY <3>1, <3>2, <3>4, <4>2, <4>4, <4>7, Zenon
           DEF Interface!Pass, Interface!Range, Interface!IsPrefix, Range, IsPrefix
      <4> QED
        BY <4>8 DEF Interface!Next
    <3> QED
      BY <2>1, <3>2, <3>3, <3>4
  <2>4. CASE Connect
    BY <2>1, <2>4, Zenon DEF Connect, Exit, dispatchVars
  <2>5. CASE LoginTimeout \/ ConnectionLost
    BY <2>1, <2>5, Zenon DEF LoginTimeout, ConnectionLost, Exit
  <2>6. CASE UNCHANGED vars
    BY <2>1, <2>6, Zenon DEF vars, dispatchVars
  <2> QED
    BY <2>2, <2>3, <2>4, <2>5, <2>6, Zenon DEF Next
<1> QED
  BY <1>1, <1>2, TypeCorrect, SoundInvariance,
     PTL DEF Spec, ImplementsFrameLink, Interface!Spec
=============================================================================
