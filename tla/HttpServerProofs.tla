--------------------------- MODULE HttpServerProofs ---------------------------
(***************************************************************************)
(* What a client that waits for its answers may rely on, for every set of  *)
(* requests, every size of the buffer and however the reads cut what it    *)
(* sends.                                                                  *)
(***************************************************************************)
EXTENDS HttpServerProps, FiniteSetTheorems, SequenceTheorems,
        WellFoundedInduction, TLAPS

-----------------------------------------------------------------------------
(* The units of a message *)

HeadSize(r) == Len(Lines[r]) + 4

LEMMA RequestTypes ==
  ASSUME NEW r \in Requests
  PROVE  /\ Lines[r] \in Seq(LineKinds)
         /\ Len(Lines[r]) \in Nat
         /\ Length[r] \in Nat
         /\ HeadSize(r) \in Nat
  BY RequestsAssumption DEF HeadSize

LEMMA HeadUnits ==
  ASSUME NEW r \in Requests
  PROVE  /\ RequestHead(r) \in Seq(Units)
         /\ Len(RequestHead(r)) = HeadSize(r)
         /\ RequestHead(r)[1] = Unit("verb", r)
         /\ RequestHead(r)[2] = Unit("uri", r)
         /\ RequestHead(r)[3] = Unit("version", r)
         /\ \A i \in 4 .. HeadSize(r) - 1 : RequestHead(r)[i] = Unit(Lines[r][i - 3], r)
         /\ RequestHead(r)[HeadSize(r)] = Unit("end", r)
<1> DEFINE kinds == <<"verb", "uri", "version">> \o Lines[r] \o <<"end">>
<1>1. /\ kinds \in Seq(Kinds)
      /\ Len(kinds) = HeadSize(r)
      /\ kinds[1] = "verb" /\ kinds[2] = "uri" /\ kinds[3] = "version"
      /\ \A i \in 4 .. HeadSize(r) - 1 : kinds[i] = Lines[r][i - 3]
      /\ kinds[HeadSize(r)] = "end"
  BY RequestTypes DEF HeadSize, Kinds
<1>2. RequestHead(r) = [i \in 1 .. Len(kinds) |-> Unit(kinds[i], r)]
  BY DEF RequestHead
<1> HIDE DEF kinds
<1>3. \A i \in 1 .. Len(kinds) : Unit(kinds[i], r) \in Units
  BY <1>1 DEF Unit, Units
<1> QED
  BY <1>1, <1>2, <1>3, RequestTypes DEF HeadSize

LEMMA MessageUnits ==
  ASSUME NEW r \in Requests
  PROVE  /\ Message(r) \in Seq(Units)
         /\ Len(Message(r)) = HeadSize(r) + Length[r]
         /\ Message(r)[1].kind = "verb"
         /\ Message(r)[2].kind = "uri"
         /\ Message(r)[3].kind = "version"
         /\ \A i \in 4 .. HeadSize(r) - 1 : Message(r)[i].kind = Lines[r][i - 3]
         /\ Message(r)[HeadSize(r)].kind = "end"
         /\ \A i \in HeadSize(r) + 1 .. Len(Message(r)) : Message(r)[i].kind = "body"
         /\ \A i \in 1 .. Len(Message(r)) : Message(r)[i].of = r
         /\ Body(r) = SubSeq(Message(r), HeadSize(r) + 1, Len(Message(r)))
<1> DEFINE h    == HeadSize(r)
           n    == Length[r]
           head == RequestHead(r)
           body == Body(r)
           msg  == head \o body
           tail == SubSeq(msg, h + 1, h + n)
<1>1. h \in Nat /\ h >= 4 /\ n \in Nat
  BY RequestTypes DEF HeadSize
<1>2. body \in Seq(Units) /\ Len(body) = n /\ \A i \in 1 .. n : body[i] = Unit("body", r)
  <2>1. Unit("body", r) \in Units
    BY DEF Unit, Units, Kinds
  <2> QED
    BY <1>1, <2>1 DEF Body
<1>3. /\ head \in Seq(Units)
      /\ Len(head) = h
      /\ head[1].kind = "verb" /\ head[2].kind = "uri" /\ head[3].kind = "version"
      /\ \A i \in 4 .. h - 1 : head[i].kind = Lines[r][i - 3]
      /\ head[h].kind = "end"
      /\ \A i \in 1 .. h : head[i].of = r
  <2>1. \A i \in 1 .. h : i \in {1, 2, 3, h} \/ i \in 4 .. h - 1
    BY <1>1
  <2>2. /\ head[1] = Unit("verb", r) /\ head[2] = Unit("uri", r) /\ head[3] = Unit("version", r)
        /\ \A i \in 4 .. h - 1 : head[i] = Unit(Lines[r][i - 3], r)
        /\ head[h] = Unit("end", r)
    BY HeadUnits
  <2>3. head \in Seq(Units) /\ Len(head) = h
    BY HeadUnits
  <2> HIDE DEF h, head
  <2>4. /\ head[1].kind = "verb" /\ head[2].kind = "uri" /\ head[3].kind = "version"
        /\ head[h].kind = "end"
        /\ \A i \in {1, 2, 3, h} : head[i].of = r
    BY <2>2 DEF Unit
  <2>5. ASSUME NEW i \in 4 .. h - 1
        PROVE  head[i].kind = Lines[r][i - 3] /\ head[i].of = r
    <3>1. head[i] = Unit(Lines[r][i - 3], r)
      BY <2>2
    <3> QED
      BY <3>1 DEF Unit
  <2>6. ASSUME NEW i \in 1 .. h
        PROVE  head[i].of = r
    <3>1. CASE i \in {1, 2, 3, h}
      BY <2>4, <3>1
    <3>2. CASE i \in 4 .. h - 1
      BY <2>5, <3>2
    <3> QED
      BY <2>1, <3>1, <3>2
  <2>7. \A i \in 4 .. h - 1 : head[i].kind = Lines[r][i - 3]
    BY <2>5
  <2> QED
    BY <2>3, <2>4, <2>6, <2>7
<1>4. Message(r) = msg /\ Body(r) = body /\ HeadSize(r) = h /\ Length[r] = n
  BY DEF Message
<1> HIDE DEF h, n, head, body
<1>5. /\ msg \in Seq(Units)
      /\ Len(msg) = h + n
      /\ \A i \in 1 .. h + n : msg[i] = IF i <= h THEN head[i] ELSE body[i - h]
  <2>1. /\ msg \in Seq(Units)
        /\ Len(msg) = Len(head) + Len(body)
        /\ \A i \in 1 .. Len(head) + Len(body) :
             msg[i] = IF i <= Len(head) THEN head[i] ELSE body[i - Len(head)]
    BY <1>2, <1>3, ConcatProperties
  <2> HIDE DEF msg
  <2> QED
    BY <1>1, <1>2, <1>3, <2>1
<1> HIDE DEF msg
<1>6. \A i \in 1 .. h : msg[i] = head[i]
  BY <1>1, <1>5
<1>7. \A i \in h + 1 .. h + n : msg[i] = body[i - h] /\ i - h \in 1 .. n
  BY <1>1, <1>5
<1>8. \A i \in h + 1 .. h + n : msg[i].kind = "body" /\ msg[i].of = r
  BY <1>2, <1>7 DEF Unit
<1>9. /\ msg[1].kind = "verb" /\ msg[2].kind = "uri" /\ msg[3].kind = "version"
      /\ \A i \in 4 .. h - 1 : msg[i].kind = Lines[r][i - 3]
      /\ msg[h].kind = "end"
      /\ \A i \in 1 .. h : msg[i].of = r
  <2>1. 1 \in 1 .. h /\ 2 \in 1 .. h /\ 3 \in 1 .. h /\ h \in 1 .. h
    BY <1>1
  <2>2. \A i \in 4 .. h - 1 : i \in 1 .. h
    BY <1>1
  <2> QED
    BY <1>3, <1>6, <2>1, <2>2
<1>10. body = tail
  <2>1. \A i \in h + 1 .. h + n : msg[i] \in Units
    BY <1>1, <1>5, ElementOfSeq
  <2>2. h + 1 \in Int /\ h + n \in Int
    BY <1>1
  <2>3. /\ tail \in Seq(Units)
        /\ Len(tail) = IF h + 1 <= h + n THEN (h + n) - (h + 1) + 1 ELSE 0
        /\ \A i \in 1 .. (h + n) - (h + 1) + 1 : tail[i] = msg[(h + 1) + i - 1]
    BY <2>1, <2>2, SubSeqProperties
  <2> HIDE DEF tail
  <2>4. Len(tail) = n /\ \A i \in 1 .. n : tail[i] = msg[h + i] /\ h + i \in h + 1 .. h + n
    BY <1>1, <2>3
  <2>5. \A i \in 1 .. n : msg[h + i] = body[i]
    BY <1>1, <1>7
  <2>6. \A i \in 1 .. Len(body) : body[i] = tail[i]
    BY <1>2, <2>4, <2>5
  <2> QED
    BY <1>2, <2>3, <2>4, <2>6, SeqEqual
<1>11. \A i \in 1 .. h + n : msg[i].of = r
  <2>1. \A i \in 1 .. h + n : i \in 1 .. h \/ i \in h + 1 .. h + n
    BY <1>1
  <2> QED
    BY <1>8, <1>9, <2>1
<1>12. body = SubSeq(msg, h + 1, Len(msg))
  BY <1>5, <1>10 DEF tail
<1> QED
  BY <1>4, <1>5, <1>8, <1>9, <1>11, <1>12

-----------------------------------------------------------------------------
(* What the parser sees of a message of which a first part has come *)

Cut(r, buf) ==
  /\ buf \in Seq(Units)
  /\ Len(buf) <= Len(Message(r))
  /\ \A i \in 1 .. Len(buf) : buf[i] = Message(r)[i]

LEMMA LeastIs ==
  ASSUME NEW S, S \subseteq Nat, NEW m \in S, \A y \in S : m <= y
  PROVE  Least(S) = m
<1>1. \E x \in S : \A y \in S : x <= y
  OBVIOUS
<1>2. Least(S) \in S /\ \A y \in S : Least(S) <= y
  BY <1>1 DEF Least
<1>3. Least(S) \in Nat /\ m \in Nat /\ Least(S) <= m /\ m <= Least(S)
  BY <1>2
<1> QED
  BY <1>3

LEMMA LeastIn ==
  ASSUME NEW S, S \subseteq Nat, IsFiniteSet(S), S # {}
  PROVE  Least(S) \in S
<1> DEFINE Upto(k) == {y \in S : y <= k}
           T       == {Upto(k) : k \in S}
           R       == StrictSubsetOrdering(S)
<1>1. T \subseteq FiniteSubsetsOf(S)
  <2> SUFFICES ASSUME NEW k \in S
               PROVE  Upto(k) \in FiniteSubsetsOf(S)
    OBVIOUS
  <2>1. Upto(k) \in SUBSET S
    OBVIOUS
  <2> QED
    BY <2>1, FS_Subset DEF FiniteSubsetsOf
<1>2. T # {}
  OBVIOUS
<1>3. PICK X \in T : \A Y \in T : ~ (<<Y, X>> \in R)
  <2> HIDE DEF T, R
  <2>1. IsWellFoundedOn(R, FiniteSubsetsOf(S))
    BY FS_StrictSubsetOrderingWellFounded DEF R
  <2> QED
    BY <1>1, <1>2, <2>1, WFMin
<1>4. PICK k \in S : X = Upto(k)
  OBVIOUS
<1>5. \A j \in S : k <= j
  <2> SUFFICES ASSUME NEW j \in S, ~ (k <= j)
               PROVE  FALSE
    OBVIOUS
  <2>1. \A y \in S : y \in Int
    OBVIOUS
  <2>2. Upto(j) \subseteq Upto(k) /\ k \in Upto(k) /\ k \notin Upto(j)
    <3>1. j \in Int /\ k \in Int /\ j < k /\ k <= k
      BY <2>1
    <3>2. \A y \in S : y <= j => y <= k
      BY <2>1, <3>1
    <3>3. Upto(j) \subseteq Upto(k)
      BY <3>2
    <3>4. k \in Upto(k) /\ k \notin Upto(j)
      BY <3>1
    <3> QED
      BY <3>3, <3>4
  <2>3. Upto(j) \in SUBSET S /\ Upto(k) \in SUBSET S
    OBVIOUS
  <2>4. <<Upto(j), Upto(k)>> \in R
    BY <2>2, <2>3 DEF StrictSubsetOrdering
  <2> QED
    BY <1>3, <1>4, <2>4
<1> QED
  BY <1>5 DEF Least

LEMMA CutKinds ==
  ASSUME NEW r \in Requests, NEW buf, Cut(r, buf), NEW i \in 1 .. Len(buf)
  PROVE  /\ i = 1 => buf[i].kind = "verb"
         /\ i = 2 => buf[i].kind = "uri"
         /\ i = 3 => buf[i].kind = "version"
         /\ i \in 4 .. HeadSize(r) - 1 => /\ buf[i].kind = Lines[r][i - 3]
                                         /\ buf[i].kind \in LineKinds
         /\ i = HeadSize(r) => buf[i].kind = "end"
         /\ i > HeadSize(r) => buf[i].kind = "body"
         /\ buf[i].of = r
<1> DEFINE h == HeadSize(r)
           m == Message(r)
<1>1. buf[i] = m[i] /\ i \in 1 .. Len(m) /\ Len(m) \in Nat
  BY RequestTypes, MessageUnits DEF Cut
<1>2. /\ m[1].kind = "verb" /\ m[2].kind = "uri" /\ m[3].kind = "version"
      /\ \A j \in 4 .. h - 1 : m[j].kind = Lines[r][j - 3]
      /\ m[h].kind = "end"
      /\ \A j \in h + 1 .. Len(m) : m[j].kind = "body"
      /\ \A j \in 1 .. Len(m) : m[j].of = r
  BY MessageUnits
<1>3. h = Len(Lines[r]) + 4 /\ Len(Lines[r]) \in Nat /\ Lines[r] \in Seq(LineKinds)
  BY RequestTypes DEF HeadSize
<1> HIDE DEF h, m
<1>4. i \in 4 .. h - 1 => i - 3 \in 1 .. Len(Lines[r])
  BY <1>3
<1>5. i \in 4 .. h - 1 => Lines[r][i - 3] \in LineKinds
  BY <1>3, <1>4, ElementOfSeq
<1>6. i > h => i \in h + 1 .. Len(m)
  BY <1>1, <1>3
<1>7. i \in 4 .. h - 1 => buf[i].kind = Lines[r][i - 3] /\ buf[i].kind \in LineKinds
  BY <1>1, <1>2, <1>5
<1>8. i > h => buf[i].kind = "body"
  BY <1>1, <1>2, <1>6
<1>9. /\ i = 1 => buf[i].kind = "verb"
      /\ i = 2 => buf[i].kind = "uri"
      /\ i = 3 => buf[i].kind = "version"
      /\ i = h => buf[i].kind = "end"
      /\ buf[i].of = r
  BY <1>1, <1>2
<1>10. h = HeadSize(r)
  BY DEF h
<1>11. i \in 4 .. HeadSize(r) - 1 => buf[i].kind = Lines[r][i - 3] /\ buf[i].kind \in LineKinds
  BY <1>7, <1>10
<1>12. (i = HeadSize(r) => buf[i].kind = "end") /\ (i > HeadSize(r) => buf[i].kind = "body")
  BY <1>8, <1>9, <1>10
<1> QED
  BY <1>9, <1>11, <1>12

LEMMA CutPlaces ==
  ASSUME NEW r \in Requests, NEW buf, Cut(r, buf)
  PROVE  /\ Len(buf) \in Nat
         /\ DOMAIN buf = 1 .. Len(buf)
         /\ Spaces(buf) = {i \in 1 .. Len(buf) : i \in 2 .. HeadSize(r) - 1}
         /\ Places(buf, LineKinds \union {"end"}) =
              {i \in 1 .. Len(buf) : i \in 4 .. HeadSize(r)}
         /\ \A i \in 1 .. Len(buf) : buf[i].kind = "end" <=> i = HeadSize(r)
<1> DEFINE h == HeadSize(r)
           k == Len(buf)
<1>1. k \in Nat /\ DOMAIN buf = 1 .. k
  BY LenProperties DEF Cut
<1>2. h \in Nat /\ h >= 4
  BY RequestTypes DEF HeadSize
<1>3. ASSUME NEW i \in 1 .. k
      PROVE  /\ buf[i].kind \in {"uri", "version"} \union LineKinds <=> i \in 2 .. h - 1
             /\ buf[i].kind \in LineKinds \union {"end"} <=> i \in 4 .. h
             /\ buf[i].kind = "end" <=> i = h
  <2>1. i \in {1, 2, 3} \/ i \in 4 .. h - 1 \/ i = h \/ i > h
    BY <1>1, <1>2
  <2>2. CASE i \in {1, 2, 3}
    BY <1>2, <2>2, CutKinds DEF LineKinds
  <2>3. CASE i \in 4 .. h - 1
    BY <1>2, <2>3, CutKinds DEF LineKinds
  <2>4. CASE i = h
    BY <1>2, <2>4, CutKinds DEF LineKinds
  <2>5. CASE i > h
    BY <1>2, <2>5, CutKinds DEF LineKinds
  <2> QED
    BY <2>1, <2>2, <2>3, <2>4, <2>5
<1> HIDE DEF h, k
<1>4. Spaces(buf) = {i \in 1 .. k : i \in 2 .. h - 1}
  BY <1>1, <1>3 DEF Spaces, Places
<1>5. Places(buf, LineKinds \union {"end"}) = {i \in 1 .. k : i \in 4 .. h}
  BY <1>1, <1>3 DEF Places
<1> QED
  BY <1>1, <1>3, <1>4, <1>5 DEF h, k

LEMMA CutSpaces ==
  ASSUME NEW r \in Requests, NEW buf, Cut(r, buf)
  PROVE  /\ Len(buf) < 3 => ~TwoSpaces(buf)
         /\ Len(buf) >= 3 => /\ TwoSpaces(buf)
                             /\ FirstSpace(buf) = 2
                             /\ SecondSpace(buf) = 3
                             /\ buf[FirstSpace(buf)].of = r
<1> DEFINE h == HeadSize(r)
           k == Len(buf)
           spaces == Spaces(buf)
<1>1. h \in Nat /\ h >= 4 /\ k \in Nat
  BY RequestTypes, CutPlaces DEF HeadSize
<1>2. spaces = {i \in 1 .. k : i \in 2 .. h - 1}
  BY CutPlaces
<1> HIDE DEF h, k, spaces
<1>3. IsFiniteSet(spaces)
  <2>1. spaces \subseteq 1 .. k /\ IsFiniteSet(1 .. k)
    BY <1>1, <1>2, FS_Interval
  <2> QED
    BY <2>1, FS_Subset
<1>4. CASE k < 3
  <2>1. spaces \subseteq {2}
    BY <1>1, <1>2, <1>4
  <2>2. IsFiniteSet({2}) /\ Cardinality({2}) = 1
    BY FS_Singleton
  <2>3. Cardinality(spaces) <= 1 /\ Cardinality(spaces) \in Nat
    BY <1>3, <2>1, <2>2, FS_Subset, FS_CardinalityType
  <2> QED
    BY <1>4, <2>3 DEF TwoSpaces, spaces, k
<1>5. CASE k >= 3
  <2>1. {2} \union {3} \subseteq spaces /\ 2 \in spaces /\ 3 \in spaces
    BY <1>1, <1>2, <1>5
  <2>2. Cardinality({2} \union {3}) = 2
    <3>1. IsFiniteSet({2}) /\ Cardinality({2}) = 1
      BY FS_Singleton
    <3>2. 3 \notin {2}
      OBVIOUS
    <3> QED
      BY <3>1, <3>2, FS_AddElement
  <2>3. Cardinality(spaces) >= 2
    BY <1>3, <2>1, <2>2, FS_Subset, FS_CardinalityType
  <2>4. \A i \in spaces : i \in Nat /\ 2 <= i
    BY <1>1, <1>2
  <2>5. Least(spaces) = 2
    BY <2>1, <2>4, LeastIs
  <2>6. \A i \in spaces \ {2} : i \in Nat /\ 3 <= i
    BY <2>4
  <2>7. Least(spaces \ {2}) = 3
    BY <2>1, <2>6, LeastIs
  <2>8. buf[2].of = r
    BY <1>1, <1>5, CutKinds DEF k
  <2> QED
    <3>1. TwoSpaces(buf)
      BY <2>3 DEF TwoSpaces, spaces
    <3>2. FirstSpace(buf) = 2
      BY <2>5 DEF FirstSpace, spaces
    <3>3. SecondSpace(buf) = 3
      BY <2>7, <3>2 DEF SecondSpace, spaces
    <3>4. ~(k < 3)
      BY <1>1, <1>5
    <3> QED
      BY <2>8, <3>1, <3>2, <3>3, <3>4 DEF k
<1> QED
  BY <1>1, <1>4, <1>5 DEF k

LEMMA IntervalSize ==
  ASSUME NEW a \in Nat, NEW b \in Nat, a <= b
  PROVE  /\ IsFiniteSet(a .. b - 1)
         /\ Cardinality(a .. b - 1) = b - a
<1> DEFINE c == b - 1
<1>1. a \in Int /\ c \in Int
  OBVIOUS
<1> HIDE DEF c
<1>2. IsFiniteSet(a .. c) /\ Cardinality(a .. c) = IF a > c THEN 0 ELSE c - a + 1
  BY <1>1, FS_Interval
<1> QED
  BY <1>2 DEF c

\* The line ends: as far as the blank line, or as far as the bytes have come.
LastLineEnd(r, k) == IF k < HeadSize(r) THEN k ELSE HeadSize(r)

LEMMA CutLineEnds ==
  ASSUME NEW r \in Requests, NEW buf, Cut(r, buf), Len(buf) >= 3
  PROVE  /\ LastLineEnd(r, Len(buf)) \in Nat
         /\ LastLineEnd(r, Len(buf)) >= 3
         /\ LineEnds(buf) = 4 .. LastLineEnd(r, Len(buf))
         /\ Len(buf) < HeadSize(r) => Ends(buf) = {}
         /\ Len(buf) >= HeadSize(r) => Ends(buf) = {HeadSize(r)} /\ BlankLine(buf) = HeadSize(r)
<1> DEFINE h == HeadSize(r)
           k == Len(buf)
           e == LastLineEnd(r, k)
           lines == LineEnds(buf)
<1>1. h \in Nat /\ h >= 4 /\ k \in Nat /\ k >= 3
  BY RequestTypes, CutPlaces DEF HeadSize
<1>2. SecondSpace(buf) = 3
  BY CutSpaces
<1>3. Places(buf, LineKinds \union {"end"}) = {i \in 1 .. k : i \in 4 .. h}
  BY CutPlaces
<1>4. \A i \in 1 .. k : buf[i].kind = "end" <=> i = h
  BY CutPlaces
<1>5. e = IF k < h THEN k ELSE h
  BY DEF LastLineEnd
<1>6. lines = {i \in Places(buf, LineKinds \union {"end"}) : i > 3}
  BY <1>2 DEF LineEnds
<1>7. Ends(buf) = {i \in lines : buf[i].kind = "end"}
  BY DEF Ends
<1> HIDE DEF h, k, e, lines
<1>8. lines = 4 .. e
  <2>1. \A i : i \in lines <=> i \in 1 .. k /\ i \in 4 .. h /\ i > 3
    BY <1>3, <1>6
  <2>2. \A i : i \in 1 .. k /\ i \in 4 .. h /\ i > 3 <=> i \in 4 .. e
    BY <1>1, <1>5
  <2> QED
    BY <2>1, <2>2
<1>9. \A i \in 4 .. e : i \in 1 .. k
  BY <1>1, <1>5
<1>10. Ends(buf) = {i \in 4 .. e : i = h}
  BY <1>4, <1>7, <1>8, <1>9
<1>11. k < h => Ends(buf) = {}
  BY <1>1, <1>5, <1>10
<1>12. k >= h => Ends(buf) = {h}
  BY <1>1, <1>5, <1>10
<1>13. k >= h => BlankLine(buf) = h
  <2>1. {h} \subseteq Nat /\ h \in {h} /\ \A y \in {h} : h <= y
    BY <1>1
  <2>2. Least({h}) = h
    BY <2>1, LeastIs
  <2> QED
    BY <1>12, <2>2 DEF BlankLine
<1>14. e \in Nat /\ e >= 3
  BY <1>1, <1>5
<1> QED
  BY <1>8, <1>11, <1>12, <1>13, <1>14 DEF h, k, e, lines

LEMMA CutHeaders ==
  ASSUME NEW r \in Requests, Narrow(r), NEW buf, Cut(r, buf), Len(buf) >= 3
  PROVE  /\ HeaderLines(buf) = {i \in 4 .. LastLineEnd(r, Len(buf)) : i < HeadSize(r)}
         /\ CompleteLines(buf) \in Nat
         /\ Len(buf) = 3 => CompleteLines(buf) = 0
         /\ Len(buf) >= HeadSize(r) => CompleteLines(buf) = Len(Lines[r])
         /\ ~LinesFull(buf)
<1> DEFINE h == HeadSize(r)
           k == Len(buf)
           e == LastLineEnd(r, k)
           n == Len(Lines[r])
           lines == LineEnds(buf)
           heads == HeaderLines(buf)
<1>1. h \in Nat /\ h = n + 4 /\ n \in Nat /\ n < MAX_HEADERS /\ MAX_HEADERS \in Nat
      /\ k \in Nat /\ k >= 3
  BY RequestTypes, RequestsAssumption, CutPlaces DEF HeadSize, Narrow
<1>2. /\ e = IF k < h THEN k ELSE h
      /\ e \in Nat /\ e >= 3
      /\ lines = 4 .. e
      /\ k < h => Ends(buf) = {}
      /\ k >= h => Ends(buf) = {h}
  BY CutLineEnds DEF LastLineEnd
<1>3. heads = {i \in lines : /\ \A j \in Ends(buf) : i < j
                             /\ Cardinality({j \in lines : j < i}) < MAX_HEADERS}
  BY DEF HeaderLines, KeptLines, LinesUpTo
<1>4. CompleteLines(buf) = Cardinality({i \in heads : \E j \in lines : i < j})
  BY DEF CompleteLines
<1> HIDE DEF h, k, e, n, lines, heads
<1>5. ASSUME NEW i \in lines
      PROVE  /\ (\A j \in Ends(buf) : i < j) <=> i < h
             /\ i < h => Cardinality({j \in lines : j < i}) < MAX_HEADERS
  <2>1. i \in Nat /\ 4 <= i /\ i <= e
    BY <1>2
  <2>2. (\A j \in Ends(buf) : i < j) <=> i < h
    BY <1>1, <1>2, <2>1
  <2>3. {j \in lines : j < i} = 4 .. i - 1
    BY <1>2, <2>1
  <2>4. Cardinality(4 .. i - 1) = i - 4
    BY <2>1, IntervalSize
  <2>5. i < h => i - 4 < MAX_HEADERS
    BY <1>1, <2>1
  <2>6. i < h => Cardinality({j \in lines : j < i}) < MAX_HEADERS
    BY <2>3, <2>4, <2>5
  <2> QED
    BY <2>2, <2>6
<1>6. heads = {i \in 4 .. e : i < h}
  BY <1>2, <1>3, <1>5
<1>7. {i \in heads : \E j \in lines : i < j} = 4 .. e - 1
  BY <1>1, <1>2, <1>6
<1>8. CASE e = 3
  <2>1. 4 .. e - 1 = {}
    BY <1>8
  <2>2. CompleteLines(buf) = 0
    BY <1>4, <1>7, <2>1, FS_EmptySet
  <2>3. k = 3 /\ k < h
    BY <1>1, <1>2, <1>8
  <2> QED
    BY <1>1, <1>6, <2>2, <2>3 DEF h, k, e, heads, LinesFull, KeptLines
<1>9. CASE e > 3
  <2>1. 4 <= e
    BY <1>2, <1>9
  <2>2. CompleteLines(buf) = e - 4
    BY <1>2, <1>4, <1>7, <2>1, IntervalSize
  <2>3. /\ e - 4 \in Nat /\ e - 4 < MAX_HEADERS
        /\ k # 3
        /\ k >= h => e - 4 = n
    BY <1>1, <1>2, <2>1
  <2>4. ~LinesFull(buf)
    BY <1>1, <2>2, <2>3 DEF LinesFull, KeptLines
  <2> QED
    BY <1>6, <2>2, <2>3, <2>4 DEF h, k, e, n, heads
<1> QED
  BY <1>2, <1>8, <1>9

\* What the parser finds of the head once all of it has come.
LEMMA CutHead ==
  ASSUME NEW r \in Requests, Narrow(r), NEW buf, Cut(r, buf), Len(buf) >= HeadSize(r)
  PROVE  /\ CompleteLines(buf) = Len(Lines[r])
         /\ HeadLength(buf) = HeadSize(r)
         /\ Lengths(buf) = {} => Length[r] = 0
         /\ Lengths(buf) # {} => Lines[r] # <<>> /\ buf[Least(Lengths(buf))].of = r
<1> DEFINE h == HeadSize(r)
           k == Len(buf)
           lengths == Lengths(buf)
<1>1. h \in Nat /\ h = Len(Lines[r]) + 4 /\ Len(Lines[r]) \in Nat /\ k \in Nat /\ k >= h
  BY RequestTypes, CutPlaces DEF HeadSize
<1>2. /\ HeaderLines(buf) = {i \in 4 .. LastLineEnd(r, k) : i < h}
      /\ CompleteLines(buf) = Len(Lines[r])
      /\ ~LinesFull(buf)
  BY <1>1, CutHeaders
<1>3. LastLineEnd(r, k) = h
  BY <1>1 DEF LastLineEnd
<1>4. HeadLength(buf) = h
  BY <1>1, <1>2, CutLineEnds DEF HeadLength
<1>5. lengths = {i \in HeaderLines(buf) : buf[i].kind = "length"}
  BY DEF Lengths
<1>6. \A i \in 1 .. k : buf[i].of = r
  BY CutKinds
<1>7. \A i \in 1 .. k : i \in 4 .. h - 1 => buf[i].kind = Lines[r][i - 3]
  BY CutKinds
<1> HIDE DEF h, k, lengths
<1>8. lengths = {i \in 4 .. h - 1 : buf[i].kind = "length"}
  <2>1. \A i : i \in HeaderLines(buf) <=> i \in 4 .. h - 1
    BY <1>1, <1>2, <1>3
  <2> QED
    BY <1>5, <2>1
<1>9. ASSUME lengths = {}
      PROVE  Length[r] = 0
  <2>1. SUFFICES ASSUME Announces(r)
                 PROVE  FALSE
    BY <2>1, RequestsAssumption
  <2>2. PICK j \in DOMAIN Lines[r] : Lines[r][j] = "length"
    BY <2>1 DEF Announces
  <2>3. j \in 1 .. Len(Lines[r])
    BY <2>2, RequestTypes, LenProperties
  <2>4. j + 3 \in 4 .. h - 1 /\ j + 3 \in 1 .. k /\ (j + 3) - 3 = j
    BY <1>1, <2>3
  <2>5. buf[j + 3].kind = "length"
    BY <1>7, <2>2, <2>4
  <2>6. j + 3 \in lengths
    BY <1>8, <2>4, <2>5
  <2> QED
    BY <1>9, <2>6
<1>10. ASSUME lengths # {}
       PROVE  Lines[r] # <<>> /\ buf[Least(lengths)].of = r
  <2>1. lengths \subseteq 4 .. h - 1
    BY <1>8
  <2>2. 4 .. h - 1 # {}
    BY <1>10, <2>1
  <2>3. Len(Lines[r]) # 0
    BY <1>1, <2>2
  <2>4. Least(lengths) \in lengths
    <3>1. lengths \subseteq 1 .. k /\ lengths \subseteq Nat
      BY <1>1, <2>1
    <3>2. IsFiniteSet(1 .. k)
      BY <1>1, FS_Interval
    <3> QED
      BY <1>10, <3>1, <3>2, FS_Subset, LeastIn
  <2>5. Least(lengths) \in 1 .. k
    <3>1. \A i \in 4 .. h - 1 : i \in 1 .. k
      BY <1>1
    <3>2. Least(lengths) \in 4 .. h - 1
      BY <2>1, <2>4
    <3> QED
      BY <3>1, <3>2, Zenon
  <2>6. Lines[r] # <<>>
    BY <2>3
  <2>7. buf[Least(lengths)].of = r
    <3> DEFINE i == Least(lengths)
    <3>1. i \in 1 .. k
      BY <2>5
    <3> HIDE DEF i
    <3>2. buf[i].of = r
      BY <1>6, <3>1, Zenon
    <3> QED
      BY <3>2 DEF i
  <2> QED
    BY <2>6, <2>7
<1> QED
  BY <1>2, <1>4, <1>9, <1>10 DEF h, lengths

(***************************************************************************)
(* The parser on a first part of a message: it goes wrong only before the  *)
(* second space, waits as long as something is missing, and takes the      *)
(* message for whole when it is, with its body.                            *)
(***************************************************************************)
Parses(r, buf, p) ==
  \/ /\ p.result = "undefined"
     /\ Len(buf) < 3
  \/ /\ p.result = "partial"
     /\ p.content_len \in {0, Length[r]}
     /\ p.num_headers # 0 => Len(buf) >= 4
  \/ /\ p.result = "whole"
     /\ Len(buf) = Len(Message(r))
     /\ p.body = Body(r)
     /\ BlankLine(buf) + p.content_len = Len(buf)

LEMMA HeadedCut ==
  ASSUME NEW r \in Requests, Narrow(r), NEW buf, Cut(r, buf), Len(buf) >= HeadSize(r),
         NEW len \in {0, Length[r]}
  PROVE  Parses(r, buf, ParseHeaded(buf, Len(buf), len))
<1> DEFINE h    == HeadSize(r)
           k    == Len(buf)
           n    == Length[r]
           lines == Len(Lines[r])
           none == Lengths(buf) = {}
           now  == IF none THEN len ELSE Length[buf[Least(Lengths(buf))].of]
           rest == SubSeq(buf, h + 1, k)
           p    == ParseHeaded(buf, k, len)
<1>1. /\ h \in Nat /\ h = lines + 4 /\ lines \in Nat /\ n \in Nat
      /\ k \in Nat /\ k >= h
      /\ k <= Len(Message(r)) /\ Len(Message(r)) = h + n
  BY RequestTypes, MessageUnits, CutPlaces DEF HeadSize, Cut
<1>2. /\ CompleteLines(buf) = lines
      /\ HeadLength(buf) = h
      /\ BlankLine(buf) = h
  BY <1>1, CutHead, CutLineEnds
<1>3. none => n = 0 /\ len = 0
  BY CutHead
<1>4. now = n
  BY <1>3, CutHead
<1>5. k = h + n => rest = Body(r)
  <2>1. ASSUME k = h + n
        PROVE  rest = Body(r)
    <3>1. k = Len(Message(r))
      BY <1>1, <2>1
    <3>2. buf = Message(r)
      <4>1. buf \in Seq(Units) /\ Message(r) \in Seq(Units)
        BY MessageUnits DEF Cut
      <4>2. \A i \in 1 .. Len(buf) : buf[i] = Message(r)[i]
        BY DEF Cut
      <4> QED
        BY <3>1, <4>1, <4>2, SeqEqual
    <3>3. Body(r) = SubSeq(Message(r), h + 1, Len(Message(r)))
      BY MessageUnits
    <3> QED
      BY <3>1, <3>2, <3>3
  <2> QED
    BY <2>1
<1>6. n = 0 => Body(r) = <<>>
  BY DEF Body
<1>7. p = IF lines # 0 /\ none THEN Parsed("whole", now, lines, <<>>)
          ELSE IF BodyMissing(k, h, now) THEN Parsed("partial", now, lines, <<>>)
          ELSE Parsed("whole", now, lines, rest)
  BY <1>2 DEF ParseHeaded
<1>8. h = HeadSize(r) /\ k = Len(buf) /\ n = Length[r]
  OBVIOUS
<1> HIDE DEF h, k, n, lines, none, now, rest, p
<1>9. CASE lines # 0 /\ none
  <2>1. p = Parsed("whole", now, lines, <<>>)
    BY <1>7, <1>9
  <2>2. p.result = "whole" /\ p.content_len = now /\ p.body = <<>>
    BY <2>1 DEF Parsed
  <2>3. n = 0 /\ k = h /\ k = h + n
    BY <1>1, <1>3, <1>9
  <2>4. k = Len(Message(r)) /\ h + now = k
    BY <1>1, <1>4, <2>3
  <2> QED
    BY <1>2, <1>6, <1>8, <2>2, <2>3, <2>4 DEF Parses, p, k
<1>10. CASE ~(lines # 0 /\ none) /\ BodyMissing(k, h, now)
  <2>1. p = Parsed("partial", now, lines, <<>>)
    BY <1>7, <1>10
  <2>2. p.result = "partial" /\ p.content_len = now
    BY <2>1 DEF Parsed
  <2>3. k >= 4
    BY <1>1
  <2> QED
    BY <1>4, <1>8, <2>2, <2>3 DEF Parses, p, k
<1>11. CASE ~(lines # 0 /\ none) /\ ~BodyMissing(k, h, now)
  <2>1. p = Parsed("whole", now, lines, rest)
    BY <1>7, <1>11
  <2>2. p.result = "whole" /\ p.content_len = now /\ p.body = rest
    BY <2>1 DEF Parsed
  <2>3. k = h + n
    BY <1>1, <1>4, <1>11 DEF BodyMissing
  <2>4. k = Len(Message(r)) /\ h + now = k
    BY <1>1, <1>4, <2>3
  <2> QED
    BY <1>2, <1>5, <1>8, <2>2, <2>3, <2>4 DEF Parses, p, k
<1> QED
  BY <1>9, <1>10, <1>11 DEF p, k

LEMMA ParseCut ==
  ASSUME NEW r \in Requests, Narrow(r), NEW buf, Cut(r, buf),
         NEW len \in {0, Length[r]}, NEW num, num # 0 => Len(buf) >= 4
  PROVE  Parses(r, buf, Parse(buf, Len(buf), len, num))
<1> DEFINE h == HeadSize(r)
           k == Len(buf)
           p == Parse(buf, k, len, num)
<1>1. h \in Nat /\ h >= 4 /\ k \in Nat
  BY RequestTypes, CutPlaces DEF HeadSize
<1>2. CASE k < 3
  <2>1. ~TwoSpaces(buf)
    BY <1>2, CutSpaces
  <2>2. p = Parsed("undefined", len, num, <<>>)
    BY <2>1 DEF Parse
  <2>3. p.result = "undefined"
    BY <2>2 DEF Parsed
  <2> HIDE DEF p
  <2> QED
    BY <1>2, <2>3 DEF Parses, p
<1>3. CASE k = 3
  <2>1. TwoSpaces(buf)
    BY <1>3, CutSpaces
  <2>2. LineEnds(buf) = {}
    <3> DEFINE e == LastLineEnd(r, k)
    <3>1. LineEnds(buf) = 4 .. e
      <4>1. Len(buf) >= 3
        BY <1>3
      <4> QED
        BY <4>1, CutLineEnds
    <3>2. e = 3
      BY <1>1, <1>3 DEF LastLineEnd
    <3> HIDE DEF e
    <3>3. 4 .. e = {}
      <4>1. e \in Int /\ e < 4
        BY <3>2
      <4> QED
        BY <4>1
    <3> QED
      BY <3>1, <3>3
  <2>3. num = 0
    BY <1>3
  <2>4. p = Parsed("partial", len, num, <<>>)
    BY <2>1, <2>2, <2>3 DEF Parse
  <2>5. p.result = "partial" /\ p.content_len = len /\ p.num_headers = 0
    BY <2>3, <2>4 DEF Parsed
  <2> HIDE DEF p
  <2> QED
    BY <2>5 DEF Parses, p
<1>4. CASE k >= 4 /\ k < h
  <2>1. TwoSpaces(buf)
    BY <1>1, <1>4, CutSpaces
  <2>2. LineEnds(buf) # {} /\ Ends(buf) = {}
    <3>1. LineEnds(buf) = 4 .. LastLineEnd(r, k) /\ Ends(buf) = {}
      BY <1>1, <1>4, CutLineEnds
    <3>2. LastLineEnd(r, k) = k
      BY <1>4 DEF LastLineEnd
    <3>3. 4 \in 4 .. k
      BY <1>1, <1>4
    <3> QED
      BY <3>1, <3>2, <3>3
  <2>3. ~LinesFull(buf)
    BY <1>1, <1>4, CutHeaders
  <2>4. p = Parsed("partial", len, CompleteLines(buf), <<>>)
    BY <2>1, <2>2, <2>3 DEF Parse
  <2>5. p.result = "partial" /\ p.content_len = len
    BY <2>4 DEF Parsed
  <2> HIDE DEF p
  <2> QED
    BY <1>4, <2>5 DEF Parses, p
<1>5. CASE k >= h
  <2>1. TwoSpaces(buf)
    BY <1>1, <1>5, CutSpaces
  <2>2. LineEnds(buf) # {} /\ Ends(buf) # {}
    <3>1. Ends(buf) = {h} /\ Len(buf) >= 3
      BY <1>1, <1>5, CutLineEnds
    <3>2. Ends(buf) \subseteq LineEnds(buf)
      BY DEF Ends
    <3> QED
      BY <3>1, <3>2
  <2>3. p = ParseHeaded(buf, k, len)
    BY <2>1, <2>2 DEF Parse
  <2> QED
    BY <1>5, <2>3, HeadedCut
<1>6. k < 3 \/ k = 3 \/ (k >= 4 /\ k < h) \/ k >= h
  <2> HIDE DEF h, k
  <2> QED
    BY <1>1
<1> QED
  BY <1>2, <1>3, <1>4, <1>5, <1>6

-----------------------------------------------------------------------------
(* The invariant *)

\* What has come of a message and what is under way are its beginning.
Arriving(r) ==
  /\ rcvbuf \in Seq(Units)
  /\ stream \in Seq(Units)
  /\ total_bytes_read = Len(rcvbuf)
  /\ Len(rcvbuf) + Len(stream) <= Len(Message(r))
  /\ \A i \in 1 .. Len(rcvbuf) : rcvbuf[i] = Message(r)[i]
  /\ \A i \in 1 .. Len(stream) : stream[i] = Message(r)[Len(rcvbuf) + i]

Clean == leftover = {} /\ AllNarrow /\ Polite(conn)

\* The callback was handed the requests as they were sent.
InOrder ==
  /\ handled \in Seq([request : Requests, body : Seq(Units)])
  /\ Len(handled) <= Len(sent)
  /\ \A k \in 1 .. Len(handled) :
       handled[k].request = sent[k] /\ handled[k].body = Body(sent[k])

Idle ==
  /\ Len(handled) = Len(sent)
  /\ rcvbuf = <<>> /\ stream = <<>>
  /\ total_bytes_read = 0
  /\ content_len = 0
  /\ num_headers = 0
  /\ max_read \in Nat
  /\ already_extended = FALSE
  /\ allocated = HeaderSize

Busy ==
  /\ Len(sent) = Len(handled) + 1
  /\ Arriving(Pending)
  /\ content_len \in {0, Length[Pending]}
  /\ num_headers # 0 => Len(rcvbuf) >= 4
  /\ max_read \in Nat
  /\ already_extended \in BOOLEAN
  /\ allocated = IF already_extended THEN HeaderSize + Length[Pending] ELSE HeaderSize

PatientInv ==
  /\ sent \in Seq(Requests)
  /\ server = "accepting" => sent = <<>> /\ stream = <<>> /\ handled = <<>>
  /\ Clean => InOrder /\ (server = "reading" => Idle \/ Busy)

LEMMA ReadArrives ==
  ASSUME NEW r \in Requests, Arriving(r), NEW n \in 1 .. Len(stream)
  PROVE  /\ Cut(r, Filled(n))
         /\ Len(Filled(n)) = total_bytes_read + n
         /\ SubSeq(stream, n + 1, Len(stream)) \in Seq(Units)
         /\ Len(Filled(n)) + Len(SubSeq(stream, n + 1, Len(stream))) <= Len(Message(r))
         /\ \A i \in 1 .. Len(SubSeq(stream, n + 1, Len(stream))) :
              SubSeq(stream, n + 1, Len(stream))[i] = Message(r)[Len(Filled(n)) + i]
<1> DEFINE m    == Message(r)
           k    == Len(rcvbuf)
           l    == Len(stream)
           new  == SubSeq(stream, 1, n)
           rest == SubSeq(stream, n + 1, l)
           buf  == rcvbuf \o new
<1>1. /\ rcvbuf \in Seq(Units) /\ stream \in Seq(Units) /\ total_bytes_read = k
      /\ k + l <= Len(m)
      /\ \A i \in 1 .. k : rcvbuf[i] = m[i]
      /\ \A i \in 1 .. l : stream[i] = m[k + i]
  BY DEF Arriving
<1>2. k \in Nat /\ l \in Nat /\ Len(m) \in Nat
  BY <1>1, MessageUnits, LenProperties
<1>3. n \in Nat /\ n >= 1 /\ n <= l
  BY <1>2
<1>4. \A i \in 1 .. l : stream[i] \in Units
  BY <1>1, ElementOfSeq
<1>5. new \in Seq(Units) /\ Len(new) = n /\ \A i \in 1 .. n : new[i] = stream[i]
  <2>1. \A i \in 1 .. n : stream[i] \in Units
    BY <1>2, <1>3, <1>4
  <2>2. /\ new \in Seq(Units)
        /\ Len(new) = IF 1 <= n THEN n - 1 + 1 ELSE 0
        /\ \A i \in 1 .. n - 1 + 1 : new[i] = stream[1 + i - 1]
    BY <1>3, <2>1, SubSeqProperties
  <2> HIDE DEF new
  <2> QED
    BY <1>3, <2>2
<1>6. /\ rest \in Seq(Units) /\ Len(rest) = l - n
      /\ \A i \in 1 .. l - n : rest[i] = stream[n + i]
  <2>1. \A i \in n + 1 .. l : stream[i] \in Units
    BY <1>2, <1>3, <1>4
  <2>2. n + 1 \in Int /\ l \in Int
    BY <1>2, <1>3
  <2>3. /\ rest \in Seq(Units)
        /\ Len(rest) = IF n + 1 <= l THEN l - (n + 1) + 1 ELSE 0
        /\ \A i \in 1 .. l - (n + 1) + 1 : rest[i] = stream[(n + 1) + i - 1]
    BY <2>1, <2>2, SubSeqProperties
  <2> HIDE DEF rest
  <2> QED
    BY <1>2, <1>3, <2>3
<1>7. Filled(n) = buf
  <2>1. SubSeq(rcvbuf, 1, total_bytes_read) = rcvbuf
    BY <1>1, SubSeqFull
  <2>2. SubSeq(rcvbuf, total_bytes_read + n + 1, Len(rcvbuf)) = <<>>
    <3>1. total_bytes_read + n + 1 \in Int /\ k \in Int /\ k < total_bytes_read + n + 1
      BY <1>1, <1>2, <1>3
    <3> QED
      BY <3>1, SubSeqEmpty
  <2>3. buf \in Seq(Units)
    BY <1>1, <1>5, ConcatProperties
  <2> HIDE DEF buf
  <2>4. buf \o <<>> = buf
    BY <2>3, ConcatEmptySeq
  <2> QED
    BY <2>1, <2>2, <2>4 DEF Filled, buf
<1>8. /\ buf \in Seq(Units) /\ Len(buf) = k + n
      /\ \A i \in 1 .. k + n : buf[i] = IF i <= k THEN rcvbuf[i] ELSE new[i - k]
  <2> HIDE DEF new
  <2>1. /\ buf \in Seq(Units) /\ Len(buf) = Len(rcvbuf) + Len(new)
        /\ \A i \in 1 .. Len(rcvbuf) + Len(new) :
             buf[i] = IF i <= Len(rcvbuf) THEN rcvbuf[i] ELSE new[i - Len(rcvbuf)]
    <3>1. rcvbuf \in Seq(Units) /\ new \in Seq(Units)
      BY <1>1, <1>5
    <3> QED
      BY <3>1, ConcatProperties
  <2> HIDE DEF buf
  <2> QED
    BY <1>5, <2>1
<1> HIDE DEF m, k, l, new, rest, buf
<1>9. ASSUME NEW i \in 1 .. k + n
      PROVE  buf[i] = m[i]
  <2>1. CASE i <= k
    <3>1. i \in 1 .. k /\ buf[i] = rcvbuf[i]
      BY <1>2, <1>3, <1>8, <2>1
    <3> QED
      BY <1>1, <3>1
  <2>2. CASE ~(i <= k)
    <3>1. i - k \in 1 .. n /\ i - k \in 1 .. l /\ k + (i - k) = i
      BY <1>2, <1>3, <2>2
    <3>2. buf[i] = new[i - k]
      BY <1>8, <2>2
    <3>3. new[i - k] = stream[i - k]
      BY <1>5, <3>1
    <3>4. stream[i - k] = m[k + (i - k)]
      BY <1>1, <3>1
    <3> QED
      BY <3>1, <3>2, <3>3, <3>4
  <2> QED
    BY <2>1, <2>2
<1>10. Cut(r, buf)
  BY <1>1, <1>2, <1>3, <1>8, <1>9 DEF Cut, m
<1>11. ASSUME NEW i \in 1 .. Len(rest)
       PROVE  rest[i] = m[(k + n) + i]
  <2>1. i \in 1 .. l - n /\ n + i \in 1 .. l /\ k + (n + i) = (k + n) + i
    BY <1>2, <1>3, <1>6
  <2>2. rest[i] = stream[n + i]
    BY <1>6, <2>1
  <2>3. stream[n + i] = m[k + (n + i)]
    BY <1>1, <2>1
  <2> QED
    BY <2>1, <2>2, <2>3
<1>12. (k + n) + Len(rest) <= Len(m)
  BY <1>1, <1>2, <1>3, <1>6
<1> QED
  BY <1>1, <1>6, <1>7, <1>8, <1>10, <1>11, <1>12 DEF m, l, rest

(***************************************************************************)
(* A read on behalf of a client that waits for its answers: the parser     *)
(* sees a first part of its request.                                       *)
(***************************************************************************)
LEMMA ReadPending ==
  ASSUME PatientInv, Clean, server = "reading",
         NEW n \in 1 .. Least2(max_read, Len(stream))
  PROVE  LET r    == Pending
             buf  == Filled(n)
             rest == SubSeq(stream, n + 1, Len(stream))
         IN  /\ Busy
             /\ r \in Requests
             /\ n \in 1 .. Len(stream)
             /\ Cut(r, buf)
             /\ Len(buf) = total_bytes_read + n
             /\ total_bytes_read + n <= Len(Message(r))
             /\ total_bytes_read + Len(stream) <= Len(Message(r))
             /\ Parses(r, buf, Parse(buf, total_bytes_read + n, content_len, num_headers))
             /\ Len(buf) >= 3 => buf[FirstSpace(buf)].of = r
             /\ rest \in Seq(Units)
             /\ Len(buf) + Len(rest) <= Len(Message(r))
             /\ \A i \in 1 .. Len(rest) : rest[i] = Message(r)[Len(buf) + i]
<1> DEFINE r    == Pending
           buf  == Filled(n)
           rest == SubSeq(stream, n + 1, Len(stream))
<1>1. Idle \/ Busy
  BY DEF PatientInv
<1>2. /\ max_read \in Nat /\ Len(stream) \in Nat
  BY <1>1, LenProperties, EmptySeq DEF Idle, Busy, Arriving
<1>3. n \in 1 .. Len(stream)
  BY <1>2 DEF Least2
<1>4. Busy
  <2>1. Idle => Len(stream) = 0
    BY DEF Idle
  <2> QED
    BY <1>1, <1>3, <2>1
<1>5. sent \in Seq(Requests) /\ Len(sent) = Len(handled) + 1 /\ Len(handled) \in Nat
  BY <1>4, LenProperties DEF PatientInv, InOrder, Busy
<1>6. Len(handled) + 1 \in 1 .. Len(sent) /\ Len(handled) + 1 \in DOMAIN sent
  BY <1>5, LenProperties
<1>7. r \in Requests
  BY <1>5, <1>6, ElementOfSeq DEF Pending
<1>8. Narrow(r)
  BY <1>6 DEF Clean, AllNarrow, Pending
<1>9. /\ Arriving(r)
      /\ content_len \in {0, Length[r]}
      /\ num_headers # 0 => Len(rcvbuf) >= 4
  BY <1>4 DEF Busy
<1> HIDE DEF r
<1>10. /\ Cut(r, buf)
       /\ Len(buf) = total_bytes_read + n
       /\ rest \in Seq(Units)
       /\ Len(buf) + Len(rest) <= Len(Message(r))
       /\ \A i \in 1 .. Len(rest) : rest[i] = Message(r)[Len(buf) + i]
  BY <1>3, <1>7, <1>9, ReadArrives
<1>11. /\ total_bytes_read = Len(rcvbuf) /\ Len(rcvbuf) \in Nat
       /\ total_bytes_read + Len(stream) <= Len(Message(r))
       /\ Len(Message(r)) \in Nat
  BY <1>7, <1>9, LenProperties, MessageUnits DEF Arriving
<1> HIDE DEF buf, rest
<1>12. total_bytes_read + n <= Len(Message(r)) /\ (num_headers # 0 => Len(buf) >= 4)
  BY <1>2, <1>3, <1>9, <1>10, <1>11
<1>13. Parses(r, buf, Parse(buf, total_bytes_read + n, content_len, num_headers))
  <2>1. Parses(r, buf, Parse(buf, Len(buf), content_len, num_headers))
    BY <1>7, <1>8, <1>9, <1>10, <1>12, ParseCut
  <2> QED
    BY <1>10, <2>1
<1>14. Len(buf) >= 3 => buf[FirstSpace(buf)].of = r
  BY <1>7, <1>10, CutSpaces
<1> QED
  BY <1>3, <1>4, <1>7, <1>10, <1>11, <1>12, <1>13, <1>14 DEF r, buf, rest

-----------------------------------------------------------------------------
(* Every step keeps the invariant *)

LEMMA CleanStays ==
  ASSUME leftover' = leftover, sent' = sent, conn' = conn
  PROVE  Clean' <=> Clean
BY DEF Clean, AllNarrow, Polite

LEMMA OrderStays ==
  ASSUME InOrder, sent' = sent, handled' = handled
  PROVE  InOrder'
BY DEF InOrder

\* The end of the process changes nothing that was handed over.
LEMMA Ended ==
  ASSUME PatientInv, server' \notin {"accepting", "reading"},
         leftover' = leftover, sent' = sent, handled' = handled, conn' = conn
  PROVE  PatientInv'
<1>1. Clean' => Clean
  BY CleanStays
<1>2. Clean => InOrder
  BY DEF PatientInv
<1>3. Clean' => InOrder'
  BY <1>1, <1>2, OrderStays
<1>4. sent' \in Seq(Requests)
  BY DEF PatientInv
<1> QED
  BY <1>3, <1>4 DEF PatientInv

\* What is read on behalf of a message that is not whole.
LEMMA ReadsOn ==
  ASSUME PatientInv, Clean, server = "reading",
         NEW n \in 1 .. Least2(max_read, Len(stream)), Reads(n, Filled(n)),
         sent' = sent, handled' = handled
  PROVE  Pending' = Pending /\ Arriving(Pending)' /\ Len(rcvbuf') = Len(Filled(n))
<1> DEFINE r    == Pending
           buf  == Filled(n)
           rest == SubSeq(stream, n + 1, Len(stream))
<1>1. /\ Cut(r, buf)
      /\ Len(buf) = total_bytes_read + n
      /\ rest \in Seq(Units)
      /\ Len(buf) + Len(rest) <= Len(Message(r))
      /\ \A i \in 1 .. Len(rest) : rest[i] = Message(r)[Len(buf) + i]
  BY ReadPending
<1>2. rcvbuf' = buf /\ total_bytes_read' = total_bytes_read + n /\ stream' = rest
  BY DEF Reads
<1>3. Pending' = r
  BY DEF Pending
<1> HIDE DEF r, buf, rest
<1>4. Arriving(Pending)'
  <2>1. buf \in Seq(Units) /\ \A i \in 1 .. Len(buf) : buf[i] = Message(r)[i]
    BY <1>1 DEF Cut
  <2> QED
    BY <1>1, <1>2, <1>3, <2>1 DEF Arriving
<1> QED
  BY <1>2, <1>3, <1>4 DEF r, buf

\* The message that is handed over is the one that was waited for.
LEMMA Handles ==
  ASSUME PatientInv, Clean, server = "reading",
         NEW n \in 1 .. Least2(max_read, Len(stream)),
         NEW p, p = Parse(Filled(n), total_bytes_read + n, content_len, num_headers),
         ReadWhole(n, Filled(n), p)
  PROVE  /\ InOrder'
         /\ Len(handled') = Len(sent')
         /\ stream' = <<>>
         /\ ~Exceeds(n, Filled(n), p)
<1> DEFINE r    == Pending
           buf  == Filled(n)
           rest == SubSeq(stream, n + 1, Len(stream))
           h    == [request |-> r, body |-> Body(r)]
           Pair == [request : Requests, body : Seq(Units)]
<1>1. /\ Busy
      /\ r \in Requests
      /\ Len(buf) = total_bytes_read + n
      /\ Parses(r, buf, p)
      /\ Len(buf) >= 3 => buf[FirstSpace(buf)].of = r
      /\ rest \in Seq(Units)
      /\ Len(buf) + Len(rest) <= Len(Message(r))
  BY ReadPending
<1>2. /\ p.result \in {"whole", "any"}
      /\ stream' = rest
      /\ handled' = Append(handled, [request |-> buf[FirstSpace(buf)].of, body |-> p.body])
      /\ sent' = sent
  BY DEF ReadWhole
<1>3. /\ p.result = "whole"
      /\ Len(buf) = Len(Message(r))
      /\ p.body = Body(r)
      /\ BlankLine(buf) + p.content_len = Len(buf)
  BY <1>1, <1>2 DEF Parses
<1>4. Len(Message(r)) \in Nat /\ Len(Message(r)) >= 3 /\ Body(r) \in Seq(Units)
  <2>1. /\ Len(Message(r)) = HeadSize(r) + Length[r]
        /\ HeadSize(r) \in Nat /\ HeadSize(r) >= 4 /\ Length[r] \in Nat
    <3> HIDE DEF r
    <3>1. Len(Message(r)) = HeadSize(r) + Length[r]
      BY <1>1, MessageUnits
    <3>2. Len(Lines[r]) \in Nat /\ Length[r] \in Nat
      BY <1>1, RequestTypes
    <3> QED
      BY <3>1, <3>2 DEF HeadSize
  <2>2. Body(r) \in Seq(Units)
    <3>1. Unit("body", r) \in Units
      BY <1>1 DEF Unit, Units, Kinds
    <3> QED
      BY <2>1, <3>1 DEF Body
  <2> QED
    BY <2>1, <2>2
<1>5. handled \in Seq(Pair) /\ Len(handled) \in Nat /\ Len(sent) = Len(handled) + 1
      /\ \A k \in 1 .. Len(handled) :
           handled[k].request = sent[k] /\ handled[k].body = Body(sent[k])
  BY <1>1, LenProperties DEF PatientInv, InOrder, Busy
<1>6. r = sent[Len(handled) + 1]
  BY DEF Pending
<1>7. ~Exceeds(n, buf, p)
  <2>1. total_bytes_read + n = BlankLine(buf) + p.content_len
        /\ total_bytes_read + n \in Nat
    BY <1>1, <1>3, <1>4
  <2> QED
    BY <2>1 DEF Exceeds
<1>8. Len(buf) >= 3
  BY <1>3, <1>4
<1> HIDE DEF r, buf, rest
<1>9. stream' = <<>>
  <2>1. Len(rest) \in Nat
    BY <1>1, LenProperties
  <2>2. Len(rest) = 0
    BY <1>1, <1>3, <1>4, <2>1
  <2> QED
    BY <1>1, <1>2, <2>2, EmptySeq
<1>10. handled' = Append(handled, h)
  BY <1>1, <1>2, <1>3, <1>8
<1>11. h \in Pair /\ h.request = r /\ h.body = Body(r)
  BY <1>1, <1>4
<1> HIDE DEF h, Pair
<1>12. /\ handled' \in Seq(Pair)
       /\ Len(handled') = Len(handled) + 1
       /\ handled'[Len(handled) + 1] = h
       /\ \A k \in 1 .. Len(handled) : handled'[k] = handled[k]
  BY <1>5, <1>10, <1>11, AppendProperties
<1>13. ASSUME NEW k \in 1 .. Len(handled')
       PROVE  handled'[k].request = sent'[k] /\ handled'[k].body = Body(sent'[k])
  <2>1. CASE k = Len(handled) + 1
    BY <1>2, <1>6, <1>11, <1>12, <2>1
  <2>2. CASE k # Len(handled) + 1
    <3>1. k \in 1 .. Len(handled)
      BY <1>5, <1>12, <2>2
    <3> QED
      BY <1>2, <1>5, <1>12, <3>1
  <2> QED
    BY <2>1, <2>2
<1>14. Len(handled') <= Len(sent') /\ Len(handled') = Len(sent')
  BY <1>2, <1>5, <1>12
<1>15. InOrder'
  BY <1>12, <1>13, <1>14 DEF InOrder, Pair
<1> QED
  BY <1>7, <1>9, <1>14, <1>15 DEF buf

LEMMA PatientInit == Init => PatientInv
<1> SUFFICES ASSUME Init
             PROVE  PatientInv
  OBVIOUS
<1>1. /\ server = "accepting"
      /\ sent = <<>> /\ stream = <<>> /\ handled = <<>>
  BY DEF Init
<1>2. sent \in Seq(Requests) /\ InOrder
  BY <1>1 DEF InOrder
<1> QED
  BY <1>1, <1>2 DEF PatientInv

LEMMA AcceptKeeps == PatientInv /\ Accept => PatientInv'
<1> SUFFICES ASSUME PatientInv, Accept
             PROVE  PatientInv'
  OBVIOUS
<1>1. /\ sent = <<>> /\ stream = <<>> /\ handled = <<>>
      /\ sent' = sent /\ stream' = stream /\ handled' = handled
      /\ server' = "reading"
  BY DEF Accept, PatientInv, peers
<1>2. InOrder' /\ sent' \in Seq(Requests)
  BY <1>1 DEF InOrder
<1>3. leftover' = {} => rcvbuf' = <<>> /\ num_headers' = 0
  BY DEF Accept
<1>4. leftover' = {} => Idle'
  BY <1>1, <1>3, HeadsFit DEF Accept, Idle
<1> QED
  BY <1>1, <1>2, <1>4 DEF PatientInv, Clean

LEMMA EndKeeps ==
  PatientInv /\ (AcceptFails \/ ReadFails \/ Interrupt) => PatientInv'
BY Ended DEF AcceptFails, ReadFails, Interrupt, Stop, Gone, peers

LEMMA PeerClosedKeeps == PatientInv /\ PeerClosed => PatientInv'
<1> SUFFICES ASSUME PeerClosed
             PROVE  PatientInv'
  OBVIOUS
<1>1. /\ server' = "accepting"
      /\ sent' = <<>> /\ stream' = <<>> /\ handled' = <<>>
  BY DEF PeerClosed, NextConnection
<1>2. sent' \in Seq(Requests) /\ InOrder'
  BY <1>1 DEF InOrder
<1> QED
  BY <1>1, <1>2 DEF PatientInv

\* A message that is not whole: more of it is waited for, in the buffer as it is
\* or in a larger one.
LEMMA ReadKeeps ==
  ASSUME PatientInv, NEW n \in 1 .. Least2(max_read, Len(stream)), NEW p,
         p = Parse(Filled(n), total_bytes_read + n, content_len, num_headers),
         ReadExtends(n, Filled(n), p) \/ ReadMore(n, Filled(n), p)
  PROVE  PatientInv'
<1>1. /\ server = "reading" /\ server' = "reading"
      /\ Reads(n, Filled(n)) /\ Partial(n, p)
      /\ sent' = sent /\ handled' = handled /\ conn' = conn /\ leftover' = leftover
      /\ content_len' = p.content_len /\ num_headers' = p.num_headers
  BY DEF ReadExtends, ReadMore, Reads, loop
<1>2. sent' \in Seq(Requests)
  BY <1>1 DEF PatientInv
<1>3. ASSUME Clean
      PROVE  InOrder' /\ Busy'
  <2>1. /\ Busy /\ Pending \in Requests
        /\ Parses(Pending, Filled(n), p)
    BY <1>1, <1>3, ReadPending
  <2>2. Pending' = Pending /\ Arriving(Pending)' /\ Len(rcvbuf') = Len(Filled(n))
    BY <1>1, <1>3, ReadsOn
  <2>3. InOrder'
    BY <1>1, <1>3, OrderStays DEF PatientInv
  <2>4. /\ p.content_len \in {0, Length[Pending]}
        /\ p.num_headers # 0 => Len(Filled(n)) >= 4
    BY <1>1, <2>1 DEF Partial, Parses
  <2>5. Length[Pending] \in Nat
    BY <2>1, RequestTypes
  <2>6. /\ max_read' \in Nat
        /\ already_extended' \in BOOLEAN
        /\ allocated' = IF already_extended' THEN HeaderSize + Length[Pending] ELSE HeaderSize
    <3>1. CASE ReadExtends(n, Filled(n), p)
      <4>1. /\ p.content_len > 0
            /\ already_extended' = TRUE
            /\ allocated' = HeaderSize + p.content_len
            /\ max_read' = p.content_len
        BY <3>1 DEF ReadExtends, Extends
      <4>2. p.content_len = Length[Pending]
        BY <2>4, <4>1
      <4> QED
        BY <2>5, <4>1, <4>2
    <3>2. CASE ReadMore(n, Filled(n), p)
      <4>1. /\ already_extended' = already_extended
            /\ allocated' = allocated
            /\ max_read' = max_read
        BY <3>2 DEF ReadMore
      <4> QED
        BY <2>1, <4>1 DEF Busy
    <3> QED
      BY <3>1, <3>2
  <2>7. Len(sent') = Len(handled') + 1
    BY <1>1, <2>1 DEF Busy
  <2>8. content_len' \in {0, Length[Pending']} /\ (num_headers' # 0 => Len(rcvbuf') >= 4)
    BY <1>1, <2>2, <2>4
  <2>9. allocated' = IF already_extended' THEN HeaderSize + Length[Pending'] ELSE HeaderSize
    BY <2>2, <2>6
  <2> QED
    BY <2>2, <2>3, <2>6, <2>7, <2>8, <2>9 DEF Busy
<1>4. Clean' => Clean
  BY <1>1, CleanStays
<1> QED
  BY <1>1, <1>2, <1>3, <1>4 DEF PatientInv

\* A message that is handed to the callback, whatever comes of that.
LEMMA HandleKeeps ==
  ASSUME PatientInv, NEW n \in 1 .. Least2(max_read, Len(stream)), NEW p,
         p = Parse(Filled(n), total_bytes_read + n, content_len, num_headers),
         \/ HandleWhole(n, Filled(n), p)
         \/ HandleExceeding(n, Filled(n), p)
         \/ HandleFails(n, Filled(n), p)
         \/ HandleKilled(n, Filled(n), p)
  PROVE  PatientInv'
<1>1. /\ ReadWhole(n, Filled(n), p) /\ server = "reading"
      /\ sent' = sent /\ conn' = conn /\ leftover' = leftover
      /\ server' # "accepting"
  BY DEF HandleWhole, HandleExceeding, HandleFails, HandleKilled, ReadWhole, Stop, Gone, Crash
<1>2. sent' \in Seq(Requests)
  BY <1>1 DEF PatientInv
<1>3. Clean => InOrder' /\ Len(handled') = Len(sent') /\ stream' = <<>>
  BY <1>1, Handles
<1>4. Clean /\ server' = "reading" => Idle'
  <2> SUFFICES ASSUME Clean, server' = "reading"
               PROVE  Idle'
    OBVIOUS
  <2>1. HandleWhole(n, Filled(n), p)
    BY DEF HandleExceeding, HandleFails, HandleKilled, Stop, Gone, Crash
  <2>2. ClearBuffer
    BY <2>1 DEF HandleWhole
  <2> QED
    BY <1>3, <2>2, HeadsFit DEF ClearBuffer, Idle
<1>5. Clean' => Clean
  BY <1>1, CleanStays
<1> QED
  BY <1>1, <1>2, <1>3, <1>4, <1>5 DEF PatientInv

LEMMA ReceiveKeeps == PatientInv /\ Receive => PatientInv'
<1> SUFFICES ASSUME PatientInv, Receive
             PROVE  PatientInv'
  OBVIOUS
<1> DEFINE Found(n) == Parse(Filled(n), total_bytes_read + n, content_len, num_headers)
<1>1. PICK n \in 1 .. Least2(max_read, Len(stream)) :
        \/ ReadOverruns(n, Filled(n))
        \/ ReadUndefined(n, Filled(n), Found(n))
        \/ ReadExtends(n, Filled(n), Found(n))
        \/ ReadMore(n, Filled(n), Found(n))
        \/ ExtendFails(n, Filled(n), Found(n))
        \/ HandleWhole(n, Filled(n), Found(n))
        \/ HandleExceeding(n, Filled(n), Found(n))
        \/ HandleFails(n, Filled(n), Found(n))
        \/ HandleKilled(n, Filled(n), Found(n))
  BY DEF Receive
<1>2. CASE \/ ReadOverruns(n, Filled(n))
           \/ ReadUndefined(n, Filled(n), Found(n))
           \/ ExtendFails(n, Filled(n), Found(n))
  <2> HIDE DEF Found
  <2> QED
    BY <1>2, Ended DEF ReadOverruns, ReadUndefined, ExtendFails, Crash, Stop, Gone
<1>3. CASE \/ ReadExtends(n, Filled(n), Found(n))
           \/ ReadMore(n, Filled(n), Found(n))
  BY <1>3, ReadKeeps
<1>4. CASE \/ HandleWhole(n, Filled(n), Found(n))
           \/ HandleExceeding(n, Filled(n), Found(n))
           \/ HandleFails(n, Filled(n), Found(n))
           \/ HandleKilled(n, Filled(n), Found(n))
  BY <1>4, HandleKeeps
<1> HIDE DEF Found
<1> QED
  BY <1>1, <1>2, <1>3, <1>4

LEMMA ConnectKeeps ==
  ASSUME PatientInv, NEW c \in Clients, Connect(c)
  PROVE  PatientInv'
BY DEF Connect, PatientInv, Clean, AllNarrow, Polite, InOrder, Idle, Busy, Arriving,
       Pending, buffer

\* A client that waits for its answers sends when nothing is under way.
LEMMA SendKeeps ==
  ASSUME PatientInv, NEW c \in Clients, NEW r \in Asks[c], Send(c, r)
  PROVE  PatientInv'
<1>1. /\ server = "reading" /\ server' = server /\ conn = c /\ conn' = conn
      /\ c \in Pipeliners \/ Len(handled) = Len(sent)
      /\ sent' = Append(sent, r) /\ stream' = stream \o Message(r)
      /\ handled' = handled /\ leftover' = leftover
      /\ UNCHANGED buffer
  BY DEF Send, loop
<1>2. r \in Requests
  BY AsksAssumption
<1>3. sent \in Seq(Requests)
  BY DEF PatientInv
<1>4. /\ sent' \in Seq(Requests)
      /\ Len(sent) \in Nat /\ Len(sent') = Len(sent) + 1
      /\ sent'[Len(sent) + 1] = r
      /\ \A k \in 1 .. Len(sent) : sent'[k] = sent[k]
      /\ DOMAIN sent = 1 .. Len(sent) /\ DOMAIN sent' = 1 .. Len(sent')
  <2>1. sent' \in Seq(Requests)
    BY <1>1, <1>2, <1>3, AppendProperties
  <2> QED
    BY <1>1, <1>2, <1>3, <2>1, AppendProperties, LenProperties
<1>5. ASSUME Clean'
      PROVE  InOrder' /\ Busy'
  <2>1. Clean
    BY <1>1, <1>4, <1>5 DEF Clean, AllNarrow, Polite
  <2>2. Len(handled) = Len(sent) /\ (Idle \/ Busy) /\ InOrder
    BY <1>1, <2>1 DEF PatientInv, Clean, Polite
  <2>3. Idle
    <3>1. SUFFICES ASSUME Busy
                   PROVE  FALSE
      BY <2>2
    <3>2. Len(sent) = Len(handled) + 1
      BY <3>1 DEF Busy
    <3> QED
      BY <1>4, <2>2, <3>2
  <2>4. InOrder'
    <3>1. Len(handled') <= Len(sent')
      BY <1>1, <1>4, <2>2
    <3>2. \A k \in 1 .. Len(handled') :
            handled'[k].request = sent'[k] /\ handled'[k].body = Body(sent'[k])
      BY <1>1, <1>4, <2>2 DEF InOrder
    <3>3. handled' \in Seq([request : Requests, body : Seq(Units)])
      BY <1>1, <2>2 DEF InOrder
    <3> QED
      BY <3>1, <3>2, <3>3 DEF InOrder
  <2>5. Pending' = r
    BY <1>1, <1>4, <2>2 DEF Pending
  <2>6. Message(r) \in Seq(Units) /\ Len(Message(r)) \in Nat /\ Length[r] \in Nat
    BY <1>2, MessageUnits, LenProperties, RequestTypes
  <2>7. stream' = Message(r)
    BY <1>1, <2>3, <2>6, ConcatEmptySeq DEF Idle
  <2>8. rcvbuf' = <<>> /\ total_bytes_read' = 0 /\ content_len' = 0 /\ num_headers' = 0
        /\ max_read' \in Nat /\ already_extended' = FALSE /\ allocated' = HeaderSize
    BY <1>1, <2>3 DEF Idle, buffer
  <2>9. Arriving(Pending)'
    <3>1. Len(rcvbuf') = 0 /\ rcvbuf' \in Seq(Units)
      BY <2>8, EmptySeq
    <3>2. \A i \in 1 .. Len(stream') : stream'[i] = Message(r)[Len(rcvbuf') + i]
      <4>1. \A i \in 1 .. Len(Message(r)) : 0 + i = i
        BY <2>6
      <4> QED
        BY <2>7, <3>1, <4>1
    <3>3. \A i \in 1 .. Len(rcvbuf') : rcvbuf'[i] = Message(r)[i]
      BY <3>1
    <3>4. Len(rcvbuf') + Len(stream') <= Len(Message(r))
      BY <2>6, <2>7, <3>1
    <3>5. total_bytes_read' = Len(rcvbuf') /\ stream' \in Seq(Units)
      BY <2>6, <2>7, <2>8, <3>1
    <3> QED
      BY <2>5, <3>1, <3>2, <3>3, <3>4, <3>5 DEF Arriving
  <2>10. Len(sent') = Len(handled') + 1
    BY <1>1, <1>4, <2>2
  <2>11. already_extended' \in BOOLEAN
         /\ allocated' = IF already_extended' THEN HeaderSize + Length[Pending'] ELSE HeaderSize
    BY <2>8
  <2> QED
    BY <2>4, <2>8, <2>9, <2>10, <2>11 DEF Busy
<1> QED
  BY <1>1, <1>4, <1>5 DEF PatientInv

LEMMA HangUpKeeps ==
  ASSUME PatientInv, NEW c \in Clients, HangUp(c)
  PROVE  PatientInv'
<1>1. /\ server' = server /\ conn' = conn /\ UNCHANGED buffer
      /\ sent' = sent /\ handled' = handled /\ leftover' = leftover
  BY DEF HangUp, loop
<1>2. \/ stream' = stream
      \/ \E n \in 0 .. Len(stream) : stream' = SubSeq(stream, 1, n)
  BY DEF HangUp
<1>3. sent' \in Seq(Requests)
  BY <1>1 DEF PatientInv
<1>4. stream = <<>> => stream' = <<>>
  <2> SUFFICES ASSUME stream = <<>>, NEW n \in 0 .. Len(stream), stream' = SubSeq(stream, 1, n)
               PROVE  stream' = <<>>
    BY <1>2
  <2>1. n = 0
    BY EmptySeq
  <2>2. SubSeq(stream, 1, n) = <<>>
    BY <2>1, SubSeqEmpty
  <2> QED
    BY <2>2
<1>5. ASSUME Clean
      PROVE  InOrder' /\ (server' = "reading" => Idle' \/ Busy')
  <2>1. InOrder'
    BY <1>1, <1>5, OrderStays DEF PatientInv
  <2>2. CASE server # "reading"
    BY <1>1, <2>1, <2>2
  <2>3. CASE server = "reading" /\ Idle
    BY <1>1, <1>4, <2>1, <2>3 DEF Idle, buffer
  <2>4. CASE server = "reading" /\ Busy
    <3> DEFINE r == Pending
    <3>1. Arriving(r)
      BY <2>4 DEF Busy
    <3> HIDE DEF r
    <3>2. /\ stream \in Seq(Units) /\ Len(stream) \in Nat
          /\ rcvbuf \in Seq(Units) /\ Len(rcvbuf) \in Nat
          /\ Len(rcvbuf) + Len(stream) <= Len(Message(r))
          /\ \A i \in 1 .. Len(rcvbuf) : rcvbuf[i] = Message(r)[i]
          /\ \A i \in 1 .. Len(stream) : stream[i] = Message(r)[Len(rcvbuf) + i]
      BY <3>1, LenProperties DEF Arriving
    <3>3. /\ stream' \in Seq(Units) /\ Len(stream') \in Nat
          /\ Len(stream') <= Len(stream)
          /\ \A i \in 1 .. Len(stream') : stream'[i] = stream[i]
      <4>1. CASE stream' = stream
        BY <3>2, <4>1
      <4>2. ASSUME NEW n \in 0 .. Len(stream), stream' = SubSeq(stream, 1, n)
            PROVE  /\ stream' \in Seq(Units) /\ Len(stream') \in Nat
                   /\ Len(stream') <= Len(stream)
                   /\ \A i \in 1 .. Len(stream') : stream'[i] = stream[i]
        <5>1. \A i \in 1 .. n : stream[i] \in Units
          BY <3>2, ElementOfSeq
        <5>2. /\ stream' \in Seq(Units)
              /\ Len(stream') = IF 1 <= n THEN n - 1 + 1 ELSE 0
              /\ \A i \in 1 .. n - 1 + 1 : stream'[i] = stream[1 + i - 1]
          BY <3>2, <4>2, <5>1, SubSeqProperties
        <5> QED
          BY <3>2, <5>2
      <4> QED
        BY <1>2, <4>1, <4>2
    <3>4. Pending' = r
      BY <1>1 DEF Pending, r
    <3>5. rcvbuf' = rcvbuf /\ total_bytes_read' = total_bytes_read
      BY <1>1 DEF buffer
    <3>6. Len(rcvbuf') + Len(stream') <= Len(Message(r))
      <4>1. Len(Message(r)) \in Nat
        <5>1. r \in Requests
          <6>1. sent \in Seq(Requests) /\ Len(sent) = Len(handled) + 1
                /\ Len(handled) \in Nat
            BY <1>5, <2>4, LenProperties DEF PatientInv, InOrder, Busy
          <6>2. Len(handled) + 1 \in 1 .. Len(sent)
            BY <6>1
          <6> QED
            BY <6>1, <6>2, ElementOfSeq DEF Pending, r
        <5> QED
          BY <5>1, MessageUnits, LenProperties
      <4> QED
        BY <3>2, <3>3, <3>5, <4>1
    <3>7. \A i \in 1 .. Len(stream') : stream'[i] = Message(r)[Len(rcvbuf) + i]
      <4>1. \A i \in 1 .. Len(stream') : i \in 1 .. Len(stream)
        BY <3>2, <3>3
      <4> QED
        BY <3>2, <3>3, <4>1
    <3>8. Arriving(Pending)'
      BY <3>1, <3>2, <3>3, <3>4, <3>5, <3>6, <3>7 DEF Arriving
    <3>9. Busy'
      BY <1>1, <2>4, <3>8 DEF Busy, Pending, buffer
    <3> QED
      BY <2>1, <3>9
  <2>5. server = "reading" => Idle \/ Busy
    BY <1>5 DEF PatientInv
  <2> QED
    BY <2>2, <2>3, <2>4, <2>5
<1>6. Clean' => Clean
  BY <1>1, CleanStays
<1>7. server' = "accepting" => sent' = <<>> /\ stream' = <<>> /\ handled' = <<>>
  BY <1>1, <1>4 DEF PatientInv
<1> QED
  BY <1>3, <1>5, <1>6, <1>7 DEF PatientInv

LEMMA PatientNext == PatientInv /\ [Next]_vars => PatientInv'
<1> SUFFICES ASSUME PatientInv, [Next]_vars
             PROVE  PatientInv'
  OBVIOUS
<1>1. CASE Accept
  BY <1>1, AcceptKeeps
<1>2. CASE Receive
  BY <1>2, ReceiveKeeps
<1>3. CASE PeerClosed
  BY <1>3, PeerClosedKeeps
<1>4. CASE AcceptFails \/ ReadFails \/ Interrupt
  BY <1>4, EndKeeps
<1>5. CASE ClientStep
  <2>1. PICK c \in Clients :
          Connect(c) \/ (\E r \in Asks[c] : Send(c, r)) \/ HangUp(c)
    BY <1>5 DEF ClientStep
  <2> QED
    BY <2>1, ConnectKeeps, SendKeeps, HangUpKeeps
<1>6. CASE UNCHANGED vars
  BY <1>6 DEF vars, loop, buffer, peers, PatientInv, Clean, AllNarrow, Polite, InOrder,
              Idle, Busy, Arriving, Pending
<1> QED
  BY <1>1, <1>2, <1>3, <1>4, <1>5, <1>6 DEF Next, ServerStep

LEMMA Patient == Spec => []PatientInv
<1>1. Init => PatientInv
  BY PatientInit
<1>2. PatientInv /\ [Next]_vars => PatientInv'
  BY PatientNext
<1> QED
  BY <1>1, <1>2, PTL DEF Spec

-----------------------------------------------------------------------------
(* What it shows *)

(***************************************************************************)
(* A client that waits for its answers: once the buffer was extended for   *)
(* its message, all of it fits, for every size of heads and bodies and     *)
(* wherever the reads cut it (the realloc in handle_connection).           *)
(***************************************************************************)
THEOREM BufferIsLargeEnough == Spec => []ExtendedFits
<1>1. PatientInv => ExtendedFits
  <2> SUFFICES ASSUME PatientInv, server = "reading", already_extended, Clean
               PROVE  total_bytes_read + Len(stream) <= allocated
    BY DEF ExtendedFits, Clean
  <2>1. Busy
    BY DEF PatientInv, Idle
  <2>2. sent \in Seq(Requests) /\ Len(sent) = Len(handled) + 1 /\ Len(handled) \in Nat
    BY <2>1, LenProperties DEF PatientInv, InOrder, Busy
  <2>3. Pending \in Requests
    <3>1. Len(handled) + 1 \in 1 .. Len(sent)
      BY <2>2
    <3> QED
      BY <2>2, <3>1, ElementOfSeq DEF Pending
  <2> DEFINE r == Pending
  <2>4. /\ total_bytes_read + Len(stream) <= Len(Message(r))
        /\ total_bytes_read \in Nat /\ Len(stream) \in Nat
    BY <2>1, LenProperties DEF Busy, Arriving
  <2>5. allocated = HeaderSize + Length[r]
    BY <2>1 DEF Busy
  <2>6. /\ Len(Message(r)) = HeadSize(r) + Length[r]
        /\ HeadSize(r) \in Nat /\ Length[r] \in Nat
        /\ HeadSize(r) <= HeaderSize /\ HeaderSize \in Nat
    <3> HIDE DEF r
    <3>1. r \in Requests
      BY <2>3 DEF r
    <3> QED
      BY <3>1, MessageUnits, RequestTypes, HeadUnits, HeadsFit
  <2> HIDE DEF r
  <2> QED
    BY <2>4, <2>5, <2>6
<1> QED
  BY <1>1, Patient, PTL

(***************************************************************************)
(* A client that waits for its answers: however its requests are cut into  *)
(* reads, the callback is handed them in the order they were sent, none    *)
(* twice, each with exactly its body.                                      *)
(***************************************************************************)
THEOREM PatientIsHandedAsSent == Spec => [](Polite(conn) => HandedAsSent)
<1>1. PatientInv => (Polite(conn) => HandedAsSent)
  <2> SUFFICES ASSUME PatientInv, Clean, NEW k \in DOMAIN handled
               PROVE  Matches(k)
    BY DEF HandedAsSent, Clean
  <2>1. /\ sent \in Seq(Requests)
        /\ handled \in Seq([request : Requests, body : Seq(Units)])
        /\ Len(handled) <= Len(sent)
        /\ \A j \in 1 .. Len(handled) :
             handled[j].request = sent[j] /\ handled[j].body = Body(sent[j])
    BY DEF PatientInv, InOrder
  <2>2. k \in 1 .. Len(handled) /\ Len(handled) \in Nat /\ Len(sent) \in Nat
    BY <2>1, LenProperties
  <2>3. k <= Len(sent) /\ k \in 1 .. Len(sent)
    BY <2>1, <2>2
  <2>4. handled[k].request = sent[k] /\ handled[k].body = Body(sent[k])
    BY <2>1, <2>2
  <2>5. IsPrefix(Body(sent[k]), Body(sent[k]))
    <3>1. Length[sent[k]] \in Nat
      BY <2>1, <2>3, ElementOfSeq, RequestTypes
    <3>2. Len(Body(sent[k])) = Length[sent[k]]
      BY <3>1 DEF Body
    <3> QED
      BY <3>1, <3>2 DEF IsPrefix
  <2> QED
    BY <2>3, <2>4, <2>5 DEF Matches
<1> QED
  BY <1>1, Patient, PTL

(***************************************************************************)
(* Where the loop or the parser takes the process down, for every          *)
(* instance: a request line that was cut and no message handed over, a     *)
(* message too large for a buffer that was not extended, or a connection   *)
(* that breaks what the code assumes of it.                                *)
(***************************************************************************)
THEOREM ServerCrashHasCause == Spec => CrashHasCause
<1> DEFINE Cause == server' = "crashed" /\ server # "crashed" =>
                      \/ leftover # {}
                      \/ ~AllNarrow
                      \/ ~Polite(conn)
                      \/ LineCut
                      \/ TooLarge
<1>1. PatientInv /\ [Next]_vars => [Cause]_vars
  <2> SUFFICES ASSUME PatientInv, Next, server' = "crashed", server # "crashed", Clean,
                      ~LineCut, ~TooLarge
               PROVE  FALSE
    BY DEF Clean
  <2>1. Receive
    BY DEF Next, ServerStep, ClientStep, Accept, PeerClosed, NextConnection, ReadFails,
           AcceptFails, Interrupt, Stop, Gone, Connect, Send, HangUp, loop
  <2> DEFINE Found(n) == Parse(Filled(n), total_bytes_read + n, content_len, num_headers)
  <2>2. PICK n \in 1 .. Least2(max_read, Len(stream)) :
          \/ ReadOverruns(n, Filled(n))
          \/ ReadUndefined(n, Filled(n), Found(n))
          \/ HandleExceeding(n, Filled(n), Found(n))
    BY <2>1 DEF Receive, ReadExtends, ReadMore, ExtendFails, HandleWhole, HandleFails,
                HandleKilled, Stop, Gone, loop
  <2>3. server = "reading"
    BY <2>2 DEF ReadOverruns, ReadUndefined, HandleExceeding, Reads, ReadWhole
  <2>4. /\ Busy /\ Pending \in Requests /\ n \in 1 .. Len(stream)
        /\ Len(Filled(n)) = total_bytes_read + n
        /\ total_bytes_read + n <= Len(Message(Pending))
        /\ total_bytes_read + Len(stream) <= Len(Message(Pending))
        /\ Parses(Pending, Filled(n), Found(n))
    BY <2>3, ReadPending
  <2> HIDE DEF Found
  <2>5. CASE ReadOverruns(n, Filled(n))
    <3>1. ~(total_bytes_read + n <= allocated)
      <4>1. total_bytes_read + n > allocated
        BY <2>5 DEF ReadOverruns, Overruns
      <4>2. total_bytes_read + n \in Nat /\ allocated \in Nat
        <5>1. total_bytes_read \in Nat /\ Len(stream) \in Nat
          BY <2>4, LenProperties DEF Busy, Arriving
        <5>2. allocated \in Nat
          BY <2>4, RequestTypes, HeadsFit DEF Busy
        <5> QED
          BY <2>4, <5>1, <5>2
      <4> QED
        BY <4>1, <4>2
    <3>2. CASE already_extended
      <4>1. total_bytes_read + n <= HeaderSize + Length[Pending]
        <5> DEFINE r == Pending
        <5>1. r \in Requests
          BY <2>4
        <5> HIDE DEF r
        <5>2. /\ Len(Message(r)) = HeadSize(r) + Length[r]
              /\ HeadSize(r) \in Nat /\ Length[r] \in Nat
              /\ HeadSize(r) <= HeaderSize /\ HeaderSize \in Nat
          BY <5>1, MessageUnits, RequestTypes, HeadUnits, HeadsFit
        <5>3. total_bytes_read + n <= Len(Message(r)) /\ total_bytes_read + n \in Int
          <6>1. total_bytes_read \in Nat /\ Len(stream) \in Nat
            BY <2>4, LenProperties DEF Busy, Arriving
          <6> QED
            BY <2>4, <6>1 DEF r
        <5>4. total_bytes_read + n <= HeaderSize + Length[r]
          BY <5>2, <5>3
        <5> QED
          BY <5>4 DEF r
      <4> QED
        BY <2>4, <3>1, <3>2, <4>1 DEF Busy
    <3>3. CASE ~already_extended
      <4>1. allocated = HeaderSize
        BY <2>4, <3>3 DEF Busy
      <4>2. ~(Len(Message(Pending)) > HeaderSize)
        BY <3>3 DEF TooLarge
      <4>3. total_bytes_read + n <= HeaderSize
        <5>1. total_bytes_read \in Nat /\ Len(stream) \in Nat
          BY <2>4, LenProperties DEF Busy, Arriving
        <5>2. Len(Message(Pending)) \in Nat
          BY <2>4, MessageUnits, LenProperties
        <5> QED
          BY <2>4, <4>2, <5>1, <5>2, HeadsFit
      <4> QED
        BY <3>1, <4>1, <4>3
    <3> QED
      BY <3>2, <3>3
  <2>6. CASE ReadUndefined(n, Filled(n), Found(n))
    <3>1. Found(n).result \in {"undefined", "any"}
          /\ total_bytes_read' = total_bytes_read + n
          /\ handled' = handled
      BY <2>6 DEF ReadUndefined, Reads
    <3>2. Len(Filled(n)) < 3
      BY <2>4, <3>1 DEF Parses
    <3> QED
      BY <2>4, <3>1, <3>2 DEF LineCut
  <2>7. CASE HandleExceeding(n, Filled(n), Found(n))
    <3>1. ReadWhole(n, Filled(n), Found(n)) /\ Exceeds(n, Filled(n), Found(n))
      BY <2>7 DEF HandleExceeding
    <3> QED
      BY <2>3, <3>1, Handles DEF Found
  <2> QED
    BY <2>2, <2>5, <2>6, <2>7
<1> QED
  BY <1>1, Patient, PTL DEF Spec, CrashHasCause

=============================================================================
