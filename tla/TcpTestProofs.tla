---------------------------- MODULE TcpTestProofs ----------------------------
(***************************************************************************)
(* Proofs about TcpTest: the two programs keep their state in bounds, the  *)
(* file the server reads fits its buffer whatever size it took, a client   *)
(* that reports success has been heard, and the server's endless loop ends *)
(* only over a client that gives it cause.                                 *)
(***************************************************************************)
EXTENDS TcpTest, FiniteSetTheorems, SequenceTheorems, TLAPS

-----------------------------------------------------------------------------
(* Induction over the naturals, for a set instead of a predicate.          *)

LEMMA Least ==
  ASSUME NEW T \in SUBSET Nat, T # {}
  PROVE  \E x \in T : \A y \in T : x <= y
<1> DEFINE U == {0 .. x - 1 : x \in T}
<1>1. IsWellFoundedOn(StrictSubsetOrdering(Nat), FiniteSubsetsOf(Nat))
  BY FS_StrictSubsetOrderingWellFounded
<1>2. U \in SUBSET FiniteSubsetsOf(Nat)
  <2> SUFFICES ASSUME NEW x \in T
               PROVE  0 .. x - 1 \in FiniteSubsetsOf(Nat)
    OBVIOUS
  <2>1. IsFiniteSet(0 .. x - 1)
    BY FS_Interval
  <2> QED
    BY <2>1 DEF FiniteSubsetsOf
<1>3. U # {}
  OBVIOUS
<1>4. PICK S \in U : \A V \in U : <<V, S>> \notin StrictSubsetOrdering(Nat)
  <2> HIDE DEF U
  <2> QED
    BY <1>1, <1>2, <1>3, WFMin
<1>5. PICK x \in T : S = 0 .. x - 1
  BY <1>4
<1>6. ASSUME NEW y \in T, y < x
      PROVE  FALSE
  <2>1. 0 .. y - 1 \in U
    OBVIOUS
  <2>2. <<0 .. y - 1, S>> \notin StrictSubsetOrdering(Nat)
    BY <2>1, <1>4
  <2>3. /\ 0 .. y - 1 \subseteq S
        /\ y \in S /\ y \notin 0 .. y - 1
        /\ S \subseteq Nat
    BY <1>5, <1>6
  <2> QED
    BY <2>2, <2>3 DEF StrictSubsetOrdering
<1> QED
  BY <1>6

LEMMA Induction ==
  ASSUME NEW T \in SUBSET Nat, \A n \in Nat : 0 .. n - 1 \subseteq T => n \in T
  PROVE  T = Nat
<1> SUFFICES ASSUME Nat \ T # {}
             PROVE  FALSE
  OBVIOUS
<1>1. PICK x \in Nat \ T : \A y \in Nat \ T : x <= y
  BY Least
<1>2. 0 .. x - 1 \subseteq T
  BY <1>1
<1> QED
  BY <1>1, <1>2

-----------------------------------------------------------------------------
(* Sizes as digits                                                         *)

Signs == ToSet(Digits)

Base == Len(Digits)

LEMMA DigitsFacts ==
  /\ Base \in Nat /\ Base >= 2
  /\ \A i \in 1 .. Base : Digits[i] \in Signs
  /\ \A d \in Signs : DigitValue(d) \in Nat
<1>1. Digits \in Seq(Signs) /\ Base >= 2
  BY TcpAssumption DEF Signs, Base
<1>2. Base \in Nat /\ DOMAIN Digits = 1 .. Base
  BY <1>1, LenProperties DEF Base
<1>3. ASSUME NEW d \in Signs
      PROVE  DigitValue(d) \in Nat
  <2>1. \E i \in DOMAIN Digits : Digits[i] = d
    BY DEF Signs, ToSet
  <2> DEFINE j == CHOOSE i \in DOMAIN Digits : Digits[i] = d
  <2>2. j \in 1 .. Base
    BY <1>2, <2>1
  <2>3. DigitValue(d) = j - 1
    BY DEF DigitValue
  <2> HIDE DEF j
  <2> QED
    BY <1>2, <2>2, <2>3
<1> QED
  BY <1>1, <1>2, <1>3 DEF Signs, ToSet

\* The quotient is smaller, the remainder is the index of a digit.
LEMMA Division ==
  ASSUME NEW n \in Nat, n >= Base
  PROVE  /\ n \div Base \in 0 .. n - 1
         /\ n % Base \in 0 .. Base - 1
<1> DEFINE q == n \div Base
           r == n % Base
<1>1. Base \in Nat /\ Base >= 2
  BY DigitsFacts
<1>2. q \in Int /\ r \in 0 .. Base - 1 /\ n = Base * q + r
  <2> HIDE DEF Base
  <2> QED
    BY <1>1
<1>3. q >= 0
  BY <1>1, <1>2
<1>4. q < n
  BY <1>1, <1>2, <1>3
<1> QED
  BY <1>2, <1>3, <1>4

\* snprintf() writes a number from 0 on with at least one digit, and nothing but
\* digits.
LEMMA NumeralFacts ==
  ASSUME NEW n \in Nat
  PROVE  /\ Numeral(n) \in Seq(Signs) \ {<<>>}
         /\ n < Base => Numeral(n) = <<Digits[n + 1]>>
<1> DEFINE Words == Seq(Signs) \ {<<>>}
           Spells(f, m) == f = [k \in 0 .. m |->
                                  IF k < Base THEN <<Digits[k + 1]>>
                                  ELSE Append(f[k \div Base], Digits[(k % Base) + 1])]
<1>1. ASSUME NEW k \in Nat, k < Base
      PROVE  <<Digits[k + 1]>> \in Words
  BY <1>1, DigitsFacts
<1>2. ASSUME NEW k \in Nat, k >= Base, NEW w \in Words
      PROVE  Append(w, Digits[(k % Base) + 1]) \in Words
  <2>1. Digits[(k % Base) + 1] \in Signs
    BY <1>2, DigitsFacts, Division
  <2> QED
    BY <2>1, AppendProperties
<1> DEFINE T == {m \in Nat : \E f \in [0 .. m -> Words] : Spells(f, m)}
<1>3. ASSUME NEW m \in Nat, 0 .. m - 1 \subseteq T
      PROVE  m \in T
  <2>1. PICK g : /\ g \in [0 .. m - 1 -> Words]
                 /\ \A k \in 0 .. m - 1 :
                      g[k] = IF k < Base THEN <<Digits[k + 1]>>
                             ELSE Append(g[k \div Base], Digits[(k % Base) + 1])
    <3>1. CASE m = 0
      <4>1. [k \in 0 .. m - 1 |-> <<>>] \in [0 .. m - 1 -> Words]
        BY <3>1
      <4> QED
        BY <3>1, <4>1
    <3>2. CASE m # 0
      <4>1. m - 1 \in T
        <5>1. m - 1 \in 0 .. m - 1
          BY <3>2
        <5> HIDE DEF T
        <5> QED
          BY <1>3, <5>1
      <4>2. PICK f \in [0 .. m - 1 -> Words] : Spells(f, m - 1)
        BY <4>1
      <4>3. \A k \in 0 .. m - 1 :
              f[k] = IF k < Base THEN <<Digits[k + 1]>>
                     ELSE Append(f[k \div Base], Digits[(k % Base) + 1])
        BY <4>2
      <4> QED
        BY <4>2, <4>3
    <3> QED
      BY <3>1, <3>2
  <2> DEFINE last == IF m < Base THEN <<Digits[m + 1]>>
                     ELSE Append(g[m \div Base], Digits[(m % Base) + 1])
             h == [k \in 0 .. m |-> IF k = m THEN last ELSE g[k]]
  <2>2. last \in Words
    <3>1. CASE m < Base
      BY <1>1, <3>1
    <3>2. CASE m >= Base
      <4> HIDE DEF last, h
      <4>0. m \div Base \in 0 .. m - 1
        BY <3>2, Division
      <4>1. m \div Base \in 0 .. m - 1 /\ ~(m < Base)
        BY <3>2, <4>0, DigitsFacts
      <4>2. g[m \div Base] \in Words
        BY <2>1, <4>1
      <4>3. last = Append(g[m \div Base], Digits[(m % Base) + 1])
        BY <4>1 DEF last
      <4> HIDE DEF last
      <4> QED
        BY <1>2, <3>2, <4>2, <4>3
    <3> QED
      BY <3>1, <3>2, DigitsFacts
  <2>3. h \in [0 .. m -> Words]
    <3> HIDE DEF last
    <3> QED
      BY <2>1, <2>2
  <2>4. ASSUME NEW k \in 0 .. m
        PROVE  h[k] = IF k < Base THEN <<Digits[k + 1]>>
                      ELSE Append(h[k \div Base], Digits[(k % Base) + 1])
    <3>1. CASE k < Base
      BY <2>1, <3>1
    <3>2. CASE k >= Base
      <4>1. k \div Base \in 0 .. k - 1
        BY <3>2, Division
      <4>2. h[k \div Base] = g[k \div Base]
        BY <4>1
      <4>3. CASE k = m
        BY <3>2, <4>2, <4>3, DigitsFacts
      <4>4. CASE k # m
        <5>1. k \in 0 .. m - 1
          BY <4>4
        <5>2. h[k] = g[k] /\ ~(k < Base)
          BY <3>2, <5>1, DigitsFacts
        <5> HIDE DEF h
        <5> QED
          BY <2>1, <4>2, <5>1, <5>2
      <4> QED
        BY <4>3, <4>4
    <3> QED
      BY <3>1, <3>2, DigitsFacts
  <2>5. Spells(h, m)
    <3> HIDE DEF h
    <3>1. h = [k \in 0 .. m |-> h[k]]
      BY <2>3
    <3> QED
      BY <2>4, <3>1
  <2> HIDE DEF h
  <2> QED
    BY <2>3, <2>5
<1>4. T = Nat
  <2> HIDE DEF T
  <2>1. T \in SUBSET Nat
    BY DEF T
  <2> QED
    BY <1>3, <2>1, Induction
<1> DEFINE text == CHOOSE f : Spells(f, n)
<1>5. \E f : Spells(f, n)
  BY <1>4
<1>6. Spells(text, n)
  <2> HIDE DEF Spells
  <2> QED
    BY <1>5
<1>7. Numeral(n) = text[n]
  BY DEF Numeral, Base
<1> HIDE DEF text
<1> DEFINE P == {m \in Nat : m <= n => text[m] \in Words}
<1>8. ASSUME NEW m \in Nat, 0 .. m - 1 \subseteq P
      PROVE  m \in P
  <2> SUFFICES ASSUME m <= n
               PROVE  text[m] \in Words
    OBVIOUS
  <2>1. text[m] = IF m < Base THEN <<Digits[m + 1]>>
                  ELSE Append(text[m \div Base], Digits[(m % Base) + 1])
    <3>1. m \in 0 .. n
      OBVIOUS
    <3>2. Spells(text, n)
      BY <1>6
    <3> QED
      BY <3>1, <3>2
  <2>2. CASE m < Base
    BY <1>1, <2>1, <2>2
  <2>3. CASE m >= Base
    <3>1. m \div Base \in 0 .. m - 1
      BY <2>3, Division
    <3>2. m \div Base \in P
      BY <1>8, <3>1
    <3>3. text[m \div Base] \in Words
      BY <3>1, <3>2
    <3>4. ~(m < Base)
      BY <2>3, DigitsFacts
    <3> QED
      BY <1>2, <2>1, <2>3, <3>3, <3>4
  <2> QED
    BY <2>2, <2>3, DigitsFacts
<1>9. P = Nat
  <2> HIDE DEF P
  <2>1. P \in SUBSET Nat
    BY DEF P
  <2> QED
    BY <1>8, <2>1, Induction
<1>10. n < Base => text[n] = <<Digits[n + 1]>>
  <2>1. n \in 0 .. n
    OBVIOUS
  <2> QED
    BY <1>6, <2>1
<1> QED
  BY <1>7, <1>9, <1>10

\* The size of a regular file is written in digits, that of a pipe as "-1".
LEMMA TextFacts ==
  ASSUME NEW f, f \in Files
  PROVE  /\ Size(f) \in Int
         /\ Text(Size(f)) \in Seq(Bytes) \ {<<>>}
         /\ f # Pipe => Text(Size(f)) \in Seq(Signs)
         /\ f = Pipe => Len(Text(Size(f))) = 2
<1>1. Len(f) \in Nat
  BY TcpAssumption
<1>2. Seq(Signs) \subseteq Seq(Bytes)
  <2>1. Signs \subseteq Bytes
    BY DEF Signs, Bytes
  <2> QED
    BY <2>1, SeqMonotonic
<1>3. CASE f # Pipe
  <2>1. Size(f) = Len(f) /\ ~(Size(f) < 0)
    BY <1>1, <1>3 DEF Size
  <2>2. Text(Size(f)) = Numeral(Len(f))
    BY <2>1 DEF Text
  <2> QED
    BY <1>1, <1>2, <1>3, <2>1, <2>2, NumeralFacts
<1>4. CASE f = Pipe
  <2>1. Size(f) = 0 - 1
    BY <1>4 DEF Size
  <2>2. Numeral(1) = <<Digits[2]>> /\ Digits[2] \in Bytes
    <3>1. 1 \in Nat /\ 1 < Base /\ 1 + 1 = 2 /\ 2 \in 1 .. Base
      BY DigitsFacts
    <3>2. 1 < Base => Numeral(1) = <<Digits[1 + 1]>>
      BY <3>1, NumeralFacts
    <3>3. Digits[2] \in Signs
      BY <3>1, DigitsFacts
    <3> QED
      BY <3>1, <3>2, <3>3 DEF Signs, Bytes
  <2>3. Text(Size(f)) = <<Minus>> \o <<Digits[2]>>
    <3>1. Size(f) < 0
      BY <2>1
    <3>3. Text(Size(f)) = <<Minus>> \o Numeral(-Size(f))
      BY <3>1 DEF Text
    <3>2. -Size(f) = 1
      <4>1. ASSUME NEW n \in Int, n + 1 = 0
            PROVE  -n = 1
        BY <4>1
      <4>2. Size(f) \in Int /\ Size(f) + 1 = 0
        BY <2>1
      <4> QED
        BY <4>1, <4>2
    <3> QED
      BY <2>2, <3>2, <3>3
  <2>4. Minus \in Bytes
    BY DEF Bytes
  <2> DEFINE digit == Digits[2]
  <2> HIDE DEF digit
  <2>5. /\ <<Minus>> \o <<digit>> \in Seq(Bytes) \ {<<>>}
        /\ Len(<<Minus>> \o <<digit>>) = 2
    BY <2>2, <2>4 DEF digit
  <2> QED
    BY <1>4, <2>1, <2>3, <2>5 DEF digit
<1> QED
  BY <1>3, <1>4

\* The digits a buffer starts with are counted.
LEMMA LeadingFacts ==
  ASSUME NEW b, Len(b) \in Nat
  PROVE  /\ Leading(b) \in 0 .. Len(b)
         /\ \A i \in 1 .. Leading(b) : b[i] \in Signs
<1> DEFINE L(n) == /\ \A i \in 1 .. n : b[i] \in Signs
                   /\ n < Len(b) => b[n + 1] \notin Signs
<1>1. \E n \in 0 .. Len(b) : L(n)
  <2>1. CASE \A i \in 1 .. Len(b) : b[i] \in Signs
    <3>1. L(Len(b))
      BY <2>1
    <3> QED
      BY <3>1
  <2>2. CASE \E i \in 1 .. Len(b) : b[i] \notin Signs
    <3> DEFINE T == {i \in 1 .. Len(b) : b[i] \notin Signs}
    <3>1. T \in SUBSET Nat /\ T # {}
      BY <2>2
    <3>2. PICK x \in T : \A y \in T : x <= y
      <4> HIDE DEF T
      <4> QED
        BY <3>1, Least
    <3>3. x \in 1 .. Len(b) /\ b[x] \notin Signs
      BY <3>2
    <3>4. ASSUME NEW i \in 1 .. x - 1
          PROVE  b[i] \in Signs
      BY <3>2, <3>3
    <3>5. x - 1 \in 0 .. Len(b) /\ (x - 1) + 1 = x
      BY <3>3
    <3>6. L(x - 1)
      BY <3>3, <3>4, <3>5
    <3> HIDE DEF L
    <3> QED
      BY <3>5, <3>6
  <2> QED
    BY <2>1, <2>2
<1>2. Leading(b) = CHOOSE n \in 0 .. Len(b) : L(n)
  BY DEF Leading, Signs
<1>3. Leading(b) \in 0 .. Len(b) /\ L(Leading(b))
  <2> HIDE DEF L
  <2> QED
    BY <1>1, <1>2
<1> QED
  BY <1>3

\* The digits a buffer starts with are a number.
LEMMA ValueType ==
  ASSUME NEW b, Len(b) \in Nat
  PROVE  Value(b) \in Nat
<1> DEFINE Adds(f, m) == f = [n \in 0 .. m |->
                                IF n = 0 THEN 0 ELSE f[n - 1] * Base + DigitValue(b[n])]
           T == {m \in Nat : \E f : Adds(f, m)}
<1>1. ASSUME NEW m \in Nat, 0 .. m - 1 \subseteq T
      PROVE  m \in T
  <2>1. CASE m = 0
    <3>1. Adds([n \in 0 .. m |-> 0], m)
      BY <2>1
    <3> HIDE DEF Adds
    <3> QED
      BY <3>1
  <2>2. CASE m # 0
    <3>1. m - 1 \in 0 .. m - 1
      BY <2>2
    <3>2. PICK g : Adds(g, m - 1)
      <4> HIDE DEF Adds
      <4> QED
        BY <1>1, <3>1
    <3> DEFINE h == [n \in 0 .. m |-> IF n = m THEN g[m - 1] * Base + DigitValue(b[m]) ELSE g[n]]
    <3>3. ASSUME NEW n \in 0 .. m
          PROVE  h[n] = IF n = 0 THEN 0 ELSE h[n - 1] * Base + DigitValue(b[n])
      <4>1. CASE n = m
        <5>1. h[n - 1] = g[m - 1]
          BY <2>2, <4>1
        <5>2. h[n] = g[m - 1] * Base + DigitValue(b[m])
          BY <4>1
        <5> HIDE DEF h
        <5> QED
          BY <2>2, <4>1, <5>1, <5>2
      <4>2. CASE n # m
        <5>1. n \in 0 .. m - 1 /\ h[n] = g[n]
          BY <4>2
        <5>2. g[n] = IF n = 0 THEN 0 ELSE g[n - 1] * Base + DigitValue(b[n])
          BY <3>2, <5>1
        <5>3. n # 0 => h[n - 1] = g[n - 1]
          BY <5>1
        <5> HIDE DEF h
        <5> QED
          BY <5>1, <5>2, <5>3
      <4> QED
        BY <4>1, <4>2
    <3>4. h = [n \in 0 .. m |-> h[n]]
      OBVIOUS
    <3>5. Adds(h, m)
      <4> HIDE DEF h
      <4> QED
        BY <3>3, <3>4
    <3> HIDE DEF Adds, h
    <3> QED
      BY <3>5
  <2> QED
    BY <2>1, <2>2
<1>2. T = Nat
  <2> HIDE DEF T
  <2>1. T \in SUBSET Nat
    BY DEF T
  <2> QED
    BY <1>1, <2>1, Induction
<1> DEFINE value == CHOOSE f : Adds(f, Len(b))
<1>3. Adds(value, Len(b))
  <2> HIDE DEF Adds
  <2> QED
    BY <1>2
<1>4. Value(b) = value[Leading(b)]
  BY DEF Value, Base
<1> HIDE DEF value
<1> DEFINE P == {m \in Nat : m <= Leading(b) => value[m] \in Nat}
<1>5. ASSUME NEW m \in Nat, 0 .. m - 1 \subseteq P
      PROVE  m \in P
  <2> SUFFICES ASSUME m <= Leading(b)
               PROVE  value[m] \in Nat
    OBVIOUS
  <2>1. m \in 0 .. Len(b)
    BY LeadingFacts
  <2>2. value[m] = IF m = 0 THEN 0 ELSE value[m - 1] * Base + DigitValue(b[m])
    BY <1>3, <2>1
  <2>3. ASSUME m # 0
        PROVE  value[m - 1] \in Nat /\ DigitValue(b[m]) \in Nat
    <3>1. m - 1 \in P
      BY <1>5, <2>3
    <3>2. m - 1 <= Leading(b)
      BY LeadingFacts
    <3>3. m \in 1 .. Leading(b)
      BY <2>3, LeadingFacts
    <3> QED
      BY <3>1, <3>2, <3>3, LeadingFacts, DigitsFacts
  <2> QED
    BY <2>2, <2>3, DigitsFacts
<1>6. P = Nat
  <2> HIDE DEF P
  <2>1. P \in SUBSET Nat
    BY DEF P
  <2> QED
    BY <1>5, <2>1, Induction
<1> QED
  BY <1>4, <1>6, LeadingFacts

\* strtol() finds a long, which is negative only behind a minus sign.
LEMMA StrtolFacts ==
  ASSUME NEW S, NEW n \in Nat \ {0}, NEW b \in [1 .. n -> S]
  PROVE  /\ Strtol(b) \in Int
         /\ -LONG_MAX - 1 <= Strtol(b) /\ Strtol(b) <= LONG_MAX
         /\ Strtol(b) < 0 => b[1] = Minus
<1>1. b \in Seq(S) /\ Len(b) = n /\ b # <<>>
  OBVIOUS
<1>2. Len(Tail(b)) \in Nat
  BY <1>1
<1>3. Value(b) \in Nat /\ Value(Tail(b)) \in Nat
  BY <1>1, <1>2, ValueType
<1>4. LONG_MAX \in Nat
  BY TcpAssumption
<1>5. ASSUME NEW m \in Int
      PROVE  /\ Clamp(m) \in Int /\ -LONG_MAX - 1 <= Clamp(m) /\ Clamp(m) <= LONG_MAX
             /\ Clamp(m) < 0 => m < 0
  BY <1>4 DEF Clamp
<1> DEFINE m == IF b[1] = Minus THEN -Value(Tail(b)) ELSE Value(b)
<1>6. m \in Int /\ (m < 0 => b[1] = Minus)
  BY <1>3
<1>7. Strtol(b) = Clamp(m)
  BY DEF Strtol
<1> HIDE DEF m
<1> QED
  BY <1>5, <1>6, <1>7

-----------------------------------------------------------------------------
(* Streams and buffers                                                     *)

\* What tcp_read hands over is a first part of what has arrived.
LEMMA PartsFacts ==
  ASSUME NEW S, NEW stream \in Seq(S), NEW n \in Nat, NEW bytes \in Parts(stream, n)
  PROVE  /\ bytes \in Seq(S) /\ bytes # <<>>
         /\ Len(bytes) \in 1 .. Len(stream) /\ Len(bytes) <= n
         /\ \A i \in 1 .. Len(bytes) : bytes[i] = stream[i]
         /\ IsPrefix(bytes, stream)
<1>1. PICK k \in 1 .. Len(stream) : k <= n /\ bytes = SubSeq(stream, 1, k)
  <2>1. Len(stream) \in Nat
    OBVIOUS
  <2> QED
    BY <2>1 DEF Parts
<1>2. /\ bytes \in Seq(S) /\ Len(bytes) = k
      /\ \A i \in 1 .. k : bytes[i] = stream[i]
  BY <1>1
<1>3. SubSeq(bytes, 1, Len(bytes)) = bytes
  BY <1>2
<1>4. IsPrefix(bytes, stream)
  BY <1>1, <1>2, <1>3 DEF IsPrefix
<1> QED
  BY <1>1, <1>2, <1>4

\* What is left of the stream.
LEMMA RestFacts ==
  ASSUME NEW S, NEW stream \in Seq(S), NEW n \in Nat, n <= Len(stream)
  PROVE  /\ SubSeq(stream, n + 1, Len(stream)) \in Seq(S)
         /\ ToSet(SubSeq(stream, n + 1, Len(stream))) \subseteq ToSet(stream)
         /\ n = Len(stream) => SubSeq(stream, n + 1, Len(stream)) = <<>>
         /\ Len(SubSeq(stream, n + 1, Len(stream))) = Len(stream) - n
<1> DEFINE rest == SubSeq(stream, n + 1, Len(stream))
<1>1. rest \in Seq(S)
  OBVIOUS
<1>2. Len(rest) = Len(stream) - n /\ \A i \in 1 .. Len(rest) : rest[i] = stream[n + i]
  OBVIOUS
<1>3. ASSUME NEW x \in ToSet(rest)
      PROVE  x \in ToSet(stream)
  <2> HIDE DEF rest
  <2>1. PICK i \in 1 .. Len(rest) : x = rest[i]
    BY <1>1 DEF ToSet
  <2>2. n + i \in DOMAIN stream /\ x = stream[n + i]
    BY <1>2, <2>1
  <2> QED
    BY <2>2 DEF ToSet
<1>4. n = Len(stream) => rest = <<>>
  BY <1>1, <1>2
<1> QED
  BY <1>1, <1>2, <1>3, <1>4

LEMMA ConcatSet ==
  ASSUME NEW S, NEW s \in Seq(S), NEW t \in Seq(S)
  PROVE  /\ s \o t \in Seq(S)
         /\ ToSet(s \o t) = ToSet(s) \union ToSet(t)
<1>1. /\ s \o t \in Seq(S) /\ Len(s \o t) = Len(s) + Len(t)
      /\ \A i \in 1 .. Len(s) + Len(t) :
            (s \o t)[i] = IF i <= Len(s) THEN s[i] ELSE t[i - Len(s)]
  OBVIOUS
<1> DEFINE w == s \o t
<1> HIDE DEF w
<1>2. /\ w \in Seq(S) /\ Len(w) = Len(s) + Len(t)
      /\ \A i \in 1 .. Len(s) : w[i] = s[i]
      /\ \A i \in 1 .. Len(t) : Len(s) + i \in 1 .. Len(w) /\ w[Len(s) + i] = t[i]
  BY <1>1 DEF w
<1>3. ToSet(w) \subseteq ToSet(s) \union ToSet(t)
  <2> SUFFICES ASSUME NEW i \in 1 .. Len(w)
               PROVE  w[i] \in ToSet(s) \union ToSet(t)
    BY <1>2 DEF ToSet
  <2>1. CASE i <= Len(s)
    BY <1>2, <2>1 DEF ToSet
  <2>2. CASE i > Len(s)
    <3>1. i - Len(s) \in 1 .. Len(t) /\ w[i] = t[i - Len(s)]
      BY <1>1, <1>2, <2>2 DEF w
    <3> QED
      BY <3>1 DEF ToSet
  <2> QED
    BY <1>2, <2>1, <2>2
<1>4. ToSet(s) \subseteq ToSet(w)
  BY <1>2 DEF ToSet
<1>5. ToSet(t) \subseteq ToSet(w)
  <2> SUFFICES ASSUME NEW i \in 1 .. Len(t)
               PROVE  t[i] \in ToSet(w)
    BY DEF ToSet
  <2>1. Len(s) + i \in DOMAIN w /\ w[Len(s) + i] = t[i]
    BY <1>2
  <2> QED
    BY <2>1 DEF ToSet
<1> QED
  BY <1>2, <1>3, <1>4, <1>5 DEF w

\* A buffer keeps its length and its type.
LEMMA OverFacts ==
  ASSUME NEW S, NEW n \in Nat, NEW b \in [1 .. n -> S], NEW bytes \in Seq(S)
  PROVE  Over(b, bytes) \in [1 .. n -> S]
<1>1. Len(b) = n
  OBVIOUS
<1> SUFFICES ASSUME NEW i \in 1 .. n
             PROVE  (IF i <= Len(bytes) THEN bytes[i] ELSE b[i]) \in S
  BY <1>1 DEF Over
<1> QED
  OBVIOUS

\* An answer is read from the first byte on.
LEMMA OverFirst ==
  ASSUME NEW S, NEW n \in Nat, NEW b \in [1 .. n -> S], NEW bytes \in Seq(S),
         NEW x, NEW y, NEW z, Equals(Over(b, bytes), <<x, y, z>>), bytes # <<>>
  PROVE  bytes[1] = x
<1> DEFINE after == Over(b, bytes)
<1>1. after \in [1 .. n -> S] /\ Len(b) = n
  BY OverFacts
<1>2. after = [i \in 1 .. n |-> IF i <= Len(bytes) THEN bytes[i] ELSE b[i]]
  BY <1>1 DEF Over
<1> HIDE DEF after
<1>3. after \in Seq(S) /\ Len(after) = n
  BY <1>1
<1>4. 3 <= n /\ SubSeq(<<x, y, z>>, 1, 3) = SubSeq(after, 1, 3)
  BY <1>3 DEF Equals, IsPrefix, after
<1>5. SubSeq(<<x, y, z>>, 1, 3)[1] = x
  OBVIOUS
<1>6. SubSeq(after, 1, 3)[1] = after[1]
  BY <1>3, <1>4
<1>7. Len(bytes) >= 1
  OBVIOUS
<1> QED
  BY <1>2, <1>4, <1>5, <1>6, <1>7

\* A client joins the end of the queue, or leaves its head.
LEMMA Enqueued ==
  ASSUME NEW S, NEW q \in Seq(S), IsInjective(q), NEW c \in S, c \notin ToSet(q)
  PROVE  /\ Append(q, c) \in Seq(S) /\ IsInjective(Append(q, c))
         /\ ToSet(Append(q, c)) = ToSet(q) \union {c}
<1> DEFINE r == Append(q, c)
<1>1. /\ r \in Seq(S) /\ Len(r) = Len(q) + 1
      /\ \A i \in 1 .. Len(q) : r[i] = q[i]
      /\ r[Len(q) + 1] = c
  OBVIOUS
<1> HIDE DEF r
<1>2. DOMAIN r = 1 .. Len(q) + 1 /\ DOMAIN q = 1 .. Len(q) /\ Len(q) \in Nat
  BY <1>1
<1>3. \A i \in 1 .. Len(q) : q[i] # c
  BY <1>2 DEF ToSet
<1>4. IsInjective(r)
  <2> SUFFICES ASSUME NEW i \in 1 .. Len(q) + 1, NEW j \in 1 .. Len(q) + 1, r[i] = r[j]
               PROVE  i = j
    BY <1>2 DEF IsInjective
  <2>1. CASE i \in 1 .. Len(q) /\ j \in 1 .. Len(q)
    BY <1>1, <1>2, <2>1 DEF IsInjective
  <2>2. CASE i = Len(q) + 1 \/ j = Len(q) + 1
    BY <1>1, <1>2, <1>3, <2>2
  <2> QED
    BY <1>2, <2>1, <2>2
<1>5. ToSet(r) = ToSet(q) \union {c}
  <2>1. ToSet(r) = {r[i] : i \in 1 .. Len(q) + 1} /\ ToSet(q) = {q[i] : i \in 1 .. Len(q)}
    BY <1>2 DEF ToSet
  <2> QED
    BY <1>1, <1>2, <2>1
<1> QED
  BY <1>1, <1>4, <1>5 DEF r

LEMMA Dequeued ==
  ASSUME NEW S, NEW q \in Seq(S), IsInjective(q), q # <<>>
  PROVE  /\ Head(q) \in S /\ Tail(q) \in Seq(S) /\ IsInjective(Tail(q))
         /\ ToSet(q) = ToSet(Tail(q)) \union {Head(q)}
         /\ Head(q) \notin ToSet(Tail(q))
<1> DEFINE t == Tail(q)
<1>1. /\ t \in Seq(S) /\ Len(t) = Len(q) - 1
      /\ \A i \in 1 .. Len(q) - 1 : t[i] = q[i + 1]
      /\ Head(q) = q[1] /\ Head(q) \in S /\ Len(q) \in Nat \ {0}
  OBVIOUS
<1> HIDE DEF t
<1>2. DOMAIN t = 1 .. Len(q) - 1 /\ DOMAIN q = 1 .. Len(q)
  BY <1>1
<1>3. ToSet(t) = {t[i] : i \in 1 .. Len(q) - 1} /\ ToSet(q) = {q[i] : i \in 1 .. Len(q)}
  BY <1>2 DEF ToSet
<1>4. IsInjective(t)
  <2> SUFFICES ASSUME NEW i \in 1 .. Len(q) - 1, NEW j \in 1 .. Len(q) - 1, t[i] = t[j]
               PROVE  i = j
    BY <1>2 DEF IsInjective
  <2>1. q[i + 1] = q[j + 1] /\ i + 1 \in DOMAIN q /\ j + 1 \in DOMAIN q
    BY <1>1, <1>2
  <2> QED
    BY <2>1 DEF IsInjective
<1>5. Head(q) \notin ToSet(t)
  <2> SUFFICES ASSUME NEW i \in 1 .. Len(q) - 1, t[i] = q[1]
               PROVE  FALSE
    BY <1>1, <1>3
  <2>1. q[i + 1] = q[1] /\ i + 1 \in DOMAIN q /\ 1 \in DOMAIN q
    BY <1>1, <1>2
  <2>2. i + 1 = 1
    BY <2>1 DEF IsInjective
  <2> QED
    BY <2>2
<1>6. ToSet(q) = ToSet(t) \union {q[1]}
  <2>1. ASSUME NEW i \in 1 .. Len(q)
        PROVE  q[i] \in ToSet(t) \union {q[1]}
    <3>1. CASE i = 1
      BY <3>1
    <3>2. CASE i # 1
      <4>1. i - 1 \in 1 .. Len(q) - 1 /\ t[i - 1] = q[i]
        BY <1>1, <3>2
      <4> QED
        BY <1>3, <4>1
    <3> QED
      BY <3>1, <3>2
  <2>2. ASSUME NEW i \in 1 .. Len(q) - 1
        PROVE  t[i] \in ToSet(q)
    BY <1>1, <1>3
  <2>3. q[1] \in ToSet(q)
    BY <1>1, <1>3
  <2> QED
    BY <1>3, <2>1, <2>2, <2>3
<1> QED
  BY <1>1, <1>4, <1>5, <1>6 DEF t

LEMMA BytesFacts ==
  /\ Minus \notin Signs
  /\ Small \in Seq(Bytes) /\ Ack \in Seq(Bytes) /\ <<NUL>> \in Seq(Bytes)
  /\ "a1" \notin ToSet(Small)
  /\ \A c \in Clients : file \in [Clients -> Files] => file[c] \in Seq(Bytes)
  /\ NUL \in Bytes /\ Junk \subseteq Bytes
<1>1. Small = <<"s1", "s2", NUL>> /\ Ack = <<"a1", "a2", NUL>>
  BY DEF Small, Ack
<1>2. ToSet(Small) = {"s1", "s2", NUL}
  BY <1>1 DEF ToSet
<1>3. ToSet(Ack) = {"a1", "a2", NUL}
  BY <1>1 DEF ToSet
<1>4. {"s1", "s2", "a1", "a2", NUL} \subseteq Bytes
  BY <1>2, <1>3 DEF Bytes
<1>5. Seq(FileBytes) \subseteq Seq(Bytes)
  BY SeqMonotonic DEF Bytes
<1> QED
  BY <1>1, <1>2, <1>4, <1>5, TcpAssumption DEF Bytes, Signs, NUL

-----------------------------------------------------------------------------
(* The invariant                                                           *)

States == {"start", "connected", "sized", "sent", "done", "failed"}

Typed ==
  /\ file \in [Clients -> Files]
  /\ cpc \in [Clients -> States]
  /\ cbuffer \in [Clients -> [1 .. MAX_CLIENT_SIZE -> Bytes]]
  /\ up \in [Clients -> Seq(Bytes)]
  /\ down \in [Clients -> Seq(Bytes)]
  /\ hung \in [Clients -> SUBSET {"client", "server", "reset"}]
  /\ spc \in [at : {"accept", "ended"}] \union [at : {"size", "file"}, client : Clients]
  /\ queue \in Seq(Clients) /\ IsInjective(queue)
  /\ buffer \in [1 .. MAX_SERVER_SIZE -> Bytes]
  /\ taken \in [Clients -> Int]
  /\ whole \in [Clients -> BOOLEAN]
  /\ received \in [Clients -> Seq(Bytes)]
  /\ len \in Int /\ -LONG_MAX - 1 <= len
  /\ spc.at = "file" => len # 0 /\ len <= MAX_SERVER_SIZE

\* A client that the server has not read from yet.
Unheard(c) == c \in ToSet(queue) \/ Serves(c, "size")

\* The server is the one side of a connection that has not closed it.
Alive(c) == "server" \notin hung[c] /\ (Reset(c) => cpc[c] = "failed")

\* A client that has not connected has no connection.
NotStarted(c) ==
  cpc[c] = "start" =>
    /\ hung[c] = {} /\ up[c] = <<>> /\ down[c] = <<>> /\ received[c] = <<>>
    /\ ~Unheard(c) /\ ~Serves(c, "file")

\* What a client has sent before it is heard: its size.
Unread(c) ==
  Unheard(c) =>
    /\ cpc[c] \in {"connected", "sized", "failed"}
    /\ up[c] \in {<<>>, Text(Size(file[c]))} /\ down[c] = <<>> /\ received[c] = <<>>
    /\ cpc[c] = "connected" => up[c] = <<>>
    /\ ~Serves(c, "file")
    /\ c \in ToSet(queue) => ~Serves(c, "size")
    /\ IF Ended THEN "server" \in hung[c] /\ Reset(c) ELSE Alive(c)

\* While the server waits for a file.
Uploads(c) ==
  Serves(c, "file") =>
    /\ cpc[c] \in {"sized", "sent", "failed"}
    /\ received[c] = <<>>
    /\ Alive(c)
    /\ whole[c] /\ cpc[c] = "sized" => up[c] = <<>>
    /\ whole[c] => up[c] \in {<<>>, file[c]}

\* A size below 0 is that of a pipe, or of a client that was gone before it sent
\* its own: no file comes, and what may still come of a size fits.
Negative(c) ==
  Serves(c, "file") /\ len < 0 =>
    /\ cpc[c] \in {"sized", "failed"}
    /\ cpc[c] = "sized" => file[c] = Pipe
    /\ Len(up[c]) <= MAX_SERVER_SIZE

\* The size that a file is read for was noted.
Noted(c) == Serves(c, "file") => taken[c] = len

\* A client the server has turned away or taken a file from has been hung up on.
Left(c) ==
  cpc[c] # "start" /\ ~Unheard(c) /\ ~Serves(c, "file") /\ cpc[c] \notin {"failed", "done"} => "server" \in hung[c]

\* A client waits for the second answer in vain only over a reset.
Sent(c) == cpc[c] = "sent" /\ received[c] = <<>> => Serves(c, "file") \/ Reset(c)

Hung(c) == "client" \in hung[c] => cpc[c] \in {"done", "failed"}

\* No byte of the second answer is sent before the file is taken.
Answered(c) == received[c] = <<>> => "a1" \notin ToSet(down[c])

Done(c) == cpc[c] = "done" => received[c] # <<>>

Received(c) ==
  /\ whole[c] => IsPrefix(received[c], file[c])
  /\ Len(received[c]) <= MAX_SERVER_SIZE

Local(c) ==
  /\ NotStarted(c) /\ Unread(c) /\ Uploads(c) /\ Negative(c) /\ Noted(c) /\ Left(c) /\ Sent(c)
  /\ Hung(c) /\ Answered(c) /\ Done(c) /\ Received(c)

\* The invariant: the types, and where each connection stands.
Inv == Typed /\ \A c \in Clients : Local(c)

\* A client whose connection a step leaves alone stands where it stood.
LEMMA Frame ==
  ASSUME NEW c \in Clients, Local(c), file' = file,
         cpc'[c] = cpc[c], up'[c] = up[c], down'[c] = down[c], hung'[c] = hung[c],
         whole'[c] = whole[c], received'[c] = received[c],
         Serves(c, "file") => taken'[c] = taken[c] /\ len' = len,
         (c \in ToSet(queue))' <=> c \in ToSet(queue),
         Serves(c, "size")' <=> Serves(c, "size"),
         Serves(c, "file")' <=> Serves(c, "file"),
         Ended' <=> Ended
  PROVE  Local(c)'
<1>1. (Unheard(c)' <=> Unheard(c)) /\ (Reset(c)' <=> Reset(c)) /\ (Alive(c)' <=> Alive(c))
  BY DEF Unheard, Reset, Alive
<1>2. NotStarted(c)' /\ Hung(c)' /\ Answered(c)' /\ Done(c)' /\ Received(c)'
  BY <1>1 DEF Local, NotStarted, Hung, Answered, Done, Received
<1>3. Unread(c)'
  BY <1>1 DEF Local, Unread
<1>4. Uploads(c)'
  BY <1>1 DEF Local, Uploads
<1>5. Left(c)' /\ Sent(c)' /\ Negative(c)' /\ Noted(c)'
  BY <1>1 DEF Local, Left, Sent, Negative, Noted
<1> QED
  BY <1>2, <1>3, <1>4, <1>5 DEF Local

-----------------------------------------------------------------------------
(* The client's steps                                                      *)

LEMMA InvInit ==
  ASSUME Init
  PROVE  Inv
<1>1. NUL \in Bytes /\ Junk \subseteq Bytes
  BY BytesFacts
<1>2. \A n \in Nat, byte \in Bytes : Blank(n, byte) \in [1 .. n -> Bytes]
  BY DEF Blank
<1>3. cbuffer \in [Clients -> [1 .. MAX_CLIENT_SIZE -> Bytes]]
  <2>1. MAX_CLIENT_SIZE \in Nat
    BY TcpAssumption
  <2>2. \A byte \in Junk : Blank(MAX_CLIENT_SIZE, byte) \in [1 .. MAX_CLIENT_SIZE -> Bytes]
    BY <1>1, <1>2, <2>1
  <2> DEFINE blank(byte) == Blank(MAX_CLIENT_SIZE, byte)
  <2>3. cbuffer \in [Clients -> {blank(byte) : byte \in Junk}]
    BY DEF Init
  <2>4. {blank(byte) : byte \in Junk} \subseteq [1 .. MAX_CLIENT_SIZE -> Bytes]
    BY <2>2
  <2> HIDE DEF blank
  <2> QED
    BY <2>3, <2>4
<1>4. buffer \in [1 .. MAX_SERVER_SIZE -> Bytes]
  BY <1>1, <1>2, TcpAssumption DEF Init
<1>5. spc \in [at : {"accept", "ended"}] /\ spc.at # "file" /\ spc.at # "size"
  BY DEF Init, ServerInit
<1>6. queue = <<>> /\ IsInjective(queue) /\ ToSet(queue) = {}
  BY DEF Init, IsInjective, ToSet
<1>7. Typed
  BY <1>3, <1>4, <1>5, <1>6, TcpAssumption DEF Init, Typed, States
<1>8. ASSUME NEW c \in Clients
      PROVE  Local(c)
  <2>1. ~Unheard(c) /\ ~Serves(c, "file")
    BY <1>5, <1>6 DEF Unheard, Serves
  <2>2. IsPrefix(<<>>, file[c])
    <3>1. file[c] \in Seq(Bytes)
      BY BytesFacts DEF Init
    <3> QED
      BY <3>1 DEF IsPrefix
  <2>3. /\ cpc[c] = "start" /\ hung[c] = {} /\ up[c] = <<>> /\ down[c] = <<>>
        /\ whole[c] = FALSE /\ received[c] = <<>>
    BY DEF Init
  <2>4. ToSet(down[c]) = {} /\ Len(received[c]) <= MAX_SERVER_SIZE
    BY <2>3, TcpAssumption DEF ToSet
  <2> QED
    BY <2>1, <2>2, <2>3, <2>4
       DEF Local, NotStarted, Unread, Uploads, Negative, Noted, Left, Sent, Hung, Answered, Done, Received
<1> QED
  BY <1>7, <1>8 DEF Inv

LEMMA RefusedInv ==
  ASSUME Inv, NEW c \in Clients, Refused(c)
  PROVE  Inv'
<1>1. Typed'
  BY DEF Refused, Goes, net, svars, history, Inv, Typed, States
<1>2. /\ cpc'[c] = "failed" /\ cpc[c] = "start"
      /\ \A d \in Clients \ {c} : cpc'[d] = cpc[d]
      /\ UNCHANGED <<file, cbuffer, up, down, hung, spc, queue, buffer, len, taken, whole, received>>
  BY DEF Refused, Goes, net, svars, history, Inv, Typed
<1>3. ASSUME NEW d \in Clients \ {c}
      PROVE  Local(d)'
  BY <1>2, Frame DEF Inv, Serves, Ended
<1>4. Local(c)'
  <2>1. Local(c) /\ ~Unheard(c) /\ ~Serves(c, "file")
    BY <1>2 DEF Inv, Local, NotStarted
  <2>2. ~Unheard(c)' /\ ~Serves(c, "file")'
    BY <1>2, <2>1 DEF Unheard, Serves
  <2> QED
    BY <1>2, <2>1, <2>2
       DEF Local, NotStarted, Unread, Uploads, Negative, Noted, Left, Sent, Hung, Answered, Done, Received
<1> QED
  BY <1>1, <1>3, <1>4 DEF Inv

LEMMA ConnectsInv ==
  ASSUME Inv, NEW c \in Clients, Connects(c)
  PROVE  Inv'
<1> DEFINE text == Text(Size(file[c]))
<1>2. text \in Seq(Bytes) \ {<<>>}
  BY TextFacts DEF Inv, Typed
<1>3. Typed /\ Local(c) /\ cpc[c] = "start" /\ ~Ended
  BY DEF Connects, Inv
<1>4. ~Unheard(c) /\ ~Serves(c, "file") /\ hung[c] = {} /\ down[c] = <<>> /\ received[c] = <<>>
      /\ up[c] = <<>>
  BY <1>3 DEF Local, NotStarted
<1>5. /\ queue' \in Seq(Clients) /\ IsInjective(queue')
      /\ ToSet(queue') = ToSet(queue) \union {c}
  BY <1>3, <1>4, Enqueued DEF Connects, Typed, Unheard
<1>6. /\ cpc' = [cpc EXCEPT ![c] = "connected"]
      /\ cbuffer' = [cbuffer EXCEPT ![c] = Over(cbuffer[c], Append(text, NUL))]
      /\ UNCHANGED <<file, up, down, hung, spc, buffer, len, taken, whole, received>>
  BY DEF Connects, Goes, net, history
<1> HIDE DEF text
<1>7. Over(cbuffer[c], Append(text, NUL)) \in [1 .. MAX_CLIENT_SIZE -> Bytes]
  <2>1. Append(text, NUL) \in Seq(Bytes)
    BY <1>2, BytesFacts
  <2>2. cbuffer[c] \in [1 .. MAX_CLIENT_SIZE -> Bytes]
    BY <1>3 DEF Typed
  <2> QED
    BY <2>1, <2>2, OverFacts, TcpAssumption
<1>8. cbuffer' \in [Clients -> [1 .. MAX_CLIENT_SIZE -> Bytes]]
  BY <1>3, <1>6, <1>7 DEF Typed
<1>9. cpc' \in [Clients -> States]
  BY <1>3, <1>6 DEF Typed, States
<1>10. Typed'
  BY <1>3, <1>5, <1>6, <1>8, <1>9 DEF Typed
<1>11. /\ cpc'[c] = "connected"
       /\ \A d \in Clients \ {c} : cpc'[d] = cpc[d]
  BY <1>3, <1>6 DEF Typed
<1>12. ASSUME NEW d \in Clients \ {c}
       PROVE  Local(d)'
  <2>1. (d \in ToSet(queue))' <=> d \in ToSet(queue)
    BY <1>5
  <2> QED
    BY <1>6, <1>11, <2>1, Frame DEF Inv, Serves, Ended
<1>13. Local(c)'
  <2>1. ~Serves(c, "size")' /\ ~Serves(c, "file")' /\ ~Ended' /\ Unheard(c)'
    BY <1>3, <1>4, <1>5, <1>6 DEF Unheard, Serves, Ended
  <2>3. Alive(c)'
    BY <1>4, <1>6 DEF Alive, Reset
  <2>4. /\ NotStarted(c)' /\ Uploads(c)' /\ Negative(c)' /\ Noted(c)'
        /\ Left(c)' /\ Sent(c)' /\ Done(c)'
    BY <1>11, <2>1 DEF NotStarted, Uploads, Negative, Noted, Left, Sent, Done
  <2>5. Unread(c)'
    BY <1>4, <1>6, <1>11, <2>1, <2>3 DEF Unread
  <2>6. Hung(c)' /\ Answered(c)' /\ Received(c)'
    BY <1>3, <1>4, <1>6, <1>11 DEF Local, Hung, Answered, Received
  <2> QED
    BY <2>4, <2>5, <2>6 DEF Local
<1> QED
  BY <1>10, <1>12, <1>13 DEF Inv

LEMMA SendsSizeInv ==
  ASSUME Inv, NEW c \in Clients, SendsSize(c)
  PROVE  Inv'
<1> DEFINE text == Text(Size(file[c]))
<1>1. text \in Seq(Bytes)
  BY TextFacts DEF Inv, Typed
<1>2. Typed /\ Local(c) /\ cpc[c] = "connected" /\ ~Reset(c)
  BY DEF SendsSize, Inv
<1>3. /\ cpc' = [cpc EXCEPT ![c] = "sized"]
      /\ up' = [up EXCEPT ![c] = text]
      /\ UNCHANGED <<file, cbuffer, down, hung, spc, queue, buffer, len, taken, whole, received>>
  BY DEF SendsSize, Goes, svars, history
<1>4. text = Text(Size(file[c]))
  OBVIOUS
<1> HIDE DEF text
<1>5. /\ cpc'[c] = "sized" /\ up'[c] = text
      /\ \A d \in Clients \ {c} : cpc'[d] = cpc[d] /\ up'[d] = up[d]
  BY <1>2, <1>3 DEF Typed
<1>6. cpc' \in [Clients -> States] /\ up' \in [Clients -> Seq(Bytes)]
  BY <1>1, <1>2, <1>3 DEF Typed, States
<1>7. Typed'
  BY <1>2, <1>3, <1>6 DEF Typed
<1>8. ASSUME NEW d \in Clients \ {c}
      PROVE  Local(d)'
  BY <1>3, <1>5, Frame DEF Inv, Serves, Ended
<1>9. Local(c)'
  <2>1. /\ Unheard(c)' <=> Unheard(c)
        /\ Serves(c, "file")' <=> Serves(c, "file")
        /\ Serves(c, "size")' <=> Serves(c, "size")
        /\ Ended' <=> Ended
        /\ Reset(c)' <=> Reset(c)
    BY <1>3 DEF Unheard, Serves, Ended, Reset
  <2>2. ~Serves(c, "file")
    BY <1>2 DEF Local, Uploads
  <2>3. Unread(c)'
    <3> SUFFICES ASSUME Unheard(c)
                 PROVE  Unread(c)'
      BY <2>1 DEF Unread
    <3>1. /\ down[c] = <<>> /\ received[c] = <<>>
          /\ c \in ToSet(queue) => ~Serves(c, "size")
          /\ ~Ended /\ Alive(c)
      BY <1>2 DEF Local, Unread
    <3>2. Alive(c)'
      BY <1>2, <1>3, <2>1, <3>1 DEF Alive
    <3>3. (c \in ToSet(queue) => ~Serves(c, "size"))'
      BY <1>3, <2>1, <3>1
    <3> QED
      BY <1>3, <1>4, <1>5, <2>1, <2>2, <3>1, <3>2, <3>3 DEF Unread
  <2>4. /\ NotStarted(c)' /\ Uploads(c)' /\ Negative(c)' /\ Noted(c)' /\ Sent(c)' /\ Done(c)'
    BY <1>5, <2>1, <2>2 DEF NotStarted, Uploads, Negative, Noted, Sent, Done
  <2>5. Left(c)'
    BY <1>2, <1>3, <2>1 DEF Local, Left
  <2>6. Hung(c)' /\ Answered(c)' /\ Received(c)'
    BY <1>2, <1>3, <1>5 DEF Local, Hung, Answered, Received
  <2> QED
    BY <2>3, <2>4, <2>5, <2>6 DEF Local
<1> QED
  BY <1>7, <1>8, <1>9 DEF Inv

\* What a client has read of an answer, and what is left of it.
LEMMA HearsFacts ==
  ASSUME Inv, NEW c \in Clients, NEW at,
         NEW bytes \in Parts(down[c], MAX_CLIENT_SIZE) \union {<<>>}, Hears(c, at, bytes)
  PROVE  /\ bytes \in Seq(Bytes)
         /\ down' \in [Clients -> Seq(Bytes)]
         /\ \A d \in Clients \ {c} : down'[d] = down[d]
         /\ ToSet(down'[c]) \subseteq ToSet(down[c])
         /\ down[c] = <<>> => bytes = <<>> /\ down'[c] = <<>>
         /\ bytes = <<>> => "server" \in hung[c] /\ ~Reset(c)
         /\ bytes # <<>> => bytes[1] \in ToSet(down[c])
<1>1. down \in [Clients -> Seq(Bytes)] /\ down[c] \in Seq(Bytes)
  BY DEF Inv, Typed
<1>2. /\ bytes \in Seq(Bytes)
      /\ Len(bytes) \in Nat /\ Len(bytes) <= Len(down[c])
      /\ bytes # <<>> => Len(bytes) \in 1 .. Len(down[c]) /\ bytes[1] = down[c][1]
  <2>1. CASE bytes = <<>>
    BY <1>1, <2>1
  <2>2. CASE bytes # <<>>
    <3>1. bytes \in Parts(down[c], MAX_CLIENT_SIZE)
      BY <2>2
    <3>2. /\ bytes \in Seq(Bytes) /\ Len(bytes) \in 1 .. Len(down[c])
          /\ \A i \in 1 .. Len(bytes) : bytes[i] = down[c][i]
      BY <1>1, <3>1, PartsFacts, TcpAssumption
    <3> QED
      BY <1>1, <3>2
  <2> QED
    BY <2>1, <2>2
<1>3. /\ SubSeq(down[c], Len(bytes) + 1, Len(down[c])) \in Seq(Bytes)
      /\ ToSet(SubSeq(down[c], Len(bytes) + 1, Len(down[c]))) \subseteq ToSet(down[c])
      /\ Len(bytes) = Len(down[c]) => SubSeq(down[c], Len(bytes) + 1, Len(down[c])) = <<>>
  BY <1>1, <1>2, RestFacts
<1>4. down' = [down EXCEPT ![c] = SubSeq(down[c], Len(bytes) + 1, Len(down[c]))]
  BY DEF Hears
<1> DEFINE rest == SubSeq(down[c], Len(bytes) + 1, Len(down[c]))
<1> HIDE DEF rest
<1>5. /\ down' \in [Clients -> Seq(Bytes)] /\ down'[c] = rest
      /\ \A d \in Clients \ {c} : down'[d] = down[d]
  BY <1>1, <1>3, <1>4 DEF rest
<1>6. down[c] = <<>> => bytes = <<>> /\ down'[c] = <<>>
  <2> SUFFICES ASSUME down[c] = <<>>
               PROVE  bytes = <<>> /\ rest = <<>>
    BY <1>5
  <2>1. Len(down[c]) = 0
    BY <1>1
  <2>2. bytes = <<>>
    BY <1>2, <2>1
  <2>3. Len(bytes) = Len(down[c])
    BY <2>1, <2>2
  <2> QED
    BY <1>3, <2>2, <2>3 DEF rest
<1>7. bytes = <<>> => "server" \in hung[c] /\ ~Reset(c)
  <2> SUFFICES ASSUME bytes = <<>>
               PROVE  "server" \in hung[c] /\ ~Reset(c)
    OBVIOUS
  <2>1. bytes \notin Parts(down[c], MAX_CLIENT_SIZE)
    BY <1>1, PartsFacts, TcpAssumption
  <2> QED
    BY <2>1 DEF Hears
<1>8. bytes # <<>> => bytes[1] \in ToSet(down[c])
  <2> SUFFICES ASSUME bytes # <<>>
               PROVE  bytes[1] \in ToSet(down[c])
    OBVIOUS
  <2>1. 1 \in DOMAIN down[c] /\ bytes[1] = down[c][1]
    BY <1>1, <1>2
  <2> QED
    BY <2>1 DEF ToSet
<1> QED
  BY <1>2, <1>3, <1>5, <1>6, <1>7, <1>8 DEF rest

\* However a client ends.
LEMMA ClientLeaves ==
  ASSUME Inv, NEW c \in Clients, NEW at \in {"done", "failed"}, NEW unread,
         cpc[c] \in {"connected", "sized", "sent"}, ClientEnds(c, at, unread),
         at = "done" => received[c] # <<>>,
         down' \in [Clients -> Seq(Bytes)],
         \A d \in Clients \ {c} : down'[d] = down[d],
         ToSet(down'[c]) \subseteq ToSet(down[c]),
         down[c] = <<>> => down'[c] = <<>>,
         UNCHANGED <<file, cbuffer, up, svars, history>>
  PROVE  Inv'
<1>1. Typed /\ Local(c)
  BY DEF Inv
<1>2. /\ cpc' \in [Clients -> States]
      /\ cpc'[c] = at /\ \A d \in Clients \ {c} : cpc'[d] = cpc[d]
  BY <1>1 DEF ClientEnds, Goes, Typed, States
<1>3. /\ hung' \in [Clients -> SUBSET {"client", "server", "reset"}]
      /\ \A d \in Clients \ {c} : hung'[d] = hung[d]
      /\ hung[c] \subseteq hung'[c]
      /\ "server" \in hung'[c] => "server" \in hung[c]
  <2> DEFINE more == {"client"} \union (IF unread = <<>> THEN {} ELSE {"reset"})
  <2>1. hung' = [hung EXCEPT ![c] = hung[c] \union more]
    BY DEF ClientEnds, Hangs
  <2>2. more \subseteq {"client", "reset"}
    OBVIOUS
  <2> HIDE DEF more
  <2> QED
    BY <1>1, <2>1, <2>2 DEF Typed
<1>4. UNCHANGED <<file, cbuffer, up, spc, queue, buffer, len, taken, whole, received>>
  BY DEF svars, history
<1>5. Typed'
  BY <1>1, <1>2, <1>3, <1>4 DEF Typed
<1>6. ASSUME NEW d \in Clients \ {c}
      PROVE  Local(d)'
  BY <1>2, <1>3, <1>4, Frame DEF Inv, Serves, Ended
<1>7. /\ Unheard(c)' <=> Unheard(c)
      /\ Serves(c, "file")' <=> Serves(c, "file")
      /\ Serves(c, "size")' <=> Serves(c, "size")
      /\ Ended' <=> Ended
      /\ Reset(c) => Reset(c)'
  BY <1>3, <1>4 DEF Unheard, Serves, Ended, Reset
<1>8. at = "done" => ~Unheard(c) /\ ~Serves(c, "file")
  BY <1>1 DEF Local, Unread, Uploads
<1>9. at = "failed" => (Alive(c) => Alive(c)')
  BY <1>2, <1>3 DEF Alive
<1>10. Local(c)'
  <2>1. NotStarted(c)' /\ Noted(c)' /\ Left(c)' /\ Sent(c)' /\ Hung(c)' /\ Done(c)'
    BY <1>1, <1>2, <1>4, <1>7 DEF NotStarted, Local, Noted, Left, Sent, Hung, Done
  <2>2. Answered(c)' /\ Received(c)'
    BY <1>1, <1>4 DEF Local, Answered, Received
  <2>3. Unread(c)'
    <3> SUFFICES ASSUME Unheard(c)
                 PROVE  Unread(c)'
      BY <1>7 DEF Unread
    <3>1. at = "failed"
      BY <1>8
    <3>2. /\ up[c] \in {<<>>, Text(Size(file[c]))} /\ down[c] = <<>> /\ received[c] = <<>>
          /\ ~Serves(c, "file")
          /\ c \in ToSet(queue) => ~Serves(c, "size")
      BY <1>1 DEF Local, Unread
    <3>3. IF Ended THEN "server" \in hung[c] /\ Reset(c) ELSE Alive(c)
      BY <1>1 DEF Local, Unread
    <3>4. (IF Ended THEN "server" \in hung[c] /\ Reset(c) ELSE Alive(c))'
      BY <1>3, <1>7, <1>9, <3>1, <3>3
    <3>5. (c \in ToSet(queue) => ~Serves(c, "size"))'
      BY <1>4, <1>7, <3>2
    <3> QED
      BY <1>2, <1>4, <1>7, <3>1, <3>2, <3>4, <3>5 DEF Unread
  <2>4. Uploads(c)' /\ Negative(c)'
    <3> SUFFICES ASSUME Serves(c, "file")
                 PROVE  Uploads(c)' /\ Negative(c)'
      BY <1>7 DEF Uploads, Negative
    <3>1. at = "failed"
      BY <1>8
    <3>2. Uploads(c)'
      BY <1>1, <1>2, <1>4, <1>9, <3>1 DEF Local, Uploads
    <3>3. Negative(c)'
      BY <1>1, <1>2, <1>4, <3>1 DEF Local, Negative
    <3> QED
      BY <3>2, <3>3
  <2> QED
    BY <2>1, <2>2, <2>3, <2>4 DEF Local
<1> QED
  BY <1>5, <1>6, <1>10 DEF Inv

LEMMA HearsNothingInv ==
  ASSUME Inv, NEW c \in Clients, HearsNothing(c)
  PROVE  Inv'
<1>1. cpc[c] \in {"connected", "sized", "sent"} /\ ClientEnds(c, "failed", <<>>) /\ down' = down
  BY DEF HearsNothing
<1>2. UNCHANGED <<file, cbuffer, up, svars, history>>
  BY DEF HearsNothing
<1>3. down' \in [Clients -> Seq(Bytes)]
  BY <1>1 DEF Inv, Typed
<1> QED
  BY <1>1, <1>2, <1>3, ClientLeaves

LEMMA KilledInv ==
  ASSUME Inv, NEW c \in Clients, Killed(c)
  PROVE  Inv'
<1>1. cpc[c] \in {"connected", "sized", "sent"} /\ ClientEnds(c, "failed", down[c]) /\ down' = down
  BY DEF Killed
<1>2. UNCHANGED <<file, cbuffer, up, svars, history>>
  BY DEF Killed
<1>3. down' \in [Clients -> Seq(Bytes)]
  BY <1>1 DEF Inv, Typed
<1> QED
  BY <1>1, <1>2, <1>3, ClientLeaves

LEMMA GivesUpInv ==
  ASSUME Inv, NEW c \in Clients, GivesUp(c)
  PROVE  Inv'
<1>1. PICK bytes \in Parts(down[c], MAX_CLIENT_SIZE) \union {<<>>} :
        /\ Hears(c, "sized", bytes)
        /\ ClientEnds(c, "failed", down'[c])
        /\ UNCHANGED <<file, cbuffer, up, svars, history>>
  BY DEF GivesUp
<1>2. cpc[c] = "sized"
  BY <1>1 DEF Hears
<1>3. /\ down' \in [Clients -> Seq(Bytes)]
      /\ \A d \in Clients \ {c} : down'[d] = down[d]
      /\ ToSet(down'[c]) \subseteq ToSet(down[c])
      /\ down[c] = <<>> => down'[c] = <<>>
  BY <1>1, HearsFacts
<1> QED
  BY <1>1, <1>2, <1>3, ClientLeaves

\* The second answer is heard only from a server that has taken the file: it
\* starts with a byte of its own, and a server that ends earlier resets.
LEMMA HeardAck ==
  ASSUME Inv, NEW c \in Clients,
         NEW bytes \in Parts(down[c], MAX_CLIENT_SIZE) \union {<<>>},
         Hears(c, "sent", bytes), Equals(Over(cbuffer[c], bytes), Ack)
  PROVE  received[c] # <<>>
<1>1. Local(c) /\ cpc[c] = "sent" /\ cbuffer[c] \in [1 .. MAX_CLIENT_SIZE -> Bytes]
  BY DEF Inv, Typed, Hears
<1>2. CASE bytes = <<>>
  <2>1. "server" \in hung[c] /\ ~Reset(c)
    BY <1>2, HearsFacts
  <2>2. ~Serves(c, "file")
    BY <1>1, <2>1 DEF Local, Uploads, Alive
  <2> QED
    BY <1>1, <2>1, <2>2 DEF Local, Sent
<1>3. CASE bytes # <<>>
  <2>1. bytes \in Seq(Bytes) /\ bytes[1] \in ToSet(down[c])
    BY <1>3, HearsFacts
  <2>2. bytes[1] = "a1"
    <3>1. Equals(Over(cbuffer[c], bytes), <<"a1", "a2", NUL>>)
      BY DEF Ack
    <3>2. MAX_CLIENT_SIZE \in Nat
      BY TcpAssumption
    <3> QED
      BY <1>1, <1>3, <2>1, <3>1, <3>2, OverFirst
  <2> QED
    BY <1>1, <2>1, <2>2 DEF Local, Answered
<1> QED
  BY <1>2, <1>3

LEMMA FinishesInv ==
  ASSUME Inv, NEW c \in Clients, Finishes(c)
  PROVE  Inv'
<1>1. PICK bytes \in Parts(down[c], MAX_CLIENT_SIZE) \union {<<>>} :
        /\ Hears(c, "sent", bytes)
        /\ ClientEnds(c, IF Equals(Over(cbuffer[c], bytes), Ack) THEN "done" ELSE "failed",
                      down'[c])
        /\ UNCHANGED <<file, cbuffer, up, svars, history>>
  BY DEF Finishes
<1> DEFINE at == IF Equals(Over(cbuffer[c], bytes), Ack) THEN "done" ELSE "failed"
<1>2. at \in {"done", "failed"} /\ (at = "done" => received[c] # <<>>)
  BY <1>1, HeardAck
<1>3. ClientEnds(c, at, down'[c])
  BY <1>1
<1> HIDE DEF at
<1>4. cpc[c] = "sent"
  BY <1>1 DEF Hears
<1>5. /\ down' \in [Clients -> Seq(Bytes)]
      /\ \A d \in Clients \ {c} : down'[d] = down[d]
      /\ ToSet(down'[c]) \subseteq ToSet(down[c])
      /\ down[c] = <<>> => down'[c] = <<>>
  BY <1>1, HearsFacts
<1> QED
  BY <1>1, <1>2, <1>3, <1>4, <1>5, ClientLeaves

LEMMA SendsFileInv ==
  ASSUME Inv, NEW c \in Clients, SendsFile(c)
  PROVE  Inv'
<1>1. PICK bytes \in Parts(down[c], MAX_CLIENT_SIZE) \union {<<>>} :
        /\ Hears(c, "sized", bytes)
        /\ ~Reset(c)
        /\ Equals(Over(cbuffer[c], bytes), Small)
        /\ Size(file[c]) \in 1 .. MAX_CLIENT_SIZE - 1
        /\ Goes(c, "sent")
        /\ up' = [up EXCEPT ![c] = IF "server" \in hung[c] THEN up[c] ELSE up[c] \o file[c]]
        /\ hung' = [hung EXCEPT ![c] = IF "server" \in hung[c] THEN hung[c] \union {"reset"}
                                       ELSE hung[c]]
        /\ cbuffer' = [cbuffer EXCEPT ![c] = Over(Over(cbuffer[c], bytes), Append(file[c], NUL))]
        /\ UNCHANGED <<file, svars, history>>
  BY DEF SendsFile
<1>2. /\ bytes \in Seq(Bytes)
      /\ down' \in [Clients -> Seq(Bytes)]
      /\ \A d \in Clients \ {c} : down'[d] = down[d]
      /\ ToSet(down'[c]) \subseteq ToSet(down[c])
      /\ down[c] = <<>> => bytes = <<>>
      /\ bytes = <<>> => "server" \in hung[c] /\ ~Reset(c)
  BY <1>1, HearsFacts
<1>3. Typed /\ Local(c) /\ cpc[c] = "sized" /\ file[c] \in Seq(Bytes)
  BY <1>1, BytesFacts DEF Inv, Typed, Hears
<1>4. UNCHANGED <<file, spc, queue, buffer, len, taken, whole, received>>
  BY <1>1 DEF svars, history
<1>5. /\ cpc' \in [Clients -> States]
      /\ cpc'[c] = "sent" /\ \A d \in Clients \ {c} : cpc'[d] = cpc[d]
  BY <1>1, <1>3 DEF Goes, Typed, States
<1>6. /\ up' \in [Clients -> Seq(Bytes)]
      /\ up'[c] = IF "server" \in hung[c] THEN up[c] ELSE up[c] \o file[c]
      /\ \A d \in Clients \ {c} : up'[d] = up[d]
  <2> DEFINE now == IF "server" \in hung[c] THEN up[c] ELSE up[c] \o file[c]
  <2>1. up[c] \in Seq(Bytes)
    BY <1>3 DEF Typed
  <2>2. now \in Seq(Bytes)
    BY <1>3, <2>1
  <2>3. up' = [up EXCEPT ![c] = now]
    BY <1>1
  <2> HIDE DEF now
  <2>4. up'[c] = now
    BY <1>3, <2>3 DEF Typed
  <2>5. up' \in [Clients -> Seq(Bytes)] /\ \A d \in Clients \ {c} : up'[d] = up[d]
    BY <1>3, <2>2, <2>3 DEF Typed
  <2> QED
    BY <2>4, <2>5 DEF now
<1>7. /\ hung' \in [Clients -> SUBSET {"client", "server", "reset"}]
      /\ "server" \in hung[c] => Reset(c)'
      /\ "server" \notin hung[c] => hung'[c] = hung[c]
      /\ hung[c] \subseteq hung'[c]
      /\ "client" \in hung'[c] => "client" \in hung[c]
      /\ \A d \in Clients \ {c} : hung'[d] = hung[d]
  BY <1>1, <1>3 DEF Typed, Reset
<1>8. cbuffer' \in [Clients -> [1 .. MAX_CLIENT_SIZE -> Bytes]]
  <2> DEFINE first == Over(cbuffer[c], bytes)
             second == Over(first, Append(file[c], NUL))
  <2>1. first \in [1 .. MAX_CLIENT_SIZE -> Bytes]
    <3>1. cbuffer[c] \in [1 .. MAX_CLIENT_SIZE -> Bytes]
      BY <1>3 DEF Typed
    <3> QED
      BY <1>2, <3>1, OverFacts, TcpAssumption
  <2>2. Append(file[c], NUL) \in Seq(Bytes)
    BY <1>3, BytesFacts
  <2> HIDE DEF first
  <2>3. second \in [1 .. MAX_CLIENT_SIZE -> Bytes]
    BY <2>1, <2>2, OverFacts, TcpAssumption
  <2>4. cbuffer' = [cbuffer EXCEPT ![c] = second]
    BY <1>1 DEF first
  <2> HIDE DEF second
  <2> QED
    BY <1>3, <2>3, <2>4 DEF Typed
<1>9. Typed'
  BY <1>2, <1>3, <1>4, <1>5, <1>6, <1>7, <1>8 DEF Typed
<1>10. ASSUME NEW d \in Clients \ {c}
       PROVE  Local(d)'
  BY <1>2, <1>4, <1>5, <1>6, <1>7, Frame DEF Inv, Serves, Ended
<1>11. ~Unheard(c)
  <2> SUFFICES ASSUME Unheard(c)
               PROVE  FALSE
    OBVIOUS
  <2>1. down[c] = <<>> /\ (Ended => Reset(c)) /\ (~Ended => "server" \notin hung[c])
    BY <1>3 DEF Local, Unread, Alive
  <2> QED
    BY <1>2, <2>1
<1>12. /\ Unheard(c)' <=> Unheard(c)
       /\ Serves(c, "file")' <=> Serves(c, "file")
  BY <1>4 DEF Unheard, Serves
<1>13. Local(c)'
  <2>0. Negative(c)' /\ Noted(c)'
    <3>1. file[c] # Pipe
      BY <1>1 DEF Size
    <3>2. Serves(c, "file") => ~(len < 0)
      BY <1>3, <3>1 DEF Local, Negative
    <3> QED
      BY <1>3, <1>4, <1>12, <3>2 DEF Local, Negative, Noted
  <2>1. NotStarted(c)' /\ Unread(c)' /\ Done(c)'
    BY <1>5, <1>11, <1>12 DEF NotStarted, Unread, Done
  <2>2. Uploads(c)'
    <3> SUFFICES ASSUME Serves(c, "file")
                 PROVE  Uploads(c)'
      BY <1>12 DEF Uploads
    <3>1. /\ received[c] = <<>> /\ "server" \notin hung[c]
          /\ whole[c] => up[c] = <<>>
      BY <1>3 DEF Local, Uploads, Alive
    <3>2. whole[c] => up'[c] = file[c]
      <4>1. <<>> \o file[c] = file[c]
        BY <1>3, ConcatEmptySeq
      <4> QED
        BY <1>6, <3>1, <4>1
    <3>3. Alive(c)'
      BY <1>1, <1>7, <3>1 DEF Alive, Reset
    <3> QED
      BY <1>4, <1>5, <3>1, <3>2, <3>3 DEF Uploads
  <2>3. Left(c)' /\ Sent(c)'
    <3>1. Serves(c, "file") \/ "server" \in hung[c]
      BY <1>3, <1>11 DEF Local, Left
    <3> QED
      BY <1>7, <1>12, <3>1 DEF Left, Sent
  <2>4. Hung(c)'
    BY <1>3, <1>7 DEF Local, Hung
  <2>5. Answered(c)' /\ Received(c)'
    BY <1>2, <1>3, <1>4 DEF Local, Answered, Received
  <2> QED
    BY <2>0, <2>1, <2>2, <2>3, <2>4, <2>5 DEF Local
<1> QED
  BY <1>9, <1>10, <1>13 DEF Inv

-----------------------------------------------------------------------------
(* The server's steps                                                      *)

LEMMA AcceptsInv ==
  ASSUME Inv, Accepts
  PROVE  Inv'
<1>1. Typed /\ spc.at = "accept"
  BY DEF Inv, Accepts
<1>0. /\ Head(queue) \in Clients /\ Tail(queue) \in Seq(Clients) /\ IsInjective(Tail(queue))
      /\ ToSet(queue) = ToSet(Tail(queue)) \union {Head(queue)}
      /\ Head(queue) \notin ToSet(Tail(queue))
  BY <1>1, Dequeued DEF Accepts, Typed
<1>p. PICK c \in Clients : c = Head(queue)
  BY <1>0
<1>2. /\ c \in Clients /\ queue' \in Seq(Clients) /\ IsInjective(queue')
      /\ ToSet(queue) = ToSet(queue') \union {c}
      /\ c \notin ToSet(queue')
  BY <1>0, <1>p DEF Accepts
<1>3. /\ spc' = [at |-> "size", client |-> c]
      /\ UNCHANGED <<file, cpc, cbuffer, up, down, hung, buffer, len, taken, whole, received>>
  BY <1>p DEF Accepts, cvars, net, history
<1>4. spc' \in [at : {"size", "file"}, client : Clients] /\ spc'.at = "size" /\ spc'.client = c
  BY <1>2, <1>3
<1>5. Typed'
  BY <1>1, <1>2, <1>3, <1>4 DEF Typed
<1>6. \A d \in Clients : ~Serves(d, "size") /\ ~Serves(d, "file") /\ ~Ended /\ ~Serves(d, "file")'
  BY <1>1, <1>4 DEF Serves, Ended
<1>7. ASSUME NEW d \in Clients \ {c}
      PROVE  Local(d)'
  <2>1. ~Serves(d, "size")' /\ ~Ended' /\ ((d \in ToSet(queue))' <=> d \in ToSet(queue))
    BY <1>2, <1>4 DEF Serves, Ended
  <2> QED
    BY <1>3, <1>6, <2>1, Frame DEF Inv
<1>8. Local(c)'
  <2>1. Local(c) /\ Unheard(c) /\ Unheard(c)' /\ ~Ended' /\ (c \notin ToSet(queue))'
    BY <1>2, <1>4 DEF Inv, Unheard, Serves, Ended
  <2>2. cpc[c] # "start"
    BY <2>1 DEF Local, NotStarted
  <2>3. Alive(c)'
    BY <1>2, <1>3, <1>6, <2>1 DEF Local, Unread, Alive, Reset
  <2>4. Unread(c)'
    BY <1>2, <1>3, <1>6, <2>1, <2>3 DEF Local, Unread
  <2>5. NotStarted(c)' /\ Uploads(c)' /\ Negative(c)' /\ Noted(c)' /\ Left(c)'
    BY <1>2, <1>3, <1>6, <2>1, <2>2 DEF NotStarted, Uploads, Negative, Noted, Left
  <2>6. Sent(c)'
    BY <1>2, <1>3, <1>6, <2>1 DEF Local, Sent, Reset
  <2>7. Hung(c)' /\ Answered(c)' /\ Done(c)' /\ Received(c)'
    BY <1>3, <2>1 DEF Local, Hung, Answered, Done, Received
  <2> QED
    BY <2>4, <2>5, <2>6, <2>7 DEF Local
<1> QED
  BY <1>2, <1>5, <1>7, <1>8 DEF Inv

\* The client that the server serves has not been hung up on, and has reset its
\* connection only if it has failed.
LEMMA ServedAlive ==
  ASSUME Inv, NEW c \in Clients, Serves(c, "size") \/ Serves(c, "file")
  PROVE  /\ Alive(c)
         /\ ~Ended
         /\ cpc[c] \in {"connected", "sized", "sent", "failed"}
         /\ received[c] = <<>>
<1>1. Local(c) /\ ~Ended
  BY DEF Inv, Serves, Ended
<1>2. CASE Serves(c, "size")
  BY <1>1, <1>2 DEF Local, Unread, Unheard
<1>3. CASE Serves(c, "file")
  BY <1>1, <1>3 DEF Local, Uploads
<1> QED
  BY <1>1, <1>2, <1>3

\* The end of the server, while it served client c: what it sent or read of c
\* last does not matter, for c hears no second answer.
LEMMA ServerLeaves ==
  ASSUME Inv, NEW c \in Clients, Serves(c, "size") \/ Serves(c, "file"),
         NEW unread, ServerEnds(unread),
         Serves(c, "file") /\ cpc[c] = "sent" => Reset(c),
         up' \in [Clients -> Seq(Bytes)], down' \in [Clients -> Seq(Bytes)],
         \A d \in Clients \ {c} : up'[d] = up[d] /\ down'[d] = down[d] /\ unread[d] = up[d],
         "a1" \notin ToSet(down'[c]),
         buffer' \in [1 .. MAX_SERVER_SIZE -> Bytes],
         len' \in Int, -LONG_MAX - 1 <= len',
         taken' \in [Clients -> Int], whole' \in [Clients -> BOOLEAN],
         \A d \in Clients \ {c} : whole'[d] = whole[d],
         UNCHANGED <<file, cvars, queue, received>>
  PROVE  Inv'
<1>1. Typed /\ Local(c)
  BY DEF Inv
<1>2. /\ UNCHANGED <<file, cpc, cbuffer, queue, received>>
      /\ spc' = [at |-> "ended"]
  BY DEF cvars, ServerEnds
<1>3. Ended' /\ (\A d \in Clients : ~Serves(d, "file")' /\ ~Serves(d, "size")')
  BY <1>2 DEF Ended, Serves
<1>4. spc' \in [at : {"accept", "ended"}] /\ spc'.at # "file"
  BY <1>2
<1>5. ASSUME NEW d \in Clients
      PROVE  /\ hung'[d] \subseteq hung[d] \union {"server", "reset"}
             /\ hung[d] \subseteq hung'[d]
             /\ cpc[d] = "start" => hung'[d] = hung[d]
             /\ cpc[d] # "start" => "server" \in hung'[d]
             /\ cpc[d] # "start" /\ d \in ToSet(queue) => "reset" \in hung'[d]
  <2> DEFINE more == {"server"} \union (IF unread[d] = <<>> /\ d \notin ToSet(queue) THEN {}
                                        ELSE {"reset"})
  <2>1. hung'[d] = IF cpc[d] = "start" THEN hung[d] ELSE hung[d] \union more
    BY DEF ServerEnds
  <2> QED
    BY <2>1
<1>6. hung' \in [Clients -> SUBSET {"client", "server", "reset"}]
  <2> DEFINE f == [d \in Clients |->
                     IF cpc[d] = "start" THEN hung[d]
                     ELSE hung[d] \union {"server"}
                            \union (IF unread[d] = <<>> /\ d \notin ToSet(queue) THEN {}
                                    ELSE {"reset"})]
  <2>1. hung' = f
    BY DEF ServerEnds
  <2>2. f = [d \in Clients |-> f[d]]
    OBVIOUS
  <2> HIDE DEF f
  <2>3. ASSUME NEW d \in Clients
        PROVE  hung'[d] \in SUBSET {"client", "server", "reset"}
    <3>1. hung[d] \in SUBSET {"client", "server", "reset"}
      BY <1>1 DEF Typed
    <3> QED
      BY <1>5, <3>1
  <2> QED
    BY <2>1, <2>2, <2>3
<1>7. Typed'
  BY <1>1, <1>2, <1>4, <1>6 DEF Typed
<1>8. ~Ended /\ (\A d \in Clients \ {c} : ~Serves(d, "size") /\ ~Serves(d, "file"))
  BY DEF Ended, Serves
<1>9. ASSUME NEW d \in Clients \ {c}
      PROVE  Local(d)'
  <2>1. Local(d) /\ (Unheard(d)' <=> Unheard(d))
    BY <1>2, <1>3, <1>8 DEF Inv, Unheard
  <2>2. NotStarted(d)'
    BY <1>2, <1>3, <1>5, <2>1 DEF Local, NotStarted
  <2>3. Unread(d)'
    <3> SUFFICES ASSUME Unheard(d)
                 PROVE  Unread(d)'
      BY <2>1 DEF Unread
    <3>1. /\ cpc[d] \in {"connected", "sized", "failed"}
          /\ up[d] \in {<<>>, Text(Size(file[d]))} /\ down[d] = <<>> /\ received[d] = <<>>
          /\ cpc[d] = "connected" => up[d] = <<>>
      BY <2>1 DEF Local, Unread
    <3>2. d \in ToSet(queue)
      BY <1>8 DEF Unheard
    <3>3. "server" \in hung'[d] /\ Reset(d)'
      BY <1>5, <3>1, <3>2 DEF Reset
    <3> QED
      BY <1>2, <1>3, <3>1, <3>3 DEF Unread
  <2>4. Uploads(d)' /\ Negative(d)' /\ Noted(d)' /\ Left(d)'
    BY <1>2, <1>3, <1>5 DEF Uploads, Negative, Noted, Left
  <2>5. Sent(d)'
    BY <1>2, <1>5, <1>8, <2>1 DEF Local, Sent, Reset
  <2>6. Hung(d)'
    BY <1>2, <1>5, <2>1 DEF Local, Hung
  <2>7. Answered(d)' /\ Done(d)' /\ Received(d)'
    BY <1>2, <2>1 DEF Local, Answered, Done, Received
  <2> QED
    BY <2>2, <2>3, <2>4, <2>5, <2>6, <2>7 DEF Local
<1>10. Local(c)'
  <2>1. /\ cpc[c] \in {"connected", "sized", "sent", "failed"} /\ received[c] = <<>>
    BY ServedAlive
  <2>2. ~Unheard(c)'
    <3>1. c \notin ToSet(queue)
      BY <1>1 DEF Local, Unread, Unheard
    <3> QED
      BY <1>2, <1>3, <3>1 DEF Unheard
  <2>3. /\ NotStarted(c)' /\ Unread(c)' /\ Uploads(c)' /\ Negative(c)' /\ Noted(c)'
        /\ Left(c)' /\ Answered(c)' /\ Done(c)'
    BY <1>2, <1>3, <1>5, <2>1, <2>2
       DEF NotStarted, Unread, Uploads, Negative, Noted, Left, Answered, Done
  <2>4. Sent(c)'
    <3> SUFFICES ASSUME cpc[c] = "sent"
                 PROVE  Reset(c)'
      BY <1>2 DEF Sent
    <3>1. Serves(c, "file")
      BY <1>1 DEF Local, Unread, Unheard
    <3> QED
      BY <1>5, <3>1 DEF Reset
  <2>5. Hung(c)'
    BY <1>1, <1>2, <1>5 DEF Local, Hung
  <2>6. Received(c)'
    <3>1. file[c] \in Seq(Bytes)
      BY <1>1, BytesFacts DEF Typed
    <3>2. IsPrefix(<<>>, file[c])
      BY <3>1 DEF IsPrefix
    <3> QED
      BY <1>2, <2>1, <3>2, TcpAssumption DEF Received
  <2> QED
    BY <2>3, <2>4, <2>5, <2>6 DEF Local
<1> QED
  BY <1>7, <1>9, <1>10 DEF Inv

LEMMA ServerFailsInv ==
  ASSUME Inv, ServerFails
  PROVE  Inv'
<1>p. PICK c \in Clients : c = spc.client
  BY DEF Inv, Typed, ServerFails
<1>1. Typed /\ Local(c) /\ spc.at \in {"size", "file"} /\ ServerEnds(up)
  BY <1>p DEF Inv, ServerFails
<1>2. c \in Clients
  OBVIOUS
<1>3. Serves(c, "size") \/ Serves(c, "file")
  BY <1>p, <1>1 DEF Serves
<1>4. UNCHANGED <<file, cvars, up, down, queue, buffer, len, taken, whole, received>>
  BY DEF ServerFails, history
<1>5. /\ up \in [Clients -> Seq(Bytes)] /\ down \in [Clients -> Seq(Bytes)]
      /\ buffer \in [1 .. MAX_SERVER_SIZE -> Bytes]
      /\ taken \in [Clients -> Int] /\ whole \in [Clients -> BOOLEAN]
      /\ len \in Int /\ -LONG_MAX - 1 <= len
  BY <1>1 DEF Typed
<1>7. Serves(c, "file") /\ cpc[c] = "sent" => Reset(c)
  BY <1>p, <1>1 DEF ServerFails, Local, Negative
<1>6. "a1" \notin ToSet(down'[c])
  <2>1. received[c] = <<>>
    BY <1>2, <1>3, ServedAlive
  <2> QED
    BY <1>2, <1>4, <2>1 DEF Inv, Local, Answered
<1> QED
  BY <1>1, <1>2, <1>3, <1>4, <1>5, <1>6, <1>7, ServerLeaves

\* What the server has read from a client, and what is left of it.
LEMMA ReadsFacts ==
  ASSUME Inv, NEW c \in Clients, NEW n \in Nat, NEW bytes, Reads(c, n, bytes)
  PROVE  /\ bytes \in Seq(Bytes)
         /\ IsPrefix(bytes, up[c])
         /\ Len(bytes) <= n /\ Len(bytes) <= Len(up[c])
         /\ up' \in [Clients -> Seq(Bytes)]
         /\ \A d \in Clients \ {c} : up'[d] = up[d]
         /\ Len(up'[c]) = Len(up[c]) - Len(bytes)
         /\ bytes = up[c] => up'[c] = <<>>
         /\ bytes # <<>> => bytes[1] = up[c][1] /\ buffer'[1] = up[c][1]
         /\ bytes = <<>> => "client" \in hung[c]
         /\ buffer' \in [1 .. MAX_SERVER_SIZE -> Bytes]
         /\ ~Reset(c)
<1>1. up \in [Clients -> Seq(Bytes)] /\ up[c] \in Seq(Bytes)
  BY DEF Inv, Typed
<1>2. /\ bytes \in Seq(Bytes) /\ IsPrefix(bytes, up[c])
      /\ Len(bytes) \in Nat /\ Len(bytes) <= Len(up[c])
      /\ Len(bytes) <= n
      /\ bytes = <<>> => "client" \in hung[c]
      /\ bytes # <<>> => bytes[1] = up[c][1]
  <2>1. CASE bytes \in Parts(up[c], n)
    <3>1. /\ bytes \in Seq(Bytes) /\ bytes # <<>> /\ IsPrefix(bytes, up[c])
          /\ Len(bytes) \in 1 .. Len(up[c]) /\ Len(bytes) <= n
          /\ \A i \in 1 .. Len(bytes) : bytes[i] = up[c][i]
      BY <1>1, <2>1, PartsFacts
    <3> QED
      BY <1>1, <3>1
  <2>2. CASE bytes = <<>> /\ up[c] = <<>> /\ "client" \in hung[c]
    <3>1. IsPrefix(<<>>, <<>>)
      BY DEF IsPrefix
    <3> QED
      BY <2>2, <3>1
  <2> QED
    BY <2>1, <2>2 DEF Reads
<1> DEFINE rest == SubSeq(up[c], Len(bytes) + 1, Len(up[c]))
<1>3. /\ rest \in Seq(Bytes) /\ (Len(bytes) = Len(up[c]) => rest = <<>>)
      /\ Len(rest) = Len(up[c]) - Len(bytes)
  BY <1>1, <1>2, RestFacts
<1>4. up' = [up EXCEPT ![c] = rest]
  BY DEF Reads
<1> HIDE DEF rest
<1>5. /\ up' \in [Clients -> Seq(Bytes)] /\ up'[c] = rest
      /\ \A d \in Clients \ {c} : up'[d] = up[d]
  BY <1>1, <1>3, <1>4
<1>6. buffer' \in [1 .. MAX_SERVER_SIZE -> Bytes]
  <2>1. buffer \in [1 .. MAX_SERVER_SIZE -> Bytes] /\ MAX_SERVER_SIZE \in Nat
    BY TcpAssumption DEF Inv, Typed
  <2>2. buffer' = Over(buffer, bytes)
    BY DEF Reads
  <2> QED
    BY <1>2, <2>1, <2>2, OverFacts
<1>7. bytes # <<>> => buffer'[1] = bytes[1]
  <2>1. DOMAIN buffer = 1 .. MAX_SERVER_SIZE /\ 1 \in 1 .. Len(buffer) /\ Len(buffer) \in Nat
    BY TcpAssumption DEF Inv, Typed
  <2>2. bytes # <<>> => 1 <= Len(bytes)
    BY <1>2
  <2> QED
    BY <2>1, <2>2 DEF Reads, Over
<1> QED
  BY <1>2, <1>3, <1>5, <1>6, <1>7 DEF Reads

\* The size is learnt before anything is answered; when it came in one read,
\* nothing of what the client has sent so far is left.
LEMMA LearnsFacts ==
  ASSUME Inv, NEW c \in Clients, NEW bytes, Learns(c, bytes)
  PROVE  /\ up' \in [Clients -> Seq(Bytes)]
         /\ \A d \in Clients \ {c} : up'[d] = up[d]
         /\ buffer' \in [1 .. MAX_SERVER_SIZE -> Bytes]
         /\ len' \in Int /\ -LONG_MAX - 1 <= len' /\ taken'[c] = len'
         /\ len' < 0 => /\ cpc[c] = "sized" => file[c] = Pipe
                        /\ Len(up'[c]) <= MAX_SERVER_SIZE
         /\ taken' \in [Clients -> Int] /\ whole' \in [Clients -> BOOLEAN]
         /\ \A d \in Clients \ {c} : whole'[d] = whole[d]
         /\ whole'[c] => up'[c] = <<>>
         /\ cpc[c] \in {"sized", "failed"} /\ down[c] = <<>> /\ received[c] = <<>>
         /\ Alive(c) /\ c \notin ToSet(queue)
         /\ Serves(c, "size")
         /\ UNCHANGED <<file, cpc, cbuffer, queue, received>>
<1>1. Typed /\ Local(c) /\ Serves(c, "size") /\ ~Ended
  BY DEF Inv, Learns, Serves, Ended
<1> DEFINE text == Text(Size(file[c]))
<1>t. /\ text \in Seq(Bytes) \ {<<>>}
      /\ file[c] # Pipe => text \in Seq(Signs)
      /\ file[c] = Pipe => Len(text) = 2
  BY <1>1, TextFacts DEF Typed
<1>2. /\ cpc[c] \in {"connected", "sized", "failed"} /\ down[c] = <<>> /\ received[c] = <<>>
      /\ up[c] \in {<<>>, text} /\ Alive(c) /\ c \notin ToSet(queue)
      /\ cpc[c] = "connected" => up[c] = <<>>
  BY <1>1 DEF Local, Unread, Unheard
<1>w. whole' = [whole EXCEPT ![c] = bytes = text]
  BY DEF Learns
<1> HIDE DEF text
<1>3. /\ up' \in [Clients -> Seq(Bytes)]
      /\ \A d \in Clients \ {c} : up'[d] = up[d]
      /\ bytes \in Seq(Bytes) /\ Len(bytes) <= Len(up[c])
      /\ Len(up'[c]) = Len(up[c]) - Len(bytes)
      /\ bytes = up[c] => up'[c] = <<>>
      /\ bytes # <<>> => buffer'[1] = up[c][1]
      /\ bytes = <<>> => "client" \in hung[c]
      /\ buffer' \in [1 .. MAX_SERVER_SIZE -> Bytes]
  BY ReadsFacts, TcpAssumption DEF Learns
<1>e. up[c] = <<>> => bytes = <<>> /\ cpc[c] = "failed" /\ up'[c] = <<>>
  <2> SUFFICES ASSUME up[c] = <<>>
               PROVE  bytes = <<>> /\ cpc[c] = "failed" /\ up'[c] = <<>>
    OBVIOUS
  <2>1. Len(bytes) = 0
    BY <1>3
  <2>2. bytes = <<>>
    BY <1>3, <2>1
  <2> QED
    BY <1>1, <1>2, <1>3, <2>2 DEF Local, Hung
<1>4. /\ len' \in Int /\ -LONG_MAX - 1 <= len'
      /\ len' < 0 => buffer'[1] = Minus
  <2>1. len' = Strtol(buffer')
    BY DEF Learns
  <2> DEFINE b == buffer'
  <2>2. b \in [1 .. MAX_SERVER_SIZE -> Bytes] /\ MAX_SERVER_SIZE \in Nat \ {0}
    BY <1>3, TcpAssumption
  <2>3. len' = Strtol(b)
    BY <2>1
  <2> HIDE DEF b
  <2>4. /\ Strtol(b) \in Int /\ -LONG_MAX - 1 <= Strtol(b)
        /\ Strtol(b) < 0 => b[1] = Minus
    BY <2>2, StrtolFacts
  <2> QED
    BY <2>3, <2>4 DEF b
<1>n. ASSUME len' < 0
      PROVE  /\ cpc[c] = "sized" => file[c] = Pipe
             /\ Len(up'[c]) <= MAX_SERVER_SIZE
  <2>1. CASE bytes = <<>>
    <3>1. cpc[c] = "failed"
      BY <1>1, <1>2, <1>3, <2>1 DEF Local, Hung
    <3>2. up[c] = <<>>
      BY <2>1 DEF Learns, Reads, Parts
    <3> QED
      BY <1>e, <3>1, <3>2, TcpAssumption
  <2>2. CASE bytes # <<>>
    <3>1. up[c] = text
      BY <1>2, <1>e, <2>2
    <3>2. text[1] = Minus
      BY <1>n, <1>3, <1>4, <2>2, <3>1
    <3>3. file[c] = Pipe
      <4> SUFFICES ASSUME text \in Seq(Signs)
                   PROVE  FALSE
        BY <1>t
      <4>1. text[1] \in Signs
        BY <1>t
      <4> QED
        BY <3>2, <4>1, BytesFacts
    <3>4. Len(bytes) >= 1
      BY <1>3, <2>2
    <3>5. Len(bytes) \in Nat /\ Len(up[c]) = 2 /\ MAX_SERVER_SIZE \in Nat \ {0}
      BY <1>t, <1>3, <3>1, <3>3, TcpAssumption
    <3>6. Len(up'[c]) = Len(up[c]) - Len(bytes)
      BY <1>3
    <3>7. Len(up'[c]) <= 1
      BY <3>4, <3>5, <3>6
    <3>8. Len(up'[c]) \in Int
      BY <3>5, <3>6
    <3> QED
      BY <3>3, <3>5, <3>7, <3>8
  <2> QED
    BY <2>1, <2>2
<1>5. taken' \in [Clients -> Int] /\ taken'[c] = len'
  <2>1. taken' = [taken EXCEPT ![c] = len']
    BY DEF Learns
  <2> QED
    BY <1>1, <1>4, <2>1 DEF Typed
<1>6. /\ whole' \in [Clients -> BOOLEAN]
      /\ \A d \in Clients \ {c} : whole'[d] = whole[d]
      /\ whole'[c] => up'[c] = <<>>
  <2> DEFINE now == bytes = text
  <2>1. whole' = [whole EXCEPT ![c] = now]
    BY <1>w
  <2>2. now \in BOOLEAN /\ (now => up'[c] = <<>>)
    BY <1>t, <1>2, <1>3, <1>e
  <2> HIDE DEF now
  <2>3. whole \in [Clients -> BOOLEAN]
    BY <1>1 DEF Typed
  <2>4. whole'[c] = now
    BY <2>1, <2>3, Zenon
  <2>5. whole' \in [Clients -> BOOLEAN] /\ \A d \in Clients \ {c} : whole'[d] = whole[d]
    BY <2>1, <2>2, <2>3
  <2> QED
    BY <2>2, <2>4, <2>5, Zenon
<1>7. UNCHANGED <<file, cpc, cbuffer, queue, received>>
  BY DEF Learns, cvars
<1> QED
  BY <1>1, <1>2, <1>3, <1>e, <1>4, <1>n, <1>5, <1>6, <1>7

\* An answer goes to a client that has not closed.
LEMMA SendsFacts ==
  ASSUME Inv, NEW c \in Clients, NEW answer \in Seq(Bytes), Sends(c, answer)
  PROVE  /\ down' \in [Clients -> Seq(Bytes)]
         /\ \A d \in Clients \ {c} : down'[d] = down[d]
         /\ ToSet(down'[c]) \subseteq ToSet(down[c]) \union ToSet(answer)
         /\ "client" \in hung[c] => down'[c] = down[c]
<1> DEFINE now == IF "client" \in hung[c] THEN down[c] ELSE down[c] \o answer
<1>1. down \in [Clients -> Seq(Bytes)] /\ down[c] \in Seq(Bytes)
  BY DEF Inv, Typed
<1>2. now \in Seq(Bytes) /\ ToSet(now) \subseteq ToSet(down[c]) \union ToSet(answer)
  BY <1>1, ConcatSet
<1>3. down' = [down EXCEPT ![c] = now]
  BY DEF Sends
<1>4. "client" \in hung[c] => now = down[c]
  OBVIOUS
<1> HIDE DEF now
<1> QED
  BY <1>1, <1>2, <1>3, <1>4

LEMMA TakesSizeInv ==
  ASSUME Inv, NEW c \in Clients, NEW bytes, TakesSize(c, bytes)
  PROVE  Inv'
<1>1. Learns(c, bytes) /\ len' # 0 /\ len' <= MAX_SERVER_SIZE /\ Sends(c, Small)
  BY DEF TakesSize
<1>2. /\ up' \in [Clients -> Seq(Bytes)]
      /\ \A d \in Clients \ {c} : up'[d] = up[d]
      /\ buffer' \in [1 .. MAX_SERVER_SIZE -> Bytes]
      /\ len' \in Int /\ -LONG_MAX - 1 <= len' /\ taken'[c] = len'
      /\ len' < 0 => /\ cpc[c] = "sized" => file[c] = Pipe
                     /\ Len(up'[c]) <= MAX_SERVER_SIZE
      /\ taken' \in [Clients -> Int] /\ whole' \in [Clients -> BOOLEAN]
      /\ \A d \in Clients \ {c} : whole'[d] = whole[d]
      /\ whole'[c] => up'[c] = <<>>
      /\ cpc[c] \in {"sized", "failed"} /\ down[c] = <<>> /\ received[c] = <<>>
      /\ Alive(c) /\ c \notin ToSet(queue)
      /\ Serves(c, "size")
      /\ UNCHANGED <<file, cpc, cbuffer, queue, received>>
  BY <1>1, LearnsFacts
<1>3. /\ down' \in [Clients -> Seq(Bytes)]
      /\ \A d \in Clients \ {c} : down'[d] = down[d]
      /\ "a1" \notin ToSet(down'[c])
  <2>1. "a1" \notin ToSet(down[c]) /\ "a1" \notin ToSet(Small) /\ Small \in Seq(Bytes)
    BY <1>2, BytesFacts DEF Inv, Local, Answered
  <2> QED
    BY <1>1, <2>1, SendsFacts
<1>4. Typed /\ Local(c)
  BY DEF Inv
<1>5. /\ hung' \in [Clients -> SUBSET {"client", "server", "reset"}]
      /\ \A d \in Clients \ {c} : hung'[d] = hung[d]
      /\ hung'[c] = IF "client" \in hung[c] THEN hung[c] \union {"reset"} ELSE hung[c]
  <2>1. hung' = [hung EXCEPT ![c] = IF "client" \in hung[c] THEN hung[c] \union {"reset"}
                                    ELSE hung[c]]
    BY DEF TakesSize
  <2> QED
    BY <1>4, <2>1 DEF Typed
<1>6. spc' = [at |-> "file", client |-> c]
  BY DEF TakesSize
<1>7. spc' \in [at : {"size", "file"}, client : Clients] /\ spc'.at = "file" /\ spc'.client = c
  BY <1>6
<1>8. Typed'
  BY <1>1, <1>2, <1>3, <1>4, <1>5, <1>7 DEF Typed
<1>9. /\ ~Ended' /\ ~Ended
      /\ Serves(c, "file")' /\ ~Serves(c, "size")' /\ ~Serves(c, "file")
      /\ \A d \in Clients \ {c} : /\ ~Serves(d, "file")' /\ ~Serves(d, "file")
                                  /\ ~Serves(d, "size")' /\ ~Serves(d, "size")
  BY <1>2, <1>7 DEF Ended, Serves
<1>10. ASSUME NEW d \in Clients \ {c}
       PROVE  Local(d)'
  BY <1>2, <1>3, <1>5, <1>9, Frame DEF Inv
<1>11. Local(c)'
  <2>1. ~Unheard(c)'
    BY <1>2, <1>9 DEF Unheard
  <2>2. NotStarted(c)' /\ Unread(c)' /\ Left(c)' /\ Sent(c)' /\ Done(c)'
    BY <1>2, <1>9, <2>1 DEF NotStarted, Unread, Left, Sent, Done
  <2>3. Alive(c)'
    <3>1. "client" \in hung[c] => cpc[c] = "failed"
      BY <1>2, <1>4 DEF Local, Hung
    <3> QED
      BY <1>2, <1>5, <3>1 DEF Alive, Reset
  <2>4. Uploads(c)' /\ Negative(c)' /\ Noted(c)'
    BY <1>2, <2>3 DEF Uploads, Negative, Noted
  <2>5. Hung(c)'
    BY <1>2, <1>4, <1>5 DEF Local, Hung
  <2>6. Answered(c)'
    BY <1>3 DEF Answered
  <2>7. Received(c)'
    <3>1. file[c] \in Seq(Bytes)
      BY <1>4, BytesFacts DEF Typed
    <3>2. IsPrefix(<<>>, file[c])
      BY <3>1 DEF IsPrefix
    <3> QED
      BY <1>2, <3>2, TcpAssumption DEF Received
  <2> QED
    BY <2>2, <2>4, <2>5, <2>6, <2>7 DEF Local
<1> QED
  BY <1>8, <1>10, <1>11 DEF Inv

\* The two steps in which the size ends the server.
LEMMA BadSizeInv ==
  ASSUME Inv, NEW c \in Clients, NEW bytes, TakesNoSize(c, bytes) \/ Rejects(c, bytes)
  PROVE  Inv'
<1>1. Learns(c, bytes) /\ ServerEnds(up')
  BY DEF TakesNoSize, Rejects
<1>2. /\ up' \in [Clients -> Seq(Bytes)]
      /\ \A d \in Clients \ {c} : up'[d] = up[d]
      /\ buffer' \in [1 .. MAX_SERVER_SIZE -> Bytes]
      /\ len' \in Int /\ -LONG_MAX - 1 <= len'
      /\ taken' \in [Clients -> Int] /\ whole' \in [Clients -> BOOLEAN]
      /\ \A d \in Clients \ {c} : whole'[d] = whole[d]
      /\ received[c] = <<>> /\ Serves(c, "size")
      /\ UNCHANGED <<file, cpc, cbuffer, queue, received>>
  BY <1>1, LearnsFacts
<1>3. "a1" \notin ToSet(down[c]) /\ "a1" \notin ToSet(Small) /\ Small \in Seq(Bytes)
  BY <1>2, BytesFacts DEF Inv, Local, Answered
<1>4. /\ down' \in [Clients -> Seq(Bytes)]
      /\ \A d \in Clients \ {c} : down'[d] = down[d]
      /\ "a1" \notin ToSet(down'[c])
  <2>1. CASE Sends(c, Small)
    BY <1>3, <2>1, SendsFacts
  <2>2. CASE down' = down
    BY <1>3, <2>2 DEF Inv, Typed
  <2> QED
    BY <2>1, <2>2 DEF TakesNoSize, Rejects
<1>5. ~Serves(c, "file")
  BY <1>2 DEF Serves
<1> DEFINE unread == up'
<1>6. ServerEnds(unread) /\ \A d \in Clients \ {c} : unread[d] = up[d]
  BY <1>1, <1>2
<1>7. UNCHANGED <<file, cvars, queue, received>>
  BY <1>2 DEF cvars
<1> HIDE DEF unread
<1> QED
  BY <1>2, <1>4, <1>5, <1>6, <1>7, ServerLeaves

LEMMA TakesFileInv ==
  ASSUME Inv, NEW c \in Clients, NEW bytes, TakesFile(c, bytes)
  PROVE  Inv'
<1> DEFINE size == AsSize(len)
<1>1. /\ Serves(c, "file") /\ Reads(c, size, bytes) /\ Sends(c, Ack)
      /\ Typed /\ Local(c)
  BY DEF TakesFile, Inv
<1>2. size \in Nat /\ (len >= 0 => size <= MAX_SERVER_SIZE)
  <2>1. /\ LONG_MAX \in Nat /\ MAX_SERVER_SIZE \in Nat
        /\ len \in Int /\ -LONG_MAX - 1 <= len /\ len <= MAX_SERVER_SIZE
    BY <1>1, TcpAssumption DEF Typed, Serves
  <2>2. size = IF len < 0 THEN len + (2 * LONG_MAX + 1) + 1 ELSE len
    BY DEF AsSize, SIZE_MAX
  <2> HIDE DEF size
  <2> QED
    BY <2>1, <2>2
<1> HIDE DEF size
<1>3. /\ bytes \in Seq(Bytes)
      /\ IsPrefix(bytes, up[c])
      /\ Len(bytes) <= size /\ Len(bytes) <= Len(up[c])
      /\ up' \in [Clients -> Seq(Bytes)]
      /\ \A d \in Clients \ {c} : up'[d] = up[d]
      /\ bytes = <<>> => "client" \in hung[c]
      /\ buffer' \in [1 .. MAX_SERVER_SIZE -> Bytes]
  BY <1>1, <1>2, ReadsFacts
<1>4. /\ down' \in [Clients -> Seq(Bytes)]
      /\ \A d \in Clients \ {c} : down'[d] = down[d]
      /\ "client" \in hung[c] => down'[c] = down[c]
  BY <1>1, BytesFacts, SendsFacts
<1>s. Len(bytes) <= MAX_SERVER_SIZE
  <2>0. Len(bytes) \in Nat /\ Len(up[c]) \in Nat /\ len \in Int /\ MAX_SERVER_SIZE \in Nat
    BY <1>1, <1>3, TcpAssumption DEF Typed
  <2>1. CASE len < 0
    <3>1. Len(up[c]) <= MAX_SERVER_SIZE
      BY <1>1, <2>1 DEF Local, Negative
    <3> QED
      BY <1>3, <2>0, <3>1
  <2>2. CASE len >= 0
    BY <1>2, <1>3, <2>0, <2>2
  <2> QED
    BY <2>0, <2>1, <2>2
<1>5. /\ cpc[c] \in {"sized", "sent", "failed"} /\ received[c] = <<>>
      /\ whole[c] => up[c] \in {<<>>, file[c]}
  BY <1>1 DEF Local, Uploads
<1>6. /\ hung' \in [Clients -> SUBSET {"client", "server", "reset"}]
      /\ \A d \in Clients \ {c} : hung'[d] = hung[d]
      /\ "server" \in hung'[c]
      /\ "client" \in hung'[c] => "client" \in hung[c]
  <2> DEFINE more == {"server"} \union (IF up'[c] = <<>> THEN {} ELSE {"reset"})
  <2>1. hung' = [hung EXCEPT ![c] = hung[c] \union more]
    BY DEF TakesFile, Hangs
  <2>2. more \subseteq {"server", "reset"} /\ "server" \in more
    OBVIOUS
  <2> HIDE DEF more
  <2> QED
    BY <1>1, <2>1, <2>2 DEF Typed
<1>7. /\ received' = [received EXCEPT ![c] = bytes]
      /\ spc' = [at |-> "accept"]
      /\ UNCHANGED <<file, cpc, cbuffer, queue, len, taken, whole>>
  BY DEF TakesFile, cvars
<1>8. /\ received' \in [Clients -> Seq(Bytes)] /\ received'[c] = bytes
      /\ \A d \in Clients \ {c} : received'[d] = received[d]
  BY <1>1, <1>3, <1>7 DEF Typed
<1>9. spc' \in [at : {"accept", "ended"}] /\ spc'.at = "accept"
  BY <1>7
<1>10. Typed'
  BY <1>1, <1>3, <1>4, <1>6, <1>7, <1>8, <1>9 DEF Typed
<1>11. /\ ~Ended' /\ ~Ended
       /\ ~Serves(c, "file")' /\ ~Serves(c, "size")' /\ ~Serves(c, "size")
       /\ \A d \in Clients \ {c} : /\ ~Serves(d, "file")' /\ ~Serves(d, "file")
                                   /\ ~Serves(d, "size")' /\ ~Serves(d, "size")
  BY <1>1, <1>9 DEF Ended, Serves
<1>12. ASSUME NEW d \in Clients \ {c}
       PROVE  Local(d)'
  BY <1>3, <1>4, <1>6, <1>7, <1>8, <1>11, Frame DEF Inv
<1>13. Local(c)'
  <2>1. ~Unheard(c)'
    BY <1>1, <1>7, <1>11 DEF Local, Unread, Unheard
  <2>2. bytes = <<>> => cpc[c] = "failed" /\ down'[c] = down[c]
    BY <1>1, <1>3, <1>4, <1>5 DEF Local, Hung
  <2>3. /\ NotStarted(c)' /\ Unread(c)' /\ Uploads(c)' /\ Negative(c)' /\ Noted(c)'
        /\ Left(c)' /\ Sent(c)' /\ Done(c)'
    BY <1>5, <1>6, <1>7, <1>8, <1>11, <2>1, <2>2
       DEF NotStarted, Unread, Uploads, Negative, Noted, Left, Sent, Done
  <2>4. Hung(c)'
    BY <1>1, <1>6, <1>7 DEF Local, Hung
  <2>5. Answered(c)'
    BY <1>1, <1>5, <1>8, <2>2 DEF Local, Answered
  <2>6. Received(c)'
    <3> SUFFICES ASSUME whole[c]
                 PROVE  IsPrefix(bytes, file[c])
      BY <1>7, <1>8, <1>s DEF Received
    <3>1. CASE up[c] = file[c]
      BY <1>3, <3>1
    <3>2. CASE up[c] = <<>>
      <4>1. Len(bytes) = 0 /\ file[c] \in Seq(Bytes)
        BY <1>1, <1>3, <3>2, BytesFacts DEF Typed, IsPrefix
      <4>2. bytes = <<>>
        BY <1>3, <4>1
      <4> QED
        BY <4>1, <4>2 DEF IsPrefix
    <3> QED
      BY <1>5, <3>1, <3>2
  <2> QED
    BY <2>3, <2>4, <2>5, <2>6 DEF Local
<1> QED
  BY <1>10, <1>12, <1>13 DEF Inv

-----------------------------------------------------------------------------
(* The theorems                                                            *)

LEMMA InvStep ==
  ASSUME Inv, [Next]_vars
  PROVE  Inv'
<1>1. CASE Accepts
  BY <1>1, AcceptsInv
<1>2. CASE ServerFails
  BY <1>2, ServerFailsInv
<1>3. ASSUME NEW c \in Clients, NEW bytes, TakesSize(c, bytes)
      PROVE  Inv'
  BY <1>3, TakesSizeInv
<1>4. ASSUME NEW c \in Clients, NEW bytes, TakesNoSize(c, bytes) \/ Rejects(c, bytes)
      PROVE  Inv'
  BY <1>4, BadSizeInv
<1>5. ASSUME NEW c \in Clients, NEW bytes, TakesFile(c, bytes)
      PROVE  Inv'
  BY <1>5, TakesFileInv
<1>6. ASSUME NEW c \in Clients, ClientStep(c) \/ Killed(c)
      PROVE  Inv'
  BY <1>6, RefusedInv, ConnectsInv, SendsSizeInv, HearsNothingInv, SendsFileInv, GivesUpInv, FinishesInv,
     KilledInv DEF ClientStep
<1>7. CASE UNCHANGED vars
  <2>1. UNCHANGED <<file, cpc, cbuffer, up, down, hung, spc, queue, buffer, len, taken, whole,
                    received>>
    BY <1>7 DEF vars, cvars, net, svars, history
  <2>2. Typed'
    BY <2>1 DEF Inv, Typed
  <2>3. ASSUME NEW d \in Clients
        PROVE  Local(d)'
    BY <2>1, Frame DEF Inv, Serves, Ended
  <2> QED
    BY <2>2, <2>3 DEF Inv
<1> QED
  BY <1>1, <1>2, <1>3, <1>4, <1>5, <1>6, <1>7 DEF Next, ServerStep

\* What a step that ends the server has seen.
LEMMA EndStep ==
  ASSUME Inv, Next, ~Ended, Ended'
  PROVE  \/ cpc[spc.client] = "failed"
         \/ Size(file[spc.client]) \notin 1 .. MAX_SERVER_SIZE
         \/ taken'[spc.client] # Size(file[spc.client])
<1>1. spc' # spc
  BY DEF Ended
<1>2. ASSUME NEW c \in Clients
      PROVE  ~ClientStep(c) /\ ~Killed(c)
  BY <1>1 DEF ClientStep, Refused, Connects, SendsSize, HearsNothing, SendsFile, GivesUp, Finishes, Killed,
              svars
<1>3. ~Accepts /\ \A c, bytes : ~TakesSize(c, bytes) /\ ~TakesFile(c, bytes)
  BY DEF Ended, Accepts, TakesSize, TakesFile
<1>4. CASE ServerFails
  <2>1. PICK c \in Clients : c = spc.client
    BY <1>4 DEF Inv, Typed, ServerFails
  <2>2. Serves(c, "size") \/ Serves(c, "file")
    BY <1>4, <2>1 DEF ServerFails, Serves
  <2>3. CASE Reset(c)
    BY <2>1, <2>2, <2>3, ServedAlive DEF Alive
  <2>4. CASE spc.at = "file" /\ len < 0
    <3>1. taken[c] = len
      BY <2>1, <2>4 DEF Inv, Local, Noted, Serves
    <3>2. taken' = taken /\ len \in Int
      BY <1>4 DEF ServerFails, history, Inv, Typed
    <3>3. taken'[c] \notin 1 .. MAX_SERVER_SIZE
      BY <2>4, <3>1, <3>2, TcpAssumption
    <3> QED
      BY <2>1, <3>3
  <2> QED
    BY <1>4, <2>1, <2>3, <2>4 DEF ServerFails
<1>5. ASSUME NEW c \in Clients, NEW bytes, TakesNoSize(c, bytes) \/ Rejects(c, bytes)
      PROVE  \/ Size(file[spc.client]) \notin 1 .. MAX_SERVER_SIZE
             \/ taken'[spc.client] # Size(file[spc.client])
  <2>1. Learns(c, bytes)
    BY <1>5 DEF TakesNoSize, Rejects
  <2>2. taken'[c] = len' /\ spc.client = c /\ len' \in Int
    BY <2>1, LearnsFacts DEF Serves
  <2>3. len' = 0 \/ len' > MAX_SERVER_SIZE
    BY <1>5 DEF TakesNoSize, Rejects
  <2>4. len' \notin 1 .. MAX_SERVER_SIZE
    BY <2>2, <2>3, TcpAssumption
  <2> QED
    BY <2>2, <2>4
<1> QED
  BY <1>2, <1>3, <1>4, <1>5 DEF Next, ServerStep

\* The invariant holds for ever.
THEOREM Invariant == Spec => []Inv
<1>1. Init => Inv
  BY InvInit
<1>2. Inv /\ [Next]_vars => Inv'
  BY InvStep
<1> QED
  BY <1>1, <1>2, PTL DEF Spec

\* The state of the two programs keeps its types, for any files, digits and sizes of
\* the buffers; a size that is waited for is not 0 and passed its one check.
THEOREM TcpTypes == Spec => []TcpTypeOK
<1>1. Inv => TcpTypeOK
  <2> SUFFICES ASSUME Inv
               PROVE  TcpTypeOK
    OBVIOUS
  <2>1. Typed
    BY DEF Inv
  <2>2. ASSUME NEW S, NEW n \in Nat, NEW b \in [1 .. n -> S]
        PROVE  DOMAIN b = 1 .. n /\ ToSet(b) \subseteq S
    BY DEF ToSet
  <2>3. ASSUME NEW c \in Clients
        PROVE  ToSet(up[c] \o down[c] \o received[c]) \subseteq Bytes
    <3>1. up[c] \in Seq(Bytes) /\ down[c] \in Seq(Bytes) /\ received[c] \in Seq(Bytes)
      BY <2>1 DEF Typed
    <3> DEFINE s == up[c] \o down[c] \o received[c]
    <3>2. s \in Seq(Bytes)
      BY <3>1
    <3> HIDE DEF s
    <3>3. ToSet(s) \subseteq Bytes
      BY <3>2 DEF ToSet
    <3> QED
      BY <3>3 DEF s
  <2>4. ASSUME NEW c \in Clients
        PROVE  DOMAIN cbuffer[c] = 1 .. MAX_CLIENT_SIZE /\ ToSet(cbuffer[c]) \subseteq Bytes
    <3>1. cbuffer[c] \in [1 .. MAX_CLIENT_SIZE -> Bytes] /\ MAX_CLIENT_SIZE \in Nat
      BY <2>1, TcpAssumption DEF Typed
    <3> QED
      BY <2>2, <3>1
  <2>5. DOMAIN buffer = 1 .. MAX_SERVER_SIZE /\ ToSet(buffer) \subseteq Bytes
    BY <2>1, <2>2, TcpAssumption DEF Typed
  <2>6. spc.at \in {"accept", "size", "file", "ended"}
    BY <2>1 DEF Typed
  <2> QED
    BY <2>1, <2>3, <2>4, <2>5, <2>6 DEF TcpTypeOK, Typed, States
<1> QED
  BY <1>1, Invariant, PTL

\* Whatever size the server takes for a file, also one below 0 which recv() reads as
\* a huge one: the bytes it stores fit its buffer.
THEOREM FileFitsBuffer == Spec => []FileFits
<1>1. Inv => FileFits
  BY DEF Inv, Local, Received, FileFits
<1> QED
  BY <1>1, Invariant, PTL

\* A client that reports success whose size was read in one piece: the server
\* has taken a first part of its file, which is not empty.
THEOREM SuccessIsHeard == Spec => []DoneMeansReceived
<1>1. Inv => DoneMeansReceived
  BY DEF Inv, Local, Done, Received, DoneMeansReceived
<1> QED
  BY <1>1, Invariant, PTL

\* The server's loop ends only over a client that has failed, over the size of its
\* file, or over a size taken for another one.
THEOREM EndIsCaused == Spec => EndHasCause
<1> DEFINE Caused ==
      ~Ended /\ Ended' =>
        LET c == spc.client
        IN  \/ cpc[c] = "failed"
            \/ Size(file[c]) \notin 1 .. MAX_SERVER_SIZE
            \/ taken'[c] # Size(file[c])
<1>1. Inv /\ [Next]_vars => [Caused]_vars
  BY EndStep
<1> QED
  BY <1>1, Invariant, PTL DEF Spec, EndHasCause
=============================================================================
