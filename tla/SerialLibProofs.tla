--------------------------- MODULE SerialLibProofs ---------------------------
(***************************************************************************)
(* Whatever the messages, the size of the buffers, the way write() and     *)
(* read() divide the bytes, the event characters and the timeouts: what is *)
(* read without a timeout is what was written, and a timeout costs no more *)
(* than the message it hits.                                               *)
(*                                                                         *)
(* serial2002_write masks the bits of a value from the 32nd on, so the     *)
(* theorems are about values that fit (ValuesFit); that no byte is put     *)
(* beyond a buffer (BuffersCorrect) holds of any.                          *)
(*                                                                         *)
(* The last part is about the configuration of the device: what the tables *)
(* of the driver have, for any channels and entries in any order.          *)
(***************************************************************************)
EXTENDS SerialLine, SerialConfig, FoldProofs, SequenceTheorems, TLAPS

-----------------------------------------------------------------------------
(* The bytes of a channel message *)

\* The values that four continuation bytes of seven bits, one of two and the two
\* bits of the last byte have room for.
Fits(v) == v \in Nat /\ v < 4294967296

\* What the last continuation byte counts in, the one before it, and so on.
Units == <<4, 512, 65536, 8388608, 1073741824, 137438953472>>

\* The continuation byte of v that counts in the n-th of them.
Digit(v, n) == 128 + ((v \div Units[n]) % 128)

\* s is what is written of v before the byte that counts in Units[j]: nothing if v
\* does not reach so far, and all of the larger part of v otherwise.
Written(s, v, j) ==
    /\ s \in Seq(Int) /\ Len(s) <= 6 - j
    /\ \A k \in 1..Len(s) : s[k] = Digit(v, j + Len(s) - k)
    /\ Len(s) = 0 => v < Units[j]
    /\ Len(s) > 0 => v < Units[j + Len(s)]
    /\ Len(s) > 0 /\ j > 1 => v >= Units[j]

\* A byte counts 128 times what the next one does.
LEMMA UnitFacts ==
    /\ \A j \in 1..6 : Units[j] \in Nat \ {0}
    /\ \A j \in 1..5 : Units[j + 1] = 128 * Units[j]
  BY SMT DEF Units

\* The limits of serial2002_write as units of the bytes they are about.
LEMMA PowersOfTwo ==
    Units[2] = 2 ^ 9 /\ Units[3] = 2 ^ 16 /\ Units[4] = 2 ^ 23 /\ Units[5] = 2 ^ 30
  <1>1. Units[2] = 2 ^ 9
    BY SMT DEF Units
  <1>2. Units[3] = 2 ^ 16
    BY SMT DEF Units
  <1>3. Units[4] = 2 ^ 23
    BY SMT DEF Units
  <1>4. Units[5] = 2 ^ 30
    BY SMT DEF Units
  <1> QED BY <1>1, <1>2, <1>3, <1>4

\* A continuation byte has its top bit set.
LEMMA DigitType ==
    ASSUME NEW v \in Nat, NEW j \in 1..6
    PROVE  Digit(v, j) \in Int /\ Digit(v, j) >= 128 /\ Digit(v, j) % 128 = (v \div Units[j]) % 128
  <1> DEFINE u == Units[j]
  <1>1. u \in Nat \ {0}
    BY UnitFacts
  <1> DEFINE q == v \div u
  <1>2. q \in Int
    BY <1>1
  <1> HIDE DEF q
  <1> DEFINE r == q % 128
  <1>3. r \in 0..127
    BY <1>2
  <1> HIDE DEF r
  <1>4. 128 + r \in Int /\ 128 + r >= 128 /\ (128 + r) % 128 = r
    BY <1>3
  <1> QED BY <1>4 DEF Digit, q, r

\* One more byte.
LEMMA WrittenGrows ==
    ASSUME NEW v \in Nat, NEW j \in 1..5, NEW s, Written(s, v, j + 1),
           v >= Units[j] \/ j = 1
    PROVE  Written(Append(s, Digit(v, j)), v, j)
  <1> DEFINE x == Digit(v, j)
             t == Append(s, x)
  <1>1. s \in Seq(Int) /\ Len(s) \in Nat /\ Len(s) <= 5 - j
    BY DEF Written
  <1>2. x \in Int
    <2>1. j \in 1..6
      OBVIOUS
    <2> QED BY <2>1, DigitType
  <1>3. /\ t \in Seq(Int) /\ Len(t) = Len(s) + 1
        /\ \A i \in 1..Len(s) : t[i] = s[i]
        /\ t[Len(s) + 1] = x
    BY <1>1, <1>2, AppendProperties
  <1> HIDE DEF t
  <1>4. ASSUME NEW k \in 1..Len(t) PROVE t[k] = Digit(v, j + Len(t) - k)
    <2>1. CASE k \in 1..Len(s)
      <3>1. t[k] = s[k] /\ s[k] = Digit(v, j + 1 + Len(s) - k)
        BY <1>3, <2>1 DEF Written
      <3>2. j + 1 + Len(s) - k = j + Len(t) - k
        BY <1>1, <1>3
      <3> QED BY <3>1, <3>2
    <2>2. CASE k = Len(s) + 1
      <3>1. j + Len(t) - k = j
        BY <1>1, <1>3, <2>2
      <3> QED BY <1>3, <2>2, <3>1
    <2> QED BY <1>1, <1>3, <2>1, <2>2
  <1>5. v < Units[j + Len(t)]
    <2>1. CASE Len(s) = 0
      BY <1>3, <2>1 DEF Written
    <2>2. CASE Len(s) > 0
      <3>1. v < Units[j + 1 + Len(s)]
        BY <2>2 DEF Written
      <3>2. j + 1 + Len(s) = j + Len(t)
        BY <1>1, <1>3
      <3> QED BY <3>1, <3>2
    <2> QED BY <1>1, <2>1, <2>2
  <1>6. Len(t) <= 6 - j /\ Len(t) > 0
    BY <1>1, <1>3
  <1> QED BY <1>3, <1>4, <1>5, <1>6 DEF Written, t

\* No byte, since none is needed so far.
LEMMA WrittenStays ==
    ASSUME NEW v \in Nat, NEW j \in 1..5, NEW s, Written(s, v, j + 1), ~(v >= Units[j])
    PROVE  Written(s, v, j)
  <1>1. Units[j] \in Nat \ {0} /\ Units[j + 1] = 128 * Units[j]
    BY UnitFacts
  <1>2. s \in Seq(Int) /\ Len(s) \in Nat
    BY DEF Written
  <1>3. v < Units[j + 1] /\ v < Units[j]
    BY <1>1
  <1>4. Len(s) = 0
    <2>1. Len(s) > 0 => v >= Units[j + 1]
      BY DEF Written
    <2> QED BY <1>1, <1>2, <1>3, <2>1
  <1> QED BY <1>2, <1>3, <1>4 DEF Written

\* One of the conditional bytes of serial2002_write.
LEMMA LeadingWrites ==
    ASSUME NEW v \in Nat, NEW j \in 1..5, NEW s, Written(s, v, j + 1),
           NEW shift, NEW width, Units[j] = 2 ^ shift,
           128 + ((v \div 2 ^ shift) % width) = Digit(v, j)
    PROVE  Written(s \o Leading(v, shift, width), v, j)
  <1>1. s \in Seq(Int)
    BY DEF Written
  <1>2. CASE v >= 2 ^ shift
    <2>1. Leading(v, shift, width) = <<Digit(v, j)>>
      BY <1>2 DEF Leading
    <2>2. s \o <<Digit(v, j)>> = Append(s, Digit(v, j))
      BY <1>1, DigitType, AppendIsConcat
    <2>3. Written(Append(s, Digit(v, j)), v, j)
      BY <1>2, WrittenGrows
    <2> QED BY <2>1, <2>2, <2>3
  <1>3. CASE ~(v >= 2 ^ shift)
    <2>1. Leading(v, shift, width) = << >>
      BY <1>3 DEF Leading
    <2>2. s \o << >> = s
      BY <1>1, ConcatEmptySeq
    <2>3. Written(s, v, j)
      BY <1>3, WrittenStays
    <2> QED BY <2>1, <2>2, <2>3
  <1> QED BY <1>2, <1>3

\* A channel message is some continuation bytes, as many as its value needs, and
\* one byte more.
LEMMA ChannelMessage ==
    ASSUME NEW v, Fits(v), NEW index \in Index,
           NEW w, w = serial2002_write(Message("channel", index, v))
    PROVE  \E s : /\ Written(s, v, 1) /\ Len(s) > 0
                  /\ w = Append(s, 32 * (v % 4) + index)
  <1>1. v \in Nat
    BY DEF Fits
  <1> DEFINE s6 == << >>
             s5 == s6 \o Leading(v, 30, 4)
             s4 == s5 \o Leading(v, 23, 128)
             s3 == s4 \o Leading(v, 16, 128)
             s2 == s3 \o Leading(v, 9, 128)
             s1 == Append(s2, Digit(v, 1))
             x == 32 * (v % 4) + index
  <1>2. Written(s6, v, 6)
    <2>1. v < Units[6]
      BY SMT DEF Units, Fits
    <2>3. << >> \in Seq(Int) /\ Len(<< >>) = 0
      BY EmptySeq
    <2> HIDE DEF s6
    <2> QED BY <2>1, <2>3, SMT DEF Written, s6
  <1>3. /\ 128 + ((v \div 2 ^ 30) % 4) = Digit(v, 5)
        /\ 128 + ((v \div 2 ^ 23) % 128) = Digit(v, 4)
        /\ 128 + ((v \div 2 ^ 16) % 128) = Digit(v, 3)
        /\ 128 + ((v \div 2 ^ 9) % 128) = Digit(v, 2)
    <2>1. 128 + ((v \div 2 ^ 30) % 4) = Digit(v, 5)
      BY PowersOfTwo, SMT DEF Digit, Units, Fits
    <2>2. 128 + ((v \div 2 ^ 23) % 128) = Digit(v, 4)
      BY PowersOfTwo DEF Digit
    <2>3. 128 + ((v \div 2 ^ 16) % 128) = Digit(v, 3)
      BY PowersOfTwo DEF Digit
    <2>4. 128 + ((v \div 2 ^ 9) % 128) = Digit(v, 2)
      BY PowersOfTwo DEF Digit
    <2> QED BY <2>1, <2>2, <2>3, <2>4
  <1> HIDE DEF s6, s5, s4, s3, s2, s1, x
  <1>4. Written(s5, v, 5)
    <2>1. 5 \in 1..5 /\ Written(s6, v, 5 + 1)
      BY <1>2
    <2> QED BY <1>1, <2>1, <1>3, PowersOfTwo, LeadingWrites DEF s5
  <1>5. Written(s4, v, 4)
    <2>1. 4 \in 1..5 /\ Written(s5, v, 4 + 1)
      BY <1>4
    <2> QED BY <1>1, <2>1, <1>3, PowersOfTwo, LeadingWrites DEF s4
  <1>6. Written(s3, v, 3)
    <2>1. 3 \in 1..5 /\ Written(s4, v, 3 + 1)
      BY <1>5
    <2> QED BY <1>1, <2>1, <1>3, PowersOfTwo, LeadingWrites DEF s3
  <1>7. Written(s2, v, 2)
    <2>1. 2 \in 1..5 /\ Written(s3, v, 2 + 1)
      BY <1>6
    <2> QED BY <1>1, <2>1, <1>3, PowersOfTwo, LeadingWrites DEF s2
  <1>8. Written(s1, v, 1)
    BY <1>1, <1>7, WrittenGrows DEF s1
  <1>9. w = Append(s1, x)
    <2> DEFINE y == Digit(v, 1)
    <2>1. w = Leading(v, 30, 4) \o Leading(v, 23, 128) \o Leading(v, 16, 128)
                \o Leading(v, 9, 128) \o <<y, x>>
      <3>1. y = 128 + ((v \div 4) % 128)
        BY SMT DEF Digit, Units
      <3> QED BY <3>1 DEF serial2002_write, Message, x
    <2>2. s5 = Leading(v, 30, 4)
      <3>1. Leading(v, 30, 4) = << >> \/ Leading(v, 30, 4) = <<Digit(v, 5)>>
        BY <1>3 DEF Leading
      <3>2. Digit(v, 5) \in Int
        BY <1>1, DigitType
      <3>3. Leading(v, 30, 4) \in Seq(Int)
        <4> SUFFICES ASSUME NEW z \in Int PROVE << >> \in Seq(Int) /\ <<z>> \in Seq(Int)
          BY <3>1, <3>2, Zenon
        <4> QED OBVIOUS
      <3> QED BY <3>3, ConcatEmptySeq DEF s5, s6
    <2>3. w = s2 \o <<y, x>>
      BY <2>1, <2>2 DEF s2, s3, s4
    <2>4. s2 \in Seq(Int) /\ y \in Int /\ x \in Int
      <3>1. v % 4 \in Int
        BY <1>1
      <3>2. x \in Int
        BY <3>1 DEF x, Index
      <3> QED BY <1>1, <1>7, <3>2, DigitType DEF Written
    <2>5. s2 \o <<y, x>> = Append(Append(s2, y), x)
      <3> HIDE DEF y
      <3>1. /\ s2 \o <<y, x>> \in Seq(Int) /\ Len(s2 \o <<y, x>>) = Len(s2) + 2
            /\ \A i \in 1..Len(s2) + 2 :
                  (s2 \o <<y, x>>)[i] = IF i <= Len(s2) THEN s2[i] ELSE <<y, x>>[i - Len(s2)]
        <4>1. <<y, x>> \in Seq(Int) /\ Len(<<y, x>>) = 2
          BY <2>4
        <4> QED BY <2>4, <4>1, ConcatProperties
      <3> DEFINE t == Append(s2, y)
      <3>2. /\ t \in Seq(Int) /\ Len(t) = Len(s2) + 1 /\ t[Len(s2) + 1] = y
            /\ \A i \in 1..Len(s2) : t[i] = s2[i]
        BY <2>4, AppendProperties
      <3> HIDE DEF t
      <3>3. /\ Append(t, x) \in Seq(Int) /\ Len(Append(t, x)) = Len(t) + 1
            /\ Append(t, x)[Len(t) + 1] = x
            /\ \A i \in 1..Len(t) : Append(t, x)[i] = t[i]
        BY <2>4, <3>2, AppendProperties
      <3>4. Len(s2) \in Nat
        BY <2>4
      <3> DEFINE a == s2 \o <<y, x>>
                 b == Append(t, x)
      <3>5. ASSUME NEW i \in 1..Len(a) PROVE a[i] = b[i]
        <4>1. CASE i \in 1..Len(s2)
          BY <3>1, <3>2, <3>3, <3>4, <4>1
        <4>2. CASE i = Len(s2) + 1
          BY <3>1, <3>2, <3>3, <3>4, <4>2
        <4>3. CASE i = Len(s2) + 2
          BY <3>1, <3>2, <3>3, <3>4, <4>3
        <4>4. i \in 1..Len(s2) + 2
          BY <3>1
        <4> HIDE DEF a, b
        <4> QED BY <3>4, <4>1, <4>2, <4>3, <4>4
      <3>6. a \in Seq(Int) /\ b \in Seq(Int) /\ Len(a) = Len(b)
        BY <3>1, <3>2, <3>3, <3>4
      <3> HIDE DEF a, b
      <3>7. a = b
        BY <3>5, <3>6, SeqEqual
      <3> QED BY <3>7 DEF a, b, t
    <2> QED BY <2>3, <2>5 DEF s1
  <1>10. Len(s1) > 0
    BY <1>7, <1>8, DigitType, AppendProperties DEF s1, Written
  <1> QED BY <1>8, <1>9, <1>10 DEF x

-----------------------------------------------------------------------------
(* Reading them again *)

\* What is read of v after k of the n continuation bytes.
Value(v, n, k) == IF k = 0 THEN 0 ELSE v \div Units[n + 1 - k]

\* The state of a read after some continuation bytes.
Continued(value, length) ==
    [status |-> "more", kind |-> "invalid", index |-> 0, value |-> value, length |-> length]

Mid(v, n, k) == Continued(Value(v, n, k), k)

\* Seven bits more.
LEMMA ValueGrows ==
    ASSUME NEW v \in Nat, NEW n \in 1..5, v < Units[n + 1], NEW k \in 1..n
    PROVE  Value(v, n, k) = 128 * Value(v, n, k - 1) + (Digit(v, n + 1 - k) % 128)
  <1> DEFINE j == n + 1 - k
  <1>1. j \in 1..5 /\ j \in 1..6
    OBVIOUS
  <1>2. Units[j] \in Nat \ {0} /\ Units[j + 1] = 128 * Units[j]
    BY <1>1, UnitFacts
  <1>3. Digit(v, j) % 128 = (v \div Units[j]) % 128
    BY <1>1, DigitType
  <1>4. Value(v, n, k) = v \div Units[j]
    BY DEF Value
  <1>5. CASE k = 1
    <2>1. Value(v, n, k - 1) = 0 /\ j = n
      BY <1>5 DEF Value
    <2> DEFINE u == Units[j]
               q == v \div u
    <2>2. u \in Nat \ {0} /\ v < 128 * u
      BY <1>2, <2>1
    <2>3. q \in 0..127
      <3> HIDE DEF u
      <3>1. q \in Nat /\ v = u * q + (v % u) /\ v % u \in 0..(u - 1)
        BY <2>2
      <3> HIDE DEF q
      <3>2. ~(q >= 128)
        <4>1. ASSUME q >= 128 PROVE FALSE
          <5>1. u * q >= u * 128
            BY <3>1, <4>1, <2>2
          <5> QED BY <3>1, <5>1, <2>2
        <4> QED BY <4>1
      <3> QED BY <3>1, <3>2
    <2>4. q % 128 = q
      <3> HIDE DEF q
      <3> QED BY <2>3
    <2> QED BY <1>3, <1>4, <2>1, <2>3, <2>4
  <1>6. CASE k > 1
    <2>1. Value(v, n, k - 1) = v \div Units[j + 1] /\ j \in 1..4
      <3>1. n + 1 - (k - 1) = j + 1 /\ k - 1 # 0 /\ j \in 1..4
        BY <1>6
      <3> QED BY <3>1 DEF Value
    <2>2. 128 * (v \div Units[j + 1]) + ((v \div Units[j]) % 128) = v \div Units[j]
      <3> HIDE DEF j
      <3>1. CASE j = 1
        BY <3>1, SMT DEF Units
      <3>2. CASE j = 2
        BY <3>2, SMT DEF Units
      <3>3. CASE j = 3
        BY <3>3, SMT DEF Units
      <3>4. CASE j = 4
        BY <3>4, SMT DEF Units
      <3> QED BY <2>1, <3>1, <3>2, <3>3, <3>4
    <2> QED BY <1>3, <1>4, <2>1, <2>2
  <1> QED BY <1>5, <1>6

\* One byte deeper in the message.
Deeper(r, value, length) == [r EXCEPT !.length = length, !.value = value]

\* What a continuation byte does to the state of a read.
LEMMA ContinuedFields ==
    ASSUME NEW p, NEW a, NEW q, NEW b
    PROVE  Deeper(Continued(p, a), q, b) = Continued(q, b)
  <1> DEFINE r == Continued(p, a)
             s == [r EXCEPT !.length = b]
             t == [s EXCEPT !.value = q]
  <1>1. s = [status |-> "more", kind |-> "invalid", index |-> 0, value |-> p, length |-> b]
    BY DEF Continued
  <1> HIDE DEF s
  <1>2. t = [status |-> "more", kind |-> "invalid", index |-> 0, value |-> q, length |-> b]
    BY <1>1
  <1> QED BY <1>2 DEF s, Continued, Deeper

\* A continuation byte where one may be.
LEMMA ContinuationRead ==
    ASSUME NEW p \in Int, NEW a \in 0..4, NEW x \in Int, Continues(x)
    PROVE  read_byte(Continued(p, a), x) = Continued(128 * p + (x % 128), a + 1)
  <1> DEFINE r == Continued(p, a)
  <1>1. r.length = a /\ r.value = p
    BY DEF Continued
  <1>2. a < 5
    OBVIOUS
  <1> HIDE DEF r
  <1>3. read_byte(r, x) = [r EXCEPT !.length = a + 1, !.value = 128 * p + (x % 128)]
    BY <1>1, <1>2 DEF read_byte, continuation
  <1>4. read_byte(r, x) = Deeper(r, 128 * p + (x % 128), a + 1)
    BY <1>3 DEF Deeper
  <1> QED BY <1>4, ContinuedFields DEF r

\* A continuation byte of v is read.
LEMMA DigitRead ==
    ASSUME NEW v \in Nat, NEW n \in 1..5, v < Units[n + 1], NEW k \in 1..n
    PROVE  /\ Continues(Digit(v, n + 1 - k))
           /\ read_byte(Mid(v, n, k - 1), Digit(v, n + 1 - k)) = Mid(v, n, k)
  <1> DEFINE x == Digit(v, n + 1 - k)
             r == Mid(v, n, k - 1)
  <1>1. n + 1 - k \in 1..6
    OBVIOUS
  <1>2. x \in Int /\ x >= 128
    BY <1>1, DigitType
  <1>3. Value(v, n, k) = 128 * Value(v, n, k - 1) + (x % 128)
    BY ValueGrows
  <1>4. Continues(x)
    BY <1>2 DEF Continues
  <1> HIDE DEF x
  <1>5. k - 1 \in 0..4 /\ k - 1 + 1 = k
    OBVIOUS
  <1>6. Value(v, n, k - 1) \in Int
    <2>1. k # 1 => n + 1 - (k - 1) \in 1..6
      OBVIOUS
    <2>2. k # 1 => Units[n + 1 - (k - 1)] \in Nat \ {0}
      BY <2>1, UnitFacts
    <2> QED BY <2>2 DEF Value
  <1>7. read_byte(r, x) = Continued(128 * Value(v, n, k - 1) + (x % 128), k - 1 + 1)
    BY <1>2, <1>4, <1>5, <1>6, ContinuationRead DEF Mid
  <1>8. read_byte(r, x) = Continued(Value(v, n, k), k)
    BY <1>3, <1>5, <1>7
  <1> QED BY <1>4, <1>8 DEF x, Mid

\* The last byte of a channel message.
LEMMA ChannelRead ==
    ASSUME NEW v \in Nat, NEW index \in Index, NEW n \in 1..5
    PROVE  LET x == 32 * (v % 4) + index
               r == read_byte(Mid(v, n, n), x)
           IN  /\ x \in Int /\ ~Continues(x)
               /\ r.status = "OK" /\ Message(r.kind, r.index, r.value) = Message("channel", index, v)
  <1> DEFINE x == 32 * (v % 4) + index
             m == Mid(v, n, n)
             r == read_byte(m, x)
  <1>1. v % 4 \in 0..3 /\ index \in 0..31
    BY DEF Index
  <1>2. x \in Int /\ x < 128 /\ x % 32 = index /\ x \div 32 = v % 4
    <2> DEFINE a == v % 4
    <2> HIDE DEF a
    <2> SUFFICES ASSUME a \in 0..3 PROVE /\ 32 * a + index \in Int /\ 32 * a + index < 128
                                          /\ (32 * a + index) % 32 = index
                                          /\ (32 * a + index) \div 32 = a
      BY <1>1 DEF a
    <2> QED BY <1>1
  <1>3. ~Continues(x)
    BY <1>2 DEF Continues
  <1>4. m.length = n /\ n # 0 /\ m.value = v \div 4
    <2>1. m.value = Value(v, n, n) /\ m.length = n
      BY DEF Mid, Continued
    <2>2. n + 1 - n = 1 /\ n # 0
      OBVIOUS
    <2>3. Value(v, n, n) = v \div 4
      BY <2>2, SMT DEF Value, Units
    <2> QED BY <2>1, <2>2, <2>3
  <1> HIDE DEF x
  <1>5. r = [m EXCEPT !.status = "OK", !.kind = "channel", !.index = index,
                      !.value = 4 * (v \div 4) + (v % 4)]
    <2> HIDE DEF m
    <2>1. r = last_byte(m, x)
      BY <1>3, <1>4 DEF read_byte
    <2> QED BY <2>1, <1>2, <1>4 DEF last_byte
  <1>6. 4 * (v \div 4) + (v % 4) = v
    OBVIOUS
  <1>7. r.status = "OK" /\ r.kind = "channel" /\ r.index = index /\ r.value = v
    BY <1>5, <1>6 DEF Mid, Continued
  <1> HIDE DEF r
  <1>8. Message(r.kind, r.index, r.value) = Message("channel", index, v)
    BY <1>7
  <1> QED BY <1>2, <1>3, <1>7, <1>8 DEF x, r, m

\* A digital message.
LEMMA DigitalRead ==
    ASSUME NEW v \in {0, 1}, NEW index \in Index
    PROVE  LET x == 32 * (v % 2) + index
               r == read_byte(Start, x)
           IN  /\ x \in Int /\ ~Continues(x)
               /\ r.status = "OK" /\ Message(r.kind, r.index, r.value) = Message("digital", index, v)
  <1> DEFINE x == 32 * (v % 2) + index
             r == read_byte(Start, x)
  <1>1. x \in Int /\ x < 64 /\ x % 32 = index /\ x \div 32 = v
    <2>1. v % 2 = v /\ index \in 0..31
      BY DEF Index
    <2> QED BY <2>1
  <1>2. ~Continues(x)
    BY <1>1 DEF Continues
  <1> HIDE DEF x
  <1>3. Start.length = 0
    BY DEF Start
  <1>4. r = first_byte(x)
    BY <1>2, <1>3 DEF read_byte
  <1>5. r = [Start EXCEPT !.status = "OK", !.kind = "digital", !.index = index, !.value = v]
    <2>1. x < 64 /\ x # EventCharacter
      BY <1>1 DEF EventCharacter
    <2>2. first_byte(x) = [Start EXCEPT !.status = "OK", !.kind = "digital",
                                        !.index = x % 32, !.value = x \div 32]
      BY <2>1 DEF first_byte
    <2> QED BY <1>1, <1>4, <2>2
  <1>6. r.status = "OK" /\ r.kind = "digital" /\ r.index = index /\ r.value = v
    BY <1>5 DEF Start
  <1> HIDE DEF r
  <1>7. Message(r.kind, r.index, r.value) = Message("digital", index, v)
    BY <1>6
  <1> QED BY <1>1, <1>2, <1>6, <1>7 DEF x, r

\* The state of a read after k bytes of the message d.
Prefix(d, k) == Mid(d.value, Len(serial2002_write(d)) - 1, k)

\* What serial2002_read makes of the last byte of d.
Result(d) == read_byte(Prefix(d, Len(serial2002_write(d)) - 1),
                       serial2002_write(d)[Len(serial2002_write(d))])

\* The bytes w of the message d are read as they were written, the last with r.
ReadAs(d, w, r) ==
    /\ w \in Seq(Int) /\ Len(w) \in 1..6
    /\ \A k \in 1..(Len(w) - 1) :
          Continues(w[k]) /\ read_byte(Prefix(d, k - 1), w[k]) = Prefix(d, k)
    /\ ~Continues(w[Len(w)])
    /\ r.status = "OK" /\ Message(r.kind, r.index, r.value) = d

Decodes(d) == ReadAs(d, serial2002_write(d), Result(d))

\* Nothing is read yet.
LEMMA StartIsPrefix ==
    ASSUME NEW d
    PROVE  Prefix(d, 0) = Start
  BY DEF Prefix, Mid, Value, Continued, Start

\* Channel messages are read as they were written.
LEMMA ChannelDecodes ==
    ASSUME NEW v, Fits(v), NEW index \in Index
    PROVE  Decodes(Message("channel", index, v))
  <1> DEFINE d == Message("channel", index, v)
             w == serial2002_write(d)
             x == 32 * (v % 4) + index
  <1>1. v \in Nat
    BY DEF Fits
  <1>2. PICK s : Written(s, v, 1) /\ Len(s) > 0 /\ w = Append(s, x)
    BY ChannelMessage
  <1> DEFINE n == Len(s)
  <1>3. /\ s \in Seq(Int) /\ n \in 1..5 /\ v < Units[n + 1]
        /\ \A k \in 1..n : s[k] = Digit(v, n + 1 - k)
    <2>1. s \in Seq(Int) /\ n \in Nat /\ n <= 6 - 1 /\ n > 0
      BY <1>2 DEF Written
    <2>2. v < Units[1 + n] /\ 1 + n = n + 1
      BY <1>2 DEF Written
    <2>3. ASSUME NEW k \in 1..n PROVE s[k] = Digit(v, n + 1 - k)
      <3>1. s[k] = Digit(v, 1 + n - k) /\ 1 + n - k = n + 1 - k
        BY <1>2 DEF Written
      <3> QED BY <3>1
    <2>4. n \in 1..5
      <3> HIDE DEF n
      <3>1. n \in Nat /\ n <= 5 /\ n > 0
        BY <2>1
      <3> QED BY <3>1
    <2> QED BY <2>1, <2>2, <2>3, <2>4
  <1>4. /\ x \in Int /\ ~Continues(x)
        /\ read_byte(Mid(v, n, n), x).status = "OK"
        /\ Message(read_byte(Mid(v, n, n), x).kind, read_byte(Mid(v, n, n), x).index,
                   read_byte(Mid(v, n, n), x).value) = d
    BY <1>1, <1>3, ChannelRead
  <1>5. /\ w \in Seq(Int) /\ Len(w) = n + 1 /\ w[n + 1] = x
        /\ \A k \in 1..n : w[k] = s[k]
    <2> HIDE DEF w, x
    <2>1. x \in Int
      BY <1>4 DEF x
    <2> QED BY <1>2, <1>3, <2>1, AppendProperties
  <1>6. \A k : Prefix(d, k) = Mid(v, n, k)
    <2>1. d.value = v
      BY DEF Message
    <2>2. Len(serial2002_write(d)) - 1 = n
      BY <1>3, <1>5
    <2> HIDE DEF d, n
    <2> QED BY <2>1, <2>2 DEF Prefix
  <1>7. ASSUME NEW k \in 1..n
        PROVE  Continues(w[k]) /\ read_byte(Prefix(d, k - 1), w[k]) = Prefix(d, k)
    <2>1. w[k] = Digit(v, n + 1 - k)
      BY <1>3, <1>5
    <2>2. /\ Continues(Digit(v, n + 1 - k))
          /\ read_byte(Mid(v, n, k - 1), Digit(v, n + 1 - k)) = Mid(v, n, k)
      BY <1>1, <1>3, DigitRead
    <2> HIDE DEF w, d, n
    <2> QED BY <1>6, <2>1, <2>2
  <1>8. Result(d) = read_byte(Mid(v, n, n), x)
    <2>1. Len(serial2002_write(d)) = n + 1 /\ n + 1 - 1 = n /\ serial2002_write(d)[n + 1] = x
      BY <1>3, <1>5
    <2> HIDE DEF d, n, x, w
    <2>2. Result(d) = read_byte(Prefix(d, n), x)
      <3>1. Len(serial2002_write(d)) - 1 = n
        BY <1>3, <2>1
      <3>2. serial2002_write(d)[Len(serial2002_write(d))] = x
        BY <2>1
      <3> QED BY <3>1, <3>2, Zenon DEF Result
    <2> QED BY <1>6, <2>2
  <1> HIDE DEF x, n, d
  <1>9. Len(w) - 1 = n /\ Len(w) \in 1..6
    BY <1>3, <1>5
  <1> DEFINE r == Result(d)
  <1>10. ~Continues(w[Len(w)]) /\ r.status = "OK" /\ Message(r.kind, r.index, r.value) = d
    BY <1>4, <1>5, <1>8
  <1> HIDE DEF w, r
  <1>11. ReadAs(d, w, r)
    BY <1>5, <1>7, <1>9, <1>10 DEF ReadAs
  <1> QED BY <1>11 DEF Decodes, d, w, r

\* Digital messages are read as they were written.
LEMMA DigitalDecodes ==
    ASSUME NEW v \in {0, 1}, NEW index \in Index
    PROVE  Decodes(Message("digital", index, v))
  <1> DEFINE d == Message("digital", index, v)
             w == serial2002_write(d)
             x == 32 * (v % 2) + index
  <1>1. w = <<x>>
    BY DEF serial2002_write, Message
  <1>2. /\ x \in Int /\ ~Continues(x)
        /\ read_byte(Start, x).status = "OK"
        /\ Message(read_byte(Start, x).kind, read_byte(Start, x).index,
                   read_byte(Start, x).value) = d
    BY DigitalRead
  <1> HIDE DEF x, d
  <1>3. w \in Seq(Int) /\ Len(w) = 1 /\ w[1] = x
    BY <1>1, <1>2
  <1>4. Prefix(d, 0) = Start
    BY StartIsPrefix
  <1>5. Result(d) = read_byte(Start, x)
    <2>1. Len(serial2002_write(d)) = 1 /\ 1 - 1 = 0 /\ serial2002_write(d)[1] = x
      BY <1>3
    <2> QED BY <1>4, <2>1 DEF Result
  <1>6. \A k \in 1..(Len(w) - 1) : FALSE
    BY <1>3
  <1> DEFINE r == Result(d)
  <1>7. ~Continues(w[Len(w)]) /\ r.status = "OK" /\ Message(r.kind, r.index, r.value) = d
    BY <1>2, <1>3, <1>5
  <1> HIDE DEF w, r
  <1>8. ReadAs(d, w, r)
    BY <1>3, <1>6, <1>7 DEF ReadAs
  <1> QED BY <1>8 DEF Decodes, d, w, r

\* The values of channel messages that the protocol has room for.
ValuesFit == \A d \in Data : d.kind = "channel" => Fits(d.value)

\* The codec is its own inverse: reading the bytes of a message one by one gives
\* the message with the last of them and not before, for every value that fits.
THEOREM CodecInverts ==
    ASSUME ValuesFit, NEW d \in Data
    PROVE  Decodes(d)
  <1>1. /\ d = Message(d.kind, d.index, d.value)
        /\ d.kind \in {"digital", "channel"} /\ d.index \in Index
        /\ d.kind = "digital" => d.value \in {0, 1}
    BY DataAssumption DEF Message
  <1>2. CASE d.kind = "digital"
    <2>1. d.value \in {0, 1} /\ d = Message("digital", d.index, d.value)
      BY <1>1, <1>2
    <2>2. Decodes(Message("digital", d.index, d.value))
      BY <1>1, <2>1, DigitalDecodes
    <2> QED BY <2>1, <2>2
  <1>3. CASE d.kind = "channel"
    <2>1. Fits(d.value) /\ d = Message("channel", d.index, d.value)
      BY <1>1, <1>3 DEF ValuesFit
    <2>2. Decodes(Message("channel", d.index, d.value))
      BY <1>1, <2>1, ChannelDecodes
    <2> QED BY <2>1, <2>2
  <1> QED BY <1>1, <1>2, <1>3

-----------------------------------------------------------------------------
(* The bytes on the way *)

\* Every byte that the reader has not taken, in order.
Pending ==
    SubSeq(read_buffer, read_pos + 1, Len(read_buffer)) \o line \o write_buffer \o todo

TByte == [b : Int, of : Nat, at : Nat]

Size(S, m) == Len(serial2002_write(S[m]))

\* p is an event character or a byte of one of the messages after the k-th.
ByteOf(S, k, p) ==
    \/ p.of = 0 /\ p.at = 1 /\ p.b = EventCharacter
    \/ /\ p.of \in (k + 1)..Len(S) /\ p.at \in 1..Size(S, p.of)
       /\ p.b = serial2002_write(S[p.of])[p.at]

IsLast(S, p) == p.of = 0 \/ p.at = Size(S, p.of)

Follows(S, p, q) == IF IsLast(S, p) THEN q.at = 1 ELSE q.of = p.of /\ q.at = p.at + 1

Before(p, q) ==
    p.of = 0 \/ q.of = 0 \/ p.of < q.of \/ (p.of = q.of /\ p.at < q.at)

\* P is what is left of the messages S when the reader has passed k of them: the
\* rest of one message, and the others whole and in order.
Stream(S, k, P) ==
    /\ P \in Seq(TByte) /\ k \in 0..Len(S)
    /\ \A i \in 1..Len(P) : ByteOf(S, k, P[i])
    /\ \A i \in 1..(Len(P) - 1) : Follows(S, P[i], P[i + 1])
    /\ P # << >> => IsLast(S, P[Len(P)])
    /\ \A i, j \in 1..Len(P) : i < j => Before(P[i], P[j])
    /\ \A m \in (k + 1)..Len(S) : \E i \in 1..Len(P) : P[i].of = m /\ P[i].at = Size(S, m)

\* What the read r has of the message that P begins in, and whether a timeout
\* took some of it.
ReaderAt(S, P, r, t) ==
    IF P = << >> \/ P[1].at = 1
    THEN r = Start /\ ~t
    ELSE /\ t \in BOOLEAN
         /\ ~t => r = Prefix(S[P[1].of], P[1].at - 1)
         /\ t => /\ r = Continued(r.value, r.length)
                 /\ r.value \in Int /\ r.length \in 0..(P[1].at - 1)

\* Of the first k messages and the one that is torn, those that are not read.
Missed(k, r, t) ==
    {m \in 1..k : ~ \E i \in 1..Len(r) : r[i].of = m /\ r[i].clean}
        \cup (IF t THEN {k + 1} ELSE {})

\* The reads r of the first k messages, with n timeouts.
Account(S, k, r, t, n) ==
    /\ n \in Nat
    /\ \A i \in 1..Len(r) :
          /\ r[i].of \in 1..k
          /\ r[i].clean => r[i].status = "OK" /\ r[i].data = S[r[i].of]
    /\ \A i, j \in 1..Len(r) : i < j => r[i].of < r[j].of
    /\ n = 0 => ~t /\ Len(r) = k /\ \A i \in 1..Len(r) : r[i].of = i
    /\ Cardinality(Missed(k, r, t)) <= n

\* The types of the buffers; between messages the write buffer is empty.
LineShape ==
    /\ todo \in Seq(TByte) /\ write_buffer \in Seq(TByte)
    /\ line \in Seq(TByte) /\ read_buffer \in Seq(TByte)
    /\ read_pos \in Nat
    /\ todo = << >> /\ ~flushing => write_buffer = << >>
    /\ sent \in Seq(Data)

-----------------------------------------------------------------------------
(* The stream *)

\* What the proofs need of the sizes of messages.
Sized(S) == \A m \in 1..Len(S) : Size(S, m) \in 1..6

\* The messages that are sent have one to six bytes.
LEMMA SentSized ==
    ASSUME ValuesFit, NEW S \in Seq(Data)
    PROVE  Sized(S) /\ \A m \in 1..Len(S) : S[m] \in Data /\ Decodes(S[m])
  <1>1. ASSUME NEW m \in 1..Len(S) PROVE S[m] \in Data /\ Decodes(S[m])
    <2>1. S[m] \in Data
      BY ElementOfSeq
    <2> QED BY <2>1, CodecInverts
  <1>2. ASSUME NEW m \in 1..Len(S) PROVE Size(S, m) \in 1..6
    BY <1>1 DEF Decodes, ReadAs, Size
  <1> QED BY <1>1, <1>2 DEF Sized

\* The bytes of a stream.
LEMMA StreamBytes ==
    ASSUME NEW S, NEW k, NEW P, Stream(S, k, P), Len(S) \in Nat
    PROVE  /\ P \in Seq(TByte) /\ k \in Nat /\ Len(P) \in Nat
           /\ \A i \in 1..Len(P) : P[i].b \in Int /\ P[i].of \in Nat /\ P[i].at \in Nat
           /\ \A i \in 1..Len(P) : P[i].of # 0 =>
                  /\ P[i].of \in (k + 1)..Len(S) /\ P[i].of \in 1..Len(S)
                  /\ P[i].at \in 1..Size(S, P[i].of)
                  /\ P[i].b = serial2002_write(S[P[i].of])[P[i].at]
  <1>1. P \in Seq(TByte) /\ k \in 0..Len(S) /\ Len(P) \in Nat
    BY DEF Stream
  <1>2. ASSUME NEW i \in 1..Len(P) PROVE P[i] \in TByte /\ ByteOf(S, k, P[i])
    BY <1>1, ElementOfSeq DEF Stream
  <1>3. ASSUME NEW i \in 1..Len(P) PROVE P[i].b \in Int /\ P[i].of \in Nat /\ P[i].at \in Nat
    BY <1>2 DEF TByte
  <1>4. ASSUME NEW i \in 1..Len(P), P[i].of # 0
        PROVE  /\ P[i].of \in (k + 1)..Len(S) /\ P[i].at \in 1..Size(S, P[i].of)
               /\ P[i].b = serial2002_write(S[P[i].of])[P[i].at]
    BY <1>2, <1>4 DEF ByteOf
  <1>5. ASSUME NEW i \in 1..Len(P), P[i].of # 0 PROVE P[i].of \in 1..Len(S)
    BY <1>1, <1>4, <1>5
  <1> QED BY <1>1, <1>3, <1>4, <1>5

\* The first byte that is not an event character is of the next message.
LEMMA FirstIsNext ==
    ASSUME NEW S, NEW k, NEW P, Stream(S, k, P), Len(S) \in Nat, P # << >>, P[1].of # 0
    PROVE  P[1].of = k + 1
  <1>1. 1 \in 1..Len(P) /\ Len(P) \in Nat /\ k \in Nat
    BY EmptySeq, StreamBytes DEF Stream
  <1>2. P[1].of \in (k + 1)..Len(S)
    BY <1>1, StreamBytes
  <1>3. k + 1 \in (k + 1)..Len(S)
    BY <1>1, <1>2
  <1>4. PICK i \in 1..Len(P) : P[i].of = k + 1
    BY <1>3 DEF Stream
  <1>5. CASE i = 1
    BY <1>4, <1>5
  <1>6. CASE i # 1
    <2>1. Before(P[1], P[i])
      BY <1>1, <1>6 DEF Stream
    <2>2. P[1].of <= P[i].of
      BY <1>1, <1>2, <1>4, <2>1 DEF Before
    <2> QED BY <1>1, <1>2, <1>4, <2>2
  <1> QED BY <1>5, <1>6

\* How many messages are passed with the byte p.
Beyond(S, k, p) == IF p.of # 0 /\ IsLast(S, p) THEN k + 1 ELSE k

\* The reader takes a byte.
LEMMA StreamTail ==
    ASSUME NEW S, NEW k, NEW P, Stream(S, k, P), Len(S) \in Nat, Sized(S), P # << >>
    PROVE  /\ Stream(S, Beyond(S, k, P[1]), Tail(P))
           /\ Tail(P) # << >> => Follows(S, P[1], Tail(P)[1])
           /\ Tail(P) = << >> => IsLast(S, P[1])
  <1> DEFINE Q == Tail(P)
             n == Len(P)
             h == Beyond(S, k, P[1])
  <1>1. n \in Nat /\ n > 0 /\ k \in 0..Len(S) /\ P \in Seq(TByte)
    BY EmptySeq, StreamBytes DEF Stream
  <1>2. Q \in Seq(TByte) /\ Len(Q) = n - 1 /\ \A i \in 1..Len(Q) : Q[i] = P[i + 1]
    BY <1>1, HeadTailProperties
  <1>3. P[1].of # 0 => P[1].of = k + 1 /\ k + 1 \in 1..Len(S)
    <2>1. P[1].of # 0 => P[1].of = k + 1
      BY FirstIsNext
    <2>2. P[1].of # 0 => P[1].of \in 1..Len(S)
      BY <1>1, StreamBytes
    <2> QED BY <2>1, <2>2
  <1> HIDE DEF Q, n
  <1>4. \A i \in 1..Len(Q) : i + 1 \in 1..n /\ i + 1 # 1
    BY <1>1, <1>2
  <1>5. h \in 0..Len(S) /\ h \in {k, k + 1} /\ (h = k + 1 => P[1].of = k + 1)
    BY <1>1, <1>3 DEF Beyond
  <1>6. ASSUME NEW i \in 1..Len(Q) PROVE ByteOf(S, h, Q[i])
    <2>1. Q[i] = P[i + 1] /\ i + 1 \in 1..n /\ 1 < i + 1 /\ 1 \in 1..n
      BY <1>1, <1>2, <1>4
    <2>2. ByteOf(S, k, P[i + 1]) /\ Before(P[1], P[i + 1])
      BY <2>1 DEF Stream, n
    <2>3. CASE h = k
      BY <2>1, <2>2, <2>3
    <2>4. CASE h = k + 1 /\ h # k
      <3>1. P[1].of = k + 1 /\ P[1].at = Size(S, k + 1) /\ P[1].of # 0
        BY <1>1, <1>3, <2>4 DEF Beyond, IsLast
      <3>2. CASE P[i + 1].of = 0
        BY <1>1, <2>1, <2>2, <3>2 DEF ByteOf
      <3>3. CASE P[i + 1].of # 0
        <4>1. /\ P[i + 1].of \in (k + 1)..Len(S) /\ P[i + 1].at \in 1..Size(S, P[i + 1].of)
              /\ P[i + 1].b = serial2002_write(S[P[i + 1].of])[P[i + 1].at]
          BY <2>2, <3>3 DEF ByteOf
        <4>2. P[i + 1].of # k + 1
          <5>1. SUFFICES ASSUME P[i + 1].of = k + 1 PROVE FALSE
            OBVIOUS
          <5>2. P[1].at < P[i + 1].at
            BY <1>1, <2>2, <3>1, <3>3, <5>1 DEF Before
          <5>3. Size(S, k + 1) \in 1..6
            BY <1>3, <3>1 DEF Sized
          <5>4. P[i + 1].at \in 1..Size(S, k + 1)
            BY <4>1, <5>1
          <5> QED BY <3>1, <5>2, <5>3, <5>4
        <4>3. P[i + 1].of \in (h + 1)..Len(S)
          BY <1>1, <2>4, <4>1, <4>2
        <4> QED BY <2>1, <4>1, <4>3 DEF ByteOf
      <3> QED BY <3>2, <3>3
    <2> QED BY <1>5, <2>3, <2>4
  <1>7. ASSUME NEW i \in 1..(Len(Q) - 1) PROVE Follows(S, Q[i], Q[i + 1])
    <2>1. i \in 1..Len(Q) /\ i + 1 \in 1..Len(Q) /\ i + 1 \in 1..(n - 1)
      BY <1>1, <1>2
    <2>2. Q[i] = P[i + 1] /\ Q[i + 1] = P[i + 1 + 1]
      BY <1>2, <2>1
    <2>3. Follows(S, P[i + 1], P[i + 1 + 1])
      BY <2>1 DEF Stream, n
    <2> QED BY <2>2, <2>3
  <1>8. Q # << >> => Len(Q) \in 1..Len(Q) /\ 1 \in 1..Len(Q)
    BY <1>1, <1>2, EmptySeq
  <1>9. Q # << >> => IsLast(S, Q[Len(Q)])
    <2>1. Q # << >> => Q[Len(Q)] = P[n]
      <3>1. Q # << >> => Q[Len(Q)] = P[Len(Q) + 1]
        BY <1>2, <1>8
      <3>2. Len(Q) + 1 = n
        BY <1>1, <1>2
      <3> QED BY <3>1, <3>2
    <2>2. IsLast(S, P[n])
      BY DEF Stream, n
    <2> QED BY <2>1, <2>2
  <1>10. ASSUME NEW i \in 1..Len(Q), NEW j \in 1..Len(Q), i < j PROVE Before(Q[i], Q[j])
    <2>1. i + 1 \in 1..n /\ j + 1 \in 1..n /\ i + 1 < j + 1
      BY <1>4, <1>10
    <2>2. Before(P[i + 1], P[j + 1])
      BY <2>1 DEF Stream, n
    <2> QED BY <1>2, <2>2
  <1>11. ASSUME NEW m \in (h + 1)..Len(S)
         PROVE  \E i \in 1..Len(Q) : Q[i].of = m /\ Q[i].at = Size(S, m)
    <2>1. m \in (k + 1)..Len(S)
      BY <1>1, <1>5
    <2>2. PICK i \in 1..n : P[i].of = m /\ P[i].at = Size(S, m)
      BY <2>1 DEF Stream, n
    <2>3. i # 1
      <3>1. SUFFICES ASSUME i = 1 PROVE FALSE
        OBVIOUS
      <3>2. P[1].of = m /\ P[1].at = Size(S, m) /\ m # 0
        BY <1>1, <2>1, <2>2, <3>1
      <3>3. h = k + 1 /\ m = k + 1
        BY <1>3, <3>2 DEF Beyond, IsLast
      <3> QED BY <1>1, <3>3
    <2>4. i - 1 \in 1..Len(Q) /\ Q[i - 1] = P[i]
      <3>1. i - 1 \in 1..Len(Q) /\ i - 1 + 1 = i
        BY <1>1, <1>2, <2>3
      <3> QED BY <1>2, <3>1
    <2> QED BY <2>2, <2>4
  <1>12. Stream(S, h, Q)
    <2> HIDE DEF h
    <2> QED BY <1>2, <1>5, <1>6, <1>7, <1>9, <1>10, <1>11 DEF Stream
  <1>13. Q # << >> => Follows(S, P[1], Q[1])
    <2>1. Q # << >> => Q[1] = P[1 + 1] /\ 1 \in 1..(n - 1)
      BY <1>1, <1>2, <1>8
    <2> QED BY <2>1 DEF Stream, n
  <1>14. Q = << >> => IsLast(S, P[1])
    <2>1. Q = << >> => n = 1
      BY <1>1, <1>2, EmptySeq
    <2> QED BY <2>1 DEF Stream, n
  <1> QED BY <1>12, <1>13, <1>14 DEF Q

\* A message may begin where another has ended.
LEMMA LastFollowed ==
    ASSUME NEW S, NEW p, NEW q, IsLast(S, p), q.at = 1
    PROVE  Follows(S, p, q)
  BY DEF Follows

\* The writer adds a message to what is pending.
LEMMA StreamMessage ==
    ASSUME ValuesFit, NEW S \in Seq(Data), NEW k, NEW P, Stream(S, k, P), NEW d \in Data,
           NEW T, T = Tagged(serial2002_write(d), Len(S) + 1)
    PROVE  Stream(Append(S, d), k, P \o T) /\ T \in Seq(TByte) /\ T # << >>
  <1> DEFINE w == serial2002_write(d)
             z == Len(S) + 1
             R == Append(S, d)
             Q == P \o T
             n == Len(P)
             l == Len(w)
  <1>1. w \in Seq(Int) /\ l \in 1..6
    BY CodecInverts DEF Decodes, ReadAs
  <1>2. Len(S) \in Nat /\ P \in Seq(TByte) /\ n \in Nat /\ k \in 0..Len(S)
    BY DEF Stream
  <1>3. /\ R \in Seq(Data) /\ Len(R) = z /\ R[z] = d
        /\ \A i \in 1..Len(S) : R[i] = S[i]
    BY AppendProperties
  <1>4. /\ T \in Seq(TByte) /\ Len(T) = l
        /\ \A i \in 1..l : T[i].b = w[i] /\ T[i].of = z /\ T[i].at = i
    <2>1. T = [i \in 1..l |-> [b |-> w[i], of |-> z, at |-> i]]
      BY DEF Tagged
    <2>2. \A i \in 1..l : w[i] \in Int /\ z \in Nat /\ i \in Nat
      BY <1>1, <1>2
    <2> HIDE DEF w, l, z
    <2>3. \A i \in 1..l : [b |-> w[i], of |-> z, at |-> i] \in TByte
      BY <2>2 DEF TByte
    <2>4. l \in Nat
      BY <1>1
    <2>5. T \in Seq(TByte) /\ Len(T) = l
      BY <2>1, <2>3, <2>4
    <2>6. ASSUME NEW i \in 1..l PROVE T[i].b = w[i] /\ T[i].of = z /\ T[i].at = i
      <3>1. T[i] = [b |-> w[i], of |-> z, at |-> i]
        BY <2>1
      <3> QED BY <3>1
    <2> QED BY <2>5, <2>6
  <1>5. /\ Q \in Seq(TByte) /\ Len(Q) = n + l
        /\ \A i \in 1..n : Q[i] = P[i]
        /\ \A i \in 1..l : Q[n + i] = T[i]
    <2>1. /\ Q \in Seq(TByte) /\ Len(Q) = n + l
          /\ \A i \in 1..(n + l) : Q[i] = IF i <= n THEN P[i] ELSE T[i - n]
      <3>1. Len(T) = l
        BY <1>4
      <3> HIDE DEF l, w
      <3>2. /\ P \o T \in Seq(TByte) /\ Len(P \o T) = Len(P) + Len(T)
            /\ \A i \in 1..Len(P) + Len(T) : (P \o T)[i] = IF i <= Len(P) THEN P[i] ELSE T[i - Len(P)]
        BY <1>2, <1>4, ConcatProperties
      <3> QED BY <3>1, <3>2
    <2> HIDE DEF Q, n, l
    <2>2. ASSUME NEW i \in 1..n PROVE Q[i] = P[i]
      BY <1>1, <1>2, <2>1
    <2>3. ASSUME NEW i \in 1..l PROVE Q[n + i] = T[i]
      <3>1. n + i \in 1..(n + l) /\ ~(n + i <= n) /\ n + i - n = i
        BY <1>1, <1>2
      <3>2. ASSUME NEW j \in 1..(n + l), j = n + i PROVE Q[j] = T[i]
        <4>1. ~(j <= n) /\ j - n = i
          BY <1>2, <3>2
        <4>2. Q[j] = T[j - n]
          BY <2>1, <4>1
        <4> QED BY <4>1, <4>2
      <3> QED BY <3>1, <3>2
    <2> QED BY <2>1, <2>2, <2>3
  <1>6. Size(R, z) = l /\ serial2002_write(R[z]) = w
    BY <1>3 DEF Size
  <1>7. \A m \in 1..Len(S) : Size(R, m) = Size(S, m) /\ serial2002_write(R[m]) = serial2002_write(S[m])
    BY <1>3 DEF Size
  <1> HIDE DEF w, l, R, Q, n
  <1>8. ASSUME NEW i \in 1..(n + l)
        PROVE  i \in 1..n \/ \E a \in 1..l : i = n + a
    <2>1. i \notin 1..n => i - n \in 1..l /\ i = n + (i - n)
      BY <1>1, <1>2
    <2> QED BY <2>1
  <1>9. ASSUME NEW i \in 1..n
        PROVE  /\ ByteOf(S, k, P[i]) /\ P[i].of \in Nat /\ P[i].of < z
               /\ P[i].of # 0 => P[i].of \in 1..Len(S)
    <2>1. ByteOf(S, k, P[i])
      BY DEF Stream, n
    <2>2. P[i].of \in Nat /\ (P[i].of # 0 => P[i].of \in 1..Len(S))
      BY <1>2, StreamBytes DEF n
    <2> QED BY <1>2, <2>1, <2>2
  <1>10. ASSUME NEW i \in 1..Len(Q) PROVE ByteOf(R, k, Q[i])
    <2>1. CASE i \in 1..n
      <3>1. Q[i] = P[i] /\ ByteOf(S, k, P[i]) /\ (P[i].of # 0 => P[i].of \in 1..Len(S))
        BY <1>5, <1>9, <2>1
      <3>2. CASE P[i].of = 0
        BY <1>2, <3>1, <3>2 DEF ByteOf
      <3>3. CASE P[i].of # 0
        <4>1. /\ P[i].of \in (k + 1)..Len(S) /\ P[i].of \in 1..Len(S)
              /\ P[i].at \in 1..Size(S, P[i].of)
              /\ P[i].b = serial2002_write(S[P[i].of])[P[i].at]
          BY <3>1, <3>3 DEF ByteOf
        <4>2. P[i].of \in (k + 1)..Len(R)
          BY <1>2, <1>3, <4>1
        <4>3. P[i].at \in 1..Size(R, P[i].of) /\ P[i].b = serial2002_write(R[P[i].of])[P[i].at]
          BY <1>7, <4>1
        <4> QED BY <3>1, <4>2, <4>3 DEF ByteOf
      <3> QED BY <3>2, <3>3
    <2>2. ASSUME NEW a \in 1..l, i = n + a PROVE ByteOf(R, k, Q[i])
      <3>1. Q[i].b = w[a] /\ Q[i].of = z /\ Q[i].at = a
        BY <1>4, <1>5, <2>2
      <3>2. z \in (k + 1)..Len(R) /\ a \in 1..Size(R, z) /\ w[a] = serial2002_write(R[z])[a]
        BY <1>2, <1>3, <1>6
      <3> QED BY <3>1, <3>2 DEF ByteOf
    <2> QED BY <1>5, <1>8, <2>1, <2>2
  <1>11. ASSUME NEW i \in 1..n PROVE IsLast(R, P[i]) <=> IsLast(S, P[i])
    BY <1>7, <1>9 DEF IsLast
  <1>12. ASSUME NEW i \in 1..(Len(Q) - 1) PROVE Follows(R, Q[i], Q[i + 1])
    <2>1. CASE i \in 1..(n - 1)
      <3>1. i \in 1..n /\ i + 1 \in 1..n
        BY <1>2, <2>1
      <3>2. Q[i] = P[i] /\ Q[i + 1] = P[i + 1] /\ Follows(S, P[i], P[i + 1])
        BY <1>5, <2>1, <3>1 DEF Stream, n
      <3> QED BY <1>11, <3>1, <3>2 DEF Follows
    <2>2. CASE i = n
      <3>1. n \in 1..n /\ 1 \in 1..l /\ P # << >>
        BY <1>1, <1>2, <2>2, EmptySeq DEF n
      <3>2. IsLast(S, P[n])
        BY <3>1 DEF Stream, n
      <3>3. Q[i] = P[n] /\ Q[i + 1].at = 1
        BY <1>4, <1>5, <2>2, <3>1
      <3>4. IsLast(R, P[n])
        BY <1>11, <3>1, <3>2
      <3>5. IsLast(R, Q[i]) /\ Q[i + 1].at = 1
        BY <3>3, <3>4
      <3> QED BY <3>5, LastFollowed
    <2>3. ASSUME NEW a \in 1..l, i = n + a PROVE Follows(R, Q[i], Q[i + 1])
      <3>1. a + 1 \in 1..l /\ i + 1 = n + (a + 1) /\ a # l
        <4>1. n \in Nat /\ l \in Nat /\ Len(Q) = n + l
          BY <1>1, <1>2, <1>5
        <4> QED BY <2>3, <4>1
      <3>2. Q[i].of = z /\ Q[i].at = a /\ Q[i + 1].of = z /\ Q[i + 1].at = a + 1
        BY <1>4, <1>5, <2>3, <3>1
      <3>3. ~IsLast(R, Q[i])
        BY <1>2, <1>6, <3>1, <3>2 DEF IsLast
      <3> QED BY <3>2, <3>3 DEF Follows
    <2>4. i \in 1..(n + l) /\ (i \in 1..n => i \in 1..(n - 1) \/ i = n)
      BY <1>1, <1>2, <1>5
    <2> QED BY <1>8, <2>1, <2>2, <2>3, <2>4
  <1>13. IsLast(R, Q[Len(Q)])
    <2>1. l \in 1..l
      BY <1>1
    <2>2. Q[n + l].of = z /\ Q[n + l].at = l
      BY <1>4, <1>5, <2>1
    <2> QED BY <1>5, <1>6, <2>2 DEF IsLast
  <1>14. ASSUME NEW i \in 1..Len(Q), NEW j \in 1..Len(Q), i < j PROVE Before(Q[i], Q[j])
    <2>1. CASE i \in 1..n /\ j \in 1..n
      BY <1>5, <1>14, <2>1 DEF Stream, n
    <2>2. ASSUME i \in 1..n, NEW b \in 1..l, j = n + b PROVE Before(Q[i], Q[j])
      BY <1>4, <1>5, <1>9, <2>2 DEF Before
    <2>3. ASSUME NEW a \in 1..l, i = n + a, NEW b \in 1..l, j = n + b PROVE Before(Q[i], Q[j])
      <3>1. a < b
        BY <1>2, <1>14, <2>3
      <3>2. Q[i].of = z /\ Q[i].at = a
        BY <1>4, <1>5, <2>3
      <3>3. Q[j].of = z /\ Q[j].at = b
        BY <1>4, <1>5, <2>3
      <3> QED BY <3>1, <3>2, <3>3 DEF Before
    <2>4. ASSUME NEW a \in 1..l, i = n + a, j \in 1..n PROVE FALSE
      BY <1>2, <1>14, <2>4
    <2>5. i \in 1..(n + l) /\ j \in 1..(n + l)
      BY <1>5
    <2> QED BY <1>8, <2>1, <2>2, <2>3, <2>4, <2>5
  <1>15. ASSUME NEW m \in (k + 1)..Len(R)
         PROVE  \E i \in 1..Len(Q) : Q[i].of = m /\ Q[i].at = Size(R, m)
    <2>1. CASE m = z
      <3>1. l \in 1..l /\ n + l \in 1..Len(Q)
        BY <1>1, <1>2, <1>5
      <3>2. Q[n + l].of = z /\ Q[n + l].at = l
        BY <1>4, <1>5, <3>1
      <3> QED BY <1>6, <2>1, <3>1, <3>2
    <2>2. CASE m # z
      <3>1. m \in (k + 1)..Len(S) /\ m \in 1..Len(S)
        BY <1>2, <1>3, <2>2
      <3>2. PICK i \in 1..n : P[i].of = m /\ P[i].at = Size(S, m)
        BY <3>1 DEF Stream, n
      <3>3. i \in 1..Len(Q)
        BY <1>1, <1>2, <1>5
      <3>4. Q[i] = P[i]
        BY <1>5
      <3>5. Size(R, m) = Size(S, m)
        BY <1>7, <3>1
      <3> QED BY <3>2, <3>3, <3>4, <3>5
    <2> QED BY <2>1, <2>2
  <1>16. k \in 0..Len(R)
    BY <1>2, <1>3
  <1>17. Stream(R, k, Q)
    BY <1>5, <1>10, <1>12, <1>13, <1>14, <1>15, <1>16 DEF Stream
  <1>18. T # << >>
    BY <1>1, <1>4, EmptySeq
  <1> QED BY <1>4, <1>17, <1>18 DEF R, Q

\* The adapter adds an event character between two messages.
LEMMA StreamEvent ==
    ASSUME NEW S, Len(S) \in Nat, NEW k, NEW P, Stream(S, k, P),
           NEW e, e = [b |-> EventCharacter, of |-> 0, at |-> 1]
    PROVE  Stream(S, k, P \o <<e>>) /\ e \in TByte
  <1> DEFINE Q == P \o <<e>>
             n == Len(P)
  <1>1. P \in Seq(TByte) /\ n \in Nat /\ k \in 0..Len(S)
    BY DEF Stream
  <1>2. e \in TByte /\ e.of = 0 /\ e.at = 1 /\ e.b = EventCharacter
    BY DEF TByte, EventCharacter
  <1>3. /\ Q \in Seq(TByte) /\ Len(Q) = n + 1 /\ Q[n + 1] = e
        /\ \A i \in 1..n : Q[i] = P[i]
    <2>1. Q = Append(P, e)
      BY <1>1, <1>2, AppendIsConcat
    <2> HIDE DEF Q
    <2> QED BY <1>1, <1>2, <2>1, AppendProperties
  <1> HIDE DEF Q, n
  <1>4. \A i \in 1..Len(Q) : i \in 1..n \/ i = n + 1
    BY <1>1, <1>3
  <1>5. ASSUME NEW i \in 1..Len(Q) PROVE ByteOf(S, k, Q[i])
    BY <1>2, <1>3, <1>4 DEF ByteOf, Stream, n
  <1>6. ASSUME NEW i \in 1..(Len(Q) - 1) PROVE Follows(S, Q[i], Q[i + 1])
    <2>1. CASE i \in 1..(n - 1)
      <3>1. Q[i] = P[i] /\ Q[i + 1] = P[i + 1]
        <4>1. i \in 1..n /\ i + 1 \in 1..n
          BY <1>1, <2>1
        <4> QED BY <1>3, <4>1
      <3> QED BY <2>1, <3>1 DEF Stream, n
    <2>2. CASE i = n
      <3>1. P # << >> /\ n \in 1..n
        BY <1>1, <2>2, EmptySeq DEF n
      <3>2. IsLast(S, Q[i]) /\ Q[i + 1].at = 1
        BY <1>2, <1>3, <2>2, <3>1 DEF Stream, n
      <3> QED BY <3>2 DEF Follows
    <2> QED BY <1>1, <1>3, <2>1, <2>2
  <1>7. IsLast(S, Q[Len(Q)])
    BY <1>2, <1>3 DEF IsLast
  <1>8. ASSUME NEW i \in 1..Len(Q), NEW j \in 1..Len(Q), i < j PROVE Before(Q[i], Q[j])
    <2>1. CASE i \in 1..n /\ j \in 1..n
      BY <1>3, <1>8, <2>1 DEF Stream, n
    <2>2. CASE i = n + 1 \/ j = n + 1
      BY <1>2, <1>3, <2>2 DEF Before
    <2> QED BY <1>4, <2>1, <2>2
  <1>9. ASSUME NEW m \in (k + 1)..Len(S)
        PROVE  \E i \in 1..Len(Q) : Q[i].of = m /\ Q[i].at = Size(S, m)
    <2>1. PICK i \in 1..n : P[i].of = m /\ P[i].at = Size(S, m)
      BY DEF Stream, n
    <2>2. i \in 1..Len(Q) /\ Q[i] = P[i]
      BY <1>1, <1>3
    <2> QED BY <2>1, <2>2
  <1> QED BY <1>1, <1>2, <1>3, <1>5, <1>6, <1>7, <1>8, <1>9 DEF Stream, Q

-----------------------------------------------------------------------------
(* The reader *)

\* There are finitely many missed messages.
LEMMA MissedFinite ==
    ASSUME NEW k \in Nat, NEW g, NEW t
    PROVE  IsFiniteSet(Missed(k, g, t)) /\ Cardinality(Missed(k, g, t)) \in Nat
  <1>1. Missed(k, g, t) \subseteq 1..(k + 1)
    BY DEF Missed
  <1>2. IsFiniteSet(1..(k + 1))
    BY FS_Interval
  <1> QED BY <1>1, <1>2, FS_Subset, FS_CardinalityType

\* A number that is not below any of those of which some are missed.
LEMMA FewerMissed ==
    ASSUME NEW k \in Nat, NEW g, NEW t, NEW M, M \subseteq Missed(k, g, t),
           NEW n \in Nat, Cardinality(Missed(k, g, t)) <= n
    PROVE  Cardinality(M) <= n
  <1>1. IsFiniteSet(Missed(k, g, t)) /\ Cardinality(Missed(k, g, t)) \in Nat
    BY MissedFinite
  <1>2. Cardinality(M) \in Nat /\ Cardinality(M) <= Cardinality(Missed(k, g, t))
    BY <1>1, FS_Subset, FS_CardinalityType
  <1> QED BY <1>1, <1>2

\* A read that is appended is the last one.
LEMMA AppendedRead ==
    ASSUME NEW E, NEW g \in Seq(E), NEW e
    PROVE  /\ \E F : Append(g, e) \in Seq(F)
           /\ Len(g) \in Nat /\ Len(Append(g, e)) = Len(g) + 1
           /\ Append(g, e)[Len(g) + 1] = e
           /\ \A i \in 1..Len(g) : Append(g, e)[i] = g[i]
  <1> DEFINE F == E \cup {e}
  <1>1. g \in Seq(F) /\ e \in F
    BY SeqMonotonic
  <1> HIDE DEF F
  <1>2. Len(g) \in Nat
    BY <1>1
  <1> QED BY <1>1, <1>2, AppendProperties

\* The part of Account that is about the order.
LEMMA AccountGrows ==
    ASSUME NEW S, NEW k \in Nat, NEW E, NEW g \in Seq(E), NEW t, NEW n, Account(S, k, g, t, n),
           NEW e, e.of = k + 1, e.clean => e.status = "OK" /\ e.data = S[k + 1],
           NEW u, n = 0 => ~u,
           Cardinality(Missed(k + 1, Append(g, e), u)) <= n
    PROVE  Account(S, k + 1, Append(g, e), u, n)
  <1> DEFINE h == Append(g, e)
  <1>1. /\ Len(g) \in Nat /\ Len(h) = Len(g) + 1 /\ h[Len(g) + 1] = e
        /\ \A i \in 1..Len(g) : h[i] = g[i]
    BY AppendedRead
  <1> HIDE DEF h
  <1>2. \A i \in 1..Len(h) : i \in 1..Len(g) \/ i = Len(g) + 1
    BY <1>1
  <1>3. ASSUME NEW i \in 1..Len(h)
        PROVE  /\ h[i].of \in 1..(k + 1)
               /\ h[i].clean => h[i].status = "OK" /\ h[i].data = S[h[i].of]
    <2>1. CASE i \in 1..Len(g)
      <3>1. g[i].of \in 1..k /\ (g[i].clean => g[i].status = "OK" /\ g[i].data = S[g[i].of])
        BY <2>1 DEF Account
      <3> QED BY <1>1, <2>1, <3>1
    <2>2. CASE i = Len(g) + 1
      BY <1>1, <2>2
    <2> QED BY <1>2, <2>1, <2>2
  <1>4. ASSUME NEW i \in 1..Len(h), NEW j \in 1..Len(h), i < j PROVE h[i].of < h[j].of
    <2>1. CASE i \in 1..Len(g) /\ j \in 1..Len(g)
      BY <1>1, <1>4, <2>1 DEF Account
    <2>2. CASE i \in 1..Len(g) /\ j = Len(g) + 1
      <3>1. g[i].of \in 1..k
        BY <2>2 DEF Account
      <3> QED BY <1>1, <2>2, <3>1
    <2> QED BY <1>1, <1>2, <1>4, <2>1, <2>2
  <1>5. n = 0 => Len(h) = k + 1 /\ \A i \in 1..Len(h) : h[i].of = i
    <2>1. SUFFICES ASSUME n = 0 PROVE Len(h) = k + 1 /\ \A i \in 1..Len(h) : h[i].of = i
      OBVIOUS
    <2>2. Len(g) = k /\ \A i \in 1..Len(g) : g[i].of = i
      BY <2>1 DEF Account
    <2> QED BY <1>1, <1>2, <2>2
  <1>6. n \in Nat
    BY DEF Account
  <1> QED BY <1>3, <1>4, <1>5, <1>6 DEF Account, h

\* A message that was read as it was written.
LEMMA AccountRead ==
    ASSUME NEW S, NEW k \in Nat, NEW E, NEW g \in Seq(E), NEW n, Account(S, k, g, FALSE, n),
           NEW e, e.of = k + 1, e.clean, e.status = "OK", e.data = S[k + 1]
    PROVE  Account(S, k + 1, Append(g, e), FALSE, n)
  <1> DEFINE h == Append(g, e)
  <1>1. /\ Len(g) \in Nat /\ Len(h) = Len(g) + 1 /\ h[Len(g) + 1] = e
        /\ \A i \in 1..Len(g) : h[i] = g[i]
    BY AppendedRead
  <1>2. n \in Nat /\ Cardinality(Missed(k, g, FALSE)) <= n
    BY DEF Account
  <1> HIDE DEF h
  <1>3. ASSUME NEW m \in Missed(k + 1, h, FALSE) PROVE m \in Missed(k, g, FALSE)
    <2>1. m \in 1..(k + 1) /\ ~ \E i \in 1..Len(h) : h[i].of = m /\ h[i].clean
      BY <1>3 DEF Missed
    <2>2. m # k + 1
      <3>1. Len(g) + 1 \in 1..Len(h)
        BY <1>1
      <3> QED BY <1>1, <2>1, <3>1
    <2>3. ~ \E i \in 1..Len(g) : g[i].of = m /\ g[i].clean
      BY <1>1, <2>1
    <2> QED BY <2>1, <2>2, <2>3 DEF Missed
  <1>4. Cardinality(Missed(k + 1, h, FALSE)) <= n
    <2>1. Missed(k + 1, h, FALSE) \subseteq Missed(k, g, FALSE)
      BY <1>3
    <2> QED BY <1>2, <2>1, FewerMissed
  <1> QED BY <1>4, AccountGrows DEF h

\* The rest of a message of which a timeout took the beginning, read or not.
LEMMA AccountTorn ==
    ASSUME NEW S, NEW k \in Nat, NEW E, NEW g \in Seq(E), NEW n, Account(S, k, g, TRUE, n),
           NEW h, h = g \/ \E e : h = Append(g, e) /\ e.of = k + 1 /\ ~e.clean
    PROVE  Account(S, k + 1, h, FALSE, n)
  <1>1. n \in Nat /\ Cardinality(Missed(k, g, TRUE)) <= n /\ n # 0
    BY DEF Account
  <1>2. Len(g) \in Nat /\ \A i \in 1..Len(g) : i \in 1..Len(h) /\ h[i] = g[i]
    <2>1. CASE h = g
      BY <2>1
    <2>2. ASSUME NEW e, h = Append(g, e) PROVE Len(g) \in Nat /\ \A i \in 1..Len(g) : i \in 1..Len(h) /\ h[i] = g[i]
      <3>1. /\ Len(g) \in Nat /\ Len(Append(g, e)) = Len(g) + 1
            /\ \A i \in 1..Len(g) : Append(g, e)[i] = g[i]
        BY AppendedRead
      <3> QED BY <2>2, <3>1
    <2> QED BY <2>1, <2>2
  <1>3. ASSUME NEW m \in Missed(k + 1, h, FALSE) PROVE m \in Missed(k, g, TRUE)
    <2>1. m \in 1..(k + 1) /\ ~ \E i \in 1..Len(h) : h[i].of = m /\ h[i].clean
      BY <1>3 DEF Missed
    <2>2. ~ \E i \in 1..Len(g) : g[i].of = m /\ g[i].clean
      BY <1>2, <2>1
    <2>3. m \in 1..k \/ m = k + 1
      BY <2>1
    <2> QED BY <2>2, <2>3 DEF Missed
  <1>4. Cardinality(Missed(k + 1, h, FALSE)) <= n
    <2>1. Missed(k + 1, h, FALSE) \subseteq Missed(k, g, TRUE)
      BY <1>3
    <2> QED BY <1>1, <2>1, FewerMissed
  <1>5. CASE h = g
    <2>1. \A i \in 1..Len(g) : g[i].of \in 1..(k + 1)
      BY DEF Account
    <2> QED BY <1>1, <1>4, <1>5, <2>1 DEF Account
  <1>6. ASSUME NEW e, h = Append(g, e), e.of = k + 1, ~e.clean PROVE Account(S, k + 1, h, FALSE, n)
    BY <1>1, <1>4, <1>6, AccountGrows
  <1> QED BY <1>5, <1>6

\* The reader takes the byte p in the state r; its reads so far are g, and t says
\* whether a timeout took the beginning of the message.
Taken(p, r, t, g, r2, t2, g2) ==
    LET x == read_byte(r, p.b)
    IN  /\ r2 = IF x.status = "more" THEN x ELSE Start
        /\ g2 = IF x.status = "more" THEN g
                ELSE Append(g, [status |-> x.status, of |-> p.of, clean |-> ~t,
                                data |-> Message(x.kind, x.index, x.value)])
        /\ t2 = (t /\ Continues(p.b))

\* The two outcomes of a byte that is read as x.
Outcome(p, x, t, g, r2, t2, g2) ==
    /\ x.status = "more" => r2 = x /\ g2 = g
    /\ x.status # "more" =>
          /\ r2 = Start
          /\ \E e : /\ g2 = Append(g, e) /\ e.of = p.of /\ e.clean = ~t
                    /\ e.status = x.status /\ e.data = Message(x.kind, x.index, x.value)
    /\ t2 = (t /\ Continues(p.b))

\* A byte that is taken leaves the message open or ends it.
LEMMA TakenCases ==
    ASSUME NEW p, NEW r, NEW t, NEW g, NEW r2, NEW t2, NEW g2, Taken(p, r, t, g, r2, t2, g2),
           NEW x, x = read_byte(r, p.b)
    PROVE  Outcome(p, x, t, g, r2, t2, g2)
  <1> DEFINE e == [status |-> x.status, of |-> p.of, clean |-> ~t,
                   data |-> Message(x.kind, x.index, x.value)]
  <1>1. /\ r2 = IF x.status = "more" THEN x ELSE Start
        /\ g2 = IF x.status = "more" THEN g ELSE Append(g, e)
        /\ t2 = (t /\ Continues(p.b))
    BY DEF Taken
  <1>2. /\ e.of = p.of /\ e.clean = ~t
        /\ e.status = x.status /\ e.data = Message(x.kind, x.index, x.value)
    OBVIOUS
  <1> HIDE DEF e
  <1> QED BY <1>1, <1>2 DEF Outcome

\* What the first byte not of the start of a message is.
LEMMA StartReads ==
    /\ read_byte(Start, EventCharacter) = Start /\ Start.status = "more"
    /\ Start = Continued(0, 0) /\ ~Continues(EventCharacter)
  <1>1. Start.length = 0 /\ Start.status = "more" /\ Start = Continued(0, 0)
    BY DEF Start, Continued
  <1>2. ~Continues(EventCharacter) /\ ~(EventCharacter < 64)
    BY DEF Continues, EventCharacter
  <1>3. first_byte(EventCharacter) = Start
    BY <1>2 DEF first_byte
  <1> QED BY <1>1, <1>2, <1>3 DEF read_byte

\* A last byte ends the message also where its beginning is not known.
LEMMA LastByteEnds ==
    ASSUME NEW p \in Int, NEW a \in Nat, NEW x \in Int, ~Continues(x)
    PROVE  \/ read_byte(Continued(p, a), x).status # "more"
           \/ read_byte(Continued(p, a), x) = Start
  <1> DEFINE r == Continued(p, a)
  <1>1. r.length = a
    BY DEF Continued
  <1>2. CASE a = 0
    <2>1. read_byte(r, x) = first_byte(x)
      BY <1>1, <1>2 DEF read_byte
    <2>2. CASE x < 64
      <3>1. first_byte(x) = [Start EXCEPT !.status = "OK", !.kind = "digital",
                                          !.index = x % 32, !.value = x \div 32]
        <4>1. x # EventCharacter
          BY <2>2 DEF EventCharacter
        <4> QED BY <2>2, <4>1 DEF first_byte
      <3>2. first_byte(x).status = "OK"
        BY <3>1 DEF Start
      <3> QED BY <2>1, <3>2
    <2>3. CASE x = EventCharacter
      BY <2>1, <2>3, StartReads, <1>2 DEF r, read_byte, Continues, EventCharacter, first_byte
    <2>4. CASE ~(x < 64) /\ x # EventCharacter
      <3>1. first_byte(x) = Failed(Start, "EINVAL")
        BY <2>4 DEF first_byte
      <3>2. first_byte(x).status = "EINVAL"
        BY <3>1 DEF Failed, Start
      <3> QED BY <2>1, <3>2
    <2> QED BY <2>2, <2>3, <2>4
  <1>3. CASE a # 0
    <2>1. read_byte(r, x) = last_byte(r, x)
      <3> HIDE DEF r
      <3> QED BY <1>1, <1>3 DEF read_byte
    <2>2. last_byte(r, x).status = "OK"
      BY DEF last_byte, Continued
    <2> QED BY <2>1, <2>2
  <1> QED BY <1>2, <1>3

\* What holds of a reader that has passed k messages.
ReaderSound(S, k, P, r, t, g, n) ==
    /\ Stream(S, k, P) /\ ReaderAt(S, P, r, t) /\ Account(S, k, g, t, n)
    /\ \E E : g \in Seq(E)

\* Where an event character is taken nothing changes.
LEMMA EventTaken ==
    ASSUME ValuesFit, NEW S \in Seq(Data), NEW k, NEW P, P # << >>, P[1].of = 0,
           NEW r, NEW t, NEW g, NEW n, ReaderSound(S, k, P, r, t, g, n),
           NEW r2, NEW t2, NEW g2, Taken(P[1], r, t, g, r2, t2, g2)
    PROVE  ReaderSound(S, k, Tail(P), r2, t2, g2, n)
  <1> DEFINE p == P[1]
             Q == Tail(P)
             x == read_byte(r, p.b)
  <1>1. Stream(S, k, P) /\ Len(S) \in Nat /\ Sized(S)
    BY SentSized DEF ReaderSound
  <1>2. 1 \in 1..Len(P) /\ k \in Nat
    BY <1>1, EmptySeq, StreamBytes DEF Stream
  <1>3. p.at = 1 /\ p.b = EventCharacter
    <2>1. ByteOf(S, k, p)
      BY <1>1, <1>2 DEF Stream
    <2> QED BY <1>2, <2>1 DEF ByteOf
  <1>4. r = Start /\ ~t
    BY <1>3 DEF ReaderSound, ReaderAt
  <1>5. x = Start /\ x.status = "more"
    BY <1>3, <1>4, StartReads
  <1> HIDE DEF x
  <1>6. r2 = Start /\ g2 = g /\ ~t2
    <2>1. x = read_byte(r, p.b)
      BY DEF x
    <2>2. /\ x.status = "more" => r2 = x /\ g2 = g
          /\ t2 = (t /\ Continues(p.b))
      BY <2>1, TakenCases DEF Outcome
    <2> QED BY <1>4, <1>5, <2>2
  <1>7. Stream(S, k, Q) /\ (Q # << >> => Follows(S, p, Q[1]))
    BY <1>1, StreamTail DEF Beyond
  <1>8. Q = << >> \/ Q[1].at = 1
    BY <1>7 DEF Follows, IsLast
  <1>9. ReaderAt(S, Q, r2, t2)
    BY <1>6, <1>8 DEF ReaderAt
  <1>10. Account(S, k, g, t2, n)
    <2>1. Account(S, k, g, t, n)
      BY DEF ReaderSound
    <2>2. Missed(k, g, t2) = Missed(k, g, t)
      BY <1>4, <1>6 DEF Missed
    <2> QED BY <1>4, <1>6, <2>1, <2>2 DEF Account
  <1> QED BY <1>6, <1>7, <1>9, <1>10 DEF ReaderSound

\* A byte of a message of which the reader has all that came before.
LEMMA CleanTaken ==
    ASSUME ValuesFit, NEW S \in Seq(Data), NEW k, NEW P, P # << >>, P[1].of # 0,
           NEW r, NEW t, NEW g, NEW n, ReaderSound(S, k, P, r, t, g, n), ~t,
           NEW r2, NEW t2, NEW g2, Taken(P[1], r, t, g, r2, t2, g2)
    PROVE  ReaderSound(S, Beyond(S, k, P[1]), Tail(P), r2, t2, g2, n)
  <1> DEFINE p == P[1]
             Q == Tail(P)
             x == read_byte(r, p.b)
             m == k + 1
             d == S[m]
             w == serial2002_write(d)
             a == p.at
  <1>1. /\ Stream(S, k, P) /\ Len(S) \in Nat /\ Sized(S)
        /\ Account(S, k, g, t, n) /\ \E E : g \in Seq(E)
    BY SentSized DEF ReaderSound
  <1>2. 1 \in 1..Len(P) /\ k \in Nat
    BY <1>1, EmptySeq, StreamBytes DEF Stream
  <1>3. p.of = m /\ m \in 1..Len(S) /\ a \in 1..Size(S, m) /\ p.b = w[a]
    BY <1>1, <1>2, FirstIsNext, StreamBytes
  <1>4. ReadAs(d, w, Result(d)) /\ Size(S, m) = Len(w) /\ Len(w) \in 1..6
    BY <1>3, SentSized DEF Decodes, Size, Sized
  <1>5. r = Prefix(d, a - 1)
    <2>1. CASE a = 1
      <3>1. r = Start /\ a - 1 = 0
        BY <2>1 DEF ReaderSound, ReaderAt
      <3> QED BY <3>1, StartIsPrefix
    <2>2. CASE a # 1
      BY <1>3, <2>2 DEF ReaderSound, ReaderAt
    <2> QED BY <2>1, <2>2
  <1>6. /\ Stream(S, Beyond(S, k, p), Q)
        /\ Q # << >> => Follows(S, p, Q[1])
        /\ Q = << >> => IsLast(S, p)
    BY <1>1, StreamTail
  <1>7. p.of # 0 /\ (IsLast(S, p) <=> a = Len(w))
    BY <1>2, <1>3, <1>4 DEF IsLast
  <1>8. /\ x.status = "more" => r2 = x /\ g2 = g
        /\ x.status # "more" =>
              /\ r2 = Start
              /\ \E e : /\ g2 = Append(g, e) /\ e.of = p.of /\ e.clean = ~t
                        /\ e.status = x.status /\ e.data = Message(x.kind, x.index, x.value)
        /\ t2 = (t /\ Continues(p.b))
    <2> HIDE DEF x
    <2>1. x = read_byte(r, p.b)
      BY DEF x
    <2>2. Outcome(p, x, t, g, r2, t2, g2)
      BY <2>1, TakenCases
    <2> QED BY <2>2 DEF Outcome
  <1>9. t2 \in BOOLEAN /\ ~t2
    <2>1. t2 = (t /\ Continues(p.b))
      BY <1>8
    <2> QED BY <2>1, Zenon
  <1> HIDE DEF x, w, d, Q, a
  <1>10. CASE a # Len(w)
    <2>1. a \in 1..(Len(w) - 1)
      BY <1>3, <1>4, <1>10
    <2>2. x = Prefix(d, a)
      <3>1. read_byte(Prefix(d, a - 1), w[a]) = Prefix(d, a)
        BY <1>4, <2>1 DEF ReadAs
      <3> QED BY <1>3, <1>5, <3>1 DEF x
    <2>3. x.status = "more"
      BY <2>2 DEF Prefix, Mid, Continued
    <2>4. r2 = Prefix(d, a) /\ g2 = g
      BY <1>8, <2>2, <2>3
    <2>5. Q # << >> /\ Q[1].of = m /\ Q[1].at = a + 1
      BY <1>3, <1>6, <1>7, <1>10 DEF Follows, a
    <2>6. Q[1].at # 1 /\ Q[1].at - 1 = a /\ S[Q[1].of] = d
      BY <2>1, <2>5 DEF d
    <2>7. ReaderAt(S, Q, r2, t2)
      BY <1>9, <2>4, <2>5, <2>6 DEF ReaderAt
    <2>8. Beyond(S, k, p) = k
      BY <1>7, <1>10 DEF Beyond
    <2>9. Account(S, k, g, t2, n)
      <3>1. Missed(k, g, t2) = Missed(k, g, t)
        BY <1>9 DEF Missed
      <3> QED BY <1>1, <1>9, <3>1 DEF Account
    <2> QED BY <1>1, <1>6, <2>4, <2>7, <2>8, <2>9 DEF ReaderSound, Q
  <1>11. CASE a = Len(w)
    <2>1. x = Result(d)
      BY <1>3, <1>5, <1>11 DEF x, Result, w
    <2>2. x.status = "OK" /\ Message(x.kind, x.index, x.value) = d
      BY <1>4, <2>1 DEF ReadAs
    <2>3. /\ r2 = Start
          /\ \E e : /\ g2 = Append(g, e) /\ e.of = m /\ e.clean = TRUE
                    /\ e.status = "OK" /\ e.data = S[m]
      BY <1>3, <1>8, <1>9, <2>2 DEF d
    <2>4. Q = << >> \/ Q[1].at = 1
      BY <1>6, <1>7, <1>11 DEF Follows
    <2>5. ReaderAt(S, Q, r2, t2)
      BY <1>9, <2>3, <2>4 DEF ReaderAt
    <2>6. Beyond(S, k, p) = k + 1
      BY <1>7, <1>11 DEF Beyond
    <2>7. PICK E : g \in Seq(E)
      BY <1>1
    <2>8. PICK e : g2 = Append(g, e) /\ e.of = k + 1 /\ e.clean = TRUE /\ e.status = "OK" /\ e.data = S[k + 1]
      BY <2>3
    <2>9. Account(S, k, g, FALSE, n)
      <3>1. Missed(k, g, FALSE) = Missed(k, g, t)
        BY DEF Missed
      <3> QED BY <1>1, <3>1 DEF Account
    <2>10. Account(S, k + 1, g2, FALSE, n)
      BY <1>2, <2>7, <2>8, <2>9, AccountRead
    <2>11. Account(S, k + 1, g2, t2, n)
      <3>1. Missed(k + 1, g2, FALSE) = Missed(k + 1, g2, t2)
        BY <1>9 DEF Missed
      <3> QED BY <1>9, <2>10, <3>1 DEF Account
    <2>12. \E F : g2 \in Seq(F)
      BY <2>7, <2>8, AppendedRead
    <2> QED BY <1>6, <2>5, <2>6, <2>11, <2>12 DEF ReaderSound, Q
  <1> QED BY <1>10, <1>11

\* A byte of a message of which a timeout took the beginning.
LEMMA TornTaken ==
    ASSUME ValuesFit, NEW S \in Seq(Data), NEW k, NEW P, P # << >>, P[1].of # 0,
           NEW r, NEW t, NEW g, NEW n, ReaderSound(S, k, P, r, t, g, n), t,
           NEW r2, NEW t2, NEW g2, Taken(P[1], r, t, g, r2, t2, g2)
    PROVE  ReaderSound(S, Beyond(S, k, P[1]), Tail(P), r2, t2, g2, n)
  <1> DEFINE p == P[1]
             Q == Tail(P)
             x == read_byte(r, p.b)
             m == k + 1
             d == S[m]
             w == serial2002_write(d)
             a == p.at
  <1>1. /\ Stream(S, k, P) /\ Len(S) \in Nat /\ Sized(S)
        /\ Account(S, k, g, t, n) /\ \E E : g \in Seq(E)
    BY SentSized DEF ReaderSound
  <1>2. 1 \in 1..Len(P) /\ k \in Nat
    BY <1>1, EmptySeq, StreamBytes DEF Stream
  <1>3. p.of = m /\ m \in 1..Len(S) /\ a \in 1..Size(S, m) /\ p.b = w[a] /\ p.b \in Int
    BY <1>1, <1>2, FirstIsNext, StreamBytes
  <1>4. ReadAs(d, w, Result(d)) /\ Size(S, m) = Len(w) /\ Len(w) \in 1..6
    BY <1>3, SentSized DEF Decodes, Size, Sized
  <1>5. /\ a # 1 /\ t \in BOOLEAN /\ r = Continued(r.value, r.length)
        /\ r.value \in Int /\ r.length \in 0..(a - 1)
    BY DEF ReaderSound, ReaderAt
  <1>6. /\ Stream(S, Beyond(S, k, p), Q)
        /\ Q # << >> => Follows(S, p, Q[1])
        /\ Q = << >> => IsLast(S, p)
    BY <1>1, StreamTail
  <1>7. p.of # 0 /\ (IsLast(S, p) <=> a = Len(w))
    BY <1>2, <1>3, <1>4 DEF IsLast
  <1>8. /\ x.status = "more" => r2 = x /\ g2 = g
        /\ x.status # "more" =>
              /\ r2 = Start
              /\ \E e : /\ g2 = Append(g, e) /\ e.of = p.of /\ e.clean = ~t
                        /\ e.status = x.status /\ e.data = Message(x.kind, x.index, x.value)
        /\ t2 = (t /\ Continues(p.b))
    <2> HIDE DEF x
    <2>1. x = read_byte(r, p.b)
      BY DEF x
    <2>2. Outcome(p, x, t, g, r2, t2, g2)
      BY <2>1, TakenCases
    <2> QED BY <2>2 DEF Outcome
  <1>9. t2 \in BOOLEAN /\ (t2 <=> Continues(p.b))
    BY <1>8, Zenon
  <1> DEFINE v == r.value
             c == r.length
             b == p.b
  <1>10. x = read_byte(Continued(v, c), b) /\ v \in Int /\ c \in 0..(a - 1) /\ b \in Int
    BY <1>3, <1>5
  <1> HIDE DEF x, w, d, Q, a, v, c, b
  <1>11. CASE a # Len(w)
    <2>1. a \in 1..(Len(w) - 1) /\ c \in 0..4
      <3>1. a \in 1..Len(w) /\ a # Len(w) /\ Len(w) \in 1..6
        BY <1>3, <1>4, <1>11
      <3> DEFINE l == Len(w)
      <3> HIDE DEF l
      <3>2. a \in 1..l /\ a # l /\ l \in 1..6 /\ c \in 0..(a - 1)
        BY <1>10, <3>1 DEF l
      <3>3. a \in 1..(l - 1) /\ c \in 0..4
        BY <3>2
      <3> QED BY <3>3 DEF l
    <2>2. Continues(b)
      BY <1>3, <1>4, <2>1 DEF ReadAs, b
    <2> DEFINE u == 128 * v + (b % 128)
    <2>3. x = Continued(u, c + 1)
      BY <1>10, <2>1, <2>2, ContinuationRead
    <2>4. u \in Int
      BY <1>10
    <2> HIDE DEF u
    <2>5. x.status = "more" /\ x.value = u /\ x.length = c + 1
      BY <2>3 DEF Continued
    <2>6. r2 = x /\ g2 = g /\ t2
      BY <1>8, <1>9, <2>2, <2>5 DEF b
    <2>7. Q # << >> /\ Q[1].of = m /\ Q[1].at = a + 1
      BY <1>3, <1>6, <1>7, <1>11 DEF Follows, a
    <2>8. Q[1].at # 1 /\ Q[1].at - 1 = a /\ c + 1 \in 0..a
      BY <1>10, <2>1, <2>7
    <2>9. r2 = Continued(r2.value, r2.length) /\ r2.value \in Int /\ r2.length \in 0..(Q[1].at - 1)
      BY <2>3, <2>4, <2>5, <2>6, <2>8
    <2>10. ReaderAt(S, Q, r2, t2)
      BY <1>9, <2>6, <2>7, <2>8, <2>9 DEF ReaderAt
    <2>11. Beyond(S, k, p) = k
      BY <1>7, <1>11 DEF Beyond
    <2>12. Account(S, k, g, t2, n)
      <3>1. Missed(k, g, t2) = Missed(k, g, t)
        BY <2>6 DEF Missed
      <3> QED BY <1>1, <2>6, <3>1 DEF Account
    <2> QED BY <1>1, <1>6, <2>6, <2>10, <2>11, <2>12 DEF ReaderSound, Q
  <1>12. CASE a = Len(w)
    <2>1. ~Continues(b)
      BY <1>3, <1>4, <1>12 DEF ReadAs, b
    <2>2. x.status # "more" \/ x = Start
      <3>1. c \in Nat
        BY <1>3, <1>10, <1>4, <1>12
      <3> QED BY <1>10, <2>1, <3>1, LastByteEnds
    <2>3. r2 = Start /\ ~t2 /\ (g2 = g \/ \E e : g2 = Append(g, e) /\ e.of = k + 1 /\ ~e.clean)
      <3>1. ~t2
        BY <1>9, <2>1 DEF b
      <3>2. CASE x.status = "more"
        BY <1>8, <2>2, <3>1, <3>2
      <3>3. CASE x.status # "more"
        <4>1. PICK e : g2 = Append(g, e) /\ e.of = p.of /\ e.clean = ~t
          BY <1>8, <3>3
        <4>2. e.of = k + 1 /\ ~e.clean
          BY <1>3, <4>1
        <4> QED BY <1>8, <3>1, <3>3, <4>1, <4>2
      <3> QED BY <3>2, <3>3
    <2>4. Q = << >> \/ Q[1].at = 1
      BY <1>6, <1>7, <1>12 DEF Follows
    <2>5. ReaderAt(S, Q, r2, t2)
      BY <2>3, <2>4 DEF ReaderAt
    <2>6. Beyond(S, k, p) = k + 1
      BY <1>7, <1>12 DEF Beyond
    <2>7. PICK E : g \in Seq(E)
      BY <1>1
    <2>8. Account(S, k, g, TRUE, n)
      <3>1. Missed(k, g, TRUE) = Missed(k, g, t)
        BY DEF Missed
      <3> QED BY <1>1, <3>1 DEF Account
    <2>9. Account(S, k + 1, g2, FALSE, n)
      BY <1>2, <2>3, <2>7, <2>8, AccountTorn
    <2>10. Account(S, k + 1, g2, t2, n)
      <3>1. Missed(k + 1, g2, FALSE) = Missed(k + 1, g2, t2)
        BY <2>3 DEF Missed
      <3> QED BY <2>3, <2>9, <3>1 DEF Account
    <2>11. \E F : g2 \in Seq(F)
      <3>1. CASE g2 = g
        BY <2>7, <3>1
      <3>2. ASSUME NEW e, g2 = Append(g, e) PROVE \E F : g2 \in Seq(F)
        BY <2>7, <3>2, AppendedRead
      <3> QED BY <2>3, <3>1, <3>2
    <2> QED BY <1>6, <2>5, <2>6, <2>10, <2>11 DEF ReaderSound, Q
  <1> QED BY <1>11, <1>12

\* The reader takes a byte.
LEMMA TakenKeeps ==
    ASSUME ValuesFit, NEW S \in Seq(Data), NEW k, NEW P, P # << >>,
           NEW r, NEW t, NEW g, NEW n, ReaderSound(S, k, P, r, t, g, n),
           NEW r2, NEW t2, NEW g2, Taken(P[1], r, t, g, r2, t2, g2)
    PROVE  \E h : ReaderSound(S, h, Tail(P), r2, t2, g2, n)
  <1>1. CASE P[1].of = 0
    BY <1>1, EventTaken
  <1>2. CASE P[1].of # 0 /\ t
    BY <1>2, TornTaken
  <1>3. CASE P[1].of # 0 /\ ~t
    BY <1>3, CleanTaken
  <1> QED BY <1>1, <1>2, <1>3

-----------------------------------------------------------------------------
(* The buffers *)

\* A concatenation.
LEMMA ConcatTypes ==
    ASSUME NEW E, NEW s \in Seq(E), NEW t \in Seq(E)
    PROVE  s \o t \in Seq(E) /\ Len(s \o t) = Len(s) + Len(t)
  BY ConcatProperties

\* A sequence whose first element goes to the end of the one before it.
LEMMA ElementMoves ==
    ASSUME NEW E, NEW s \in Seq(E), NEW t \in Seq(E), t # << >>
    PROVE  /\ Append(s, Head(t)) \in Seq(E) /\ Tail(t) \in Seq(E)
           /\ Append(s, Head(t)) \o Tail(t) = s \o t
  <1>1. Head(t) \in E /\ Tail(t) \in Seq(E)
    BY HeadTailProperties
  <1>2. <<Head(t)>> \in Seq(E)
    <2> DEFINE e == Head(t)
    <2>1. e \in E
      BY <1>1
    <2> HIDE DEF e
    <2> QED BY <2>1 DEF e
  <1>3. <<Head(t)>> \o Tail(t) = t
    <2>1. 1 \in 1..Len(t) /\ Len(t) \in 1..Len(t)
      BY EmptySeq
    <2>2. SubSeq(t, 1, Len(t)) = <<t[1]>> \o SubSeq(t, 1 + 1, Len(t))
      BY <2>1, SubSeqRecursiveFirst
    <2>3. Tail(t) = SubSeq(t, 2, Len(t)) /\ SubSeq(t, 1, Len(t)) = t /\ Head(t) = t[1]
      BY TailIsSubSeq, SubSeqFull
    <2> QED BY <2>2, <2>3
  <1>4. Append(s, Head(t)) = s \o <<Head(t)>>
    BY <1>1, AppendIsConcat
  <1>5. (s \o <<Head(t)>>) \o Tail(t) = s \o (<<Head(t)>> \o Tail(t))
    BY <1>1, <1>2, ConcatAssociative
  <1>6. Append(s, Head(t)) \in Seq(E)
    BY <1>1, AppendProperties
  <1> QED BY <1>1, <1>3, <1>4, <1>5, <1>6

\* The first element of a concatenation.
LEMMA ConcatFirst ==
    ASSUME NEW E, NEW s \in Seq(E), NEW t \in Seq(E), s # << >>
    PROVE  /\ s \o t # << >> /\ (s \o t)[1] = s[1]
           /\ Tail(s \o t) = Tail(s) \o t
  <1> DEFINE u == s \o t
             a == Tail(u)
             b == Tail(s) \o t
  <1>1. /\ u \in Seq(E) /\ Len(u) = Len(s) + Len(t)
        /\ \A i \in 1..Len(s) + Len(t) : u[i] = IF i <= Len(s) THEN s[i] ELSE t[i - Len(s)]
    BY ConcatProperties
  <1>2. Len(s) \in Nat /\ Len(t) \in Nat /\ Len(s) > 0
    BY EmptySeq
  <1> HIDE DEF u
  <1>3. u # << >>
    BY <1>1, <1>2, EmptySeq
  <1>4. u[1] = s[1]
    BY <1>1, <1>2
  <1>5. /\ Tail(s) \in Seq(E) /\ Len(Tail(s)) = Len(s) - 1
        /\ \A i \in 1..Len(Tail(s)) : Tail(s)[i] = s[i + 1]
    BY HeadTailProperties
  <1>6. /\ a \in Seq(E) /\ Len(a) = Len(u) - 1
        /\ \A i \in 1..Len(a) : a[i] = u[i + 1]
    BY <1>1, <1>3, HeadTailProperties
  <1>7. /\ b \in Seq(E) /\ Len(b) = Len(Tail(s)) + Len(t)
        /\ \A i \in 1..Len(Tail(s)) + Len(t) :
              b[i] = IF i <= Len(Tail(s)) THEN Tail(s)[i] ELSE t[i - Len(Tail(s))]
    BY <1>5, ConcatProperties
  <1> HIDE DEF a, b
  <1>8. Len(a) = Len(b)
    BY <1>1, <1>2, <1>5, <1>6, <1>7
  <1>9. ASSUME NEW i \in 1..Len(a) PROVE a[i] = b[i]
    <2>1. a[i] = u[i + 1] /\ i + 1 \in 1..Len(s) + Len(t) /\ i \in 1..Len(Tail(s)) + Len(t)
      BY <1>1, <1>2, <1>5, <1>6
    <2>2. CASE i <= Len(s) - 1
      <3>1. u[i + 1] = s[i + 1]
        BY <1>1, <1>2, <2>1, <2>2
      <3>2. b[i] = Tail(s)[i] /\ Tail(s)[i] = s[i + 1]
        BY <1>2, <1>5, <1>7, <2>1, <2>2
      <3> QED BY <2>1, <3>1, <3>2
    <2>3. CASE ~(i <= Len(s) - 1)
      <3>1. u[i + 1] = t[i + 1 - Len(s)]
        BY <1>1, <1>2, <2>1, <2>3
      <3>2. b[i] = t[i - (Len(s) - 1)]
        BY <1>2, <1>5, <1>7, <2>1, <2>3
      <3>3. i + 1 - Len(s) = i - (Len(s) - 1)
        BY <1>2
      <3> QED BY <2>1, <3>1, <3>2, <3>3
    <2> QED BY <2>2, <2>3
  <1>10. a = b
    BY <1>6, <1>7, <1>8, <1>9, SeqEqual
  <1> QED BY <1>3, <1>4, <1>10 DEF u, a, b

\* Concatenation of bytes.
LEMMA Associative == \A x, y, z \in Seq(TByte) : (x \o y) \o z = x \o (y \o z)
  BY ConcatAssociative

\* What the four buffers hold, as one sequence.
Held(rest, l, w, t) == rest \o l \o w \o t

Rest == SubSeq(read_buffer, read_pos + 1, Len(read_buffer))

\* The pending bytes are in the four buffers.
LEMMA PendingHeld == Pending = Held(Rest, line, write_buffer, todo)
  BY DEF Pending, Held, Rest

\* tty_write moves a byte to the write buffer.
LEMMA HeldByWriter ==
    ASSUME NEW x \in Seq(TByte), NEW l \in Seq(TByte), NEW w \in Seq(TByte), NEW t \in Seq(TByte),
           t # << >>
    PROVE  /\ Held(x, l, Append(w, Head(t)), Tail(t)) = Held(x, l, w, t)
           /\ Append(w, Head(t)) \in Seq(TByte) /\ Tail(t) \in Seq(TByte)
  <1>1. PICK y \in Seq(TByte) : y = x \o l
    BY ConcatTypes
  <1>2. PICK a \in Seq(TByte), b \in Seq(TByte) :
            a = Append(w, Head(t)) /\ b = Tail(t) /\ a \o b = w \o t
    BY ElementMoves
  <1>3. (y \o a) \o b = (y \o w) \o t
    <2>1. (y \o a) \o b = y \o (a \o b)
      <3>1. \A c \in Seq(TByte) : (y \o a) \o c = y \o (a \o c)
        BY Associative
      <3> QED BY <3>1
    <2>2. (y \o w) \o t = y \o (w \o t)
      <3>1. \A c \in Seq(TByte) : (y \o w) \o c = y \o (w \o c)
        BY Associative
      <3> QED BY <3>1
    <2> QED BY <1>2, <2>1, <2>2
  <1> QED BY <1>1, <1>2, <1>3 DEF Held

\* serial2002_flush moves bytes to the line.
LEMMA HeldByFlush ==
    ASSUME NEW x \in Seq(TByte), NEW l \in Seq(TByte), NEW w \in Seq(TByte), NEW t \in Seq(TByte),
           NEW n \in 1..Len(w)
    PROVE  /\ Held(x, l \o SubSeq(w, 1, n), SubSeq(w, n + 1, Len(w)), t) = Held(x, l, w, t)
           /\ l \o SubSeq(w, 1, n) \in Seq(TByte) /\ SubSeq(w, n + 1, Len(w)) \in Seq(TByte)
  <1> DEFINE a == SubSeq(w, 1, n)
             b == SubSeq(w, n + 1, Len(w))
  <1>1. Len(w) \in Nat /\ \A i \in 1..Len(w) : w[i] \in TByte
    BY LenProperties, ElementOfSeq
  <1>2. a \in Seq(TByte) /\ b \in Seq(TByte)
    <2>1. \A i \in 1..n : w[i] \in TByte
      BY <1>1
    <2>2. \A i \in (n + 1)..Len(w) : w[i] \in TByte
      BY <1>1
    <2>3. 1 \in Int /\ n \in Int /\ n + 1 \in Int /\ Len(w) \in Int
      BY <1>1
    <2> QED BY <2>1, <2>2, <2>3, SubSeqProperties
  <1>3. a \o b = w
    <2>1. 1 \in 1..Len(w) + 1 /\ n \in 1 - 1..Len(w) /\ Len(w) \in n..Len(w)
      BY <1>1
    <2>2. SubSeq(w, 1, n) \o SubSeq(w, n + 1, Len(w)) = SubSeq(w, 1, Len(w))
      BY <2>1, ConcatAdjacentSubSeq
    <2> QED BY <2>2, SubSeqFull
  <1> HIDE DEF a, b
  <1>4. PICK p \in Seq(TByte), q \in Seq(TByte) : p = a /\ q = b /\ p \o q = w
    BY <1>2, <1>3
  <1>5. PICK y \in Seq(TByte) : y = x \o l
    BY ConcatTypes
  <1>6. (x \o l) \o p = x \o (l \o p) /\ l \o p \in Seq(TByte)
    <2>1. (x \o l) \o p = x \o (l \o p)
      <3>1. \A c \in Seq(TByte) : (x \o l) \o c = x \o (l \o c)
        BY Associative
      <3> QED BY <3>1
    <2>2. l \o p \in Seq(TByte)
      BY ConcatTypes
    <2> QED BY <2>1, <2>2
  <1>7. (y \o p) \o q = y \o w
    <2>1. (y \o p) \o q = y \o (p \o q)
      <3>1. \A c \in Seq(TByte) : (y \o p) \o c = y \o (p \o c)
        BY Associative
      <3> QED BY <3>1
    <2> QED BY <1>4, <2>1
  <1>8. (x \o (l \o p)) \o q = (x \o l) \o w
    BY <1>5, <1>6, <1>7
  <1>9. ((x \o (l \o p)) \o q) \o t = ((x \o l) \o w) \o t
    BY <1>8
  <1> QED BY <1>2, <1>4, <1>6, <1>9 DEF Held, a, b

\* A message is added at the end.
LEMMA HeldByMessage ==
    ASSUME NEW x \in Seq(TByte), NEW l \in Seq(TByte), NEW w \in Seq(TByte), NEW t \in Seq(TByte)
    PROVE  Held(x, l, w, t) = Held(x, l, w, << >>) \o t
  <1> DEFINE y == x \o l \o w
  <1>1. y \in Seq(TByte)
    <2>1. x \o l \in Seq(TByte)
      BY ConcatTypes
    <2> QED BY <2>1, ConcatTypes
  <1>2. y \o << >> = y
    BY <1>1, ConcatEmptySeq
  <1> QED BY <1>2 DEF Held

\* An event character between messages is the last byte.
LEMMA HeldByEvent ==
    ASSUME NEW x \in Seq(TByte), NEW l \in Seq(TByte), NEW t \in Seq(TByte)
    PROVE  Held(x, l \o t, << >>, << >>) = Held(x, l, << >>, << >>) \o t
  <1>1. x \o l \in Seq(TByte) /\ l \o t \in Seq(TByte)
    BY ConcatTypes
  <1>2. x \o (l \o t) \in Seq(TByte)
    BY <1>1, ConcatTypes
  <1>3. /\ ((x \o l) \o << >>) \o << >> = x \o l
        /\ ((x \o (l \o t)) \o << >>) \o << >> = x \o (l \o t)
    BY <1>1, <1>2, ConcatEmptySeq
  <1>4. x \o (l \o t) = (x \o l) \o t
    BY ConcatAssociative
  <1> QED BY <1>3, <1>4 DEF Held

\* The first byte is the first of what is left in the read buffer.
LEMMA HeldByReader ==
    ASSUME NEW x \in Seq(TByte), NEW l \in Seq(TByte), NEW w \in Seq(TByte), NEW t \in Seq(TByte),
           x # << >>
    PROVE  /\ Held(x, l, w, t) # << >> /\ Held(x, l, w, t)[1] = x[1]
           /\ Tail(Held(x, l, w, t)) = Held(Tail(x), l, w, t)
  <1>1. x \o l \in Seq(TByte) /\ x \o l # << >> /\ (x \o l)[1] = x[1] /\ Tail(x \o l) = Tail(x) \o l
    BY ConcatTypes, ConcatFirst
  <1> DEFINE y == x \o l
  <1> HIDE DEF y
  <1>2. y \in Seq(TByte) /\ y # << >> /\ y[1] = x[1] /\ Tail(y) = Tail(x) \o l
    BY <1>1 DEF y
  <1>3. y \o w \in Seq(TByte) /\ y \o w # << >> /\ (y \o w)[1] = y[1] /\ Tail(y \o w) = Tail(y) \o w
    BY <1>2, ConcatTypes, ConcatFirst
  <1> DEFINE z == y \o w
  <1> HIDE DEF z
  <1>4. z \in Seq(TByte) /\ z # << >> /\ z[1] = y[1] /\ Tail(z) = Tail(y) \o w
    BY <1>3 DEF z
  <1>5. z \o t # << >> /\ (z \o t)[1] = z[1] /\ Tail(z \o t) = Tail(z) \o t
    BY <1>4, ConcatFirst
  <1> QED BY <1>2, <1>4, <1>5 DEF Held, y, z

-----------------------------------------------------------------------------
(* The steps *)

\* The invariant: for some number of messages the reader has passed, the pending
\* bytes are the rest of the stream, the reader is where the stream begins, and the
\* reads so far account for the messages passed.
LineInv == LineShape /\ \E k : ReaderSound(sent, k, Pending, reading, torn, got, timeouts)

\* What is left of the read buffer.
LEMMA RestType ==
    ASSUME LineShape
    PROVE  Rest \in Seq(TByte)
  <1>1. read_buffer \in Seq(TByte) /\ read_pos \in Nat /\ Len(read_buffer) \in Nat
    BY DEF LineShape
  <1>2. \A i \in (read_pos + 1)..Len(read_buffer) : read_buffer[i] \in TByte
    <2>1. \A i \in 1..Len(read_buffer) : read_buffer[i] \in TByte
      BY <1>1, ElementOfSeq
    <2> QED BY <1>1, <2>1
  <1>3. read_pos + 1 \in Int /\ Len(read_buffer) \in Int
    BY <1>1
  <1> QED BY <1>2, <1>3, SubSeqProperties DEF Rest

\* Where the pending bytes and the reader are the same, what holds of it is.
LEMMA ReaderSame ==
    ASSUME LineInv, Pending' = Pending, UNCHANGED <<sent, reading, torn, got, timeouts>>
    PROVE  (\E k : ReaderSound(sent, k, Pending, reading, torn, got, timeouts))'
  <1>1. PICK k : ReaderSound(sent, k, Pending, reading, torn, got, timeouts)
    BY DEF LineInv
  <1> DEFINE P2 == Pending'
  <1>2. P2 = Pending
    OBVIOUS
  <1> HIDE DEF P2
  <1>3. ReaderSound(sent', k, P2, reading', torn', got', timeouts')
    BY <1>1, <1>2
  <1> QED BY <1>3 DEF P2

\* The reader does not see what is added to the pending bytes.
LEMMA ReaderAtGrows ==
    ASSUME NEW S, NEW P \in Seq(TByte), NEW r, NEW t, ReaderAt(S, P, r, t),
           NEW T \in Seq(TByte), T # << >> => T[1].at = 1,
           NEW R, P # << >> /\ P[1].at # 1 => R[P[1].of] = S[P[1].of]
    PROVE  ReaderAt(R, P \o T, r, t)
  <1>1. CASE P = << >>
    <2>1. P \o T = T
      BY <1>1, ConcatEmptySeq
    <2>2. r = Start /\ ~t
      BY <1>1 DEF ReaderAt
    <2> QED BY <2>1, <2>2 DEF ReaderAt
  <1>2. CASE P # << >>
    <2>1. (P \o T)[1] = P[1] /\ P \o T # << >>
      BY <1>2, ConcatFirst
    <2> DEFINE Q == P \o T
    <2> HIDE DEF Q
    <2>2. Q[1] = P[1] /\ Q # << >>
      BY <2>1 DEF Q
    <2>3. CASE P[1].at = 1
      <3>1. r = Start /\ ~t
        BY <1>2, <2>3 DEF ReaderAt
      <3>2. ReaderAt(R, Q, r, t)
        BY <2>2, <2>3, <3>1 DEF ReaderAt
      <3> QED BY <3>2 DEF Q
    <2>4. CASE P[1].at # 1
      <3>1. /\ t \in BOOLEAN
            /\ ~t => r = Prefix(S[P[1].of], P[1].at - 1)
            /\ t => /\ r = Continued(r.value, r.length)
                    /\ r.value \in Int /\ r.length \in 0..(P[1].at - 1)
        BY <1>2, <2>4 DEF ReaderAt
      <3>2. ReaderAt(R, Q, r, t)
        BY <1>2, <2>2, <2>4, <3>1 DEF ReaderAt
      <3> QED BY <3>2 DEF Q
    <2> QED BY <2>3, <2>4
  <1> QED BY <1>1, <1>2

\* The invariant at the start.
LEMMA LineStart ==
    ASSUME Init
    PROVE  LineInv
  <1>1. /\ todo = << >> /\ write_buffer = << >> /\ line = << >> /\ read_buffer = << >>
        /\ read_pos = 0 /\ reading = Start /\ sent = << >> /\ got = << >>
        /\ torn = FALSE /\ timeouts = 0
    BY DEF Init
  <1>2. \A E : << >> \in Seq(E) /\ Len(<< >>) = 0
    BY EmptySeq
  <1>3. LineShape
    BY <1>1, <1>2 DEF LineShape
  <1>4. Pending = << >>
    <2>1. SubSeq(read_buffer, read_pos + 1, Len(read_buffer)) = << >>
      <3>1. Len(read_buffer) = 0
        BY <1>1, <1>2
      <3>2. Len(read_buffer) < read_pos + 1 /\ read_pos + 1 \in Int /\ Len(read_buffer) \in Int
        BY <1>1, <3>1
      <3> QED BY <3>2, SubSeqEmpty
    <2>2. << >> \o << >> = << >>
      BY <1>2, ConcatEmptySeq
    <2> QED BY <1>1, <2>1, <2>2 DEF Pending
  <1>5. Stream(sent, 0, Pending)
    <2>1. Pending \in Seq(TByte) /\ Len(Pending) = 0 /\ Len(sent) = 0
      BY <1>1, <1>2, <1>4
    <2>2. 0 \in 0..Len(sent) /\ (\A m \in (0 + 1)..Len(sent) : FALSE)
      BY <2>1
    <2>3. (\A i \in 1..Len(Pending) : FALSE) /\ (\A i \in 1..(Len(Pending) - 1) : FALSE)
      BY <2>1
    <2> QED BY <1>4, <2>1, <2>2, <2>3 DEF Stream
  <1>6. ReaderAt(sent, Pending, reading, torn)
    BY <1>1, <1>4 DEF ReaderAt
  <1>7. Account(sent, 0, got, torn, timeouts)
    <2>1. Len(got) = 0 /\ \A i \in 1..Len(got) : FALSE
      BY <1>1, <1>2
    <2>2. Missed(0, got, torn) = {}
      BY <1>1 DEF Missed
    <2>3. Cardinality(Missed(0, got, torn)) = 0
      BY <2>2, FS_EmptySet
    <2> QED BY <1>1, <2>1, <2>3 DEF Account
  <1>8. \E E : got \in Seq(E)
    BY <1>1, <1>2
  <1>9. ReaderSound(sent, 0, Pending, reading, torn, got, timeouts)
    BY <1>5, <1>6, <1>7, <1>8 DEF ReaderSound
  <1> QED BY <1>3, <1>9 DEF LineInv

\* The history that a message's bytes carry.
LEMMA TaggedAt ==
    ASSUME NEW bytes, NEW of, NEW i \in 1..Len(bytes)
    PROVE  Tagged(bytes, of)[i].at = i
  BY DEF Tagged

\* A message is sent: the stream has one more, whole.
LEMMA WriteMessageKeeps ==
    ASSUME ValuesFit, LineInv, NEW d \in Data, write_message(d)
    PROVE  LineInv'
  <1> DEFINE T == Tagged(serial2002_write(d), Len(sent) + 1)
  <1>1. /\ LineShape /\ todo = << >> /\ ~flushing /\ write_buffer = << >>
        /\ sent' = Append(sent, d) /\ todo' = T
        /\ UNCHANGED <<write_buffer, flushing, events, line, readerVars>>
    BY DEF LineInv, LineShape, write_message
  <1>2. PICK k : ReaderSound(sent, k, Pending, reading, torn, got, timeouts)
    BY DEF LineInv
  <1>3. Rest \in Seq(TByte) /\ Rest' = Rest /\ sent \in Seq(Data)
    BY <1>1, RestType DEF Rest, readerVars, LineShape
  <1>4. Stream(sent, k, Pending)
    BY <1>2 DEF ReaderSound
  <1>5. Stream(Append(sent, d), k, Pending \o T) /\ T \in Seq(TByte) /\ T # << >>
    BY <1>3, <1>4, StreamMessage
  <1> HIDE DEF T
  <1>6. Pending' = Pending \o T
    <2>1. Pending = Held(Rest, line, write_buffer, << >>)
      BY <1>1, PendingHeld
    <2>2. Pending' = Held(Rest, line, write_buffer, T)
      BY <1>1, <1>3, PendingHeld DEF Pending, Held, Rest, readerVars
    <2>3. line \in Seq(TByte) /\ write_buffer \in Seq(TByte)
      BY <1>1 DEF LineShape
    <2>4. Held(Rest, line, write_buffer, T) = Held(Rest, line, write_buffer, << >>) \o T
      BY <1>3, <1>5, <2>3, HeldByMessage
    <2> QED BY <2>1, <2>2, <2>4
  <1>7. LineShape'
    <2>1. Append(sent, d) \in Seq(Data)
      BY <1>3, AppendProperties
    <2> QED BY <1>1, <1>5, <2>1 DEF LineShape, readerVars
  <1>8. /\ Len(sent) \in Nat /\ k \in 0..Len(sent)
         /\ \A m \in 1..Len(sent) : Append(sent, d)[m] = sent[m]
    BY <1>3, <1>4, AppendProperties DEF Stream
  <1>9. ReaderAt(Append(sent, d), Pending \o T, reading, torn)
    <2>1. Pending # << >> /\ Pending[1].at # 1 => Pending[1].of \in 1..Len(sent)
      <3>1. SUFFICES ASSUME Pending # << >>, Pending[1].at # 1 PROVE Pending[1].of \in 1..Len(sent)
        OBVIOUS
      <3>2. Pending \in Seq(TByte)
        BY <1>4 DEF Stream
      <3>3. 1 \in 1..Len(Pending)
        BY <3>1, <3>2, EmptySeq
      <3>4. ByteOf(sent, k, Pending[1])
        BY <1>4, <3>3 DEF Stream
      <3>5. Pending[1].of # 0
        BY <1>8, <3>1, <3>4 DEF ByteOf
      <3> QED BY <1>4, <1>8, <3>3, <3>5, StreamBytes
    <2>2. ReaderAt(sent, Pending, reading, torn) /\ Pending \in Seq(TByte)
      BY <1>2, <1>4 DEF ReaderSound, Stream
    <2>3. T[1].at = 1
      <3>1. Len(serial2002_write(d)) \in 1..6
        BY CodecInverts DEF Decodes, ReadAs
      <3>2. 1 \in 1..Len(serial2002_write(d))
        BY <3>1
      <3>3. Tagged(serial2002_write(d), Len(sent) + 1)[1].at = 1
        BY <3>2, TaggedAt
      <3> QED BY <3>3 DEF T
    <2>4. Pending # << >> /\ Pending[1].at # 1 => Append(sent, d)[Pending[1].of] = sent[Pending[1].of]
      BY <1>8, <2>1
    <2> QED BY <1>5, <2>2, <2>3, <2>4, ReaderAtGrows
  <1>10. Account(Append(sent, d), k, got, torn, timeouts)
    <2>1. Account(sent, k, got, torn, timeouts)
      BY <1>2 DEF ReaderSound
    <2>2. ASSUME NEW i \in 1..Len(got)
          PROVE  /\ got[i].of \in 1..k
                 /\ got[i].clean => got[i].status = "OK" /\ got[i].data = Append(sent, d)[got[i].of]
      <3>1. /\ got[i].of \in 1..k
            /\ got[i].clean => got[i].status = "OK" /\ got[i].data = sent[got[i].of]
        BY <2>1 DEF Account
      <3>2. got[i].of \in 1..Len(sent)
        BY <1>8, <3>1
      <3> QED BY <1>8, <3>1, <3>2
    <2> QED BY <2>1, <2>2 DEF Account
  <1>11. ReaderSound(Append(sent, d), k, Pending \o T, reading, torn, got, timeouts)
    BY <1>2, <1>5, <1>9, <1>10 DEF ReaderSound
  <1> DEFINE P2 == Pending'
  <1>12. P2 = Pending \o T
    BY <1>6
  <1> HIDE DEF P2
  <1>13. ReaderSound(sent', k, P2, reading', torn', got', timeouts')
    BY <1>1, <1>11, <1>12 DEF readerVars
  <1> QED BY <1>7, <1>13 DEF LineInv, P2

\* The bytes move, the stream is the same.
LEMMA WriteKeeps ==
    ASSUME LineInv, tty_write
    PROVE  LineInv'
  <1>1. /\ LineShape /\ todo # << >>
        /\ write_buffer' = Append(write_buffer, Head(todo)) /\ todo' = Tail(todo)
        /\ UNCHANGED <<sent, events, line, readerVars>>
    BY DEF LineInv, tty_write
  <1>2. Rest \in Seq(TByte) /\ Rest' = Rest
    BY <1>1, RestType DEF Rest, readerVars
  <1>3. Pending = Held(Rest, line, write_buffer, todo)
    BY PendingHeld
  <1>4. Pending' = Held(Rest, line, write_buffer', todo')
    BY <1>1, <1>2, PendingHeld DEF Pending, Held, Rest, readerVars
  <1>5. /\ Held(Rest, line, Append(write_buffer, Head(todo)), Tail(todo))
             = Held(Rest, line, write_buffer, todo)
        /\ Append(write_buffer, Head(todo)) \in Seq(TByte) /\ Tail(todo) \in Seq(TByte)
    <2>1. /\ line \in Seq(TByte) /\ write_buffer \in Seq(TByte) /\ todo \in Seq(TByte)
          /\ todo # << >>
      BY <1>1 DEF LineShape
    <2> QED BY <1>2, <2>1, HeldByWriter
  <1>6. Pending' = Pending
    BY <1>1, <1>3, <1>4, <1>5
  <1>7. LineShape'
    <2>1. todo' = << >> /\ ~flushing' => write_buffer' = << >>
      BY DEF tty_write
    <2> QED BY <1>1, <1>5, <2>1 DEF LineShape, readerVars
  <1> QED BY <1>1, <1>6, <1>7, ReaderSame DEF LineInv, readerVars

\* So they do here.
LEMMA FlushKeeps ==
    ASSUME LineInv, NEW n \in 1..Len(write_buffer), flush_some(n)
    PROVE  LineInv'
  <1>1. /\ LineShape
        /\ line' = line \o SubSeq(write_buffer, 1, n)
        /\ write_buffer' = SubSeq(write_buffer, n + 1, Len(write_buffer))
        /\ flushing' = (write_buffer' # << >>)
        /\ UNCHANGED <<todo, sent, events, readerVars>>
    BY DEF LineInv, flush_some
  <1>2. Rest \in Seq(TByte) /\ Rest' = Rest
    BY <1>1, RestType DEF Rest, readerVars
  <1>3. Pending = Held(Rest, line, write_buffer, todo)
    BY PendingHeld
  <1>4. Pending' = Held(Rest, line', write_buffer', todo)
    BY <1>1, <1>2, PendingHeld DEF Pending, Held, Rest, readerVars
  <1>5. /\ Held(Rest, line \o SubSeq(write_buffer, 1, n),
                SubSeq(write_buffer, n + 1, Len(write_buffer)), todo)
             = Held(Rest, line, write_buffer, todo)
        /\ line \o SubSeq(write_buffer, 1, n) \in Seq(TByte)
        /\ SubSeq(write_buffer, n + 1, Len(write_buffer)) \in Seq(TByte)
    <2>1. line \in Seq(TByte) /\ write_buffer \in Seq(TByte) /\ todo \in Seq(TByte)
      BY <1>1 DEF LineShape
    <2> QED BY <1>2, <2>1, HeldByFlush
  <1>6. Pending' = Pending
    BY <1>1, <1>3, <1>4, <1>5
  <1>7. LineShape'
    <2>1. todo' = << >> /\ ~flushing' => write_buffer' = << >>
      BY <1>1
    <2> QED BY <1>1, <1>5, <2>1 DEF LineShape, readerVars
  <1> QED BY <1>1, <1>6, <1>7, ReaderSame DEF LineInv, readerVars

\* An event character ends the stream where no message is half written.
LEMMA EventKeeps ==
    ASSUME ValuesFit, LineInv, adapter_event
    PROVE  LineInv'
  <1> DEFINE e == [b |-> EventCharacter, of |-> 0, at |-> 1]
             T == <<e>>
  <1>1. /\ LineShape /\ todo = << >> /\ ~flushing /\ write_buffer = << >>
        /\ line' = line \o Tagged(<<EventCharacter>>, 0)
        /\ UNCHANGED <<todo, write_buffer, flushing, sent, readerVars>>
    BY DEF LineInv, LineShape, adapter_event
  <1>2. PICK k : ReaderSound(sent, k, Pending, reading, torn, got, timeouts)
    BY DEF LineInv
  <1>3. Rest \in Seq(TByte) /\ Rest' = Rest /\ sent \in Seq(Data) /\ Len(sent) \in Nat
    BY <1>1, RestType DEF Rest, readerVars, LineShape
  <1>4. Stream(sent, k, Pending)
    BY <1>2 DEF ReaderSound
  <1>5. Stream(sent, k, Pending \o T) /\ e \in TByte
    BY <1>3, <1>4, StreamEvent
  <1>6. Tagged(<<EventCharacter>>, 0) = T
    <2>1. Len(<<EventCharacter>>) = 1 /\ <<EventCharacter>>[1] = EventCharacter
      OBVIOUS
    <2>2. Tagged(<<EventCharacter>>, 0) = [i \in 1..1 |-> [b |-> <<EventCharacter>>[i], of |-> 0, at |-> i]]
      BY <2>1 DEF Tagged
    <2> QED BY <2>1, <2>2
  <1>7. T \in Seq(TByte)
    <2> HIDE DEF e
    <2> QED BY <1>5
  <1> HIDE DEF T
  <1>8. Pending' = Pending \o T
    <2>1. Pending = Held(Rest, line, << >>, << >>)
      BY <1>1, PendingHeld
    <2>2. Pending' = Held(Rest, line \o T, << >>, << >>)
      BY <1>1, <1>3, <1>6, PendingHeld DEF Pending, Held, Rest, readerVars
    <2>3. line \in Seq(TByte)
      BY <1>1 DEF LineShape
    <2>4. Held(Rest, line \o T, << >>, << >>) = Held(Rest, line, << >>, << >>) \o T
      BY <1>3, <1>7, <2>3, HeldByEvent
    <2> QED BY <2>1, <2>2, <2>4
  <1>9. LineShape'
    <2>1. line \in Seq(TByte) /\ line \o T \in Seq(TByte)
      BY <1>1, <1>7, ConcatTypes DEF LineShape
    <2> QED BY <1>1, <1>6, <2>1 DEF LineShape, readerVars
  <1>10. ReaderAt(sent, Pending \o T, reading, torn)
    <2>1. ReaderAt(sent, Pending, reading, torn) /\ Pending \in Seq(TByte)
      BY <1>2, <1>4 DEF ReaderSound, Stream
    <2>2. T[1].at = 1
      BY DEF T
    <2> QED BY <1>7, <2>1, <2>2, ReaderAtGrows
  <1>11. ReaderSound(sent, k, Pending \o T, reading, torn, got, timeouts)
    BY <1>2, <1>5, <1>10 DEF ReaderSound
  <1> DEFINE P2 == Pending'
  <1>12. P2 = Pending \o T
    BY <1>8
  <1> HIDE DEF P2
  <1>13. ReaderSound(sent', k, P2, reading', torn', got', timeouts')
    BY <1>1, <1>11, <1>12 DEF readerVars
  <1> QED BY <1>9, <1>13 DEF LineInv, P2

\* The reader takes the first of the pending bytes.
LEMMA ReaderMoves ==
    ASSUME ValuesFit, LineInv, Pending # << >>, consume(Pending[1]), NEW Q, Q = Tail(Pending),
           Pending' = Q, UNCHANGED <<sent, timeouts>>
    PROVE  (\E k : ReaderSound(sent, k, Pending, reading, torn, got, timeouts))'
  <1>1. PICK k : ReaderSound(sent, k, Pending, reading, torn, got, timeouts)
    BY DEF LineInv
  <1>2. Taken(Pending[1], reading, torn, got, reading', torn', got')
    BY DEF consume, Taken
  <1>3. sent \in Seq(Data)
    BY DEF LineInv, LineShape
  <1>4. PICK h : ReaderSound(sent, h, Tail(Pending), reading', torn', got', timeouts)
    BY <1>1, <1>2, <1>3, TakenKeeps
  <1> DEFINE P2 == Pending'
  <1>5. P2 = Tail(Pending)
    OBVIOUS
  <1> HIDE DEF P2
  <1>6. ReaderSound(sent', h, P2, reading', torn', got', timeouts')
    BY <1>4, <1>5
  <1> QED BY <1>6 DEF P2

\* The first byte is taken from the read buffer.
LEMMA ReadKeeps ==
    ASSUME ValuesFit, LineInv, tty_read
    PROVE  LineInv'
  <1>1. /\ LineShape /\ ~(read_pos >= Len(read_buffer))
        /\ consume(read_buffer[read_pos + 1]) /\ read_pos' = read_pos + 1
        /\ UNCHANGED <<todo, write_buffer, flushing, sent, events, line, read_buffer, timeouts>>
    BY DEF LineInv, tty_read, BufferEmpty, writerVars
  <1>2. read_buffer \in Seq(TByte) /\ read_pos \in Nat /\ Len(read_buffer) \in Nat
    BY <1>1 DEF LineShape
  <1>3. /\ Head(Rest) = read_buffer[read_pos + 1]
        /\ Tail(Rest) = SubSeq(read_buffer, (read_pos + 1) + 1, Len(read_buffer))
    <2>1. read_pos + 1 \in 1..Len(read_buffer) /\ Len(read_buffer) \in (read_pos + 1)..Len(read_buffer)
      BY <1>1, <1>2
    <2> QED BY <1>2, <2>1, HeadTailOfSubSeq DEF Rest
  <1>4. Rest # << >> /\ Rest \in Seq(TByte)
    <2>1. Rest \in Seq(TByte)
      BY <1>1, RestType
    <2>2. Len(Rest) # 0
      <3>1. \A i \in (read_pos + 1)..Len(read_buffer) : read_buffer[i] \in TByte
        <4>1. \A i \in 1..Len(read_buffer) : read_buffer[i] \in TByte
          BY <1>2, ElementOfSeq
        <4> QED BY <1>2, <4>1
      <3>2. read_pos + 1 \in Int /\ Len(read_buffer) \in Int
        BY <1>2
      <3>3. Len(Rest) = IF read_pos + 1 <= Len(read_buffer)
                        THEN Len(read_buffer) - (read_pos + 1) + 1 ELSE 0
        BY <3>1, <3>2, SubSeqProperties DEF Rest
      <3> QED BY <1>1, <1>2, <3>3
    <2> QED BY <2>1, <2>2, EmptySeq
  <1>5. Rest' = Tail(Rest)
    BY <1>1, <1>3 DEF Rest
  <1>6. Pending = Held(Rest, line, write_buffer, todo)
    BY PendingHeld
  <1>7. Pending' = Held(Tail(Rest), line, write_buffer, todo)
    BY <1>1, <1>5 DEF Pending, Held, Rest
  <1>8. Pending # << >> /\ Pending[1] = Rest[1] /\ Pending' = Tail(Pending)
    <2>1. line \in Seq(TByte) /\ write_buffer \in Seq(TByte) /\ todo \in Seq(TByte)
      BY <1>1 DEF LineShape
    <2>2. /\ Held(Rest, line, write_buffer, todo) # << >>
          /\ Held(Rest, line, write_buffer, todo)[1] = Rest[1]
          /\ Tail(Held(Rest, line, write_buffer, todo)) = Held(Tail(Rest), line, write_buffer, todo)
      BY <1>4, <2>1, HeldByReader
    <2> QED BY <1>6, <1>7, <2>2
  <1>9. Pending[1] = read_buffer[read_pos + 1]
    BY <1>3, <1>4, <1>8
  <1>10. LineShape'
    BY <1>1, <1>2 DEF LineShape
  <1>11. consume(Pending[1])
    BY <1>1, <1>9
  <1> QED BY <1>1, <1>8, <1>10, <1>11, ReaderMoves DEF LineInv

\* The read buffer is filled, and its first byte taken.
LEMMA FillKeeps ==
    ASSUME ValuesFit, LineInv, tty_read_fill
    PROVE  LineInv'
  <1> DEFINE a == SubSeq(line, 1, Available)
             b == SubSeq(line, Available + 1, Len(line))
  <1>1. /\ LineShape /\ read_pos >= Len(read_buffer) /\ line # << >>
        /\ read_buffer' = a /\ line' = b
        /\ consume(Head(line)) /\ read_pos' = 1
        /\ UNCHANGED <<todo, write_buffer, flushing, sent, events, timeouts>>
    BY DEF LineInv, tty_read_fill, BufferEmpty, writerVars
  <1>2. /\ line \in Seq(TByte) /\ write_buffer \in Seq(TByte) /\ todo \in Seq(TByte)
        /\ read_buffer \in Seq(TByte) /\ read_pos \in Nat /\ Len(read_buffer) \in Nat
    BY <1>1 DEF LineShape
  <1>3. Len(line) \in Nat /\ Available \in 1..Len(line)
    BY <1>1, <1>2, EmptySeq, BufferAssumption DEF Available
  <1>4. a \in Seq(TByte) /\ b \in Seq(TByte) /\ Len(a) = Available
    <2>1. \A i \in 1..Len(line) : line[i] \in TByte
      BY <1>2, ElementOfSeq
    <2>2. 1 \in Int /\ Available \in Int /\ Available + 1 \in Int /\ Len(line) \in Int
      BY <1>3
    <2>3. \A i \in 1..Available : line[i] \in TByte
      BY <1>3, <2>1
    <2>4. \A i \in (Available + 1)..Len(line) : line[i] \in TByte
      BY <1>3, <2>1
    <2>5. SubSeq(line, 1, Available) \in Seq(TByte)
          /\ Len(SubSeq(line, 1, Available)) = IF 1 <= Available THEN Available - 1 + 1 ELSE 0
      BY <2>2, <2>3, SubSeqProperties
    <2>6. SubSeq(line, Available + 1, Len(line)) \in Seq(TByte)
      BY <2>2, <2>4, SubSeqProperties
    <2> QED BY <1>3, <2>5, <2>6
  <1>5. a \o b = line
    <2>1. /\ 1 \in 1..Len(line) + 1 /\ Available \in 1 - 1..Len(line)
          /\ Len(line) \in Available..Len(line)
      BY <1>3
    <2>2. SubSeq(line, 1, Available) \o SubSeq(line, Available + 1, Len(line))
              = SubSeq(line, 1, Len(line))
      BY <1>2, <2>1, ConcatAdjacentSubSeq
    <2> QED BY <1>2, <2>2, SubSeqFull
  <1>6. Head(a) = line[1] /\ Tail(a) = SubSeq(line, 2, Available)
    <2>1. 1 \in 1..Len(line) /\ Available \in 1..Len(line)
      BY <1>3
    <2>2. /\ Head(SubSeq(line, 1, Available)) = line[1]
          /\ Tail(SubSeq(line, 1, Available)) = SubSeq(line, 1 + 1, Available)
      BY <1>2, <2>1, HeadTailOfSubSeq
    <2>3. 1 + 1 = 2
      OBVIOUS
    <2>4. /\ Head(a) = line[1] /\ Tail(a) = SubSeq(line, 1 + 1, Available)
      BY <2>2
    <2> HIDE DEF a
    <2> QED BY <2>3, <2>4
  <1>7. SubSeq(a, 2, Len(a)) = Tail(a) /\ a # << >>
    <2>1. a # << >>
      BY <1>3, <1>4, EmptySeq
    <2> QED BY <1>4, <2>1, TailIsSubSeq
  <1>8. Head(line) = a[1]
    BY <1>1, <1>2, <1>4, <1>6, <1>7
  <1> HIDE DEF a, b
  <1>9. Rest = << >>
    <2>1. read_pos + 1 \in Int /\ Len(read_buffer) \in Int /\ Len(read_buffer) < read_pos + 1
      BY <1>1, <1>2
    <2> QED BY <2>1, SubSeqEmpty DEF Rest
  <1>10. Pending = Held(a, b, write_buffer, todo)
    <2>1. << >> \o line = line
      BY <1>2, ConcatEmptySeq
    <2>2. Pending = Held(<< >>, line, write_buffer, todo)
      BY <1>9, PendingHeld
    <2> QED BY <1>5, <2>1, <2>2 DEF Held
  <1>11. Pending' = Held(Tail(a), b, write_buffer, todo)
    <2>1. SubSeq(read_buffer', read_pos' + 1, Len(read_buffer')) = Tail(a)
      <3>1. read_pos' + 1 = 2
        BY <1>1
      <3> QED BY <1>1, <1>7, <3>1
    <2>2. Pending' = SubSeq(read_buffer', read_pos' + 1, Len(read_buffer'))
                     \o line' \o write_buffer' \o todo'
      BY DEF Pending
    <2> QED BY <1>1, <2>1, <2>2 DEF Held
  <1>12. /\ Held(a, b, write_buffer, todo) # << >> /\ Held(a, b, write_buffer, todo)[1] = a[1]
         /\ Tail(Held(a, b, write_buffer, todo)) = Held(Tail(a), b, write_buffer, todo)
    <2>1. a \in Seq(TByte) /\ b \in Seq(TByte) /\ a # << >>
      BY <1>4, <1>7
    <2>2. write_buffer \in Seq(TByte) /\ todo \in Seq(TByte)
      BY <1>2
    <2> QED BY <2>1, <2>2, HeldByReader
  <1>13. Pending # << >> /\ Pending[1] = Head(line) /\ Pending' = Tail(Pending)
    BY <1>8, <1>10, <1>11, <1>12
  <1>14. LineShape'
    BY <1>1, <1>4 DEF LineShape
  <1>15. consume(Pending[1])
    BY <1>1, <1>13
  <1> QED BY <1>1, <1>13, <1>14, <1>15, ReaderMoves DEF LineInv

\* A timeout where nothing of the message that is next is read for good.
LEMMA AccountTimeout ==
    ASSUME NEW S, NEW k \in Nat, NEW g, NEW t, NEW n, Account(S, k, g, t, n), NEW u
    PROVE  Account(S, k, g, u, n + 1)
  <1>1. n \in Nat /\ Cardinality(Missed(k, g, t)) <= n
    BY DEF Account
  <1>2. IsFiniteSet(Missed(k, g, t))
    <2>1. Missed(k, g, t) \subseteq 1..(k + 1)
      BY DEF Missed
    <2>2. k + 1 \in Int /\ IsFiniteSet(1..(k + 1))
      BY FS_Interval
    <2> QED BY <2>1, <2>2, FS_Subset
  <1> DEFINE M == Missed(k, g, t) \cup {k + 1}
  <1>3. IsFiniteSet(M) /\ Cardinality(M) \in Nat /\ Cardinality(M) <= n + 1
    <2>1. /\ IsFiniteSet(M)
          /\ Cardinality(M) = IF k + 1 \in Missed(k, g, t) THEN Cardinality(Missed(k, g, t))
                              ELSE Cardinality(Missed(k, g, t)) + 1
      BY <1>2, FS_AddElement
    <2>2. Cardinality(Missed(k, g, t)) \in Nat
      BY <1>2, FS_CardinalityType
    <2> QED BY <1>1, <2>1, <2>2
  <1>4. Missed(k, g, u) \subseteq M
    BY DEF Missed
  <1>5. Cardinality(Missed(k, g, u)) <= n + 1
    <2>1. Cardinality(Missed(k, g, u)) \in Nat /\ Cardinality(Missed(k, g, u)) <= Cardinality(M)
      BY <1>3, <1>4, FS_Subset, FS_CardinalityType
    <2> QED BY <1>1, <1>3, <2>1
  <1>6. n + 1 \in Nat /\ n + 1 # 0
    BY <1>1
  <1> QED BY <1>5, <1>6 DEF Account

\* What a timeout takes from the reader, if it has something.
LEMMA ReaderAtTimeout ==
    ASSUME NEW S, NEW k, NEW P, Stream(S, k, P), Sized(S), Len(S) \in Nat,
           NEW r, NEW t, ReaderAt(S, P, r, t), NEW u, u = (t \/ r.length > 0)
    PROVE  ReaderAt(S, P, Start, u)
  <1>1. Start.length = 0 /\ Start.value = 0 /\ Start = Continued(Start.value, Start.length)
    <2>1. Start.length = 0 /\ Start.value = 0
      BY DEF Start
    <2> QED BY <2>1, StartReads
  <1>2. CASE P = << >> \/ P[1].at = 1
    <2>1. r = Start /\ ~t
      BY <1>2 DEF ReaderAt
    <2>2. ~u
      <3>1. ~(r.length > 0)
        BY <1>1, <2>1
      <3> QED BY <2>1, <3>1, Zenon
    <2> QED BY <1>2, <2>2 DEF ReaderAt
  <1>3. CASE ~(P = << >> \/ P[1].at = 1)
    <2>1. /\ t \in BOOLEAN /\ (~t => r = Prefix(S[P[1].of], P[1].at - 1))
      BY <1>3 DEF ReaderAt
    <2>2. P[1].at \in Nat /\ P[1].at > 1
      <3>1. 1 \in 1..Len(P)
        BY <1>3, EmptySeq DEF Stream
      <3>2. ByteOf(S, k, P[1]) /\ k \in 0..Len(S)
        BY <3>1 DEF Stream
      <3>3. P[1].of \in (k + 1)..Len(S) /\ P[1].at \in 1..Size(S, P[1].of)
        BY <1>3, <3>2 DEF ByteOf
      <3>4. P[1].of \in 1..Len(S)
        BY <3>2, <3>3
      <3>5. Size(S, P[1].of) \in 1..6
        BY <3>4 DEF Sized
      <3> QED BY <1>3, <3>3, <3>5
    <2>3. u = TRUE
      <3>1. CASE t = TRUE
        BY <3>1, Zenon
      <3>2. CASE t = FALSE
        <4>1. r = Prefix(S[P[1].of], P[1].at - 1)
          BY <2>1, <3>2
        <4>2. r.length = P[1].at - 1
          BY <4>1 DEF Prefix, Mid, Continued
        <4>3. r.length > 0
          BY <2>2, <4>2
        <4> QED BY <4>3, Zenon
      <3> QED BY <2>1, <3>1, <3>2
    <2>4. Start.length \in 0..(P[1].at - 1) /\ Start.value \in Int
      BY <1>1, <2>2
    <2> QED BY <1>1, <1>3, <2>3, <2>4 DEF ReaderAt
  <1> QED BY <1>2, <1>3

\* No byte is taken; the beginning of a message may be lost.
LEMMA TimeoutKeeps ==
    ASSUME ValuesFit, LineInv, tty_read_timeout
    PROVE  LineInv'
  <1>1. /\ LineShape /\ read_pos >= Len(read_buffer)
        /\ timeouts' = timeouts + 1 /\ read_pos' = read_pos + 1
        /\ reading' = Start /\ torn' = (torn \/ reading.length > 0)
        /\ UNCHANGED <<todo, write_buffer, flushing, sent, events, line, read_buffer, got>>
    BY DEF LineInv, tty_read_timeout, BufferEmpty, writerVars
  <1>2. PICK k : ReaderSound(sent, k, Pending, reading, torn, got, timeouts)
    BY DEF LineInv
  <1>3. /\ read_buffer \in Seq(TByte) /\ read_pos \in Nat /\ Len(read_buffer) \in Nat
        /\ sent \in Seq(Data) /\ Len(sent) \in Nat
    BY <1>1 DEF LineShape
  <1>4. Rest = << >> /\ Rest' = << >>
    <2>1. /\ read_pos + 1 \in Int /\ Len(read_buffer) \in Int /\ Len(read_buffer) < read_pos + 1
      BY <1>1, <1>3
    <2>2. read_pos + 1 + 1 \in Int /\ Len(read_buffer) < read_pos + 1 + 1
      BY <1>1, <1>3
    <2>3. SubSeq(read_buffer, read_pos + 1, Len(read_buffer)) = << >>
      BY <2>1, SubSeqEmpty
    <2>4. SubSeq(read_buffer, read_pos + 1 + 1, Len(read_buffer)) = << >>
      BY <2>1, <2>2, SubSeqEmpty
    <2> QED BY <1>1, <2>3, <2>4 DEF Rest
  <1>5. Pending' = Pending
    BY <1>1, <1>4 DEF Pending, Rest
  <1>6. /\ Stream(sent, k, Pending) /\ ReaderAt(sent, Pending, reading, torn)
        /\ Account(sent, k, got, torn, timeouts)
        /\ \E E : got \in Seq(E)
    BY <1>2 DEF ReaderSound
  <1>7. ReaderAt(sent, Pending, Start, torn')
    <2>1. Sized(sent)
      BY <1>3, SentSized
    <2> QED BY <1>1, <1>3, <1>6, <2>1, ReaderAtTimeout
  <1>8. Account(sent, k, got, torn', timeouts + 1)
    <2>1. k \in Nat
      BY <1>3, <1>6 DEF Stream
    <2> QED BY <1>6, <2>1, AccountTimeout
  <1>9. ReaderSound(sent, k, Pending, Start, torn', got, timeouts + 1)
    BY <1>6, <1>7, <1>8 DEF ReaderSound
  <1>10. LineShape'
    BY <1>1, <1>3 DEF LineShape
  <1> DEFINE P2 == Pending'
  <1>11. P2 = Pending
    BY <1>5
  <1> HIDE DEF P2
  <1>12. ReaderSound(sent', k, P2, reading', torn', got', timeouts')
    BY <1>1, <1>9, <1>11
  <1> QED BY <1>10, <1>12 DEF LineInv, P2

\* Every step keeps the invariant.
LEMMA LineStep ==
    ASSUME ValuesFit, LineInv, [Next]_vars
    PROVE  LineInv'
  <1>1. ASSUME NEW d \in Data, write_message(d) PROVE LineInv'
    BY <1>1, WriteMessageKeeps
  <1>2. CASE tty_write
    BY <1>2, WriteKeeps
  <1>3. ASSUME NEW n \in 1..Len(write_buffer), flush_some(n) PROVE LineInv'
    BY <1>3, FlushKeeps
  <1>4. CASE adapter_event
    BY <1>4, EventKeeps
  <1>5. CASE tty_read
    BY <1>5, ReadKeeps
  <1>6. CASE tty_read_fill
    BY <1>6, FillKeeps
  <1>7. CASE tty_read_timeout
    BY <1>7, TimeoutKeeps
  <1>8. CASE UNCHANGED vars
    <2>1. Pending' = Pending /\ LineShape'
      BY <1>8 DEF vars, writerVars, readerVars, Pending, LineInv, LineShape
    <2>2. UNCHANGED <<sent, reading, torn, got, timeouts>>
      BY <1>8 DEF vars, writerVars, readerVars
    <2> QED BY <2>1, <2>2, ReaderSame DEF LineInv
  <1> QED BY <1>1, <1>2, <1>3, <1>4, <1>5, <1>6, <1>7, <1>8 DEF Next, WriterStep, ReaderStep

\* The invariant of the line.
LEMMA LineInvariance ==
    ASSUME ValuesFit
    PROVE  Spec => []LineInv
  <1>1. Init => LineInv
    BY LineStart
  <1>2. LineInv /\ [Next]_vars => LineInv'
    BY LineStep
  <1> QED BY <1>1, <1>2, PTL DEF Spec

-----------------------------------------------------------------------------
(* The properties *)

\* A byte of a concatenation is a byte of one of the two.
LEMMA ConcatElement ==
    ASSUME NEW s \in Seq(TByte), NEW t \in Seq(TByte), NEW i \in 1..Len(s \o t)
    PROVE  \/ \E j \in 1..Len(s) : s[j] = (s \o t)[i]
           \/ \E j \in 1..Len(t) : t[j] = (s \o t)[i]
  <1>1. Len(s) \in Nat /\ Len(t) \in Nat
    BY LenProperties
  <1>2. /\ i \in 1..Len(s) + Len(t)
        /\ (s \o t)[i] = IF i <= Len(s) THEN s[i] ELSE t[i - Len(s)]
    BY ConcatProperties
  <1>3. CASE i <= Len(s)
    <2>1. i \in 1..Len(s)
      BY <1>1, <1>2, <1>3
    <2> QED BY <1>2, <1>3, <2>1
  <1>4. CASE ~(i <= Len(s))
    <2>1. i - Len(s) \in 1..Len(t)
      BY <1>1, <1>2, <1>4
    <2> QED BY <1>2, <1>4, <2>1
  <1> QED BY <1>3, <1>4

\* The byte p is in one of the four buffers.
InBuffers(x, l, w, t, p) ==
    \E bytes \in {t, w, l, x} : \E j \in 1..Len(bytes) : bytes[j] = p

\* A pending byte is in one of the four buffers.
LEMMA HeldElement ==
    ASSUME NEW x \in Seq(TByte), NEW l \in Seq(TByte), NEW w \in Seq(TByte), NEW t \in Seq(TByte),
           NEW i \in 1..Len(Held(x, l, w, t))
    PROVE  InBuffers(x, l, w, t, Held(x, l, w, t)[i])
  <1> DEFINE Among(s, e) == \E j \in 1..Len(s) : s[j] = e
  <1>1. PICK y \in Seq(TByte) : y = x \o l
    BY ConcatTypes
  <1>2. PICK z \in Seq(TByte) : z = y \o w
    BY ConcatTypes
  <1>3. Held(x, l, w, t) = z \o t
    BY <1>1, <1>2 DEF Held
  <1> DEFINE e == (z \o t)[i]
  <1>4. Among(z, e) \/ Among(t, e)
    <2>1. i \in 1..Len(z \o t)
      BY <1>3
    <2> QED BY <2>1, ConcatElement
  <1>5. \A f : Among(z, f) => Among(y, f) \/ Among(w, f)
    <2>1. SUFFICES ASSUME NEW j \in 1..Len(y \o w) PROVE Among(y, (y \o w)[j]) \/ Among(w, (y \o w)[j])
      BY <1>2
    <2> QED BY ConcatElement
  <1>6. \A f : Among(y, f) => Among(x, f) \/ Among(l, f)
    <2>1. SUFFICES ASSUME NEW j \in 1..Len(x \o l) PROVE Among(x, (x \o l)[j]) \/ Among(l, (x \o l)[j])
      BY <1>1
    <2> QED BY ConcatElement
  <1> HIDE DEF e
  <1>7. \E bytes \in {t, w, l, x} : Among(bytes, e)
    <2> HIDE DEF Among
    <2> QED BY <1>4, <1>5, <1>6
  <1> QED BY <1>3, <1>7 DEF e, InBuffers

\* The messages that are passed are among the first k.
LEMMA PassedCounted ==
    ASSUME LineShape, NEW k, Stream(sent, k, Pending), NEW m \in Passed
    PROVE  m \in 1..k
  <1>1. /\ m \in 1..Len(sent)
        /\ \A bytes \in {todo, write_buffer, line, Rest} : \A i \in 1..Len(bytes) : bytes[i].of # m
    BY DEF Passed, Rest
  <1>2. k \in 0..Len(sent) /\ Len(sent) \in Nat
    BY DEF Stream, LineShape
  <1>3. CASE m \in (k + 1)..Len(sent)
    <2>1. PICK i \in 1..Len(Pending) : Pending[i].of = m
      BY <1>3 DEF Stream
    <2>2. Pending = Held(Rest, line, write_buffer, todo)
      BY PendingHeld
    <2>3. /\ Rest \in Seq(TByte) /\ line \in Seq(TByte)
          /\ write_buffer \in Seq(TByte) /\ todo \in Seq(TByte)
      BY RestType DEF LineShape
    <2>4. i \in 1..Len(Held(Rest, line, write_buffer, todo))
      BY <2>2
    <2>5. InBuffers(Rest, line, write_buffer, todo, Held(Rest, line, write_buffer, todo)[i])
      BY <2>3, <2>4, HeldElement
    <2> QED BY <1>1, <2>1, <2>2, <2>5 DEF InBuffers
  <1> QED BY <1>1, <1>2, <1>3

\* Whatever the buffer size, the lengths of the messages and the timeouts: a read
\* that no timeout interrupted returns the message that was written, and the reads
\* are in the order of the writes.
THEOREM CleanReadsCorrect ==
    ASSUME ValuesFit
    PROVE  Spec => []CleanReadsExact
  <1>1. ASSUME LineInv PROVE CleanReadsExact
    <2>1. PICK k : ReaderSound(sent, k, Pending, reading, torn, got, timeouts)
      BY <1>1 DEF LineInv
    <2>2. Account(sent, k, got, torn, timeouts)
      BY <2>1 DEF ReaderSound
    <2> QED BY <2>2 DEF Account, CleanReadsExact
  <1> QED BY <1>1, LineInvariance, PTL

\* A timeout costs no more than the message it interrupts, however many there are
\* and wherever they fall.
THEOREM TimeoutsCorrect ==
    ASSUME ValuesFit
    PROVE  Spec => []TimeoutCostsOneMessage
  <1>1. ASSUME LineInv PROVE TimeoutCostsOneMessage
    <2>1. PICK k : ReaderSound(sent, k, Pending, reading, torn, got, timeouts)
      BY <1>1 DEF LineInv
    <2>2. /\ Stream(sent, k, Pending) /\ Account(sent, k, got, torn, timeouts)
          /\ LineShape /\ Len(sent) \in Nat
      BY <1>1, <2>1 DEF ReaderSound, LineInv, LineShape
    <2> DEFINE lost == {m \in Passed : ~ \E i \in 1..Len(got) : got[i].of = m /\ got[i].clean}
    <2>3. k \in Nat
      BY <2>2 DEF Stream
    <2>4. lost \subseteq Missed(k, got, torn)
      <3>1. ASSUME NEW m \in lost PROVE m \in Missed(k, got, torn)
        <4>1. m \in 1..k
          BY <2>2, PassedCounted
        <4> QED BY <4>1 DEF Missed
      <3> QED BY <3>1
    <2>5. timeouts \in Nat /\ Cardinality(Missed(k, got, torn)) <= timeouts
      BY <2>2 DEF Account
    <2>6. Cardinality(lost) <= timeouts
      BY <2>3, <2>4, <2>5, FewerMissed
    <2> QED BY <2>6 DEF TimeoutCostsOneMessage
  <1> QED BY <1>1, LineInvariance, PTL

-----------------------------------------------------------------------------
(* The buffers *)

\* A read that is not finished has had at most five continuation bytes.
Reading == [status : {"more"}, kind : {"invalid"}, index : {0}, value : Nat, length : 0..5]

\* A byte is put where there is room for it: between two bytes the write buffer
\* is not full, because a full one is flushed to its end first.
BuffersInv ==
    /\ TypeOK /\ reading \in Reading
    /\ ~flushing => Len(write_buffer) < BufferSize

\* A conditional byte of serial2002_write is one byte or none.
LEMMA LeadingType ==
    ASSUME NEW v \in Nat, NEW shift \in {30, 23, 16, 9}, NEW width \in {4, 128}
    PROVE  Leading(v, shift, width) \in Seq(Byte) /\ Len(Leading(v, shift, width)) \in 0..1
<1>a. \E j \in 1..6 : Units[j] = 2 ^ shift
  <2>1. CASE shift = 30
    BY <2>1, PowersOfTwo
  <2>2. CASE shift = 23
    BY <2>2, PowersOfTwo
  <2>3. CASE shift = 16
    BY <2>3, PowersOfTwo
  <2>4. CASE shift = 9
    BY <2>4, PowersOfTwo
  <2> QED BY <2>1, <2>2, <2>3, <2>4
<1> PICK d \in Nat \ {0} : d = 2 ^ shift
  BY <1>a, UnitFacts
<1> DEFINE b == 128 + ((v \div d) % width)
<1>1. b \in Byte
  <2>1. v \div d \in Nat
    OBVIOUS
  <2>2. CASE width = 4
    BY <2>1, <2>2 DEF Byte
  <2>3. CASE width = 128
    BY <2>1, <2>3 DEF Byte
  <2> QED BY <2>2, <2>3
<1> HIDE DEF b
<1>2. <<b>> \in Seq(Byte) /\ Len(<<b>>) = 1 /\ << >> \in Seq(Byte) /\ Len(<< >>) = 0
  BY <1>1
<1>3. Leading(v, shift, width) = <<b>> \/ Leading(v, shift, width) = << >>
  BY DEF Leading, b
<1> PICK w : w = Leading(v, shift, width)
  OBVIOUS
<1>4. w \in Seq(Byte) /\ Len(w) \in 0..1
  <2>1. CASE w = <<b>>
    BY <1>2, <2>1
  <2>2. CASE w = << >>
    BY <1>2, <2>2
  <2> QED BY <1>3, <2>1, <2>2
<1> QED BY <1>4

LEMMA SumOfBits ==
    ASSUME NEW n1 \in 0..1, NEW n2 \in 0..1, NEW n3 \in 0..1, NEW n4 \in 0..1
    PROVE  n1 + n2 + n3 + n4 + 2 \in 1..6
  OBVIOUS

\* Every message has one to six bytes; also one whose value does not fit.
LEMMA WrittenBytes ==
    ASSUME NEW d \in Data
    PROVE  serial2002_write(d) \in Seq(Byte) /\ Len(serial2002_write(d)) \in 1..6
<1>1. d.kind \in {"digital", "channel"} /\ d.index \in 0..31 /\ d.value \in Nat
  BY DataAssumption DEF Index
<1> PICK v \in Nat : v = d.value
  BY <1>1
<1> PICK x \in 0..31 : x = d.index
  BY <1>1
<1>2. CASE d.kind = "digital"
  <2> DEFINE b == 32 * (v % 2) + x
  <2>1. b \in Byte
    BY DEF Byte
  <2> HIDE DEF b
  <2>2. serial2002_write(d) = <<b>>
    BY <1>2 DEF serial2002_write, b
  <2> QED BY <2>1, <2>2
<1>3. CASE d.kind = "channel"
  <2> DEFINE b == 128 + ((v \div 4) % 128)
             c == 32 * (v % 4) + x
  <2>1. b \in Byte /\ c \in Byte
    BY DEF Byte
  <2> HIDE DEF b, c
  <2>2. <<b, c>> \in Seq(Byte) /\ Len(<<b, c>>) = 2
    BY <2>1
  <2>3. Leading(v, 30, 4) \in Seq(Byte) /\ Len(Leading(v, 30, 4)) \in 0..1
    BY LeadingType
  <2>4. Leading(v, 23, 128) \in Seq(Byte) /\ Len(Leading(v, 23, 128)) \in 0..1
    BY LeadingType
  <2>5. Leading(v, 16, 128) \in Seq(Byte) /\ Len(Leading(v, 16, 128)) \in 0..1
    BY LeadingType
  <2>6. Leading(v, 9, 128) \in Seq(Byte) /\ Len(Leading(v, 9, 128)) \in 0..1
    BY LeadingType
  <2>7. \A p, q \in Seq(Byte) : p \o q \in Seq(Byte) /\ Len(p \o q) = Len(p) + Len(q)
                                /\ Len(p) \in Nat
    BY ConcatTypes
  <2>8. ASSUME NEW p \in Seq(Byte), NEW q \in Seq(Byte), NEW r \in Seq(Byte), NEW s \in Seq(Byte),
               NEW t \in Seq(Byte), Len(t) = 2,
               Len(p) \in 0..1, Len(q) \in 0..1, Len(r) \in 0..1, Len(s) \in 0..1
        PROVE  p \o q \o r \o s \o t \in Seq(Byte) /\ Len(p \o q \o r \o s \o t) \in 1..6
    <3>1. p \o q \in Seq(Byte) /\ Len(p \o q) = Len(p) + Len(q)
      BY <2>7
    <3>2. p \o q \o r \in Seq(Byte) /\ Len(p \o q \o r) = Len(p \o q) + Len(r)
      BY <2>7, <3>1
    <3>3. p \o q \o r \o s \in Seq(Byte) /\ Len(p \o q \o r \o s) = Len(p \o q \o r) + Len(s)
      BY <2>7, <3>2
    <3>4. /\ p \o q \o r \o s \o t \in Seq(Byte)
          /\ Len(p \o q \o r \o s \o t) = Len(p \o q \o r \o s) + Len(t)
      BY <2>7, <3>3
    <3> PICK n1, n2, n3, n4 \in 0..1 : n1 = Len(p) /\ n2 = Len(q) /\ n3 = Len(r) /\ n4 = Len(s)
      BY <2>8
    <3>5. Len(p \o q \o r \o s \o t) = n1 + n2 + n3 + n4 + 2
      BY <2>8, <3>1, <3>2, <3>3, <3>4
    <3>6. n1 + n2 + n3 + n4 + 2 \in 1..6
      BY SumOfBits
    <3> QED BY <3>4, <3>5, <3>6
  <2>9. serial2002_write(d) = Leading(v, 30, 4) \o Leading(v, 23, 128) \o Leading(v, 16, 128)
                                \o Leading(v, 9, 128) \o <<b, c>>
    BY <1>3 DEF serial2002_write, b, c
  <2>a. PICK p, q, r, s, t :
         /\ p = Leading(v, 30, 4) /\ q = Leading(v, 23, 128) /\ r = Leading(v, 16, 128)
         /\ s = Leading(v, 9, 128) /\ t = <<b, c>>
    OBVIOUS
  <2>10. p \o q \o r \o s \o t \in Seq(Byte) /\ Len(p \o q \o r \o s \o t) \in 1..6
    <3>1. p \in Seq(Byte) /\ Len(p) \in 0..1
      BY <2>a, <2>3
    <3>2. q \in Seq(Byte) /\ Len(q) \in 0..1
      BY <2>a, <2>4
    <3>3. r \in Seq(Byte) /\ Len(r) \in 0..1
      BY <2>a, <2>5
    <3>4. s \in Seq(Byte) /\ Len(s) \in 0..1
      BY <2>a, <2>6
    <3>5. t \in Seq(Byte) /\ Len(t) = 2
      BY <2>a, <2>2
    <3> QED BY <2>8, <3>1, <3>2, <3>3, <3>4, <3>5
  <2> QED BY <2>a, <2>9, <2>10
<1> QED BY <1>1, <1>2, <1>3

\* The bytes of the n-th message.
LEMMA TaggedType ==
    ASSUME NEW w \in Seq(Byte), Len(w) \in 1..6, NEW n \in 0..MaxMessages
    PROVE  Tagged(w, n) \in Seq(TaggedByte)
<1>1. \A i \in 1..Len(w) : [b |-> w[i], of |-> n, at |-> i] \in TaggedByte
  <2>1. ASSUME NEW i \in 1..Len(w) PROVE [b |-> w[i], of |-> n, at |-> i] \in TaggedByte
    <3>1. w[i] \in Byte /\ i \in 1..6
      BY ElementOfSeq
    <3> QED BY <3>1 DEF TaggedByte
  <2> QED BY <2>1
<1>2. Len(w) \in Nat
  OBVIOUS
<1> QED BY <1>1, <1>2, SMT DEF Tagged

\* What a read that goes on has.
LEMMA ReadingGoesOn ==
    ASSUME NEW r \in Reading, NEW b \in Byte, read_byte(r, b).status = "more"
    PROVE  read_byte(r, b) \in Reading
<1>1. Start \in Reading
  BY DEF Start, Reading
<1>2. CASE Continues(b)
  <2>1. read_byte(r, b) = continuation(r, b)
    BY <1>2 DEF read_byte
  <2>2. CASE r.length < 5
    <3>1. b % 128 \in Nat
      BY DEF Byte
    <3>2. 128 * r.value + (b % 128) \in Nat /\ r.length + 1 \in 0..5
      BY <2>2, <3>1 DEF Reading
    <3> QED BY <2>1, <2>2, <3>2 DEF continuation, Reading
  <2>3. CASE ~(r.length < 5)
    BY <2>1, <2>3 DEF continuation, Failed, Start
  <2> QED BY <2>2, <2>3
<1>3. CASE ~Continues(b) /\ r.length = 0
  <2>1. read_byte(r, b) = first_byte(b)
    BY <1>3 DEF read_byte
  <2> QED BY <1>1, <2>1 DEF first_byte, Failed, Start
<1>4. CASE ~Continues(b) /\ r.length # 0
  BY <1>4 DEF read_byte, last_byte, Reading
<1> QED BY <1>2, <1>3, <1>4

LEMMA ConsumeTypes ==
    ASSUME reading \in Reading, NEW p \in TaggedByte, consume(p)
    PROVE  reading' \in Reading /\ torn' \in BOOLEAN
<1>1. p.b \in Byte
  BY DEF TaggedByte
<1>2. Start \in Reading
  BY DEF Start, Reading
<1>3. reading' = IF read_byte(reading, p.b).status = "more" THEN read_byte(reading, p.b) ELSE Start
  BY DEF consume
<1>4. reading' \in Reading
  BY <1>1, <1>2, <1>3, ReadingGoesOn
<1>5. torn' = (torn /\ Continues(p.b))
  BY DEF consume
<1>6. torn' \in BOOLEAN
  BY <1>5, Zenon
<1> QED BY <1>4, <1>6

\* Parts of a sequence.
LEMMA PartTypes ==
    ASSUME NEW E, NEW s \in Seq(E), NEW n \in 0..Len(s)
    PROVE  /\ SubSeq(s, 1, n) \in Seq(E) /\ Len(SubSeq(s, 1, n)) = n
           /\ SubSeq(s, n + 1, Len(s)) \in Seq(E) /\ Len(SubSeq(s, n + 1, Len(s))) = Len(s) - n
<1>1. Len(s) \in Nat /\ n \in Int /\ n + 1 \in Int
  OBVIOUS
<1>2. \A i \in 1..Len(s) : s[i] \in E
  BY ElementOfSeq
<1>3. SubSeq(s, 1, n) \in Seq(E) /\ Len(SubSeq(s, 1, n)) = n
  <2>1. \A i \in 1..n : s[i] \in E
    BY <1>1, <1>2
  <2>2. SubSeq(s, 1, n) \in Seq(E) /\ Len(SubSeq(s, 1, n)) = IF 1 <= n THEN n - 1 + 1 ELSE 0
    BY <1>1, <2>1, SubSeqProperties
  <2> QED BY <1>1, <2>2
<1>4. SubSeq(s, n + 1, Len(s)) \in Seq(E) /\ Len(SubSeq(s, n + 1, Len(s))) = Len(s) - n
  <2>1. \A i \in (n + 1)..Len(s) : s[i] \in E
    BY <1>1, <1>2
  <2>2. /\ SubSeq(s, n + 1, Len(s)) \in Seq(E)
        /\ Len(SubSeq(s, n + 1, Len(s))) = IF n + 1 <= Len(s) THEN Len(s) - (n + 1) + 1 ELSE 0
    BY <1>1, <2>1, SubSeqProperties
  <2> QED BY <1>1, <2>2
<1> QED BY <1>3, <1>4

\* The variables of the writer, of the reader, and those both have.
WriterTypes ==
    /\ todo \in Seq(TaggedByte) /\ write_buffer \in Seq(TaggedByte)
    /\ flushing \in BOOLEAN /\ Len(write_buffer) <= BufferSize
    /\ ~flushing => Len(write_buffer) < BufferSize
    /\ sent \in Seq(Data) /\ events \in 0..MaxEvents

ReaderTypes ==
    /\ read_buffer \in Seq(TaggedByte) /\ Len(read_buffer) <= BufferSize
    /\ read_pos \in Nat /\ reading \in Reading /\ torn \in BOOLEAN
    /\ timeouts \in 0..MaxTimeouts

LEMMA BuffersParts == BuffersInv <=> WriterTypes /\ ReaderTypes /\ line \in Seq(TaggedByte)
<1>1. reading \in Reading => reading.length \in 0..5 /\ reading.value \in Nat
  BY DEF Reading
<1> QED BY <1>1 DEF BuffersInv, TypeOK, WriterTypes, ReaderTypes

LEMMA BuffersStart == Init => BuffersInv
<1> SUFFICES ASSUME Init PROVE BuffersInv
  OBVIOUS
<1>1. << >> \in Seq(TaggedByte) /\ << >> \in Seq(Data) /\ Len(<< >>) = 0
  OBVIOUS
<1>2. BufferSize \in Nat /\ 0 < BufferSize
  BY BufferAssumption
<1>3. Start \in Reading /\ Start.length \in 0..5 /\ Start.value \in Nat
  BY DEF Start, Reading
<1>4. /\ todo \in Seq(TaggedByte) /\ write_buffer \in Seq(TaggedByte)
      /\ line \in Seq(TaggedByte) /\ read_buffer \in Seq(TaggedByte)
  BY <1>1 DEF Init
<1>5. Len(write_buffer) = 0 /\ Len(read_buffer) = 0
  BY <1>1 DEF Init
<1>6. reading = Start /\ flushing = FALSE /\ torn = FALSE /\ sent = << >> /\ read_pos = 0
  BY DEF Init
<1>7. timeouts \in 0..MaxTimeouts /\ events \in 0..MaxEvents
  BY BoundsAssumption DEF Init
<1>8. WriterTypes
  <2>1. sent \in Seq(Data) /\ flushing \in BOOLEAN
    BY <1>1, <1>6
  <2>2. Len(write_buffer) <= BufferSize /\ Len(write_buffer) < BufferSize
    BY <1>2, <1>5
  <2> QED BY <1>4, <1>7, <2>1, <2>2 DEF WriterTypes
<1>9. ReaderTypes
  <2>1. read_pos \in Nat /\ reading \in Reading /\ torn \in BOOLEAN
    BY <1>3, <1>6
  <2>2. Len(read_buffer) <= BufferSize
    BY <1>2, <1>5
  <2> QED BY <1>4, <1>7, <2>1, <2>2 DEF ReaderTypes
<1> QED BY <1>4, <1>8, <1>9, BuffersParts

LEMMA WriterSame == WriterTypes /\ UNCHANGED writerVars => WriterTypes'
  BY DEF WriterTypes, writerVars

LEMMA ReaderTypesSame == ReaderTypes /\ UNCHANGED readerVars => ReaderTypes'
  BY DEF ReaderTypes, readerVars

LEMMA BuffersStep == BuffersInv /\ [Next]_vars => BuffersInv'
<1> SUFFICES ASSUME WriterTypes, ReaderTypes, line \in Seq(TaggedByte), [Next]_vars
             PROVE  WriterTypes' /\ ReaderTypes' /\ line' \in Seq(TaggedByte)
  <2>1. BuffersInv => WriterTypes /\ ReaderTypes /\ line \in Seq(TaggedByte)
    BY BuffersParts
  <2>2. (WriterTypes /\ ReaderTypes /\ line \in Seq(TaggedByte))' => BuffersInv'
    BY BuffersParts, PTL
  <2> QED BY <2>1, <2>2
<1>b. BufferSize \in Nat \ {0}
  BY BufferAssumption
<1>1. ASSUME NEW d \in Data, write_message(d)
      PROVE  WriterTypes' /\ ReaderTypes' /\ line' \in Seq(TaggedByte)
  <2>1. ReaderTypes' /\ line' = line
    BY <1>1, ReaderTypesSame DEF write_message
  <2>2. Len(sent) + 1 \in 0..MaxMessages
    BY <1>1, BoundsAssumption DEF write_message, WriterTypes
  <2>3. Tagged(serial2002_write(d), Len(sent) + 1) \in Seq(TaggedByte)
    BY <2>2, WrittenBytes, TaggedType
  <2>4. Append(sent, d) \in Seq(Data)
    BY DEF WriterTypes
  <2> QED BY <1>1, <2>1, <2>3, <2>4 DEF write_message, WriterTypes
<1>2. ASSUME tty_write
      PROVE  WriterTypes' /\ ReaderTypes' /\ line' \in Seq(TaggedByte)
  <2>1. ReaderTypes' /\ line' = line
    BY <1>2, ReaderTypesSame DEF tty_write
  <2>2. todo \in Seq(TaggedByte) /\ todo # << >> /\ write_buffer \in Seq(TaggedByte)
    BY <1>2 DEF tty_write, WriterTypes
  <2>3. Tail(todo) \in Seq(TaggedByte) /\ Append(write_buffer, Head(todo)) \in Seq(TaggedByte)
        /\ Len(Append(write_buffer, Head(todo))) = Len(write_buffer) + 1
    BY <2>2, HeadTailProperties, AppendProperties
  <2>4. write_buffer' = Append(write_buffer, Head(todo)) /\ todo' = Tail(todo)
        /\ sent' = sent /\ events' = events
    BY <1>2 DEF tty_write
  <2>5. Len(write_buffer') = Len(write_buffer) + 1 /\ Len(write_buffer) < BufferSize
        /\ Len(write_buffer) \in Nat
    BY <1>2, <2>2, <2>3, <2>4 DEF tty_write, WriterTypes
  <2>6. flushing' = (Len(write_buffer') >= BufferSize \/ todo' = << >>)
    BY <1>2 DEF tty_write
  <2>7. flushing' \in BOOLEAN
    BY <2>6, Zenon
  <2>8. ~flushing' => ~(Len(write_buffer') >= BufferSize)
    BY <2>6, Zenon
  <2>9. Len(write_buffer') <= BufferSize /\ (~flushing' => Len(write_buffer') < BufferSize)
    BY <1>b, <2>5, <2>8
  <2> QED BY <2>1, <2>3, <2>4, <2>7, <2>9 DEF WriterTypes
<1>3. ASSUME NEW n \in 1..Len(write_buffer), flush_some(n)
      PROVE  WriterTypes' /\ ReaderTypes' /\ line' \in Seq(TaggedByte)
  <2>1. ReaderTypes'
    BY <1>3, ReaderTypesSame DEF flush_some
  <2>2. write_buffer \in Seq(TaggedByte) /\ Len(write_buffer) \in Nat /\ n \in 0..Len(write_buffer)
    BY DEF WriterTypes
  <2>3. /\ SubSeq(write_buffer, 1, n) \in Seq(TaggedByte)
        /\ SubSeq(write_buffer, n + 1, Len(write_buffer)) \in Seq(TaggedByte)
        /\ Len(SubSeq(write_buffer, n + 1, Len(write_buffer))) = Len(write_buffer) - n
    BY <2>2, PartTypes
  <2>4. /\ write_buffer' = SubSeq(write_buffer, n + 1, Len(write_buffer))
        /\ line' = line \o SubSeq(write_buffer, 1, n)
        /\ UNCHANGED <<todo, sent, events>>
    BY <1>3 DEF flush_some
  <2>5. line' \in Seq(TaggedByte)
    BY <2>3, <2>4, ConcatTypes
  <2>6. flushing' = (write_buffer' # << >>)
    BY <1>3 DEF flush_some
  <2>7. flushing' \in BOOLEAN /\ (~flushing' => write_buffer' = << >>)
    BY <2>6, Zenon
  <2>8. Len(write_buffer') <= BufferSize /\ Len(write_buffer') < BufferSize
    <3>1. Len(write_buffer) <= BufferSize
      BY DEF WriterTypes
    <3> QED BY <1>b, <2>2, <2>3, <2>4, <3>1
  <2> QED BY <2>1, <2>3, <2>4, <2>5, <2>7, <2>8 DEF WriterTypes
<1>4. ASSUME adapter_event
      PROVE  WriterTypes' /\ ReaderTypes' /\ line' \in Seq(TaggedByte)
  <2>1. ReaderTypes'
    BY <1>4, ReaderTypesSame DEF adapter_event
  <2>2. <<EventCharacter>> \in Seq(Byte) /\ Len(<<EventCharacter>>) \in 1..6
    BY DEF EventCharacter, Byte
  <2>3. Tagged(<<EventCharacter>>, 0) \in Seq(TaggedByte)
    <3>1. 0 \in 0..MaxMessages
      BY BoundsAssumption
    <3>2. \A w \in Seq(Byte) : Len(w) \in 1..6 => Tagged(w, 0) \in Seq(TaggedByte)
      BY <3>1, TaggedType
    <3> QED BY <2>2, <3>2
  <2>4. line \o Tagged(<<EventCharacter>>, 0) \in Seq(TaggedByte)
    BY <2>3, ConcatTypes
  <2>5. events + 1 \in 0..MaxEvents
    BY <1>4, BoundsAssumption DEF adapter_event, WriterTypes
  <2> QED BY <1>4, <2>1, <2>4, <2>5 DEF adapter_event, WriterTypes
<1>5. ASSUME tty_read
      PROVE  WriterTypes' /\ ReaderTypes' /\ line' \in Seq(TaggedByte)
  <2>1. WriterTypes' /\ line' = line
    BY <1>5, WriterSame DEF tty_read
  <2>2. read_pos + 1 \in 1..Len(read_buffer)
    BY <1>5 DEF tty_read, BufferEmpty, ReaderTypes
  <2>3. read_buffer[read_pos + 1] \in TaggedByte
    BY <2>2, ElementOfSeq DEF ReaderTypes
  <2>4. reading' \in Reading /\ torn' \in BOOLEAN
    BY <1>5, <2>3, ConsumeTypes DEF tty_read, ReaderTypes
  <2> QED BY <1>5, <2>1, <2>4 DEF tty_read, ReaderTypes
<1>6. ASSUME tty_read_fill
      PROVE  WriterTypes' /\ ReaderTypes' /\ line' \in Seq(TaggedByte)
  <2>1. WriterTypes'
    BY <1>6, WriterSame DEF tty_read_fill
  <2>2. Len(line) \in Nat /\ Available \in 0..Len(line) /\ Available <= BufferSize
    BY <1>b DEF Available
  <2>3. /\ SubSeq(line, 1, Available) \in Seq(TaggedByte)
        /\ Len(SubSeq(line, 1, Available)) = Available
        /\ SubSeq(line, Available + 1, Len(line)) \in Seq(TaggedByte)
    BY <2>2, PartTypes
  <2>4. Head(line) \in TaggedByte
    BY <1>6, HeadTailProperties DEF tty_read_fill
  <2>5. reading' \in Reading /\ torn' \in BOOLEAN
    BY <1>6, <2>4, ConsumeTypes DEF tty_read_fill, ReaderTypes
  <2> QED BY <1>6, <2>1, <2>2, <2>3, <2>5 DEF tty_read_fill, ReaderTypes
<1>7. ASSUME tty_read_timeout
      PROVE  WriterTypes' /\ ReaderTypes' /\ line' \in Seq(TaggedByte)
  <2>1. WriterTypes' /\ line' = line
    BY <1>7, WriterSame DEF tty_read_timeout
  <2>2. timeouts + 1 \in 0..MaxTimeouts
    BY <1>7, BoundsAssumption DEF tty_read_timeout, ReaderTypes
  <2>3. torn' = (torn \/ reading.length > 0)
    BY <1>7 DEF tty_read_timeout
  <2>4. torn' \in BOOLEAN
    BY <2>3, Zenon
  <2>5. Start \in Reading
    BY DEF Start, Reading
  <2> QED BY <1>7, <2>1, <2>2, <2>4, <2>5 DEF tty_read_timeout, ReaderTypes
<1>8. CASE UNCHANGED vars
  BY <1>8, WriterSame, ReaderTypesSame DEF vars
<1> QED BY <1>1, <1>2, <1>3, <1>4, <1>5, <1>6, <1>7, <1>8 DEF Next, WriterStep, ReaderStep

\* TypeOK of SerialLine: no byte is put beyond a buffer, a message has no more bytes
\* than its number of continuation bytes allows, and a read no more than it can
\* count, whatever is written, also values that do not fit.
THEOREM BuffersCorrect == Spec => []TypeOK
<1>1. BuffersInv => TypeOK
  BY DEF BuffersInv
<1> QED BY <1>1, BuffersStart, BuffersStep, PTL DEF Spec

-----------------------------------------------------------------------------
(* The configuration *)

\* Of every non-empty finite set of numbers one is the greatest.
LEMMA GreatestNumber ==
    ASSUME NEW X, X \subseteq Int, IsFiniteSet(X)
    PROVE  \A T \in SUBSET X : T # {} => \E x \in T : \A y \in T : y <= x
  <1> DEFINE G == {T \in SUBSET X : T # {} => \E x \in T : \A y \in T : y <= x}
  <1>1. ASSUME NEW T \in SUBSET X, \A x \in T : T \ {x} \in G PROVE T \in G
    <2>1. CASE T = {}
      BY <2>1
    <2>2. CASE T # {}
      <3>1. PICK z \in T : TRUE
        BY <2>2
      <3>2. CASE T \ {z} = {}
        BY <3>1, <3>2
      <3>3. CASE T \ {z} # {}
        <4>1. PICK x \in T \ {z} : \A y \in T \ {z} : y <= x
          BY <1>1, <3>1, <3>3
        <4>2. x \in Int /\ z \in Int /\ \A y \in T : y \in Int
          BY <3>1, <4>1
        <4>3. CASE z <= x
          <5>1. \A y \in T : y <= x
            BY <4>1, <4>3
          <5> QED BY <4>1, <5>1
        <4>4. CASE x <= z
          <5>1. \A y \in T : y <= z
            BY <4>1, <4>2, <4>4
          <5> QED BY <3>1, <5>1
        <4> QED BY <4>2, <4>3, <4>4
      <3> QED BY <3>2, <3>3
    <2> QED BY <2>1, <2>2
  <1> HIDE DEF G
  <1>2. SUBSET X \subseteq G
    BY <1>1, FiniteInduction
  <1> QED BY <1>2 DEF G

\* The numbers below c.
Below(T, c) == {b \in T : b < c}

\* Every index of a finite set of numbers is the one of some number.
LEMMA IndexTaken ==
    ASSUME NEW X, X \subseteq Int, IsFiniteSet(X)
    PROVE  \A i \in 1..Cardinality(X) : \E c \in X : Cardinality(Below(X, c)) = i - 1
  <1> DEFINE G == {T \in SUBSET X :
                     \A i \in 1..Cardinality(T) : \E c \in T : Cardinality(Below(T, c)) = i - 1}
  <1>1. ASSUME NEW T \in SUBSET X, \A x \in T : T \ {x} \in G PROVE T \in G
    <2>1. SUFFICES ASSUME NEW i \in 1..Cardinality(T)
                   PROVE  \E c \in T : Cardinality(Below(T, c)) = i - 1
      OBVIOUS
    <2>2. IsFiniteSet(T) /\ Cardinality(T) \in Nat
      BY FS_Subset, FS_CardinalityType
    <2>3. T # {}
      BY <2>2, FS_EmptySet
    <2>4. PICK z \in T : \A y \in T : y <= z
      BY <2>3, GreatestNumber
    <2> DEFINE R == T \ {z}
    <2>5. IsFiniteSet(R) /\ Cardinality(R) = Cardinality(T) - 1
      BY <2>2, <2>4, FS_RemoveElement
    <2>6. CASE i = Cardinality(T)
      <3>1. Below(T, z) = R
        <4>1. z \in Int /\ \A y \in T : y \in Int
          BY <2>4
        <4>2. ASSUME NEW y \in T PROVE y < z <=> y # z
          BY <2>4, <4>1
        <4> QED BY <4>2 DEF Below
      <3> QED BY <2>4, <2>5, <2>6, <3>1
    <2>7. CASE i # Cardinality(T)
      <3>1. i \in 1..Cardinality(R)
        BY <2>2, <2>5, <2>7
      <3>2. R \in G
        BY <1>1, <2>4
      <3>3. PICK c \in R : Cardinality(Below(R, c)) = i - 1
        BY <3>1, <3>2
      <3>4. Below(T, c) = Below(R, c)
        <4>1. c \in Int /\ z \in Int /\ c <= z
          BY <2>4, <3>3
        <4> QED BY <4>1 DEF Below
      <3> QED BY <3>3, <3>4
    <2> QED BY <2>6, <2>7
  <1> HIDE DEF G
  <1>2. SUBSET X \subseteq G
    BY <1>1, FiniteInduction
  <1> QED BY <1>2 DEF G

\* A table of the driver has channels of the set it is made of.
LEMMA TableOfSet ==
    ASSUME NEW X, X \subseteq Channel
    PROVE  ToSet(InOrder(X)) \subseteq X
  <1>1. X \subseteq Int /\ IsFiniteSet(X)
    <2>1. \A a, b \in Int : IsFiniteSet(a..b)
      BY FS_Interval
    <2>2. PICK n \in Int : n = 30
      OBVIOUS
    <2>3. IsFiniteSet(0..n)
      BY <2>1
    <2>4. X \subseteq 0..n
      BY <2>2, ChannelAssumption
    <2>5. IsFiniteSet(X)
      BY <2>3, <2>4, FS_Subset
    <2> QED BY <2>4, <2>5
  <1>2. ASSUME NEW i \in 1..Cardinality(X) PROVE InOrder(X)[i] \in X
    <2>1. \E c \in X : Cardinality({b \in X : b < c}) = i - 1
      BY <1>1, IndexTaken DEF Below
    <2> QED BY <2>1 DEF InOrder
  <1>3. DOMAIN InOrder(X) = 1..Cardinality(X)
    BY DEF InOrder
  <1> QED BY <1>2, <1>3 DEF ToSet

\* What entries tell.
ToldBy(entries, kind, c) ==
    {e.cmd : e \in {f \in entries : f.kind = kind /\ f.channel = c}}

\* What is known of a channel is what was told of it, of the kind it has.
Known(ch, kinds, entries, c) ==
    \/ ch = Unset /\ \A k \in kinds : ToldBy(entries, k, c) = {}
    \/ ch.kind \in kinds /\ ch.valid = ToldBy(entries, ch.kind, c) /\ ch.valid # {}

\* Of every channel, and of the digital ones which there are.
ChannelsKnown ==
    /\ DOMAIN channel_in = Channel /\ DOMAIN channel_out = Channel
    /\ \A c \in Channel : Known(channel_in[c], {"analog_in", "counter_in"}, reported, c)
    /\ \A c \in Channel : Known(channel_out[c], {"analog_out"}, reported, c)
    /\ digital_in = Having("digital_in") /\ digital_out = Having("digital_out")
    /\ reported \subseteq Entries

\* An accepted configuration passed the check and is what the tables are made of.
AcceptedChecked ==
    phase = "accepted" => remap = Remapped /\ \A c \in Channel : ~check_fails(c)

ConfigInv == ChannelsKnown /\ AcceptedChecked

\* The invariant of the configuration at the start.
LEMMA ConfigStart == ConfigInit => ConfigInv
  <1> SUFFICES ASSUME ConfigInit PROVE ConfigInv
    OBVIOUS
  <1>1. \A k, c : Told(k, c) = {}
    BY DEF ConfigInit, Told
  <1>2. \A k : Having(k) = {}
    BY <1>1 DEF Having
  <1>3. /\ DOMAIN channel_in = Channel /\ DOMAIN channel_out = Channel
        /\ \A c \in Channel : channel_in[c] = Unset /\ channel_out[c] = Unset
        /\ digital_in = {} /\ digital_out = {} /\ reported = {} /\ phase = "reading"
    BY DEF ConfigInit
  <1>4. ChannelsKnown
    BY <1>1, <1>2, <1>3 DEF ChannelsKnown, Known, Told, ToldBy
  <1>5. AcceptedChecked
    BY <1>3 DEF AcceptedChecked
  <1> QED BY <1>4, <1>5 DEF ConfigInv

\* An entry tells one thing of one channel.
LEMMA EntryTells ==
    ASSUME NEW e \in Entries, entry(e)
    PROVE  /\ \A k, c : Told(k, c)' = Told(k, c) \cup
                            {x \in {e.cmd} : e.kind = k /\ e.channel = c}
           /\ \A k : Having(k)' = Having(k) \cup {c \in {e.channel} : e.kind = k}
           /\ e.channel \in Channel
  <1>1. e.channel \in Channel
    BY DEF Entries
  <1>2. reported' = reported \cup {e}
    BY DEF entry
  <1>3. ASSUME NEW k, NEW c
        PROVE  Told(k, c)' = Told(k, c) \cup {x \in {e.cmd} : e.kind = k /\ e.channel = c}
    BY <1>2 DEF Told
  <1>4. ASSUME NEW k PROVE Having(k)' = Having(k) \cup {c \in {e.channel} : e.kind = k}
    <2>1. ASSUME NEW c \in Channel
          PROVE  Told(k, c)' # {} <=> (Told(k, c) # {} \/ (e.kind = k /\ e.channel = c))
      BY <1>3
    <2>2. Having(k)' = {c \in Channel : Told(k, c)' # {}}
      BY DEF Having
    <2> QED BY <1>1, <2>1, <2>2 DEF Having
  <1> QED BY <1>1, <1>3, <1>4

\* One channel of which something is told.
LEMMA KnownStays ==
    ASSUME NEW e, NEW R, NEW ch, NEW kinds, NEW c, Known(ch, kinds, R, c),
           "none" \notin kinds, NEW new,
           new = IF e.kind \in kinds /\ e.channel = c THEN update_channel(ch, e) ELSE ch
    PROVE  Known(new, kinds, R \cup {e}, c)
  <1> DEFINE T(k) == ToldBy(R, k, c)
             T2(k) == T(k) \cup {x \in {e.cmd} : e.kind = k /\ e.channel = c}
  <1>1. \A k : ToldBy(R \cup {e}, k, c) = T2(k)
    BY DEF ToldBy
  <1>2. SUFFICES \/ new = Unset /\ \A k \in kinds : T2(k) = {}
                 \/ new.kind \in kinds /\ new.valid = T2(new.kind) /\ new.valid # {}
    BY <1>1 DEF Known
  <1>3. \/ ch = Unset /\ \A k \in kinds : T(k) = {}
        \/ ch.kind \in kinds /\ ch.valid = T(ch.kind) /\ ch.valid # {}
    BY DEF Known
  <1>4. CASE ~(e.kind \in kinds /\ e.channel = c)
    <2>1. \A k \in kinds : T2(k) = T(k)
      BY <1>4
    <2> QED BY <1>3, <1>4, <2>1
  <1>5. CASE e.kind \in kinds /\ e.channel = c
    <2>1. new = update_channel(ch, e)
      BY <1>5
    <2>2. T2(e.kind) = T(e.kind) \cup {e.cmd} /\ \A k : k # e.kind => T2(k) = T(k)
      BY <1>5
    <2>3. CASE ch = Unset
      <3>1. ch.kind = "none" /\ ch.valid = {} /\ T(e.kind) = {}
        BY <1>3, <1>5, <2>3 DEF Unset
      <3>2. new.kind = e.kind /\ new.valid = {e.cmd}
        BY <2>1, <3>1 DEF update_channel
      <3> QED BY <1>5, <2>2, <3>1, <3>2
    <2>4. CASE ch # Unset /\ ch.kind = e.kind
      <3>1. new.kind = e.kind /\ new.valid = ch.valid \cup {e.cmd}
        BY <2>1, <2>4 DEF update_channel
      <3> QED BY <1>3, <1>5, <2>2, <2>4, <3>1
    <2>5. CASE ch # Unset /\ ch.kind # e.kind
      <3>1. new = ch
        BY <1>3, <2>1, <2>5 DEF update_channel
      <3> QED BY <1>3, <2>2, <2>5, <3>1
    <2> QED BY <2>3, <2>4, <2>5
  <1> QED BY <1>4, <1>5

\* An entry adds to what is known of one channel.
LEMMA EntryKeeps ==
    ASSUME ConfigInv, NEW e \in Entries, entry(e)
    PROVE  ConfigInv'
  <1>1. /\ phase = "reading" /\ phase' = phase /\ reported' = reported \cup {e}
        /\ channel_in' = [channel_in EXCEPT ![e.channel] =
              IF e.kind \in {"analog_in", "counter_in"} THEN update_channel(@, e) ELSE @]
        /\ channel_out' = [channel_out EXCEPT ![e.channel] =
              IF e.kind = "analog_out" THEN update_channel(@, e) ELSE @]
        /\ digital_in' = digital_in \cup {c \in {e.channel} : e.kind = "digital_in"}
        /\ digital_out' = digital_out \cup {c \in {e.channel} : e.kind = "digital_out"}
    BY DEF entry
  <1>2. ChannelsKnown
    BY DEF ConfigInv
  <1>3. ASSUME NEW c \in Channel PROVE Known(channel_in[c], {"analog_in", "counter_in"}, reported, c)'
    <2>1. channel_in'[c] = IF e.kind \in {"analog_in", "counter_in"} /\ e.channel = c
                           THEN update_channel(channel_in[c], e) ELSE channel_in[c]
      BY <1>1, <1>2 DEF ChannelsKnown
    <2>2. Known(channel_in[c], {"analog_in", "counter_in"}, reported, c)
      BY <1>2 DEF ChannelsKnown
    <2>3. "none" \notin {"analog_in", "counter_in"}
      OBVIOUS
    <2>4. Known(channel_in'[c], {"analog_in", "counter_in"}, reported \cup {e}, c)
      BY <2>1, <2>2, <2>3, KnownStays
    <2> QED BY <1>1, <2>4
  <1>4. ASSUME NEW c \in Channel PROVE Known(channel_out[c], {"analog_out"}, reported, c)'
    <2>1. channel_out'[c] = IF e.kind \in {"analog_out"} /\ e.channel = c
                            THEN update_channel(channel_out[c], e) ELSE channel_out[c]
      BY <1>1, <1>2 DEF ChannelsKnown
    <2>2. Known(channel_out[c], {"analog_out"}, reported, c)
      BY <1>2 DEF ChannelsKnown
    <2>3. "none" \notin {"analog_out"}
      OBVIOUS
    <2>4. Known(channel_out'[c], {"analog_out"}, reported \cup {e}, c)
      BY <2>1, <2>2, <2>3, KnownStays
    <2> QED BY <1>1, <2>4
  <1>5. /\ digital_in' = Having("digital_in")' /\ digital_out' = Having("digital_out")'
    BY <1>1, <1>2, EntryTells DEF ChannelsKnown
  <1>6. DOMAIN channel_in' = Channel /\ DOMAIN channel_out' = Channel /\ reported' \subseteq Entries
    BY <1>1, <1>2 DEF ChannelsKnown
  <1>7. AcceptedChecked'
    BY <1>1 DEF AcceptedChecked
  <1> QED BY <1>3, <1>4, <1>5, <1>6, <1>7 DEF ConfigInv, ChannelsKnown

\* The steps after which nothing more is told.
LEMMA EndKeeps ==
    ASSUME ConfigInv, UNCHANGED <<channelVars, reported>>,
           end_of_config \/ read_fails \/ UNCHANGED configVars
    PROVE  ConfigInv'
  <1>1. /\ channel_in' = channel_in /\ channel_out' = channel_out
        /\ digital_in' = digital_in /\ digital_out' = digital_out /\ reported' = reported
    BY DEF channelVars
  <1>2. \A k, c : Told(k, c)' = Told(k, c)
    BY <1>1 DEF Told
  <1>3. \A k : Having(k)' = Having(k)
    BY <1>2 DEF Having
  <1>4. ChannelsKnown'
    BY <1>1, <1>2, <1>3 DEF ConfigInv, ChannelsKnown, Known
  <1>5. (\A c \in Channel : check_fails(c)' <=> check_fails(c)) /\ Remapped' = Remapped
    BY <1>1 DEF check_fails, Incomplete, Remapped
  <1>6. AcceptedChecked'
    <2>1. CASE end_of_config
      BY <1>5, <2>1 DEF end_of_config, AcceptedChecked
    <2>2. CASE read_fails
      BY <2>2 DEF read_fails, AcceptedChecked
    <2>3. CASE UNCHANGED configVars
      BY <1>5, <2>3 DEF configVars, AcceptedChecked, ConfigInv
    <2> QED BY <2>1, <2>2, <2>3
  <1> QED BY <1>4, <1>6 DEF ConfigInv

\* The invariant of the configuration.
LEMMA ConfigInvariance == ConfigSpec => []ConfigInv
  <1>1. ConfigInv /\ [ConfigNext]_configVars => ConfigInv'
    <2> SUFFICES ASSUME ConfigInv, [ConfigNext]_configVars PROVE ConfigInv'
      OBVIOUS
    <2>1. ASSUME NEW e \in Entries, entry(e) PROVE ConfigInv'
      BY <2>1, EntryKeeps
    <2>2. CASE end_of_config \/ read_fails \/ UNCHANGED configVars
      <3>1. UNCHANGED <<channelVars, reported>>
        BY <2>2 DEF end_of_config, read_fails, configVars
      <3> QED BY <2>2, <3>1, EndKeeps
    <2> QED BY <2>1, <2>2 DEF ConfigNext
  <1> QED BY <1>1, ConfigStart, PTL DEF ConfigSpec

\* An input that is offered has told all that a read of it needs, for every set of
\* channels, whatever entries come and in whatever order.
THEOREM InputsCorrect == ConfigSpec => []InputsComplete
  <1>1. ASSUME ConfigInv PROVE InputsComplete
    <2> SUFFICES ASSUME phase = "accepted" PROVE
            /\ \A c \in ToSet(remap.analog_in) : Told("analog_in", c) = Analog
            /\ \A c \in ToSet(remap.encoder_in) : Told("counter_in", c) = Counter
            /\ ToSet(remap.analog_in) \cap ToSet(remap.encoder_in) = {}
      BY DEF InputsComplete
    <2> DEFINE A == {c \in Channel : channel_in[c].kind = "analog_in"}
               B == {c \in Channel : channel_in[c].kind = "counter_in"}
    <2>1. remap.analog_in = InOrder(A) /\ remap.encoder_in = InOrder(B)
      BY <1>1 DEF ConfigInv, AcceptedChecked, Remapped
    <2>2. ToSet(remap.analog_in) \subseteq A /\ ToSet(remap.encoder_in) \subseteq B
      <3>1. A \subseteq Channel /\ B \subseteq Channel
        OBVIOUS
      <3>2. ToSet(InOrder(A)) \subseteq A /\ ToSet(InOrder(B)) \subseteq B
        <4> HIDE DEF A, B
        <4> QED BY <3>1, TableOfSet
      <3> QED BY <2>1, <3>2
    <2>3. ASSUME NEW c \in Channel, channel_in[c].kind \in {"analog_in", "counter_in"}
          PROVE  channel_in[c].valid = Told(channel_in[c].kind, c) /\ channel_in[c].valid # {}
      <3>1. Known(channel_in[c], {"analog_in", "counter_in"}, reported, c)
        BY <1>1 DEF ConfigInv, ChannelsKnown
      <3> QED BY <2>3, <3>1 DEF Known, Unset, Told, ToldBy
    <2>4. ASSUME NEW c \in Channel PROVE ~check_fails(c)
      BY <1>1 DEF ConfigInv, AcceptedChecked
    <2>5. ASSUME NEW c \in A PROVE Told("analog_in", c) = Analog
      BY <2>3, <2>4 DEF check_fails, Incomplete
    <2>6. ASSUME NEW c \in B PROVE Told("counter_in", c) = Counter
      BY <2>3, <2>4 DEF check_fails, Incomplete
    <2>7. A \cap B = {}
      OBVIOUS
    <2> QED BY <2>2, <2>5, <2>6, <2>7
  <1> QED BY <1>1, ConfigInvariance, PTL

\* The tables are decided by the set of the entries, unless they contradict each
\* other.
THEOREM OrderCorrect == ConfigSpec => []OrderIrrelevant
  <1>1. ASSUME ConfigInv PROVE OrderIrrelevant
    <2> SUFFICES ASSUME phase = "accepted", ~Contradictory PROVE
            /\ remap.analog_in = InOrder(Having("analog_in"))
            /\ remap.analog_out = InOrder(Having("analog_out"))
            /\ remap.encoder_in = InOrder(Having("counter_in"))
            /\ remap.digital_in = InOrder(Having("digital_in"))
            /\ remap.digital_out = InOrder(Having("digital_out"))
      BY DEF OrderIrrelevant
    <2>1. remap = Remapped
      BY <1>1 DEF ConfigInv, AcceptedChecked
    <2>2. ASSUME NEW c \in Channel
          PROVE  /\ channel_in[c].kind = "analog_in" <=> c \in Having("analog_in")
                 /\ channel_in[c].kind = "counter_in" <=> c \in Having("counter_in")
      <3>1. Known(channel_in[c], {"analog_in", "counter_in"}, reported, c)
        BY <1>1 DEF ConfigInv, ChannelsKnown
      <3>2. ~(Told("analog_in", c) # {} /\ Told("counter_in", c) # {})
        BY DEF Contradictory, Having
      <3> QED BY <3>1, <3>2 DEF Known, Unset, Having, Told, ToldBy
    <2>3. ASSUME NEW c \in Channel PROVE channel_out[c].kind = "analog_out" <=> c \in Having("analog_out")
      <3>1. Known(channel_out[c], {"analog_out"}, reported, c)
        BY <1>1 DEF ConfigInv, ChannelsKnown
      <3> QED BY <3>1 DEF Known, Unset, Having, Told, ToldBy
    <2>4. \A k : Having(k) \subseteq Channel
      BY DEF Having
    <2>5. /\ {c \in Channel : channel_in[c].kind = "analog_in"} = Having("analog_in")
          /\ {c \in Channel : channel_in[c].kind = "counter_in"} = Having("counter_in")
          /\ {c \in Channel : channel_out[c].kind = "analog_out"} = Having("analog_out")
      BY <2>2, <2>3, <2>4
    <2>6. digital_in = Having("digital_in") /\ digital_out = Having("digital_out")
      BY <1>1 DEF ConfigInv, ChannelsKnown
    <2> QED BY <2>1, <2>5, <2>6 DEF Remapped
  <1> QED BY <1>1, ConfigInvariance, PTL
=============================================================================
