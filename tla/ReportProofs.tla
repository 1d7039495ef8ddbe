---------------------------- MODULE ReportProofs ----------------------------
(***************************************************************************)
(* Proofs about Report: the packet keeps its widths whatever was read,     *)
(* what a whole answer says is what the parse task stores, what is         *)
(* published was answered since the last report, names the car's VIN and   *)
(* gives the last fix and clock, and the main text fits its buffer.        *)
(***************************************************************************)
EXTENDS Report, FiniteSetTheorems, SequenceTheorems, TLAPS

Text == Seq(Nat)
ByteValue == 0..255

\* One text behind another.
Cat(s, t) == s \o t

\* Character i of Cat(s, t) is character j of t.
Behind(s, i, j) == i = Len(s) + j
-----------------------------------------------------------------------------
\* Characters at their places.

\* A concatenation is a text.
LEMMA CatIsText ==
    ASSUME NEW s \in Text, NEW t \in Text
    PROVE  Cat(s, t) \in Text /\ Len(Cat(s, t)) = Len(s) + Len(t)
  <1>1. s \in Seq(Nat) /\ t \in Seq(Nat)
    BY DEF Text
  <1> QED  BY <1>1, ConcatProperties DEF Cat, Text

\* The length of a text.
LEMMA TextLen == \A s \in Text : Len(s) \in Nat
  BY LenProperties DEF Text

\* A character of a concatenation is one of its first part.
LEMMA AtLeft ==
    ASSUME NEW s \in Text, NEW t \in Text, NEW i \in Nat, i < Len(s)
    PROVE  At(Cat(s, t), i) = At(s, i)
  <1>1. /\ s \in Seq(Nat) /\ t \in Seq(Nat) /\ Len(s \o t) = Len(s) + Len(t)
        /\ Len(s) \in Nat /\ Len(t) \in Nat
    BY ConcatProperties, LenProperties DEF Text
  <1>2. (s \o t)[i + 1] = s[i + 1]
    BY <1>1, ConcatProperties
  <1> QED  BY <1>1, <1>2 DEF At, Cat, Text

\* Or one of its second part.
LEMMA AtRight ==
    ASSUME NEW s \in Text, NEW t \in Text, NEW i \in Nat, NEW j \in Nat, Behind(s, i, j)
    PROVE  At(Cat(s, t), i) = At(t, j)
  <1>1. /\ s \in Seq(Nat) /\ t \in Seq(Nat) /\ s \o t \in Seq(Nat)
        /\ Len(s \o t) = Len(s) + Len(t) /\ Len(s) \in Nat /\ Len(t) \in Nat
    BY ConcatProperties, LenProperties DEF Text
  <1> i = Len(s) + j
    BY DEF Behind
  <1>2. CASE j < Len(t)
    <2>1. (s \o t)[i + 1] = t[(i + 1) - Len(s)]
      BY <1>1, <1>2, ConcatProperties
    <2>2. (i + 1) - Len(s) = j + 1
      BY <1>1
    <2> QED  BY <1>1, <1>2, <2>1, <2>2 DEF At, Cat, Text
  <1>3. CASE j >= Len(t)
    <2>1. ~(j < Len(t)) /\ ~(i < Len(s \o t))
      BY <1>1, <1>3
    <2> QED  BY <2>1 DEF At, Cat
  <1> QED  BY <1>1, <1>2, <1>3

\* So are two that follow each other, read as a byte.
LEMMA ByteLeft ==
    ASSUME NEW s \in Text, NEW t \in Text, NEW i \in Nat, i + 1 < Len(s)
    PROVE  HexByte(Cat(s, t), i) = HexByte(s, i)
  <1>1. i < Len(s) /\ i + 1 \in Nat  BY TextLen
  <1>2. At(Cat(s, t), i) = At(s, i)  BY <1>1, AtLeft
  <1>3. At(Cat(s, t), i + 1) = At(s, i + 1)  BY <1>1, AtLeft
  <1> QED  BY <1>2, <1>3 DEF HexByte

\* Two characters of the second text, read as a byte.
LEMMA ByteRight ==
    ASSUME NEW s \in Text, NEW t \in Text, NEW i \in Nat, NEW j \in Nat, Behind(s, i, j)
    PROVE  HexByte(Cat(s, t), i) = HexByte(t, j)
  <1>1. i + 1 \in Nat /\ j + 1 \in Nat /\ Behind(s, i + 1, j + 1)
    BY TextLen DEF Behind
  <1>2. At(Cat(s, t), i) = At(t, j)  BY AtRight
  <1>3. At(Cat(s, t), i + 1) = At(t, j + 1)  BY <1>1, AtRight
  <1> QED  BY <1>2, <1>3 DEF HexByte

\* Concatenation is associative.
LEMMA CatCat ==
    ASSUME NEW s \in Text, NEW t \in Text, NEW u \in Text
    PROVE  Cat(Cat(s, t), u) = Cat(s, Cat(t, u))
  <1>1. s \in Seq(Nat) /\ t \in Seq(Nat) /\ u \in Seq(Nat)
    BY DEF Text
  <1>2. (s \o t) \o u = s \o (t \o u)
    BY <1>1, ConcatAssociative
  <1> QED  BY <1>2 DEF Cat

\* parse_char_to_hex gives half a byte for every character.
LEMMA CharIsHalf == \A c : parse_char_to_hex(c) \in 0..15
  BY DEF parse_char_to_hex

\* HexByte gives a byte wherever it reads.
LEMMA HexByteIsByte ==
    ASSUME NEW b, NEW i
    PROVE  HexByte(b, i) \in ByteValue
  <1> DEFINE high == parse_char_to_hex(At(b, i))
             low == parse_char_to_hex(At(b, i + 1))
  <1>1. high \in 0..15 /\ low \in 0..15  BY CharIsHalf
  <1>2. HexByte(b, i) = high * 16 + low  BY DEF HexByte
  <1> HIDE DEF high, low
  <1> QED  BY <1>1, <1>2 DEF ByteValue

\* The characters of a byte, read as a byte, are that byte.
LEMMA HexReadsBack ==
    ASSUME NEW v \in ByteValue, NEW b, NEW i,
           At(b, i) = HexChar(v \div 16), At(b, i + 1) = HexChar(v % 16)
    PROVE  HexByte(b, i) = v
  <1> DEFINE high == v \div 16
             low == v % 16
  <1>1. \A n \in 0..15 : parse_char_to_hex(HexChar(n)) = n
    BY DEF parse_char_to_hex, HexChar
  <1>2. \A n \in 0..255 : n \div 16 \in 0..15 /\ n % 16 \in 0..15
    OBVIOUS
  <1>3. \A n \in 0..255 : (n \div 16) * 16 + (n % 16) = n
    OBVIOUS
  <1>4. high \in 0..15 /\ low \in 0..15 /\ high * 16 + low = v
    BY <1>2, <1>3 DEF ByteValue
  <1>5. parse_char_to_hex(At(b, i)) = high /\ parse_char_to_hex(At(b, i + 1)) = low
    BY <1>1, <1>4
  <1> HIDE DEF high, low
  <1> QED  BY <1>4, <1>5 DEF HexByte

\* HexChar gives a character.
LEMMA HexCharIsNat == \A n \in 0..15 : HexChar(n) \in Nat
  BY DEF HexChar

-----------------------------------------------------------------------------
\* Answers of sensors.

\* A request: 01, the sensor's number and a carriage return.
LEMMA RequestReads ==
    ASSUME NEW q \in Sensor
    PROVE  /\ Pid(q) \in Text /\ Len(Pid(q)) = 2
           /\ Request(q) \in Text /\ Len(Request(q)) = 5
           /\ At(Request(q), 0) = 48
           /\ HexByte(Request(q), 0) = 1
           /\ HexByte(Request(q), 2) = CASE q = "TEMP" -> 92 [] q = "FUEL" -> 47 [] q = "SPEED" -> 13
  <1> DEFINE s == <<48, 49>>
             t == <<13>>
  <1>1. PICK a \in Nat, b \in Nat :
          /\ Pid(q) = <<a, b>>
          /\ q = "TEMP" => a = 53 /\ b = 67
          /\ q = "FUEL" => a = 50 /\ b = 70
          /\ q = "SPEED" => a = 48 /\ b = 68
    <2>1. CASE q = "TEMP"  BY <2>1 DEF Pid
    <2>2. CASE q = "FUEL"  BY <2>2 DEF Pid
    <2>3. CASE q = "SPEED"  BY <2>3 DEF Pid
    <2> QED  BY <2>1, <2>2, <2>3 DEF Sensor
  <1> DEFINE p == <<a, b>>
  <1>2. /\ p \in Text /\ Len(p) = 2 /\ At(p, 0) = a /\ At(p, 1) = b
        /\ s \in Text /\ Len(s) = 2 /\ At(s, 0) = 48 /\ At(s, 1) = 49
        /\ t \in Text /\ Len(t) = 1
    BY DEF At, Text
  <1> DEFINE sp == Cat(s, p)
             r == Cat(sp, t)
  <1>3. Request(q) = r /\ Pid(q) = p
    BY <1>1 DEF Request, Cat
  <1> HIDE DEF s, p, t
  <1>4. sp \in Text /\ Len(sp) = 4
        /\ At(sp, 0) = 48 /\ At(sp, 1) = 49 /\ At(sp, 2) = a /\ At(sp, 3) = b
    <2>1. sp \in Text /\ Len(sp) = Len(s) + Len(p)
      BY <1>2, CatIsText, Zenon
    <2>2. Len(s) + Len(p) = 4  BY <1>2
    <2>3. 0 \in Nat /\ 0 < Len(s) /\ 1 \in Nat /\ 1 < Len(s)
      BY <1>2
    <2>4. At(sp, 0) = 48 /\ At(sp, 1) = 49
      BY <1>2, <2>3, AtLeft, Zenon
    <2>5. At(sp, 2) = At(p, 0)
      <3>1. 2 \in Nat /\ 0 \in Nat /\ Behind(s, 2, 0)  BY <1>2 DEF Behind
      <3> QED  BY <1>2, <3>1, AtRight, Zenon
    <2>6. At(sp, 3) = At(p, 1)
      <3>1. s \in Text /\ p \in Text /\ 3 \in Nat /\ 1 \in Nat /\ Behind(s, 3, 1)
        BY <1>2 DEF Behind
      <3> QED  BY <3>1, AtRight, Zenon
    <2> QED  BY <1>2, <2>1, <2>2, <2>4, <2>5, <2>6
  <1> HIDE DEF sp
  <1>5. r \in Text /\ Len(r) = 5 /\ At(r, 0) = 48 /\ At(r, 1) = 49 /\ At(r, 2) = a /\ At(r, 3) = b
    <2>1. r \in Text /\ Len(r) = Len(sp) + Len(t)
      BY <1>2, <1>4, CatIsText, Zenon
    <2>2. Len(sp) + Len(t) = 5  BY <1>2, <1>4
    <2>3. /\ 0 \in Nat /\ 0 < Len(sp) /\ 1 \in Nat /\ 1 < Len(sp)
          /\ 2 \in Nat /\ 2 < Len(sp) /\ 3 \in Nat /\ 3 < Len(sp)
      BY <1>4
    <2>4. At(r, 0) = 48  BY <1>2, <1>4, <2>3, AtLeft, Zenon
    <2>5. At(r, 1) = 49  BY <1>2, <1>4, <2>3, AtLeft, Zenon
    <2>6. At(r, 2) = a  BY <1>2, <1>4, <2>3, AtLeft, Zenon
    <2>7. At(r, 3) = b  BY <1>2, <1>4, <2>3, AtLeft, Zenon
    <2> QED  BY <2>1, <2>2, <2>4, <2>5, <2>6, <2>7
  <1> HIDE DEF r
  <1>6. /\ parse_char_to_hex(48) = 0 /\ parse_char_to_hex(49) = 1 /\ parse_char_to_hex(50) = 2
        /\ parse_char_to_hex(53) = 5 /\ parse_char_to_hex(67) = 12
        /\ parse_char_to_hex(68) = 13 /\ parse_char_to_hex(70) = 15
    BY DEF parse_char_to_hex
  <1>7. HexByte(Request(q), 0) = 1
    <2>1. HexByte(Request(q), 0) = parse_char_to_hex(48) * 16 + parse_char_to_hex(49)
      <3>1. 0 + 1 = 1  OBVIOUS
      <3> QED  BY <1>3, <1>5, <3>1, Zenon DEF HexByte
    <2> QED  BY <1>6, <2>1
  <1>8. HexByte(Request(q), 2) = parse_char_to_hex(a) * 16 + parse_char_to_hex(b)
    <2>1. 2 + 1 = 3  OBVIOUS
    <2> QED  BY <1>3, <1>5, <2>1, Zenon DEF HexByte
  <1>9. HexByte(Request(q), 2) = CASE q = "TEMP" -> 92 [] q = "FUEL" -> 47 [] q = "SPEED" -> 13
    <2>1. CASE q = "TEMP"  BY <1>1, <1>6, <1>8, <2>1
    <2>2. CASE q = "FUEL"  BY <1>1, <1>6, <1>8, <2>2
    <2>3. CASE q = "SPEED"  BY <1>1, <1>6, <1>8, <2>3
    <2> QED  BY <2>1, <2>2, <2>3 DEF Sensor
  <1> QED  BY <1>2, <1>3, <1>5, <1>7, <1>9

\* The kind of a text that begins with a request.
LEMMA KindOfRequest ==
    ASSUME NEW q \in Sensor, NEW t \in Text
    PROVE  /\ parse_check_msg_type(Cat(Request(q), t)) = q
           /\ ~parse_is_GPS(Cat(Request(q), t))
           /\ parse_is_data(Cat(Request(q), t)) <=> ~(At(t, 0) = 78 /\ At(t, 1) = 79)
  <1> DEFINE b == Cat(Request(q), t)
  <1>1. /\ At(b, 0) = 48 /\ HexByte(b, 0) = 1 /\ HexByte(b, 2) = HexByte(Request(q), 2)
        /\ At(b, 5) = At(t, 0) /\ At(b, 6) = At(t, 1)
    <2>1. Request(q) \in Text /\ Len(Request(q)) = 5 /\ At(Request(q), 0) = 48
      BY RequestReads
    <2>2. /\ 0 \in Nat /\ 0 < Len(Request(q)) /\ 0 + 1 < Len(Request(q))
          /\ 2 \in Nat /\ 2 + 1 < Len(Request(q))
      BY <2>1
    <2>3. At(b, 0) = 48  BY <2>1, <2>2, AtLeft, Zenon
    <2>4. HexByte(b, 0) = HexByte(Request(q), 0)  BY <2>1, <2>2, ByteLeft, Zenon
    <2>5. HexByte(b, 2) = HexByte(Request(q), 2)  BY <2>1, <2>2, ByteLeft, Zenon
    <2>6. At(b, 5) = At(t, 0)
      <3>1. 5 \in Nat /\ 0 \in Nat /\ Behind(Request(q), 5, 0)  BY <2>1 DEF Behind
      <3> QED  BY <2>1, <3>1, AtRight, Zenon
    <2>7. At(b, 6) = At(t, 1)
      <3>1. 6 \in Nat /\ 1 \in Nat /\ Behind(Request(q), 6, 1)  BY <2>1 DEF Behind
      <3> QED  BY <2>1, <3>1, AtRight, Zenon
    <2> QED  BY <2>3, <2>4, <2>5, <2>6, <2>7, RequestReads
  <1> HIDE DEF b
  <1>2. parse_check_msg_type(b) = q
    <2>1. CASE q = "TEMP"  BY <1>1, <2>1, RequestReads DEF parse_check_msg_type
    <2>2. CASE q = "FUEL"  BY <1>1, <2>2, RequestReads DEF parse_check_msg_type
    <2>3. CASE q = "SPEED"  BY <1>1, <2>3, RequestReads DEF parse_check_msg_type
    <2> QED  BY <2>1, <2>2, <2>3 DEF Sensor
  <1> QED  BY <1>1, <1>2 DEF b, parse_is_GPS, parse_is_data

\* What follows the request in an answer: the value comes six characters later.
LEMMA ValueReads ==
    ASSUME NEW q \in Sensor, NEW v \in ByteValue
    PROVE  \E t \in Text : /\ Answer(q, v) = Cat(Request(q), t)
                           /\ At(t, 0) = 52
                           /\ HexByte(t, 6) = v
  <1> DEFINE r == Request(q)
             a == <<52, 49, 32>>
             p == Pid(q)
             b == <<32>>
             h == Hex(v)
             e == <<32, 13, 13, 62>>
  <1>1. HexChar(v \div 16) \in Nat /\ HexChar(v % 16) \in Nat
    <2>1. \A n \in 0..255 : n \div 16 \in 0..15 /\ n % 16 \in 0..15
      OBVIOUS
    <2> QED  BY <2>1, HexCharIsNat DEF ByteValue
  <1>2. /\ h \in Text /\ Len(h) = 2 /\ HexByte(h, 0) = v
    <2>1. h = <<HexChar(v \div 16), HexChar(v % 16)>>
      BY DEF Hex
    <2>2. h \in Text /\ Len(h) = 2 /\ h[1] = HexChar(v \div 16) /\ h[2] = HexChar(v % 16)
      BY <1>1, <2>1 DEF Text
    <2>3. At(h, 0) = HexChar(v \div 16) /\ At(h, 0 + 1) = HexChar(v % 16)
      BY <2>2 DEF At
    <2> QED  BY <2>2, <2>3, HexReadsBack
  <1>3. /\ r \in Text /\ p \in Text /\ Len(p) = 2
    BY RequestReads
  <1>4. /\ a \in Text /\ Len(a) = 3 /\ At(a, 0) = 52 /\ b \in Text /\ Len(b) = 1 /\ e \in Text
    BY DEF At, Text
  <1>5. Answer(q, v) = Cat(Cat(Cat(Cat(Cat(r, a), p), b), h), e)
    BY DEF Answer, Cat
  <1> HIDE DEF r, a, p, b, h, e
  <1> DEFINE ap == Cat(a, p)
             apb == Cat(ap, b)
             apbh == Cat(apb, h)
             rest == Cat(apbh, e)
  <1>6. ap \in Text /\ Len(ap) = 5 /\ At(ap, 0) = 52
    <2>1. ap \in Text /\ Len(ap) = Len(a) + Len(p)  BY <1>3, <1>4, CatIsText, Zenon
    <2>2. 0 \in Nat /\ 0 < Len(a) /\ Len(a) + Len(p) = 5  BY <1>3, <1>4
    <2> QED  BY <1>3, <1>4, <2>1, <2>2, AtLeft, Zenon
  <1> HIDE DEF ap
  <1>7. apb \in Text /\ Len(apb) = 6 /\ At(apb, 0) = 52
    <2>1. apb \in Text /\ Len(apb) = Len(ap) + Len(b)  BY <1>4, <1>6, CatIsText, Zenon
    <2>2. 0 \in Nat /\ 0 < Len(ap) /\ Len(ap) + Len(b) = 6  BY <1>4, <1>6
    <2> QED  BY <1>4, <1>6, <2>1, <2>2, AtLeft, Zenon
  <1> HIDE DEF apb
  <1>8. apbh \in Text /\ Len(apbh) = 8 /\ At(apbh, 0) = 52 /\ HexByte(apbh, 6) = v
    <2>1. apbh \in Text /\ Len(apbh) = Len(apb) + Len(h)  BY <1>2, <1>7, CatIsText, Zenon
    <2>2. /\ 0 \in Nat /\ 0 < Len(apb) /\ Len(apb) + Len(h) = 8
          /\ 6 \in Nat /\ Behind(apb, 6, 0)
      BY <1>2, <1>7 DEF Behind
    <2>3. At(apbh, 0) = 52  BY <1>2, <1>7, <2>2, AtLeft, Zenon
    <2>4. HexByte(apbh, 6) = HexByte(h, 0)  BY <1>2, <1>7, <2>2, ByteRight, Zenon
    <2> QED  BY <1>2, <2>1, <2>2, <2>3, <2>4, Zenon
  <1> HIDE DEF apbh
  <1>9. rest \in Text /\ At(rest, 0) = 52 /\ HexByte(rest, 6) = v
    <2>1. 0 \in Nat /\ 0 < Len(apbh) /\ 6 \in Nat /\ 6 + 1 < Len(apbh)  BY <1>8
    <2>2. rest \in Text  BY <1>4, <1>8, CatIsText, Zenon
    <2>3. At(rest, 0) = 52  BY <1>4, <1>8, <2>1, AtLeft, Zenon
    <2>4. HexByte(rest, 6) = v  BY <1>4, <1>8, <2>1, ByteLeft, Zenon
    <2> QED  BY <2>2, <2>3, <2>4
  <1>10. Answer(q, v) = Cat(r, rest)
    <2>1. Cat(Cat(r, a), p) = Cat(r, ap)  BY <1>3, <1>4, CatCat DEF ap
    <2>2. Cat(Cat(r, ap), b) = Cat(r, apb)  BY <1>3, <1>4, <1>6, CatCat DEF apb
    <2>3. Cat(Cat(r, apb), h) = Cat(r, apbh)  BY <1>2, <1>3, <1>7, CatCat DEF apbh
    <2>4. Cat(Cat(r, apbh), e) = Cat(r, rest)  BY <1>3, <1>4, <1>8, CatCat
    <2> QED  BY <1>5, <2>1, <2>2, <2>3, <2>4
  <1> QED  BY <1>9, <1>10 DEF r

\* What the parse task makes of a sensor's answer: that sensor, with that value.
LEMMA AnswerIsUnderstood ==
    ASSUME NEW q \in Sensor, NEW v \in ByteValue
    PROVE  Effect(Answer(q, v)) = [type |-> q, value |-> v]
  <1>1. PICK t \in Text : Answer(q, v) = Cat(Request(q), t) /\ At(t, 0) = 52 /\ HexByte(t, 6) = v
    BY ValueReads
  <1> DEFINE b == Answer(q, v)
  <1>2. parse_check_msg_type(b) = q /\ ~parse_is_GPS(b) /\ parse_is_data(b)
    BY <1>1, KindOfRequest
  <1>3. parse_msg(b) = v
    <2>1. Request(q) \in Text /\ 11 \in Nat /\ 6 \in Nat /\ Behind(Request(q), 11, 6)
      <3>1. Request(q) \in Text /\ Len(Request(q)) = 5  BY RequestReads, Zenon
      <3> QED  BY <3>1 DEF Behind
    <2>2. HexByte(Cat(Request(q), t), 11) = HexByte(t, 6)
      BY <2>1, ByteRight, Zenon
    <2> QED  BY <1>1, <2>2 DEF parse_msg
  <1> HIDE DEF b
  <1>4. Effect(b) = [type |-> parse_check_msg_type(b), value |-> parse_msg(b)]
    BY <1>2 DEF Effect, Sensor
  <1> QED  BY <1>2, <1>3, <1>4 DEF b

\* And of the answer that there is no data: nothing.
LEMMA SilenceIsNothing ==
    ASSUME NEW q \in Sensor
    PROVE  Effect(NoData(q)) = NoEffect
  <1> DEFINE t == <<78, 79, 32, 68, 65, 84, 65, 13, 13, 62>>
             b == NoData(q)
  <1>1. t \in Text /\ At(t, 0) = 78 /\ At(t, 1) = 79
    BY DEF At, Text
  <1>2. b = Cat(Request(q), t)
    BY DEF NoData, Cat
  <1> HIDE DEF t, b
  <1>3. ~parse_is_GPS(b) /\ ~parse_is_data(b)
    BY <1>1, <1>2, KindOfRequest
  <1> QED  BY <1>3 DEF Effect, b
-----------------------------------------------------------------------------
\* The VIN.

\* A number is its quotient and its remainder by 3.
LEMMA Thirds ==
    ASSUME NEW i \in Nat, NEW n \in Nat, i < n
    PROVE  /\ 3 * i + 1 \in 1..(3 * n) /\ 3 * i + 2 \in 1..(3 * n)
           /\ (3 * i + 3) \div 3 = i + 1 /\ (3 * i + 4) \div 3 = i + 1
           /\ (3 * i) % 3 = 0 /\ (3 * i + 1) % 3 = 1
  OBVIOUS

\* A list of bytes as text, read at the places where its bytes are.
LEMMA ListReads ==
    ASSUME NEW bytes \in Seq(ByteValue)
    PROVE  /\ HexList(bytes) \in Text
           /\ Len(HexList(bytes)) = 3 * Len(bytes)
           /\ \A i \in 0..(Len(bytes) - 1) : HexByte(HexList(bytes), 3 * i) = bytes[i + 1]
  <1> DEFINE n == Len(bytes)
             three(v) == Hex(v) \o <<32>>
             item(k) == three(bytes[(k + 2) \div 3])[1 + ((k - 1) % 3)]
             list == [k \in 1..(3 * n) |-> item(k)]
  <1>1. n \in Nat /\ \A i \in 1..n : bytes[i] \in ByteValue
    BY LenProperties
  <1>2. ASSUME NEW v \in ByteValue
        PROVE  /\ three(v)[1] = HexChar(v \div 16) /\ three(v)[2] = HexChar(v % 16)
               /\ three(v)[1] \in Nat /\ three(v)[2] \in Nat /\ three(v)[3] \in Nat
    <2> DEFINE c == HexChar(v \div 16)
               d == HexChar(v % 16)
    <2>1. c \in Nat /\ d \in Nat
      <3>1. \A k \in 0..255 : k \div 16 \in 0..15 /\ k % 16 \in 0..15
        OBVIOUS
      <3> QED  BY <3>1, HexCharIsNat DEF ByteValue
    <2>2. Hex(v) = <<c, d>>
      BY DEF Hex
    <2> HIDE DEF c, d
    <2>3. \A e \in Nat, f \in Nat : LET h == <<e, f>> \o <<32>> IN h[1] = e /\ h[2] = f /\ h[3] = 32
      OBVIOUS
    <2>4. three(v) = <<c, d>> \o <<32>>
      BY <2>2
    <2> HIDE DEF three
    <2>5. three(v)[1] = c /\ three(v)[2] = d /\ three(v)[3] = 32
      BY <2>1, <2>3, <2>4
    <2> QED  BY <2>1, <2>5 DEF c, d
  <1> HIDE DEF three
  <1>3. \A k \in 1..(3 * n) : item(k) \in Nat
    <2> SUFFICES ASSUME NEW k \in 1..(3 * n) PROVE item(k) \in Nat
      OBVIOUS
    <2>1. (k + 2) \div 3 \in 1..n
      BY <1>1
    <2>2. 1 + ((k - 1) % 3) \in {1, 2, 3}
      BY <1>1
    <2> DEFINE place == 1 + ((k - 1) % 3)
               v == bytes[(k + 2) \div 3]
    <2>3. v \in ByteValue /\ place \in {1, 2, 3}
      BY <1>1, <2>1, <2>2
    <2> HIDE DEF place, v
    <2>4. three(v)[place] \in Nat
      BY <1>2, <2>3
    <2> QED  BY <2>4 DEF place, v
  <1>4. list \in Seq(Nat) /\ Len(list) = 3 * n
    <2>1. 3 * n \in Nat  BY <1>1
    <2> HIDE DEF item, n
    <2> QED  BY <1>3, <2>1, SeqDef
  <1>5. HexList(bytes) = list
    BY DEF HexList, three
  <1>6. ASSUME NEW i \in 0..(n - 1)
        PROVE  HexByte(list, 3 * i) = bytes[i + 1]
    <2> DEFINE v == bytes[i + 1]
    <2>1. i \in Nat /\ i < n /\ v \in ByteValue
      BY <1>1
    <2>2. /\ 3 * i + 1 \in 1..(3 * n) /\ 3 * i + 2 \in 1..(3 * n)
          /\ (3 * i + 3) \div 3 = i + 1 /\ (3 * i + 4) \div 3 = i + 1
          /\ (3 * i) % 3 = 0 /\ (3 * i + 1) % 3 = 1
      BY <1>1, <2>1, Thirds
    <2>3. item(3 * i + 1) = three(v)[1] /\ item(3 * i + 2) = three(v)[2]
      <3>1. /\ (3 * i + 1) + 2 = 3 * i + 3 /\ (3 * i + 1) - 1 = 3 * i
            /\ (3 * i + 2) + 2 = 3 * i + 4 /\ (3 * i + 2) - 1 = 3 * i + 1
        BY <2>1
      <3>2. 1 + 0 = 1 /\ 1 + 1 = 2
        OBVIOUS
      <3> QED  BY <2>2, <3>1, <3>2, Zenon
    <2>4. At(list, 3 * i) = item(3 * i + 1) /\ At(list, 3 * i + 1) = item(3 * i + 2)
      <3>1. /\ 3 * i < Len(list) /\ 3 * i + 1 < Len(list) /\ (3 * i + 1) + 1 = 3 * i + 2
        BY <1>1, <1>4, <2>1
      <3>2. list[3 * i + 1] = item(3 * i + 1) /\ list[3 * i + 2] = item(3 * i + 2)
        BY <2>2, Zenon
      <3> HIDE DEF list, item
      <3> QED  BY <3>1, <3>2 DEF At
    <2>5. At(list, 3 * i) = HexChar(v \div 16) /\ At(list, 3 * i + 1) = HexChar(v % 16)
      BY <1>2, <2>1, <2>3, <2>4
    <2> HIDE DEF list, v
    <2>6. HexByte(list, 3 * i) = v
      BY <2>1, <2>5, HexReadsBack
    <2> QED  BY <2>6 DEF v
  <1> QED  BY <1>4, <1>5, <1>6 DEF Text

\* The bytes can be read in b, three characters apart, from `from' on.
Shows(b, from, bytes) ==
    \A i \in 0..(Len(bytes) - 1) : HexByte(b, from + 3 * i) = bytes[i + 1]

\* A text with a list behind it shows the list where it ends.
LEMMA ShowsBehind ==
    ASSUME NEW s \in Text, NEW bytes \in Seq(ByteValue)
    PROVE  /\ Shows(Cat(s, HexList(bytes)), Len(s), bytes)
           /\ Cat(s, HexList(bytes)) \in Text
           /\ Len(Cat(s, HexList(bytes))) = Len(s) + 3 * Len(bytes)
  <1> DEFINE list == HexList(bytes)
  <1>1. /\ list \in Text /\ Len(list) = 3 * Len(bytes)
        /\ \A i \in 0..(Len(bytes) - 1) : HexByte(list, 3 * i) = bytes[i + 1]
    BY ListReads
  <1> HIDE DEF list
  <1>2. Cat(s, list) \in Text /\ Len(Cat(s, list)) = Len(s) + 3 * Len(bytes)
    BY <1>1, CatIsText
  <1>3. ASSUME NEW i \in 0..(Len(bytes) - 1)
        PROVE  HexByte(Cat(s, list), Len(s) + 3 * i) = bytes[i + 1]
    <2> DEFINE place == Len(s) + 3 * i
               j == 3 * i
    <2>1. place \in Nat /\ j \in Nat /\ Behind(s, place, j)
      BY TextLen, LenProperties DEF Behind
    <2>2. HexByte(list, j) = bytes[i + 1]
      BY <1>1
    <2> HIDE DEF place, j
    <2>3. HexByte(Cat(s, list), place) = HexByte(list, j)
      BY <1>1, <2>1, ByteRight, Zenon
    <2> QED  BY <2>2, <2>3 DEF place
  <1> QED  BY <1>2, <1>3 DEF Shows, list

\* And still does when more follows.
LEMMA ShowsKept ==
    ASSUME NEW s \in Text, NEW t \in Text, NEW bytes \in Seq(ByteValue), NEW from \in Nat,
           Shows(s, from, bytes), from + 3 * Len(bytes) <= Len(s)
    PROVE  Shows(Cat(s, t), from, bytes)
  <1> SUFFICES ASSUME NEW i \in 0..(Len(bytes) - 1)
               PROVE  HexByte(Cat(s, t), from + 3 * i) = bytes[i + 1]
    BY DEF Shows
  <1> DEFINE place == from + 3 * i
  <1>1. place \in Nat /\ place + 1 < Len(s)
    BY TextLen, LenProperties
  <1>2. HexByte(s, place) = bytes[i + 1]
    BY DEF Shows
  <1> HIDE DEF place
  <1>3. HexByte(Cat(s, t), place) = HexByte(s, place)
    BY <1>1, ByteLeft
  <1> QED  BY <1>2, <1>3 DEF place

\* How the answer with the VIN begins: 0902, a carriage return and the first line's length.
BeginsAsVin(b) ==
    /\ At(b, 0) = 48 /\ At(b, 5) = 48
    /\ HexByte(b, 0) = 9 /\ HexByte(b, 2) = 2

\* What follows such a beginning leaves it so.
LEMMA BeginKept ==
    ASSUME NEW s \in Text, NEW t \in Text, Len(s) > 5, BeginsAsVin(s)
    PROVE  BeginsAsVin(Cat(s, t))
  <1>1. /\ 0 \in Nat /\ 0 < Len(s) /\ 0 + 1 < Len(s) /\ 2 \in Nat /\ 2 + 1 < Len(s)
        /\ 5 \in Nat /\ 5 < Len(s)
    BY TextLen
  <1>2. At(Cat(s, t), 0) = At(s, 0)  BY <1>1, AtLeft, Zenon
  <1>3. At(Cat(s, t), 5) = At(s, 5)  BY <1>1, AtLeft, Zenon
  <1>4. HexByte(Cat(s, t), 0) = HexByte(s, 0)  BY <1>1, ByteLeft, Zenon
  <1>5. HexByte(Cat(s, t), 2) = HexByte(s, 2)  BY <1>1, ByteLeft, Zenon
  <1> QED  BY <1>2, <1>3, <1>4, <1>5 DEF BeginsAsVin

\* A text that begins like that shows the VIN in its three lines.
ShowsVin(b) ==
    /\ BeginsAsVin(b)
    /\ Shows(b, 13, <<73, 2, 1>> \o SubSeq(CarVin, 1, 3))
    /\ Shows(b, 35, SubSeq(CarVin, 4, 10))
    /\ Shows(b, 60, SubSeq(CarVin, 11, 17))

\* The lines of the VIN are lists of bytes.
LEMMA VinLines ==
    LET one == <<73, 2, 1>> \o SubSeq(CarVin, 1, 3)
        two == SubSeq(CarVin, 4, 10)
        three == SubSeq(CarVin, 11, 17)
    IN  /\ one \in Seq(ByteValue) /\ Len(one) = 6
        /\ two \in Seq(ByteValue) /\ Len(two) = 7
        /\ three \in Seq(ByteValue) /\ Len(three) = 7
        /\ \A i \in 1..3 : one[i + 3] = CarVin[i]
        /\ \A i \in 1..7 : two[i] = CarVin[i + 3] /\ three[i] = CarVin[i + 10]
  <1>1. /\ CarVin \in Seq(48..90) /\ Len(CarVin) = 17 /\ 48..90 \subseteq ByteValue
    BY ReportAssumption DEF ByteValue
  <1>2. CarVin \in Seq(ByteValue)
    BY <1>1, SeqMonotonic
  <1>3. ASSUME NEW m \in 1..17, NEW n \in 1..17, m <= n
        PROVE  /\ SubSeq(CarVin, m, n) \in Seq(ByteValue)
               /\ Len(SubSeq(CarVin, m, n)) = n - m + 1
               /\ \A i \in 1..(n - m + 1) : SubSeq(CarVin, m, n)[i] = CarVin[m + i - 1]
    <2>1. m \in Int /\ n \in Int /\ \A i \in m..n : i \in 1..17
      OBVIOUS
    <2>2. \A i \in m..n : CarVin[i] \in ByteValue
      BY <1>1, <1>2, <2>1, ElementOfSeq
    <2>3. /\ SubSeq(CarVin, m, n) \in Seq(ByteValue)
          /\ Len(SubSeq(CarVin, m, n)) = IF m <= n THEN n - m + 1 ELSE 0
          /\ \A i \in 1..n-m+1 : SubSeq(CarVin, m, n)[i] = CarVin[m + i - 1]
      BY <2>1, <2>2, SubSeqProperties
    <2> QED  BY <1>3, <2>3
  <1> DEFINE first == <<73, 2, 1>>
             vin3 == SubSeq(CarVin, 1, 3)
  <1>4. vin3 \in Seq(ByteValue) /\ Len(vin3) = 3 /\ \A i \in 1..3 : vin3[i] = CarVin[i]
    BY <1>3
  <1>5. first \in Seq(ByteValue) /\ Len(first) = 3
    BY DEF ByteValue
  <1> HIDE DEF first, vin3
  <1>6. /\ first \o vin3 \in Seq(ByteValue) /\ Len(first \o vin3) = 6
        /\ \A i \in 1..3 : (first \o vin3)[i + 3] = CarVin[i]
    <2>1. /\ first \o vin3 \in Seq(ByteValue)
          /\ Len(first \o vin3) = Len(first) + Len(vin3)
          /\ \A i \in 1..Len(first) + Len(vin3) : (first \o vin3)[i] =
                IF i <= Len(first) THEN first[i] ELSE vin3[i - Len(first)]
      BY <1>4, <1>5, ConcatProperties
    <2>2. ASSUME NEW i \in 1..3
          PROVE  (first \o vin3)[i + 3] = CarVin[i]
      <3>1. i + 3 \in 1..Len(first) + Len(vin3) /\ ~(i + 3 <= Len(first)) /\ (i + 3) - Len(first) = i
        BY <1>4, <1>5
      <3> QED  BY <1>4, <2>1, <3>1
    <2> QED  BY <1>4, <1>5, <2>1, <2>2
  <1>7. /\ SubSeq(CarVin, 4, 10) \in Seq(ByteValue) /\ Len(SubSeq(CarVin, 4, 10)) = 7
        /\ \A i \in 1..7 : SubSeq(CarVin, 4, 10)[i] = CarVin[i + 3]
    BY <1>3
  <1>8. /\ SubSeq(CarVin, 11, 17) \in Seq(ByteValue) /\ Len(SubSeq(CarVin, 11, 17)) = 7
        /\ \A i \in 1..7 : SubSeq(CarVin, 11, 17)[i] = CarVin[i + 10]
    BY <1>3
  <1> QED  BY <1>6, <1>7, <1>8 DEF first, vin3

\* The answer with the VIN is a text that shows it.
LEMMA VinAnswerShows == VinAnswer \in Text /\ ShowsVin(VinAnswer)
  <1> DEFINE one == <<73, 2, 1>> \o SubSeq(CarVin, 1, 3)
             two == SubSeq(CarVin, 4, 10)
             three == SubSeq(CarVin, 11, 17)
             begin == <<48, 57, 48, 50, 13, 48, 49, 52, 32, 13>>
             c1 == <<48, 58, 32>>
             c2 == <<49, 58, 32>>
             c3 == <<50, 58, 32>>
             cr == <<13>>
             end == <<13, 13, 62>>
  <1>1. /\ one \in Seq(ByteValue) /\ Len(one) = 6
        /\ two \in Seq(ByteValue) /\ Len(two) = 7
        /\ three \in Seq(ByteValue) /\ Len(three) = 7
    BY VinLines
  <1>2. /\ begin \in Text /\ Len(begin) = 10
        /\ c1 \in Text /\ Len(c1) = 3 /\ c2 \in Text /\ Len(c2) = 3 /\ c3 \in Text /\ Len(c3) = 3
        /\ cr \in Text /\ Len(cr) = 1 /\ end \in Text /\ Len(end) = 3
    BY DEF Text
  <1>3. BeginsAsVin(begin)
    <2>1. /\ At(begin, 0) = 48 /\ At(begin, 1) = 57 /\ At(begin, 2) = 48 /\ At(begin, 3) = 50
          /\ At(begin, 5) = 48
      BY DEF At
    <2>2. /\ parse_char_to_hex(48) = 0 /\ parse_char_to_hex(57) = 9 /\ parse_char_to_hex(50) = 2
      BY DEF parse_char_to_hex
    <2>3. 0 + 1 = 1 /\ 2 + 1 = 3 /\ 0 * 16 + 9 = 9 /\ 0 * 16 + 2 = 2  OBVIOUS
    <2> HIDE DEF begin
    <2>4. HexByte(begin, 0) = 9  BY <2>1, <2>2, <2>3, Zenon DEF HexByte
    <2>5. HexByte(begin, 2) = 2  BY <2>1, <2>2, <2>3, Zenon DEF HexByte
    <2> QED  BY <2>1, <2>4, <2>5 DEF BeginsAsVin
  <1> DEFINE b1 == Cat(begin, c1)
             b2 == Cat(b1, HexList(one))
             b3 == Cat(b2, cr)
             b4 == Cat(b3, c2)
             b5 == Cat(b4, HexList(two))
             b6 == Cat(b5, cr)
             b7 == Cat(b6, c3)
             b8 == Cat(b7, HexList(three))
             b9 == Cat(b8, end)
  <1>4. VinAnswer = b9
    BY DEF VinAnswer, Cat
  <1> HIDE DEF one, two, three, begin, c1, c2, c3, cr, end
  <1>5. b1 \in Text /\ Len(b1) = 13 /\ BeginsAsVin(b1)
    <2>1. b1 \in Text /\ Len(b1) = Len(begin) + Len(c1)  BY <1>2, CatIsText, Zenon
    <2>2. Len(begin) + Len(c1) = 13 /\ Len(begin) > 5  BY <1>2
    <2> QED  BY <1>2, <1>3, <2>1, <2>2, BeginKept, Zenon
  <1> HIDE DEF b1
  <1>6. b2 \in Text /\ Len(b2) = 31 /\ BeginsAsVin(b2) /\ Shows(b2, 13, one)
    <2>1. b2 \in Text /\ Len(b2) = Len(b1) + 3 * Len(one) /\ Shows(b2, Len(b1), one)
      BY <1>1, <1>5, ShowsBehind, Zenon
    <2>2. Len(b1) + 3 * Len(one) = 31 /\ Len(b1) > 5  BY <1>1, <1>5
    <2>3. HexList(one) \in Text  BY <1>1, ListReads
    <2>4. BeginsAsVin(b2)  BY <1>5, <2>2, <2>3, BeginKept, Zenon
    <2> QED  BY <1>5, <2>1, <2>2, <2>4, Zenon
  <1> HIDE DEF b2
  <1>7. b3 \in Text /\ Len(b3) = 32 /\ BeginsAsVin(b3) /\ Shows(b3, 13, one)
    <2>1. b3 \in Text /\ Len(b3) = Len(b2) + Len(cr)  BY <1>2, <1>6, CatIsText, Zenon
    <2>2. Len(b2) + Len(cr) = 32 /\ Len(b2) > 5 /\ 13 \in Nat /\ 13 + 3 * Len(one) <= Len(b2)
      BY <1>1, <1>2, <1>6
    <2>3. BeginsAsVin(b3)  BY <1>2, <1>6, <2>2, BeginKept, Zenon
    <2>4. Shows(b3, 13, one)  BY <1>1, <1>2, <1>6, <2>2, ShowsKept, Zenon
    <2> QED  BY <2>1, <2>2, <2>3, <2>4, Zenon
  <1> HIDE DEF b3
  <1>8. b4 \in Text /\ Len(b4) = 35 /\ BeginsAsVin(b4) /\ Shows(b4, 13, one)
    <2>1. b4 \in Text /\ Len(b4) = Len(b3) + Len(c2)  BY <1>2, <1>7, CatIsText, Zenon
    <2>2. Len(b3) + Len(c2) = 35 /\ Len(b3) > 5 /\ 13 \in Nat /\ 13 + 3 * Len(one) <= Len(b3)
      BY <1>1, <1>2, <1>7
    <2>3. BeginsAsVin(b4)  BY <1>2, <1>7, <2>2, BeginKept, Zenon
    <2>4. Shows(b4, 13, one)  BY <1>1, <1>2, <1>7, <2>2, ShowsKept, Zenon
    <2> QED  BY <2>1, <2>2, <2>3, <2>4, Zenon
  <1> HIDE DEF b4
  <1>9. b5 \in Text /\ Len(b5) = 56 /\ BeginsAsVin(b5) /\ Shows(b5, 13, one) /\ Shows(b5, 35, two)
    <2>1. b5 \in Text /\ Len(b5) = Len(b4) + 3 * Len(two) /\ Shows(b5, Len(b4), two)
      BY <1>1, <1>8, ShowsBehind, Zenon
    <2>2. /\ Len(b4) + 3 * Len(two) = 56 /\ Len(b4) > 5
          /\ 13 \in Nat /\ 13 + 3 * Len(one) <= Len(b4)
      BY <1>1, <1>8
    <2>3. HexList(two) \in Text  BY <1>1, ListReads
    <2>4. BeginsAsVin(b5)  BY <1>8, <2>2, <2>3, BeginKept, Zenon
    <2>5. Shows(b5, 13, one)  BY <1>1, <1>8, <2>2, <2>3, ShowsKept, Zenon
    <2> QED  BY <1>8, <2>1, <2>2, <2>4, <2>5, Zenon
  <1> HIDE DEF b5
  <1>10. b6 \in Text /\ Len(b6) = 57 /\ BeginsAsVin(b6) /\ Shows(b6, 13, one) /\ Shows(b6, 35, two)
    <2>1. b6 \in Text /\ Len(b6) = Len(b5) + Len(cr)  BY <1>2, <1>9, CatIsText, Zenon
    <2>2. /\ Len(b5) + Len(cr) = 57 /\ Len(b5) > 5
          /\ 13 \in Nat /\ 13 + 3 * Len(one) <= Len(b5)
          /\ 35 \in Nat /\ 35 + 3 * Len(two) <= Len(b5)
      BY <1>1, <1>2, <1>9
    <2>3. BeginsAsVin(b6)  BY <1>2, <1>9, <2>2, BeginKept, Zenon
    <2>4. Shows(b6, 13, one)  BY <1>1, <1>2, <1>9, <2>2, ShowsKept, Zenon
    <2>5. Shows(b6, 35, two)  BY <1>1, <1>2, <1>9, <2>2, ShowsKept, Zenon
    <2> QED  BY <2>1, <2>2, <2>3, <2>4, <2>5, Zenon
  <1> HIDE DEF b6
  <1>11. b7 \in Text /\ Len(b7) = 60 /\ BeginsAsVin(b7) /\ Shows(b7, 13, one) /\ Shows(b7, 35, two)
    <2>1. b7 \in Text /\ Len(b7) = Len(b6) + Len(c3)  BY <1>2, <1>10, CatIsText, Zenon
    <2>2. /\ Len(b6) + Len(c3) = 60 /\ Len(b6) > 5
          /\ 13 \in Nat /\ 13 + 3 * Len(one) <= Len(b6)
          /\ 35 \in Nat /\ 35 + 3 * Len(two) <= Len(b6)
      BY <1>1, <1>2, <1>10
    <2>3. BeginsAsVin(b7)  BY <1>2, <1>10, <2>2, BeginKept, Zenon
    <2>4. Shows(b7, 13, one)  BY <1>1, <1>2, <1>10, <2>2, ShowsKept, Zenon
    <2>5. Shows(b7, 35, two)  BY <1>1, <1>2, <1>10, <2>2, ShowsKept, Zenon
    <2> QED  BY <2>1, <2>2, <2>3, <2>4, <2>5, Zenon
  <1> HIDE DEF b7
  <1>12. /\ b8 \in Text /\ Len(b8) = 81 /\ BeginsAsVin(b8)
         /\ Shows(b8, 13, one) /\ Shows(b8, 35, two) /\ Shows(b8, 60, three)
    <2>1. b8 \in Text /\ Len(b8) = Len(b7) + 3 * Len(three) /\ Shows(b8, Len(b7), three)
      BY <1>1, <1>11, ShowsBehind, Zenon
    <2>2. /\ Len(b7) + 3 * Len(three) = 81 /\ Len(b7) > 5
          /\ 13 \in Nat /\ 13 + 3 * Len(one) <= Len(b7)
          /\ 35 \in Nat /\ 35 + 3 * Len(two) <= Len(b7)
      BY <1>1, <1>11
    <2>3. HexList(three) \in Text  BY <1>1, ListReads
    <2>4. BeginsAsVin(b8)  BY <1>11, <2>2, <2>3, BeginKept, Zenon
    <2>5. Shows(b8, 13, one)  BY <1>1, <1>11, <2>2, <2>3, ShowsKept, Zenon
    <2>6. Shows(b8, 35, two)  BY <1>1, <1>11, <2>2, <2>3, ShowsKept, Zenon
    <2> QED  BY <1>11, <2>1, <2>2, <2>4, <2>5, <2>6, Zenon
  <1> HIDE DEF b8
  <1>13. /\ b9 \in Text /\ BeginsAsVin(b9)
         /\ Shows(b9, 13, one) /\ Shows(b9, 35, two) /\ Shows(b9, 60, three)
    <2>1. b9 \in Text  BY <1>2, <1>12, CatIsText, Zenon
    <2>2. /\ Len(b8) > 5
          /\ 13 \in Nat /\ 13 + 3 * Len(one) <= Len(b8)
          /\ 35 \in Nat /\ 35 + 3 * Len(two) <= Len(b8)
          /\ 60 \in Nat /\ 60 + 3 * Len(three) <= Len(b8)
      BY <1>1, <1>12
    <2>3. BeginsAsVin(b9)  BY <1>2, <1>12, <2>2, BeginKept, Zenon
    <2>4. Shows(b9, 13, one)  BY <1>1, <1>2, <1>12, <2>2, ShowsKept, Zenon
    <2>5. Shows(b9, 35, two)  BY <1>1, <1>2, <1>12, <2>2, ShowsKept, Zenon
    <2>6. Shows(b9, 60, three)  BY <1>1, <1>2, <1>12, <2>2, ShowsKept, Zenon
    <2> QED  BY <2>1, <2>3, <2>4, <2>5, <2>6
  <1> QED  BY <1>4, <1>13, Zenon DEF ShowsVin, one, two, three

\* What the parse task makes of it: the VIN of the car.
LEMMA VinIsUnderstood == AnsweredVin = [type |-> "VIN", value |-> CarVin]
  <1> DEFINE b == VinAnswer
  <1>1. BeginsAsVin(b)
    BY VinAnswerShows DEF ShowsVin
  <1>2. parse_check_msg_type(b) = "VIN" /\ ~parse_is_GPS(b) /\ parse_is_data(b)
    BY <1>1 DEF BeginsAsVin, parse_check_msg_type, parse_is_GPS, parse_is_data
  <1>3. ASSUME NEW i \in 1..17
        PROVE  HexByte(b, VinPlaces[i]) = CarVin[i]
    <2> DEFINE one == <<73, 2, 1>> \o SubSeq(CarVin, 1, 3)
               two == SubSeq(CarVin, 4, 10)
               three == SubSeq(CarVin, 11, 17)
    <2>1. /\ Len(one) = 6 /\ Len(two) = 7 /\ Len(three) = 7
          /\ \A k \in 1..3 : one[k + 3] = CarVin[k]
          /\ \A k \in 1..7 : two[k] = CarVin[k + 3] /\ three[k] = CarVin[k + 10]
      BY VinLines
    <2>2. /\ \A k \in 0..(Len(one) - 1) : HexByte(b, 13 + 3 * k) = one[k + 1]
          /\ \A k \in 0..(Len(two) - 1) : HexByte(b, 35 + 3 * k) = two[k + 1]
          /\ \A k \in 0..(Len(three) - 1) : HexByte(b, 60 + 3 * k) = three[k + 1]
      BY VinAnswerShows DEF ShowsVin, Shows
    <2> HIDE DEF one, two, three, b
    <2>3. CASE i \in 1..3
      <3>1. VinPlaces[i] = 13 + 3 * (i + 2)  BY <2>3 DEF VinPlaces
      <3>2. i + 2 \in 0..(Len(one) - 1) /\ (i + 2) + 1 = i + 3  BY <2>1, <2>3
      <3>3. HexByte(b, 13 + 3 * (i + 2)) = one[i + 3]  BY <2>2, <3>2
      <3> QED  BY <2>1, <2>3, <3>1, <3>3
    <2>4. CASE i \in 4..10
      <3>1. VinPlaces[i] = 35 + 3 * (i - 4)  BY <2>4 DEF VinPlaces
      <3>2. i - 4 \in 0..(Len(two) - 1) /\ (i - 4) + 1 = i - 3  BY <2>1, <2>4
      <3>3. HexByte(b, 35 + 3 * (i - 4)) = two[i - 3]  BY <2>2, <3>2
      <3>4. i - 3 \in 1..7 /\ (i - 3) + 3 = i  BY <2>4
      <3> QED  BY <2>1, <3>1, <3>3, <3>4
    <2>5. CASE i \in 11..17
      <3>1. VinPlaces[i] = 60 + 3 * (i - 11)  BY <2>5 DEF VinPlaces
      <3>2. i - 11 \in 0..(Len(three) - 1) /\ (i - 11) + 1 = i - 10  BY <2>1, <2>5
      <3>3. HexByte(b, 60 + 3 * (i - 11)) = three[i - 10]  BY <2>2, <3>2
      <3>4. i - 10 \in 1..7 /\ (i - 10) + 10 = i  BY <2>5
      <3> QED  BY <2>1, <3>1, <3>3, <3>4
    <2> QED  BY <2>3, <2>4, <2>5
  <1> HIDE DEF b
  <1>4. parse_vin(b) = CarVin
    <2>1. CarVin = [i \in 1..17 |-> CarVin[i]]
      BY ReportAssumption
    <2> QED  BY <1>3, <2>1 DEF parse_vin
  <1>5. Effect(b) = [type |-> "VIN", value |-> parse_vin(b)]
    BY <1>2 DEF Effect, Sensor
  <1> QED  BY <1>4, <1>5 DEF AnsweredVin, b
-----------------------------------------------------------------------------
\* What a text may change, whatever it is.

\* A sequence of anything.
IsList(s) == \E S : s \in Seq(S)

\* A function on the first n numbers is a sequence of n elements.
LEMMA FcnIsSeq ==
    ASSUME NEW n \in Nat, NEW S, NEW f \in [1..n -> S]
    PROVE  f \in Seq(S) /\ Len(f) = n
  BY SeqDef

\* Two sequences make one.
LEMMA ListConcat ==
    ASSUME NEW s, NEW t, IsList(s), IsList(t)
    PROVE  IsList(Cat(s, t))
  <1>1. PICK S : s \in Seq(S)  BY DEF IsList
  <1>2. PICK T : t \in Seq(T)  BY DEF IsList
  <1>3. s \in Seq(S \cup T) /\ t \in Seq(S \cup T)  BY <1>1, <1>2, SeqMonotonic
  <1>4. s \o t \in Seq(S \cup T)  BY <1>3, ConcatProperties
  <1> QED  BY <1>4, Zenon DEF IsList, Cat

\* It begins as the first does.
LEMMA FirstKept ==
    ASSUME NEW s, NEW t, IsList(s), IsList(t), Len(s) > 0
    PROVE  At(Cat(s, t), 0) = At(s, 0) /\ Len(Cat(s, t)) > 0
  <1>1. PICK S : s \in Seq(S)  BY DEF IsList
  <1>2. PICK T : t \in Seq(T)  BY DEF IsList
  <1>3. s \in Seq(S \cup T) /\ t \in Seq(S \cup T)  BY <1>1, <1>2, SeqMonotonic
  <1>4. Len(s) \in Nat /\ Len(t) \in Nat  BY <1>3, LenProperties
  <1>5. Len(s \o t) = Len(s) + Len(t) /\ (s \o t)[0 + 1] = s[0 + 1]
    BY <1>3, <1>4, ConcatProperties
  <1> QED  BY <1>4, <1>5 DEF At, Cat

\* The text of an angle.
LEMMA AngleIsList ==
    ASSUME NEW a, NEW degrees \in Nat
    PROVE  IsList(Angle(a, degrees))
  <1>1. ASSUME NEW n, NEW k \in Nat
        PROVE  IsList(Digits(n, k))
    <2> DEFINE S == {48 + ((n \div 10^(k - i)) % 10) : i \in 1..k}
    <2>1. Digits(n, k) \in [1..k -> S]
      BY DEF Digits
    <2> HIDE DEF S
    <2>2. Digits(n, k) \in Seq(S)
      BY <2>1, FcnIsSeq
    <2> QED  BY <2>2, Zenon DEF IsList
  <1>2. IsList(<<46>>) /\ IsList(<<44, a.hemisphere>>)
    <2>1. <<46>> \in Seq({46}) /\ <<44, a.hemisphere>> \in Seq({44, a.hemisphere})
      OBVIOUS
    <2> QED  BY <2>1, Zenon DEF IsList
  <1>3. 2 \in Nat /\ 4 \in Nat  OBVIOUS
  <1> DEFINE deg == Digits(a.deg, degrees)
             min == Digits(a.min, 2)
             frac == Digits(a.frac, 4)
             side == <<44, a.hemisphere>>
  <1>4. IsList(deg) /\ IsList(min) /\ IsList(frac)
    BY <1>1, <1>3, Zenon
  <1>5. Angle(a, degrees) = Cat(Cat(Cat(Cat(deg, min), <<46>>), frac), side)
    BY DEF Angle, Cat
  <1> HIDE DEF deg, min, frac
  <1> QED  BY <1>2, <1>4, <1>5, ListConcat, Zenon

\* The first character of a sentence of the GPS.
LEMMA RmcBegins ==
    ASSUME NEW f \in Fixes \cup {None}, NEW c \in Clocks \cup {None}
    PROVE  parse_is_GPS(Rmc(f, c))
  <1> DEFINE dollar == <<36, 71, 78, 82, 77, 67, 44>>
             time == IF c = None THEN <<>> ELSE c.time \o <<46, 48, 48>>
             lat == Angle(f.lat, 2)
             long == Angle(f.long, 3)
             place == IF f = None THEN <<44, 86, 44, 44, 44, 44>>
                      ELSE <<44, 65, 44>> \o lat \o <<44>> \o long
             speed == <<44, 48, 46, 48, 44, 48, 46, 48, 44>>
             date == IF c = None THEN <<>> ELSE c.date
             end == <<44, 44, 44, 65, 42, 54, 56, 13, 10>>
  <1>1. IsList(<<46, 48, 48>>) /\ IsList(<<44, 86, 44, 44, 44, 44>>) /\ IsList(<<44, 65, 44>>)
        /\ IsList(<<44>>) /\ IsList(speed) /\ IsList(end) /\ IsList(<<>>)
    <2>1. /\ <<46, 48, 48>> \in Seq(Nat) /\ <<44, 86, 44, 44, 44, 44>> \in Seq(Nat)
          /\ <<44, 65, 44>> \in Seq(Nat) /\ <<44>> \in Seq(Nat) /\ speed \in Seq(Nat)
          /\ end \in Seq(Nat) /\ <<>> \in Seq(Nat)
      OBVIOUS
    <2> QED  BY <2>1, Zenon DEF IsList
  <1>2. IsList(dollar) /\ Len(dollar) > 0 /\ At(dollar, 0) = 36
    <2>1. dollar \in Seq(Nat) /\ Len(dollar) > 0 /\ At(dollar, 0) = 36
      BY DEF At
    <2> QED  BY <2>1, Zenon DEF IsList
  <1>3. IsList(time) /\ IsList(date)
    <2>1. CASE c = None  BY <1>1, <2>1
    <2>2. CASE c # None
      <3>1. c.time \in Seq(48..57) /\ c.date \in Seq(48..57)
        BY <2>2, GpsAssumption
      <3>2. IsList(c.time) /\ IsList(c.date)
        BY <3>1, Zenon DEF IsList
      <3>3. IsList(c.time \o <<46, 48, 48>>)
        BY <1>1, <3>2, ListConcat, Zenon DEF Cat
      <3> QED  BY <2>2, <3>2, <3>3
    <2> QED  BY <2>1, <2>2
  <1>4. IsList(place)
    <2>1. CASE f = None  BY <1>1, <2>1
    <2>2. CASE f # None
      <3>1. 2 \in Nat /\ 3 \in Nat  OBVIOUS
      <3>2. IsList(lat) /\ IsList(long)  BY <3>1, AngleIsList, Zenon
      <3> HIDE DEF lat, long
      <3>3. IsList(Cat(Cat(Cat(<<44, 65, 44>>, lat), <<44>>), long))
        BY <1>1, <3>2, ListConcat, Zenon
      <3> QED  BY <2>2, <3>3 DEF Cat
    <2> QED  BY <2>1, <2>2
  <1> DEFINE b == Cat(Cat(Cat(Cat(Cat(dollar, time), place), speed), date), end)
  <1>5. Rmc(f, c) = b
    BY DEF Rmc, Cat
  <1> HIDE DEF dollar, time, place, speed, date, end
  <1>6. ASSUME NEW s, NEW t, IsList(s) /\ Len(s) > 0 /\ At(s, 0) = 36, IsList(t)
        PROVE  IsList(Cat(s, t)) /\ Len(Cat(s, t)) > 0 /\ At(Cat(s, t), 0) = 36
    BY <1>6, ListConcat, FirstKept, Zenon
  <1> DEFINE b1 == Cat(dollar, time)
             b2 == Cat(b1, place)
             b3 == Cat(b2, speed)
             b4 == Cat(b3, date)
  <1>7. IsList(b1) /\ Len(b1) > 0 /\ At(b1, 0) = 36  BY <1>2, <1>3, <1>6, Zenon
  <1> HIDE DEF b1
  <1>8. IsList(b2) /\ Len(b2) > 0 /\ At(b2, 0) = 36  BY <1>4, <1>6, <1>7, Zenon
  <1> HIDE DEF b2
  <1>9. IsList(b3) /\ Len(b3) > 0 /\ At(b3, 0) = 36  BY <1>1, <1>6, <1>8, Zenon
  <1> HIDE DEF b3
  <1>10. IsList(b4) /\ Len(b4) > 0 /\ At(b4, 0) = 36  BY <1>3, <1>6, <1>9, Zenon
  <1> HIDE DEF b4
  <1>11. At(Cat(b4, end), 0) = 36  BY <1>1, <1>6, <1>10, Zenon
  <1> QED  BY <1>5, <1>11 DEF b1, b2, b3, b4, parse_is_GPS

\* Chars copies as many characters as it is told.
LEMMA CharsLen ==
    ASSUME NEW b, NEW i, NEW n \in Nat
    PROVE  IsList(Chars(b, i, n)) /\ Len(Chars(b, i, n)) = n
  <1> DEFINE S == {At(b, i + k - 1) : k \in 1..n}
  <1>1. Chars(b, i, n) \in [1..n -> S]
    BY DEF Chars
  <1> HIDE DEF S
  <1>2. Chars(b, i, n) \in Seq(S) /\ Len(Chars(b, i, n)) = n
    BY <1>1, FcnIsSeq
  <1> QED  BY <1>2, Zenon DEF IsList

\* The widths of what a text changes, read from any buffer.
Width(e) ==
    /\ e.type \in Sensor \cup {"VIN", "GPS", "UNKNOWN"}
    /\ e.type \in Sensor => e.value \in ByteValue
    /\ e.type = "VIN" => e.value \in Seq(ByteValue) /\ Len(e.value) = 17
    /\ e.type = "GPS" => /\ e.lat = <<>> \/ (Len(e.lat) = 10 /\ Len(e.long) = 11)
                         /\ e.time = <<>> \/ Len(e.time) = 12

\* A field of a sentence whose point is left out.
LEMMA TwoFields ==
    ASSUME NEW b, NEW i, NEW j, NEW m \in Nat, NEW n \in Nat
    PROVE  Len(Chars(b, i, m) \o Chars(b, j, n)) = m + n
  <1> DEFINE s == Chars(b, i, m)
             t == Chars(b, j, n)
  <1>1. IsList(s) /\ Len(s) = m /\ IsList(t) /\ Len(t) = n
    BY CharsLen
  <1> HIDE DEF s, t
  <1>2. PICK S : s \in Seq(S)  BY <1>1 DEF IsList
  <1>3. PICK T : t \in Seq(T)  BY <1>1 DEF IsList
  <1>4. s \in Seq(S \cup T) /\ t \in Seq(S \cup T)
    BY <1>2, <1>3, SeqMonotonic
  <1>5. Len(s \o t) = Len(s) + Len(t)
    BY <1>4, ConcatProperties
  <1> QED  BY <1>1, <1>5 DEF s, t

\* A sentence gives a position and a time of the right widths, or neither.
LEMMA GpsWidth == ASSUME NEW b PROVE Width(parse_GPS(b))
  <1> DEFINE time == PastComma(b, 0, 1)
             lat == PastComma(b, time, 2)
             long == lat + 12
             located == At(b, lat) # 44
             date == IF located THEN PastComma(b, long + 13, 2) ELSE PastComma(b, lat, 6)
             clock == Chars(b, time, 6) \o Chars(b, date, 6)
             latText == IF located THEN Chars(b, lat, 4) \o Chars(b, lat + 5, 6) ELSE <<>>
             longText == IF located THEN Chars(b, long, 5) \o Chars(b, long + 6, 6) ELSE <<>>
             timeText == IF NoTimeLock(clock) THEN <<>> ELSE clock
  <1>1. Len(clock) = 12
    <2> HIDE DEF time, date
    <2> QED  BY TwoFields
  <1>2. latText = <<>> \/ (Len(latText) = 10 /\ Len(longText) = 11)
    <2>1. CASE located
      <3> DEFINE l4 == lat + 5
                 l5 == long + 6
      <3>1. /\ latText = Chars(b, lat, 4) \o Chars(b, l4, 6)
            /\ longText = Chars(b, long, 5) \o Chars(b, l5, 6)
        BY <2>1
      <3> HIDE DEF lat, long, l4, l5
      <3>2. Len(Chars(b, lat, 4) \o Chars(b, l4, 6)) = 10
        BY TwoFields
      <3>3. Len(Chars(b, long, 5) \o Chars(b, l5, 6)) = 11
        BY TwoFields
      <3> QED  BY <3>1, <3>2, <3>3
    <2>2. CASE ~located
      BY <2>2
    <2> QED  BY <2>1, <2>2
  <1>3. timeText = <<>> \/ Len(timeText) = 12
    BY <1>1
  <1>4. parse_GPS(b) = IF At(b, time) = 44 THEN NoEffect
                       ELSE [type |-> "GPS", lat |-> latText, long |-> longText, time |-> timeText]
    BY DEF parse_GPS
  <1> HIDE DEF time, lat, long, located, date, clock, latText, longText, timeText
  <1> QED  BY <1>2, <1>3, <1>4 DEF Width, NoEffect, Sensor

\* Whatever bytes a buffer holds, what the parse task makes of them has the widths
\* of the packet's fields.
LEMMA EffectWidth == ASSUME NEW b PROVE Width(Effect(b))
  <1> DEFINE kind == parse_check_msg_type(b)
  <1>1. CASE parse_is_GPS(b)
    BY <1>1, GpsWidth DEF Effect
  <1>2. CASE ~parse_is_GPS(b) /\ (~parse_is_data(b) \/ kind \notin Sensor \cup {"VIN"})
    <2>1. Effect(b) = NoEffect
      BY <1>2 DEF Effect
    <2> QED  BY <2>1 DEF Width, NoEffect, Sensor
  <1>3. CASE ~parse_is_GPS(b) /\ parse_is_data(b) /\ kind \in Sensor
    <2>1. Effect(b) = [type |-> kind, value |-> parse_msg(b)]
      BY <1>3 DEF Effect, Sensor
    <2>2. parse_msg(b) \in ByteValue
      BY HexByteIsByte DEF parse_msg
    <2> HIDE DEF kind
    <2> QED  BY <1>3, <2>1, <2>2 DEF Width, Sensor
  <1>4. CASE ~parse_is_GPS(b) /\ parse_is_data(b) /\ kind = "VIN"
    <2>1. Effect(b) = [type |-> "VIN", value |-> parse_vin(b)]
      BY <1>4 DEF Effect, Sensor
    <2>2. parse_vin(b) \in Seq(ByteValue) /\ Len(parse_vin(b)) = 17
      <3>1. \A i \in 1..17 : HexByte(b, VinPlaces[i]) \in ByteValue
        BY HexByteIsByte
      <3> QED  BY <3>1 DEF parse_vin
    <2> QED  BY <2>1, <2>2 DEF Width, Sensor
  <1> QED  BY <1>1, <1>2, <1>3, <1>4

\* A sentence of the GPS changes nothing but position and time.
LEMMA SentenceIsGps ==
    ASSUME NEW f \in Fixes \cup {None}, NEW c \in Clocks \cup {None}
    PROVE  Effect(Rmc(f, c)).type \in {"GPS", "UNKNOWN"}
  <1> DEFINE b == Rmc(f, c)
  <1>1. Effect(b) = parse_GPS(b)
    BY RmcBegins DEF Effect
  <1> HIDE DEF b
  <1>2. parse_GPS(b).type \in {"GPS", "UNKNOWN"}
    BY DEF parse_GPS, NoEffect
  <1> QED  BY <1>1, <1>2 DEF b
-----------------------------------------------------------------------------
\* The packet.

PacketField == {"TEMP", "FUEL", "SPEED", "LONG", "LAT", "TIME", "VIN", "fields"}

\* The widths of elm327_data_t.
PacketOK(p) ==
    /\ p = [x \in PacketField |-> p[x]]
    /\ \A q \in Sensor : p[q] \in ByteValue
    /\ Len(p.LONG) = 11 /\ Len(p.LAT) = 10 /\ Len(p.TIME) = 12
    /\ p.VIN \in Seq(ByteValue) /\ Len(p.VIN) = 17
    /\ p.fields \subseteq Field /\ "MISC" \in p.fields

\* A packet that differs only in position and time.
SameCar(p, r) ==
    /\ r.VIN = p.VIN
    /\ \A q \in Sensor : r[q] = p[q] /\ (q \in r.fields <=> q \in p.fields)

\* What the GPS gives keeps the widths and what the car answered.
LEMMA WithGpsOK ==
    ASSUME NEW p, NEW e, PacketOK(p), Width(e), e.type = "GPS"
    PROVE  PacketOK(WithGps(p, e)) /\ SameCar(p, WithGps(p, e))
  <1> DEFINE located == IF e.lat = <<>> THEN p
                        ELSE [p EXCEPT !.LAT = e.lat, !.LONG = e.long,
                                       !.fields = @ \cup {"LAT", "LONG"}]
             timed == [located EXCEPT !.TIME = e.time, !.fields = @ \cup {"TIME"}]
  <1>1. PacketOK(located) /\ SameCar(p, located)
    <2>1. CASE e.lat = <<>>
      BY <2>1 DEF SameCar
    <2>2. CASE e.lat # <<>>
      <3>1. Len(e.lat) = 10 /\ Len(e.long) = 11
        BY <2>2 DEF Width
      <3>2. located = [p EXCEPT !.LAT = e.lat, !.LONG = e.long, !.fields = @ \cup {"LAT", "LONG"}]
        BY <2>2
      <3>3. /\ located = [x \in PacketField |-> located[x]]
            /\ located.LAT = e.lat /\ located.LONG = e.long
            /\ located.TIME = p.TIME /\ located.VIN = p.VIN
            /\ \A q \in Sensor : located[q] = p[q]
            /\ located.fields = p.fields \cup {"LAT", "LONG"}
        BY <3>2 DEF PacketOK, PacketField, Sensor
      <3> HIDE DEF located
      <3> QED  BY <3>1, <3>3 DEF PacketOK, SameCar, Field, Sensor
    <2> QED  BY <2>1, <2>2
  <1> HIDE DEF located
  <1>2. CASE e.time = <<>>
    <2>1. WithGps(p, e) = located
      BY <1>2 DEF WithGps, located
    <2> QED  BY <1>1, <2>1
  <1>3. CASE e.time # <<>>
    <2>1. WithGps(p, e) = timed
      BY <1>3 DEF WithGps, located
    <2>2. Len(e.time) = 12
      BY <1>3 DEF Width
    <2>3. /\ timed = [x \in PacketField |-> timed[x]]
          /\ timed.LAT = located.LAT /\ timed.LONG = located.LONG
          /\ timed.TIME = e.time /\ timed.VIN = located.VIN
          /\ \A q \in Sensor : timed[q] = located[q]
          /\ timed.fields = located.fields \cup {"TIME"}
      BY <1>1 DEF PacketOK, PacketField, Sensor
    <2> HIDE DEF timed
    <2> QED  BY <1>1, <2>1, <2>2, <2>3 DEF PacketOK, SameCar, Field, Sensor
  <1> QED  BY <1>2, <1>3

\* What any text changes keeps the widths.  A sensor's answer sets that sensor and
\* its field, the VIN is set only by an answer with the VIN.
LEMMA WithOK ==
    ASSUME NEW p, NEW e, PacketOK(p), Width(e)
    PROVE  /\ PacketOK(With(p, e))
           /\ e.type \notin Sensor \cup {"VIN"} => SameCar(p, With(p, e))
           /\ e.type # "VIN" => With(p, e).VIN = p.VIN
           /\ e.type \in Sensor \cup {"VIN"} =>
                 With(p, e) = [p EXCEPT ![e.type] = e.value, !.fields = @ \cup {e.type}]
  <1>1. CASE e.type \in Sensor \cup {"VIN"}
    <2> DEFINE r == [p EXCEPT ![e.type] = e.value, !.fields = @ \cup {e.type}]
    <2>1. With(p, e) = r
      BY <1>1 DEF With, Sensor
    <2>2. /\ r = [x \in PacketField |-> r[x]]
          /\ r.LAT = p.LAT /\ r.LONG = p.LONG /\ r.TIME = p.TIME
          /\ r.fields = p.fields \cup {e.type}
          /\ \A x \in Sensor \cup {"VIN"} : r[x] = IF x = e.type THEN e.value ELSE p[x]
      BY <1>1 DEF PacketOK, PacketField, Sensor
    <2> HIDE DEF r
    <2>3. PacketOK(r)
      BY <1>1, <2>2 DEF PacketOK, Width, Field, Sensor
    <2>4. e.type # "VIN" => r.VIN = p.VIN
      BY <2>2
    <2> QED  BY <1>1, <2>1, <2>3, <2>4 DEF r
  <1>2. CASE e.type = "GPS"
    <2>1. With(p, e) = WithGps(p, e)
      BY <1>2 DEF With, Sensor
    <2>2. PacketOK(With(p, e)) /\ SameCar(p, With(p, e))
      BY <1>2, <2>1, WithGpsOK, Zenon
    <2>3. e.type \notin Sensor \cup {"VIN"}
      BY <1>2 DEF Sensor
    <2> QED  BY <2>2, <2>3, Zenon DEF SameCar
  <1>3. CASE e.type = "UNKNOWN"
    <2>1. With(p, e) = p
      BY <1>3 DEF With, Sensor
    <2> QED  BY <1>3, <2>1 DEF SameCar, Sensor
  <1> QED  BY <1>1, <1>2, <1>3 DEF Width
-----------------------------------------------------------------------------
\* The inductive invariant.

SinceField == Sensor \cup {"FIX", "CLOCK"}

\* While every text was read whole, the packet holds just what was answered.
Held(p, answers) ==
    \A q \in Sensor : /\ q \in p.fields <=> answers[q] # None
                      /\ answers[q] # None => p[q] = answers[q]

IInv ==
    /\ PacketOK(packet)
    /\ received \in BOOLEAN /\ whole \in BOOLEAN /\ torn \in 0..MaxTorn
    /\ vin \in {"unknown", "whole", "cut"}
    /\ since = [x \in SinceField |-> since[x]]
    /\ whole => Held(packet, since)
    /\ vin = "whole" => packet.VIN = CarVin

\* A parsed text changes the packet within its widths.
LEMMA ParsedKeeps ==
    ASSUME NEW e, Width(e), PacketOK(packet), Parsed(With(packet, e))
    PROVE  /\ PacketOK(packet') /\ received' \in BOOLEAN
           /\ e.type \notin Sensor \cup {"VIN"} => SameCar(packet, packet')
           /\ e.type # "VIN" => packet'.VIN = packet.VIN
           /\ e.type \in Sensor \cup {"VIN"} =>
                 packet' = [packet EXCEPT ![e.type] = e.value, !.fields = @ \cup {e.type}]
  BY WithOK, Zenon DEF Parsed

\* elm327_new_data gives a packet of those widths, before any answer.
LEMMA InitHolds == Init => IInv
  <1> SUFFICES ASSUME Init PROVE IInv
    OBVIOUS
  <1>1. ASSUME NEW c, NEW n \in Nat
        PROVE  Repeat(c, n) \in Seq({c}) /\ Len(Repeat(c, n)) = n
    <2>1. Repeat(c, n) \in [1..n -> {c}]
      BY DEF Repeat
    <2> QED  BY <2>1, FcnIsSeq
  <1>2. PacketOK(NewData)
    <2>1. Len(Repeat(48, 11)) = 11 /\ Len(Repeat(48, 10)) = 10 /\ Len(Repeat(48, 12)) = 12
      BY <1>1
    <2>2. Repeat(65, 17) \in Seq(ByteValue) /\ Len(Repeat(65, 17)) = 17
      <3>1. {65} \subseteq ByteValue  BY DEF ByteValue
      <3>2. 17 \in Nat  OBVIOUS
      <3>3. Repeat(65, 17) \in Seq({65}) /\ Len(Repeat(65, 17)) = 17
        BY <1>1, <3>2, Zenon
      <3>4. Seq({65}) \subseteq Seq(ByteValue)
        BY <3>1, SeqMonotonic, Zenon
      <3> QED  BY <3>3, <3>4, Zenon
    <2>3. 70 \in ByteValue
      BY DEF ByteValue
    <2> DEFINE long == Repeat(48, 11)
               lat == Repeat(48, 10)
               time == Repeat(48, 12)
               vin0 == Repeat(65, 17)
    <2>4. NewData = [TEMP |-> 70, FUEL |-> 70, SPEED |-> 70, LONG |-> long, LAT |-> lat,
                     TIME |-> time, VIN |-> vin0, fields |-> {"MISC"}]
      BY DEF NewData
    <2> HIDE DEF long, lat, time, vin0
    <2>5. /\ NewData = [x \in PacketField |-> NewData[x]]
          /\ \A q \in Sensor : NewData[q] = 70
          /\ NewData.LONG = long /\ NewData.LAT = lat /\ NewData.TIME = time
          /\ NewData.VIN = vin0 /\ NewData.fields = {"MISC"}
      BY <2>4 DEF PacketField, Sensor
    <2> QED  BY <2>1, <2>2, <2>3, <2>5 DEF PacketOK, Field, long, lat, time, vin0
  <1>3. NewData.fields = {"MISC"}
    BY DEF NewData
  <1>4. Nothing = [x \in SinceField |-> Nothing[x]] /\ \A q \in Sensor : Nothing[q] = None
    BY DEF Nothing, SinceField
  <1>5. Held(packet, since)
    BY <1>3, <1>4 DEF Init, Held, Sensor
  <1>6. torn \in 0..MaxTorn
    BY ReportAssumption DEF Init
  <1> QED  BY <1>2, <1>4, <1>5, <1>6 DEF Init, IInv

\* An answer sets its sensor to the value it says.
LEMMA SensorAnswersKeeps == IInv /\ SensorAnswers => IInv'
  <1> SUFFICES ASSUME IInv, SensorAnswers PROVE IInv'
    OBVIOUS
  <1>1. PICK q \in Sensor, v \in Values :
          /\ Parsed(With(packet, Effect(Answer(q, v))))
          /\ since' = [since EXCEPT ![q] = v]
    <2>1. PICK a \in Answered : /\ Parsed(With(packet, a.effect))
                               /\ since' = [since EXCEPT ![a.sensor] = a.value]
      BY Zenon DEF SensorAnswers
    <2>2. PICK q \in Sensor, v \in Values :
            a = [sensor |-> q, value |-> v, effect |-> Effect(Answer(q, v))]
      BY DEF Answered
    <2>3. a.sensor = q /\ a.value = v /\ a.effect = Effect(Answer(q, v))
      BY <2>2
    <2> QED  BY <2>1, <2>3, Zenon
  <1>2. v \in ByteValue /\ v # None
    BY ReportAssumption, NoneAssumption DEF ByteValue
  <1> DEFINE e == Effect(Answer(q, v))
  <1>3. e = [type |-> q, value |-> v]
    BY <1>2, AnswerIsUnderstood
  <1>4. Width(e)
    BY EffectWidth
  <1>5. e.type = q /\ e.value = v /\ q # "VIN"
    BY <1>3 DEF Sensor
  <1> HIDE DEF e
  <1>6. /\ PacketOK(packet') /\ received' \in BOOLEAN /\ packet'.VIN = packet.VIN
        /\ packet' = [packet EXCEPT ![q] = v, !.fields = @ \cup {q}]
    BY <1>1, <1>4, <1>5, ParsedKeeps DEF IInv, e
  <1>7. /\ since' = [x \in SinceField |-> since'[x]]
        /\ \A r \in Sensor : since'[r] = IF r = q THEN v ELSE since[r]
    BY <1>1 DEF IInv, SinceField
  <1>8. whole => Held(packet', since')
    <2>1. \A r \in Sensor : /\ packet'[r] = IF r = q THEN v ELSE packet[r]
                            /\ r \in packet'.fields <=> r \in packet.fields \/ r = q
      BY <1>6 DEF IInv, PacketOK, PacketField, Sensor
    <2> QED  BY <1>2, <1>7, <2>1 DEF IInv, Held
  <1>9. UNCHANGED <<vin, whole, torn>>
    BY DEF SensorAnswers
  <1> QED  BY <1>6, <1>7, <1>8, <1>9 DEF IInv

\* NO DATA changes nothing.
LEMMA SensorHasNoDataKeeps == IInv /\ SensorHasNoData => IInv'
  <1> SUFFICES ASSUME IInv, SensorHasNoData PROVE IInv'
    OBVIOUS
  <1>1. PICK q \in Sensor : Parsed(With(packet, Effect(NoData(q))))
    BY DEF SensorHasNoData, Silence
  <1>2. Effect(NoData(q)).type = "UNKNOWN" /\ Width(Effect(NoData(q)))
    BY SilenceIsNothing, EffectWidth DEF NoEffect
  <1>3. PacketOK(packet') /\ received' \in BOOLEAN /\ SameCar(packet, packet')
    <2>1. "UNKNOWN" \notin Sensor \cup {"VIN"}  BY DEF Sensor
    <2> QED  BY <1>1, <1>2, <2>1, ParsedKeeps, Zenon DEF IInv
  <1>4. UNCHANGED <<since, vin, whole, torn>>
    BY DEF SensorHasNoData
  <1> QED  BY <1>3, <1>4 DEF IInv, Held, SameCar

\* The VIN is set to the car's, and no sensor changes.
LEMMA CarAnswersVinKeeps == IInv /\ CarAnswersVin => IInv'
  <1> SUFFICES ASSUME IInv, CarAnswersVin PROVE IInv'
    OBVIOUS
  <1>1. Width(AnsweredVin)
    BY EffectWidth DEF AnsweredVin
  <1>2. AnsweredVin.type = "VIN" /\ AnsweredVin.value = CarVin
    BY VinIsUnderstood
  <1>3. /\ PacketOK(packet') /\ received' \in BOOLEAN
        /\ packet' = [packet EXCEPT !["VIN"] = CarVin, !.fields = @ \cup {"VIN"}]
    BY <1>1, <1>2, ParsedKeeps DEF IInv, CarAnswersVin
  <1>4. /\ packet'.VIN = CarVin
        /\ \A q \in Sensor : packet'[q] = packet[q] /\ (q \in packet'.fields <=> q \in packet.fields)
    BY <1>3 DEF IInv, PacketOK, PacketField, Sensor
  <1>5. vin' = "whole" /\ UNCHANGED <<since, whole, torn>>
    BY DEF CarAnswersVin
  <1> QED  BY <1>3, <1>4, <1>5 DEF IInv, Held

\* A sentence of the GPS changes no sensor and not the VIN.
LEMMA GpsReportsKeeps == IInv /\ GpsReports => IInv'
  <1> SUFFICES ASSUME IInv, GpsReports PROVE IInv'
    OBVIOUS
  <1>1. PICK f \in Fixes \cup {None}, c \in Clocks \cup {None} :
          /\ Parsed(With(packet, Effect(Rmc(f, c))))
          /\ \E fix, clock : since' = [since EXCEPT !.FIX = fix, !.CLOCK = clock]
    <2>1. PICK s \in Said :
            /\ Parsed(With(packet, s.effect))
            /\ since' = [since EXCEPT !.FIX = IF s.fix = None \/ s.clock = None THEN @ ELSE s.fix,
                                      !.CLOCK = IF IsSet(s.clock) THEN s.clock ELSE @]
      BY Zenon DEF GpsReports
    <2>2. PICK f \in Fixes \cup {None}, c \in Clocks \cup {None} :
            s = [fix |-> f, clock |-> c, effect |-> Effect(Rmc(f, c))]
      BY DEF Said
    <2>3. s.effect = Effect(Rmc(f, c))
      BY <2>2
    <2>4. PICK fix, clock : since' = [since EXCEPT !.FIX = fix, !.CLOCK = clock]
      BY <2>1
    <2>5. Parsed(With(packet, Effect(Rmc(f, c))))
      BY <2>1, <2>3, Zenon
    <2> QED  BY <2>4, <2>5, Zenon
  <1>2. Effect(Rmc(f, c)).type \in {"GPS", "UNKNOWN"} /\ Width(Effect(Rmc(f, c)))
    BY SentenceIsGps, EffectWidth
  <1>3. PacketOK(packet') /\ received' \in BOOLEAN /\ SameCar(packet, packet')
    <2>1. "UNKNOWN" \notin Sensor \cup {"VIN"} /\ "GPS" \notin Sensor \cup {"VIN"}  BY DEF Sensor
    <2>2. Effect(Rmc(f, c)).type \notin Sensor \cup {"VIN"}  BY <1>2, <2>1
    <2> QED  BY <1>1, <1>2, <2>2, ParsedKeeps, Zenon DEF IInv
  <1>4. since' = [x \in SinceField |-> since'[x]] /\ \A q \in Sensor : since'[q] = since[q]
    BY <1>1 DEF IInv, SinceField, Sensor
  <1>5. UNCHANGED <<vin, whole, torn>>
    BY DEF GpsReports
  <1> QED  BY <1>3, <1>4, <1>5 DEF IInv, Held, SameCar

\* The two halves of a text keep the widths; what they set is not a whole answer.
LEMMA ReadInTwoKeeps == IInv /\ ReadInTwo => IInv'
  <1> SUFFICES ASSUME IInv, ReadInTwo PROVE IInv'
    OBVIOUS
  <1>1. PICK pair \in CutEffects :
          /\ Parsed(With(With(packet, pair[1]), pair[2]))
          /\ vin' = IF "VIN" \in {pair[1].type, pair[2].type} THEN "cut" ELSE vin
    BY DEF ReadInTwo
  <1>2. PICK a, b : pair = <<Effect(a), Effect(b)>>
    BY DEF CutEffects, CutPairs
  <1> DEFINE first == Effect(a)
             second == Effect(b)
             half == With(packet, first)
  <1>3. Width(first) /\ Width(second)
    BY EffectWidth
  <1>4. pair[1] = first /\ pair[2] = second
    BY <1>2
  <1> HIDE DEF first, second
  <1>5. PacketOK(half) /\ (first.type # "VIN" => half.VIN = packet.VIN)
    BY <1>3, WithOK, Zenon DEF IInv
  <1>6. packet' = With(half, second) /\ received' = TRUE
    BY <1>1, <1>4 DEF Parsed
  <1> HIDE DEF half
  <1>7. PacketOK(packet') /\ (second.type # "VIN" => packet'.VIN = half.VIN)
    BY <1>3, <1>5, <1>6, WithOK, Zenon
  <1>8. /\ vin' \in {"unknown", "whole", "cut"}
        /\ vin' = "whole" => packet'.VIN = CarVin
    BY <1>1, <1>4, <1>5, <1>7 DEF IInv
  <1>9. whole' = FALSE /\ UNCHANGED since /\ torn' \in 0..MaxTorn
    BY ReportAssumption DEF ReadInTwo, IInv
  <1> QED  BY <1>6, <1>7, <1>8, <1>9 DEF IInv

\* The packet handed on starts again with no field, and keeps the VIN.
LEMMA HandOnKeeps == IInv /\ HandOn => IInv'
  <1> SUFFICES ASSUME IInv, HandOn PROVE IInv'
    OBVIOUS
  <1>1. packet' = [packet EXCEPT !.fields = {"MISC"}]
    BY DEF HandOn, HandOver
  <1>2. /\ received' = FALSE /\ since' = Nothing /\ whole' = TRUE
        /\ UNCHANGED <<vin, torn>>
    BY DEF HandOn, HandOver
  <1>3. /\ packet' = [x \in PacketField |-> packet'[x]]
        /\ \A x \in PacketField \ {"fields"} : packet'[x] = packet[x]
        /\ packet'.fields = {"MISC"}
    BY <1>1 DEF IInv, PacketOK, PacketField
  <1>4. PacketOK(packet') /\ packet'.VIN = packet.VIN
    BY <1>3 DEF IInv, PacketOK, PacketField, Sensor, Field
  <1>5. Nothing = [x \in SinceField |-> Nothing[x]] /\ \A q \in Sensor : Nothing[q] = None
    BY DEF Nothing, SinceField
  <1>6. Held(packet', since')
    BY <1>2, <1>3, <1>5 DEF Held, Sensor
  <1> QED  BY <1>2, <1>4, <1>5, <1>6 DEF IInv

\* The invariant is inductive (collector_parse_task, and msgMQTT, which changes nothing).
THEOREM Inductive == Spec => []IInv
  <1>1. Init => IInv
    BY InitHolds
  <1>2. IInv /\ [Next]_vars => IInv'
    <2> SUFFICES ASSUME IInv, [Next]_vars PROVE IInv'
      OBVIOUS
    <2>1. CASE CarAnswersVin  BY <2>1, CarAnswersVinKeeps
    <2>2. CASE SensorAnswers  BY <2>2, SensorAnswersKeeps
    <2>3. CASE SensorHasNoData  BY <2>3, SensorHasNoDataKeeps
    <2>4. CASE GpsReports  BY <2>4, GpsReportsKeeps
    <2>5. CASE ReadInTwo  BY <2>5, ReadInTwoKeeps
    <2>6. CASE HandOn  BY <2>6, HandOnKeeps
    <2>7. CASE UNCHANGED vars
      BY <2>7 DEF vars, IInv
    <2> QED  BY <2>1, <2>2, <2>3, <2>4, <2>5, <2>6, <2>7 DEF Next
  <1> QED  BY <1>1, <1>2, PTL DEF Spec
-----------------------------------------------------------------------------
\* The theorems.

\* The packet keeps the widths of elm327_data_t whatever is read (collector_parse_task).
THEOREM TypeCorrect == Spec => []TypeOK
  <1>1. IInv => TypeOK
    BY DEF IInv, PacketOK, TypeOK, ByteValue
  <1> QED  BY <1>1, Inductive, PTL

\* What msgMQTT gives of the sensors: those of the packet's fields.
LEMMA MeasuredFields ==
    ASSUME NEW p, NEW i, NEW digits
    PROVE  DOMAIN msgMQTT(p, i, digits).measured = Sensor \cap p.fields
  <1>1. msgMQTT(p, i, digits).measured = [q \in Sensor \cap p.fields |-> AsText(p, q)]
    BY DEF msgMQTT
  <1> QED  BY <1>1

\* Only msgMQTT makes a report, and it makes it of the packet.
LEMMA OnlyHandOnReports ==
    ASSUME [Next]_vars, report' # None, vars' # vars
    PROVE  \E i \in Attempts, digits \in ClockDigits : report' = msgMQTT(packet, i, digits)
  <1>1. HandOn
    BY Zenon DEF Next, Parsed, SensorAnswers, SensorHasNoData, CarAnswersVin, GpsReports,
                 ReadInTwo
  <1> QED  BY <1>1, Zenon DEF HandOn, HandOver

\* A report names a sensor just when it answered since the last report, and gives
\* that answer (collector_parse_task, msgMQTT).
THEOREM ReportsAreMeasured == Spec => ReportIsMeasured
  <1> DEFINE Measured ==
        report' # None /\ whole =>
          \A q \in Sensor :
            /\ q \in DOMAIN report'.measured <=> since[q] # None
            /\ since[q] # None => packet[q] = since[q]
  <1>1. IInv /\ [Next]_vars => [Measured]_vars
    <2> SUFFICES ASSUME IInv, [Next]_vars, report' # None, whole, vars' # vars,
                        NEW q \in Sensor
                 PROVE  /\ q \in DOMAIN report'.measured <=> since[q] # None
                        /\ since[q] # None => packet[q] = since[q]
      BY Zenon DEF Measured
    <2>1. PICK i \in Attempts, digits \in ClockDigits : report' = msgMQTT(packet, i, digits)
      BY OnlyHandOnReports, Zenon
    <2>2. DOMAIN report'.measured = Sensor \cap packet.fields
      BY <2>1, MeasuredFields, Zenon
    <2>3. Held(packet, since)
      BY DEF IInv
    <2> QED  BY <2>2, <2>3 DEF Held
  <1> QED  BY <1>1, Inductive, PTL DEF Spec, ReportIsMeasured

\* Of a VIN without a byte 0, nothing is left out.
LEMMA VinTextIsVin ==
    ASSUME NEW p, p.VIN = CarVin
    PROVE  VinText(p) = CarVin
  <1> DEFINE n == Len(p.VIN)
             kept == {i \in 1..n : p.VIN[i] # 0}
             Upto(i) == {j \in kept : j <= i}
             Kth(k) == CHOOSE i \in k..n : i \in kept /\ Cardinality(Upto(i)) = k
  <1>1. VinText(p) = [k \in 1..Cardinality(kept) |-> p.VIN[Kth(k)]]
    BY DEF VinText
  <1>2. CarVin = [i \in 1..17 |-> CarVin[i]] /\ \A i \in 1..17 : CarVin[i] # 0
    <2>1. CarVin = [i \in 1..17 |-> CarVin[i]]
      BY ReportAssumption
    <2>2. ASSUME NEW i \in 1..17
          PROVE  CarVin[i] # 0
      <3>1. CarVin \in Seq(48..90) /\ i \in 1..Len(CarVin)
        BY ReportAssumption
      <3>2. CarVin[i] \in 48..90
        BY <3>1, ElementOfSeq, Zenon
      <3> QED  BY <3>2
    <2> QED  BY <2>1, <2>2
  <1>3. n = 17
    BY ReportAssumption
  <1> HIDE DEF n
  <1>4. kept = 1..17
    BY <1>2, <1>3
  <1> HIDE DEF kept
  <1>5. ASSUME NEW i \in 1..17
        PROVE  Cardinality(Upto(i)) = i
    <2>1. Upto(i) = 1..i
      BY <1>4
    <2>2. 1 \in Int /\ i \in Int /\ ~(1 > i) /\ i - 1 + 1 = i
      OBVIOUS
    <2>3. Cardinality(1..i) = IF 1 > i THEN 0 ELSE i - 1 + 1
      BY <2>2, FS_Interval, Zenon
    <2>4. Cardinality(1..i) = i
      BY <2>2, <2>3, Zenon
    <2> QED  BY <2>1, <2>4, Zenon
  <1>6. Cardinality(kept) = 17
    <2>1. kept = Upto(17) /\ 17 \in 1..17
      BY <1>4
    <2> HIDE DEF Upto
    <2> QED  BY <1>5, <2>1, Zenon
  <1> HIDE DEF Upto
  <1>7. ASSUME NEW k \in 1..17
        PROVE  Kth(k) = k
    <2>1. k \in k..n /\ k \in kept /\ Cardinality(Upto(k)) = k
      BY <1>3, <1>4, <1>5
    <2>2. ASSUME NEW i \in k..n, i \in kept, Cardinality(Upto(i)) = k
          PROVE  i = k
      BY <1>4, <1>5, <2>2
    <2> QED  BY <2>1, <2>2
  <1> HIDE DEF Kth
  <1>8. VinText(p) = [k \in 1..17 |-> CarVin[Kth(k)]]
    BY <1>1, <1>6
  <1> QED  BY <1>2, <1>7, <1>8

\* Once the VIN was read whole, every report names the car's (parse_vin, msgMQTT).
THEOREM VinIsTheCars == Spec => VinIsCars
  <1> DEFINE Named == report' # None /\ vin = "whole" => report'.vin = CarVin
  <1>1. IInv /\ [Next]_vars => [Named]_vars
    <2> SUFFICES ASSUME IInv, [Next]_vars, report' # None, vin = "whole", vars' # vars
                 PROVE  report'.vin = CarVin
      BY Zenon DEF Named
    <2>1. PICK i \in Attempts, digits \in ClockDigits : report' = msgMQTT(packet, i, digits)
      BY OnlyHandOnReports, Zenon
    <2>2. msgMQTT(packet, i, digits).vin = VinText(packet)
      BY DEF msgMQTT
    <2>3. VinText(packet) = CarVin
      BY VinTextIsVin DEF IInv
    <2> QED  BY <2>1, <2>2, <2>3, Zenon
  <1> QED  BY <1>1, Inductive, PTL DEF Spec, VinIsCars
\* A set of numbers up to n has at most n.
LEMMA SubsetIsSmall ==
    ASSUME NEW n \in Nat, NEW S, S \subseteq 1..n
    PROVE  Cardinality(S) \in 0..n
  <1>1. IsFiniteSet(1..n) /\ Cardinality(1..n) = n
    <2>1. 1 \in Int /\ n \in Int /\ (IF 1 > n THEN 0 ELSE n - 1 + 1) = n
      OBVIOUS
    <2> QED  BY <2>1, FS_Interval, Zenon
  <1>2. IsFiniteSet(S) /\ Cardinality(S) <= Cardinality(1..n)
    BY <1>1, FS_Subset, Zenon
  <1>3. Cardinality(S) \in Nat
    BY <1>2, FS_CardinalityType, Zenon
  <1> QED  BY <1>1, <1>2, <1>3

\* No 32-bit integer is written with more than 11 characters, no real with more than 18.
LEMMA IntLenIsSmall == \A n : IntLen(n) \in 1..11 /\ RealLen(n) \in 8..18
  <1> TAKE n
  <1> DEFINE size == IF n < 0 THEN -n ELSE n
             places == {k \in 1..9 : 10^k <= size}
             sign == IF n < 0 THEN 1 ELSE 0
  <1>1. IntLen(n) = 1 + Cardinality(places) + sign
    BY DEF IntLen
  <1>2. places \subseteq 1..9 /\ sign \in 0..1 /\ 9 \in Nat
    OBVIOUS
  <1> HIDE DEF places, sign
  <1>3. Cardinality(places) \in 0..9
    BY <1>2, SubsetIsSmall, Zenon
  <1>4. IntLen(n) \in 1..11
    BY <1>1, <1>2, <1>3
  <1> QED  BY <1>4 DEF RealLen

\* What the sensors' part of a text may come to (msgMQTT).
LEMMA SensorsLenIsSmall == \A p : SensorsLen(p) \in 0..91
  <1> TAKE p
  <1>1. SensorLen(p, "FUEL") \in 0..31
    <2> DEFINE a == AsText(p, "FUEL")
    <2>1. SensorLen(p, "FUEL") =
            IF "FUEL" \notin p.fields THEN 0
            ELSE 13 + RealLen((a \div 255) * 100 + ((a % 255) * 100) \div 255)
      BY DEF SensorLen
    <2>2. RealLen((a \div 255) * 100 + ((a % 255) * 100) \div 255) \in 8..18
      BY IntLenIsSmall, Zenon
    <2> QED  BY <2>1, <2>2
  <1>2. SensorLen(p, "SPEED") \in 0..29
    <2>1. SensorLen(p, "SPEED") =
            IF "SPEED" \notin p.fields THEN 0 ELSE 11 + RealLen(AsText(p, "SPEED"))
      BY DEF SensorLen
    <2>2. RealLen(AsText(p, "SPEED")) \in 8..18
      BY IntLenIsSmall, Zenon
    <2> QED  BY <2>1, <2>2
  <1>3. SensorLen(p, "TEMP") \in 0..31
    <2>1. SensorLen(p, "TEMP") =
            IF "TEMP" \notin p.fields THEN 0 ELSE 13 + RealLen(AsText(p, "TEMP"))
      BY DEF SensorLen
    <2>2. RealLen(AsText(p, "TEMP")) \in 8..18
      BY IntLenIsSmall, Zenon
    <2> QED  BY <2>1, <2>2
  <1> QED  BY <1>1, <1>2, <1>3 DEF SensorsLen

\* The VIN in the text has at most the packet's 17 characters.
LEMMA VinTextIsSmall ==
    ASSUME NEW p, p.VIN \in Seq(ByteValue), Len(p.VIN) = 17
    PROVE  Len(VinText(p)) \in 0..17
  <1> DEFINE kept == {i \in 1..Len(p.VIN) : p.VIN[i] # 0}
             Kth(k) == CHOOSE i \in k..Len(p.VIN) :
                         i \in kept /\ Cardinality({j \in kept : j <= i}) = k
  <1>1. VinText(p) = [k \in 1..Cardinality(kept) |-> p.VIN[Kth(k)]]
    BY DEF VinText
  <1>2. kept \subseteq 1..17 /\ 17 \in Nat
    OBVIOUS
  <1> HIDE DEF kept, Kth
  <1>3. Cardinality(kept) \in 0..17
    BY <1>2, SubsetIsSmall, Zenon
  <1>4. VinText(p) \in [1..Cardinality(kept) -> {p.VIN[Kth(k)] : k \in 1..Cardinality(kept)}]
    BY <1>1
  <1>5. Len(VinText(p)) = Cardinality(kept)
    BY <1>3, <1>4, FcnIsSeq
  <1> QED  BY <1>3, <1>5

\* The main text fits its 200 bytes with the 0 behind it, whatever was read and
\* whatever is printed for it: 194 characters are the most (msgMQTT).
THEOREM MainTextFits == Spec => [][report' # None => report'.mainLen < TextSize]_vars
  <1> DEFINE Fits == report' # None => report'.mainLen < TextSize
  <1>1. IInv /\ [Next]_vars => [Fits]_vars
    <2> SUFFICES ASSUME IInv, [Next]_vars, report' # None, vars' # vars
                 PROVE  report'.mainLen < TextSize
      BY Zenon DEF Fits
    <2>1. PICK i \in Attempts, digits \in ClockDigits : report' = msgMQTT(packet, i, digits)
      BY OnlyHandOnReports, Zenon
    <2>2. report'.mainLen = MainLen(packet, i, digits)
      BY <2>1 DEF msgMQTT
    <2>3. i \in Int /\ digits \in 1..10
      BY ReportAssumption
    <2>4. FrameLen(packet, i) \in Nat /\ FrameLen(packet, i) <= 68
      <3>1. Len(VinText(packet)) \in 0..17
        BY VinTextIsSmall DEF IInv, PacketOK
      <3>2. IntLen(i) \in 1..11
        BY <2>3, IntLenIsSmall
      <3> DEFINE l == Len(VinText(packet))
                 m == IntLen(i)
      <3>3. FrameLen(packet, i) = 2 * (l + 7) + 8 + m + 1
        BY DEF FrameLen
      <3> HIDE DEF l, m
      <3>4. l \in 0..17 /\ m \in 1..11
        BY <3>1, <3>2 DEF l, m
      <3> QED  BY <3>3, <3>4
    <2>5. SensorsLen(packet) \in 0..91
      BY SensorsLenIsSmall
    <2> QED  BY <2>2, <2>3, <2>4, <2>5 DEF MainLen, TextSize
  <1> QED  BY <1>1, Inductive, PTL DEF Spec
-----------------------------------------------------------------------------
\* The position: its digits, and the places it is read at.

\* The digits of a number, as the GPS writes them.
Digit == 48..57

\* Of digits alone, nothing is left out.
LEMMA AllLead ==
    ASSUME NEW s \in Seq(Digit)
    PROVE  LeadingDigits(s) = s
  <1> DEFINE n == Len(s)
             Lead(k) == /\ \A i \in 1..k : IsDigit(s[i])
                        /\ k = n \/ ~IsDigit(s[k + 1])
             most == CHOOSE k \in 0..n : Lead(k)
  <1>1. n \in Nat /\ \A i \in 1..n : IsDigit(s[i])
    BY DEF IsDigit, Digit
  <1>2. Lead(n) /\ n \in 0..n
    BY <1>1
  <1>3. \A k \in 0..n : Lead(k) => k = n
    BY <1>1
  <1>4. LeadingDigits(s) = SubSeq(s, 1, most)
    BY DEF LeadingDigits
  <1>5. most = n
    <2> HIDE DEF Lead
    <2> QED  BY <1>2, <1>3
  <1>6. SubSeq(s, 1, n) = s
    <2>1. SubSeq(s, 1, n) = [i \in 1..n |-> s[i]]
      BY <1>1
    <2> QED  BY <2>1
  <1> HIDE DEF most, n
  <1> QED  BY <1>4, <1>5, <1>6

\* What is added to a number by its digits, one after the other.
LEMMA UnsignedSteps ==
    ASSUME NEW s \in Seq(Digit), Len(s) \in {2, 3}
    PROVE  LET one == Append10(0, s[1])
               two == Append10(one, s[2])
           IN  Unsigned(s) = IF Len(s) = 2 THEN two ELSE Append10(two, s[3])
  <1> DEFINE n == Len(s)
             one == Append10(0, s[1])
             two == Append10(one, s[2])
             three == Append10(two, s[3])
             Eqn(f) == f = [k \in 0..n |-> IF k = 0 THEN 0 ELSE Append10(f[k - 1], s[k])]
             number == CHOOSE f : Eqn(f)
             w == [k \in 0..n |-> IF k = 0 THEN 0 ELSE IF k = 1 THEN one
                                  ELSE IF k = 2 THEN two ELSE three]
  <1>1. Unsigned(s) = number[n]
    BY AllLead, Zenon DEF Unsigned
  <1>2. n \in {2, 3} /\ n \in Nat
    OBVIOUS
  <1>3. Eqn(w)
    <2>1. /\ w[0] = 0 /\ w[1] = one /\ w[2] = two
          /\ n = 3 => w[3] = three
      BY <1>2
    <2>2. ASSUME NEW k \in 0..n
          PROVE  w[k] = IF k = 0 THEN 0 ELSE Append10(w[k - 1], s[k])
      <3> HIDE DEF w
      <3>1. CASE k = 0  BY <2>1, <3>1
      <3>2. CASE k = 1  BY <2>1, <3>2
      <3>3. CASE k = 2  BY <2>1, <3>3
      <3>4. CASE k = 3  BY <1>2, <2>1, <3>4
      <3> QED  BY <1>2, <3>1, <3>2, <3>3, <3>4
    <2>3. w = [k \in 0..n |-> w[k]]
      OBVIOUS
    <2> HIDE DEF w
    <2> QED  BY <2>2, <2>3
  <1>4. Eqn(number)
    <2> HIDE DEF Eqn, w
    <2> QED  BY <1>3, Zenon
  <1> HIDE DEF number, n
  <1>5. number[0] = 0 /\ number[1] = one /\ number[2] = two /\ (n = 3 => number[3] = three)
    <2>1. ASSUME NEW k \in 0..n
          PROVE  number[k] = IF k = 0 THEN 0 ELSE Append10(number[k - 1], s[k])
      BY <1>4, <2>1
    <2> HIDE DEF Eqn
    <2>2. number[0] = 0  BY <1>2, <2>1
    <2>3. number[1] = one  BY <1>2, <2>1, <2>2
    <2>4. number[2] = two  BY <1>2, <2>1, <2>3
    <2>5. n = 3 => number[3] = three  BY <1>2, <2>1, <2>4
    <2> QED  BY <2>2, <2>3, <2>4, <2>5
  <1> QED  BY <1>1, <1>2, <1>5 DEF n

\* A digit more does not overflow a small number.
LEMMA AppendSmall ==
    ASSUME NEW n \in 0..100, NEW c \in Digit
    PROVE  Append10(n, c) = n * 10 + (c - 48)
  <1> DEFINE room == (MaxInt - (c - 48)) \div 10
  <1>1. c - 48 \in 0..9
    BY DEF Digit
  <1>2. room > 100
    <2>1. \A d \in 0..9 : (2147483647 - d) \div 10 > 100
      BY SMT
    <2> QED  BY <1>1, <2>1, SMT DEF MaxInt
  <1> HIDE DEF room
  <1>3. ~(n > room)
    <2>1. room \in Int
      BY <1>1 DEF room, MaxInt
    <2> QED  BY <1>2, <2>1
  <1> QED  BY <1>3 DEF Append10, room

\* atoi of two or three digits.
LEMMA AtoiDigits ==
    ASSUME NEW s \in Seq(Digit), Len(s) \in {2, 3}
    PROVE  atoi(s) = IF Len(s) = 2 THEN 10 * (s[1] - 48) + (s[2] - 48)
                     ELSE 100 * (s[1] - 48) + 10 * (s[2] - 48) + (s[3] - 48)
  <1> DEFINE n == Len(s)
             Begin(k) == /\ \A i \in 1..(k - 1) : s[i] \in 9..13 \cup {32}
                         /\ k > n \/ s[k] \notin 9..13 \cup {32}
             start == CHOOSE k \in 1..(n + 1) : Begin(k)
             text == SubSeq(s, start, n)
  <1>1. n \in {2, 3} /\ \A i \in 1..n : s[i] \in Digit
    OBVIOUS
  <1>0. \A i \in 1..n : s[i] \notin 9..13 \cup {32} /\ s[i] # 45 /\ s[i] # 43
    <2>1. \A x \in Digit : x \notin 9..13 \cup {32} /\ x # 45 /\ x # 43
      BY DEF Digit
    <2> QED  BY <1>1, <2>1, Zenon
  <1>2. atoi(s) = IF text = <<>> THEN 0
                  ELSE IF text[1] = 45 THEN -Unsigned(Tail(text))
                  ELSE IF text[1] = 43 THEN Unsigned(Tail(text))
                  ELSE Unsigned(text)
    BY DEF atoi
  <1>3. start = 1
    <2>1. 1 \in 1..(n + 1) /\ Begin(1)
      BY <1>0, <1>1
    <2>2. ASSUME NEW k \in 1..(n + 1), Begin(k)
          PROVE  k = 1
      <3>1. 1 \in 1..n  BY <1>1
      <3>2. s[1] \notin 9..13 \cup {32}  BY <1>0, <3>1, Zenon
      <3>3. ~(1 \in 1..(k - 1))  BY <2>2, <3>2, Zenon
      <3> QED  BY <1>1, <3>3
    <2> HIDE DEF Begin
    <2> QED  BY <2>1, <2>2
  <1>4. text = s
    <2>1. SubSeq(s, 1, n) = [i \in 1..n |-> s[i]]
      BY <1>1
    <2>2. SubSeq(s, 1, n) = s
      BY <2>1
    <2> HIDE DEF start
    <2> QED  BY <1>3, <2>2
  <1> HIDE DEF text, start
  <1>5. s # <<>> /\ s[1] # 45 /\ s[1] # 43
    <2>1. Len(<<>>) = 0 /\ 1 \in 1..n
      BY <1>1
    <2>2. s # <<>>
      BY <1>1, <2>1
    <2> QED  BY <1>0, <2>1, <2>2
  <1>6. atoi(s) = Unsigned(s)
    BY <1>2, <1>4, <1>5, Zenon
  <1> DEFINE one == Append10(0, s[1])
             two == Append10(one, s[2])
  <1> DEFINE a == s[1] - 48
             b == s[2] - 48
             c == s[3] - 48
  <1>7. a \in 0..9 /\ b \in 0..9 /\ (n = 3 => c \in 0..9)
    BY <1>1 DEF Digit
  <1>8. one = a
    <2>1. s[1] \in Digit /\ 0 \in 0..100
      BY <1>1
    <2>2. one = 0 * 10 + a
      BY <2>1, AppendSmall, Zenon
    <2> HIDE DEF one, a
    <2> QED  BY <1>7, <2>2
  <1>9. two = 10 * a + b
    <2>1. s[2] \in Digit /\ one \in 0..100
      <3> HIDE DEF one, a
      <3> QED  BY <1>1, <1>7, <1>8
    <2>2. two = one * 10 + b
      BY <2>1, AppendSmall, Zenon
    <2> HIDE DEF one, two, a, b
    <2> QED  BY <1>7, <1>8, <2>2
  <1>11. n = 3 => Append10(two, s[3]) = 100 * a + 10 * b + c
    <2> SUFFICES ASSUME n = 3 PROVE Append10(two, s[3]) = 100 * a + 10 * b + c
      OBVIOUS
    <2>1. s[3] \in Digit /\ two \in 0..100
      <3> HIDE DEF two, a, b
      <3> QED  BY <1>1, <1>7, <1>9
    <2>2. Append10(two, s[3]) = two * 10 + c
      BY <2>1, AppendSmall, Zenon
    <2> HIDE DEF one, two, a, b, c
    <2> QED  BY <1>7, <1>9, <2>2
  <1>10. Unsigned(s) = IF n = 2 THEN two ELSE Append10(two, s[3])
    BY UnsignedSteps
  <1> HIDE DEF one, two
  <1> QED  BY <1>1, <1>6, <1>9, <1>10, <1>11

\* The powers of ten of up to four digits.
Ten(i) == 10^i
LEMMA Tens == Ten(0) = 1 /\ Ten(1) = 10 /\ Ten(2) = 100 /\ Ten(3) = 1000
  BY SMT DEF Ten

\* The digits of a number are digits.
LEMMA DigitsAreDigits ==
    ASSUME NEW n \in Nat, NEW k \in 1..4
    PROVE  /\ Digits(n, k) \in Seq(Digit) /\ Len(Digits(n, k)) = k
           /\ \A i \in 1..k : Digits(n, k)[i] = 48 + ((n \div Ten(k - i)) % 10)
  <1> DEFINE f == [i \in 1..k |-> 48 + ((n \div Ten(k - i)) % 10)]
  <1>1. Digits(n, k) = f
    BY DEF Digits, Ten
  <1>2. f \in [1..k -> Digit]
    <2> SUFFICES ASSUME NEW i \in 1..k PROVE 48 + ((n \div Ten(k - i)) % 10) \in Digit
      OBVIOUS
    <2>1. k - i \in 0..3
      OBVIOUS
    <2>2. Ten(k - i) \in {1, 10, 100, 1000}
      <3> DEFINE j == k - i
      <3>1. j = 0 \/ j = 1 \/ j = 2 \/ j = 3  BY <2>1
      <3> HIDE DEF j
      <3>2. Ten(j) \in {1, 10, 100, 1000}  BY <3>1, Tens
      <3> QED  BY <3>2 DEF j
    <2> DEFINE t == Ten(k - i)
               q == n \div t
    <2>3. q \in Nat
      BY <2>2
    <2> HIDE DEF q
    <2>4. 48 + (q % 10) \in Digit
      BY <2>3 DEF Digit
    <2> QED  BY <2>4 DEF q
  <1> HIDE DEF f
  <1>3. f \in Seq(Digit) /\ Len(f) = k
    BY <1>2, FcnIsSeq
  <1> QED  BY <1>1, <1>3 DEF f

\* Two digits say a number below 100, three one below 1000.
LEMMA DigitsSay ==
    ASSUME NEW n \in Nat
    PROVE  /\ n < 100 => atoi(Digits(n, 2)) = n
           /\ n < 1000 => atoi(Digits(n, 3)) = n
  <1>1. ASSUME n < 100
        PROVE  atoi(Digits(n, 2)) = n
    <2> DEFINE s == Digits(n, 2)
    <2>1. s \in Seq(Digit) /\ Len(s) = 2
          /\ \A i \in 1..2 : s[i] = 48 + ((n \div Ten(2 - i)) % 10)
      BY DigitsAreDigits
    <2>2. s[1] = 48 + ((n \div 10) % 10) /\ s[2] = 48 + ((n \div 1) % 10)
      BY <2>1, Tens
    <2> HIDE DEF s
    <2>3. atoi(s) = 10 * (s[1] - 48) + (s[2] - 48)
      BY <2>1, AtoiDigits
    <2>4. 10 * ((n \div 10) % 10) + ((n \div 1) % 10) = n
      BY <1>1
    <2> QED  BY <2>2, <2>3, <2>4 DEF s
  <1>2. ASSUME n < 1000
        PROVE  atoi(Digits(n, 3)) = n
    <2> DEFINE s == Digits(n, 3)
    <2>1. s \in Seq(Digit) /\ Len(s) = 3
          /\ \A i \in 1..3 : s[i] = 48 + ((n \div Ten(3 - i)) % 10)
      BY DigitsAreDigits
    <2>2. /\ s[1] = 48 + ((n \div 100) % 10) /\ s[2] = 48 + ((n \div 10) % 10)
          /\ s[3] = 48 + ((n \div 1) % 10)
      BY <2>1, Tens
    <2> HIDE DEF s
    <2>3. atoi(s) = 100 * (s[1] - 48) + 10 * (s[2] - 48) + (s[3] - 48)
      BY <2>1, AtoiDigits
    <2>4. 100 * ((n \div 100) % 10) + 10 * ((n \div 10) % 10) + ((n \div 1) % 10) = n
      BY <1>2
    <2> DEFINE x == (n \div 100) % 10
               y == (n \div 10) % 10
               z == (n \div 1) % 10
    <2>5. x \in Nat /\ y \in Nat /\ z \in Nat
      OBVIOUS
    <2>6. s[1] = 48 + x /\ s[2] = 48 + y /\ s[3] = 48 + z /\ 100 * x + 10 * y + z = n
      BY <2>2, <2>4
    <2> HIDE DEF x, y, z
    <2>7. atoi(s) = n
      BY <2>3, <2>5, <2>6
    <2> QED  BY <2>7 DEF s
  <1> QED  BY <1>1, <1>2

\* The text s lies in b from character at on.
Has(b, at, s) == \A i \in 0..(Len(s) - 1) : At(b, at + i) = At(s, i)

\* A text has what is appended to it.
LEMMA HasBehind ==
    ASSUME NEW s \in Text, NEW t \in Text, NEW at \in Nat, at = Len(s)
    PROVE  Has(Cat(s, t), at, t)
  <1> SUFFICES ASSUME NEW i \in 0..(Len(t) - 1)
               PROVE  At(Cat(s, t), at + i) = At(t, i)
    BY DEF Has
  <1> DEFINE j == at + i
  <1>1. j \in Nat /\ i \in Nat /\ Behind(s, j, i)
    BY TextLen DEF Behind
  <1> HIDE DEF j
  <1>2. At(Cat(s, t), j) = At(t, i)
    BY <1>1, AtRight
  <1> QED  BY <1>2 DEF j

\* And keeps what it had.
LEMMA HasKept ==
    ASSUME NEW s \in Text, NEW t \in Text, NEW at \in Nat, NEW u \in Text,
           Has(s, at, u), at + Len(u) <= Len(s)
    PROVE  Has(Cat(s, t), at, u)
  <1> SUFFICES ASSUME NEW i \in 0..(Len(u) - 1)
               PROVE  At(Cat(s, t), at + i) = At(u, i)
    BY DEF Has
  <1> DEFINE j == at + i
  <1>1. j \in Nat /\ j < Len(s)
    BY TextLen
  <1>2. At(s, j) = At(u, i)
    BY DEF Has
  <1> HIDE DEF j
  <1>3. At(Cat(s, t), j) = At(s, j)
    BY <1>1, AtLeft, Zenon
  <1> QED  BY <1>2, <1>3 DEF j

\* The places of a position: degrees, minutes, four digits and the hemisphere.
AnglePlaces(b, at, a, d) ==
    /\ Has(b, at, Digits(a.deg, d))
    /\ Has(b, at + d, Digits(a.min, 2))
    /\ Has(b, at + d + 3, Digits(a.frac, 4))
    /\ Has(b, at + d + 7, <<44, a.hemisphere>>)

\* The angle of a position, as far as its text goes.
Angular(a) == a.deg \in Nat /\ a.min \in Nat /\ a.frac \in Nat /\ a.hemisphere \in Nat

\* The text of an angle has them.
LEMMA AngleReads ==
    ASSUME NEW a, Angular(a), NEW d \in {2, 3}
    PROVE  /\ Angle(a, d) \in Text /\ Len(Angle(a, d)) = d + 9
           /\ AnglePlaces(Angle(a, d), 0, a, d)
  <1> DEFINE deg == Digits(a.deg, d)
             min == Digits(a.min, 2)
             point == <<46>>
             frac == Digits(a.frac, 4)
             side == <<44, a.hemisphere>>
             a1 == Cat(deg, min)
             a2 == Cat(a1, point)
             a3 == Cat(a2, frac)
             a4 == Cat(a3, side)
             d2 == d + 2
             d3 == d + 3
             d7 == d + 7
  <1>1. Angle(a, d) = a4
    BY DEF Angle, Cat
  <1>2. /\ deg \in Seq(Digit) /\ Len(deg) = d
        /\ min \in Seq(Digit) /\ Len(min) = 2
        /\ frac \in Seq(Digit) /\ Len(frac) = 4
    <2>1. d \in 1..4 /\ 2 \in 1..4 /\ 4 \in 1..4
      OBVIOUS
    <2> QED  BY <2>1, DigitsAreDigits, Zenon DEF Angular
  <1>3. point \in Text /\ Len(point) = 1 /\ side \in Text /\ Len(side) = 2
    BY DEF Text, Angular
  <1> HIDE DEF deg, min, frac, point, side
  <1>4. Digit \subseteq Nat
    BY DEF Digit
  <1>5. deg \in Text /\ min \in Text /\ frac \in Text
    BY <1>2, <1>4, SeqMonotonic, Zenon DEF Text
  <1>6. /\ d \in Nat /\ d2 \in Nat /\ d3 \in Nat /\ d7 \in Nat /\ 0 \in Nat
        /\ d2 + 1 = d3 /\ d3 + 4 = d7 /\ d + 2 = d2 /\ d7 + 2 = d + 9
        /\ 0 + d = d /\ d <= d2 /\ d <= d3 /\ d <= d7 /\ d2 <= d3 /\ d2 <= d7
        /\ d7 <= d7
    OBVIOUS
  <1> HIDE DEF d2, d3, d7
  <1>7. a1 \in Text /\ Len(a1) = d2
    BY <1>2, <1>5, <1>6, CatIsText
  <1>8. Has(a1, 0, deg) /\ Has(a1, d, min)
    <2>1. Has(deg, 0, deg)
      BY DEF Has
    <2>2. 0 + Len(deg) <= Len(deg) /\ d = Len(deg)
      BY <1>2, <1>6
    <2> QED  BY <1>5, <1>6, <2>1, <2>2, HasKept, HasBehind, Zenon
  <1> HIDE DEF a1
  <1>9. a2 \in Text /\ Len(a2) = d3
    BY <1>3, <1>6, <1>7, CatIsText
  <1>10. Has(a2, 0, deg) /\ Has(a2, d, min)
    <2>1. 0 + Len(deg) <= Len(a1) /\ d + Len(min) <= Len(a1)
      BY <1>2, <1>6, <1>7
    <2> QED  BY <1>3, <1>5, <1>6, <1>7, <1>8, <2>1, HasKept, Zenon
  <1> HIDE DEF a2
  <1>11. a3 \in Text /\ Len(a3) = d7
    BY <1>2, <1>5, <1>6, <1>9, CatIsText
  <1>12. Has(a3, 0, deg) /\ Has(a3, d, min) /\ Has(a3, d3, frac)
    <2>1. 0 + Len(deg) <= Len(a2) /\ d + Len(min) <= Len(a2) /\ d3 = Len(a2)
      BY <1>2, <1>6, <1>9
    <2> QED  BY <1>5, <1>6, <1>9, <1>10, <2>1, HasKept, HasBehind, Zenon
  <1> HIDE DEF a3
  <1>13. a4 \in Text /\ Len(a4) = d + 9
    BY <1>3, <1>6, <1>11, CatIsText
  <1>14. Has(a4, 0, deg) /\ Has(a4, d, min) /\ Has(a4, d3, frac) /\ Has(a4, d7, side)
    <2>1. /\ 0 + Len(deg) <= Len(a3) /\ d + Len(min) <= Len(a3) /\ d3 + Len(frac) <= Len(a3)
          /\ d7 = Len(a3)
      BY <1>2, <1>6, <1>11
    <2> QED  BY <1>3, <1>5, <1>6, <1>11, <1>12, <2>1, HasKept, HasBehind, Zenon
  <1> HIDE DEF a4
  <1>15. AnglePlaces(a4, 0, a, d)
    <2>1. 0 + d = d /\ 0 + d + 3 = d3 /\ 0 + d + 7 = d7
      BY DEF d3, d7
    <2> QED  BY <1>14, <2>1, Zenon DEF AnglePlaces, deg, min, frac, side
  <1> QED  BY <1>1, <1>13, <1>15

\* What a coordinate of the packet says of a position: the point is left out.
PlaceChars(p, a, d) ==
    /\ IsList(p) /\ Len(p) = d + 8
    /\ \A k \in 1..d : p[k] = Digits(a.deg, d)[k]
    /\ \A k \in 1..2 : p[d + k] = Digits(a.min, 2)[k]
    /\ \A k \in 1..4 : p[d + 2 + k] \in Digit
    /\ p[d + 7] = 44 /\ p[d + 8] = a.hemisphere

\* A field of a sentence whose point is left out.
Pointless(b, i, m, j, n) == Chars(b, i, m) \o Chars(b, j, n)

\* Character by character.
ReadFrom(p, b, i, m, j, n) ==
    /\ IsList(p) /\ Len(p) = m + n
    /\ \A k \in 1..m : p[k] = At(b, i + k - 1)
    /\ \A k \in 1..n : p[m + k] = At(b, j + k - 1)

\* A field of a sentence is copied character by character.
LEMMA TwoFieldsRead ==
    ASSUME NEW b, NEW i, NEW j, NEW m \in Nat, NEW n \in Nat
    PROVE  ReadFrom(Pointless(b, i, m, j, n), b, i, m, j, n)
  <1> DEFINE s == Chars(b, i, m)
             t == Chars(b, j, n)
  <1>1. /\ \A k \in 1..m : s[k] = At(b, i + k - 1)
        /\ \A k \in 1..n : t[k] = At(b, j + k - 1)
    BY DEF Chars
  <1>2. IsList(s) /\ Len(s) = m /\ IsList(t) /\ Len(t) = n
    BY CharsLen
  <1> HIDE DEF s, t
  <1>3. IsList(Cat(s, t))
    BY <1>2, ListConcat
  <1>4. PICK S : s \in Seq(S)  BY <1>2 DEF IsList
  <1>5. PICK T : t \in Seq(T)  BY <1>2 DEF IsList
  <1>6. s \in Seq(S \cup T) /\ t \in Seq(S \cup T)
    BY <1>4, <1>5, SeqMonotonic
  <1>7. /\ Len(s \o t) = Len(s) + Len(t)
        /\ \A k \in 1..Len(s) : (s \o t)[k] = s[k]
        /\ \A k \in 1..Len(t) : (s \o t)[m + k] = t[k]
    <2>1. /\ Len(s \o t) = Len(s) + Len(t)
          /\ \A k \in 1..(Len(s) + Len(t)) :
               (s \o t)[k] = IF k <= Len(s) THEN s[k] ELSE t[k - Len(s)]
      BY <1>6, ConcatProperties
    <2> QED  BY <1>2, <2>1
  <1> QED  BY <1>1, <1>2, <1>3, <1>7 DEF s, t, Cat, Pointless, ReadFrom

\* So a position is copied from a sentence into the packet.
LEMMA PlaceCopied ==
    ASSUME NEW b, NEW at \in Nat, NEW a, Angular(a), NEW d \in {2, 3}, AnglePlaces(b, at, a, d)
    PROVE  PlaceChars(Chars(b, at, d + 2) \o Chars(b, at + d + 3, 6), a, d)
  <1> DEFINE m == d + 2
             j == at + d + 3
             deg == Digits(a.deg, d)
             min == Digits(a.min, 2)
             frac == Digits(a.frac, 4)
             side == <<44, a.hemisphere>>
             p == Chars(b, at, m) \o Chars(b, j, 6)
  <1>1. /\ deg \in Seq(Digit) /\ Len(deg) = d
        /\ min \in Seq(Digit) /\ Len(min) = 2
        /\ frac \in Seq(Digit) /\ Len(frac) = 4
    <2>1. d \in 1..4 /\ 2 \in 1..4 /\ 4 \in 1..4
      OBVIOUS
    <2> QED  BY <2>1, DigitsAreDigits, Zenon DEF Angular
  <1>2. Len(side) = 2 /\ side[1] = 44 /\ side[2] = a.hemisphere
    OBVIOUS
  <1>3. /\ Has(b, at, deg) /\ Has(b, at + d, min)
        /\ Has(b, at + d + 3, frac) /\ Has(b, at + d + 7, side)
    BY DEF AnglePlaces
  <1> HIDE DEF deg, min, frac, side
  <1>4. /\ IsList(p) /\ Len(p) = m + 6
        /\ \A k \in 1..m : p[k] = At(b, at + k - 1)
        /\ \A k \in 1..6 : p[m + k] = At(b, j + k - 1)
    <2> DEFINE n == 6
    <2>1. m \in Nat /\ n \in Nat
      OBVIOUS
    <2>2. p = Pointless(b, at, m, j, n)
      BY DEF Pointless
    <2> HIDE DEF m, j, n, p
    <2>3. ReadFrom(p, b, at, m, j, n)
      BY <2>1, <2>2, TwoFieldsRead, Zenon
    <2> QED  BY <2>3 DEF n, ReadFrom
  <1> HIDE DEF p
  <1>5. ASSUME NEW k \in 1..d
        PROVE  p[k] = deg[k]
    <2>1. p[k] = At(b, at + (k - 1))
      BY <1>4
    <2>2. k - 1 \in 0..(Len(deg) - 1) /\ (k - 1) + 1 = k /\ k - 1 < Len(deg)
      BY <1>1
    <2>3. At(b, at + (k - 1)) = At(deg, k - 1)
      BY <1>3, <2>2 DEF Has
    <2> QED  BY <2>1, <2>2, <2>3 DEF At
  <1>6. ASSUME NEW k \in 1..2
        PROVE  p[d + k] = min[k]
    <2>1. p[d + k] = At(b, (at + d) + (k - 1))
      BY <1>4
    <2>2. k - 1 \in 0..(Len(min) - 1) /\ (k - 1) + 1 = k /\ k - 1 < Len(min)
      BY <1>1
    <2>3. At(b, (at + d) + (k - 1)) = At(min, k - 1)
      BY <1>3, <2>2 DEF Has
    <2> QED  BY <2>1, <2>2, <2>3 DEF At
  <1>7. ASSUME NEW k \in 1..4
        PROVE  p[d + 2 + k] \in Digit
    <2>1. p[d + 2 + k] = At(b, (at + d + 3) + (k - 1))
      BY <1>4
    <2>2. k - 1 \in 0..(Len(frac) - 1) /\ (k - 1) + 1 = k /\ k - 1 < Len(frac)
      BY <1>1
    <2>3. At(b, (at + d + 3) + (k - 1)) = At(frac, k - 1)
      BY <1>3, <2>2 DEF Has
    <2>4. frac[k] \in Digit
      <3>1. k \in 1..Len(frac)
        BY <1>1
      <3> QED  BY <1>1, <3>1, ElementOfSeq, Zenon
    <2> QED  BY <2>1, <2>2, <2>3, <2>4 DEF At
  <1>8. ASSUME NEW k \in 1..2
        PROVE  p[d + 6 + k] = side[k]
    <2>1. p[d + 6 + k] = At(b, (at + d + 7) + (k - 1))
      BY <1>4
    <2>2. k - 1 \in 0..(Len(side) - 1) /\ (k - 1) + 1 = k /\ k - 1 < Len(side)
      BY <1>2
    <2>3. At(b, (at + d + 7) + (k - 1)) = At(side, k - 1)
      BY <1>3, <2>2 DEF Has
    <2> QED  BY <2>1, <2>2, <2>3 DEF At
  <1>9. p[d + 7] = 44 /\ p[d + 8] = a.hemisphere /\ Len(p) = d + 8
    BY <1>2, <1>4, <1>8
  <1>10. PlaceChars(p, a, d)
    BY <1>4, <1>5, <1>6, <1>7, <1>9 DEF PlaceChars, deg, min
  <1> QED  BY <1>10 DEF p

\* The part of a text from place m on, k characters long.
LEMMA PartIs ==
    ASSUME NEW p, IsList(p), NEW m \in Nat, NEW k \in Nat, NEW n \in Nat, NEW s,
           m >= 1, k >= 1, n = m + k - 1, n <= Len(p),
           s = [i \in 1..k |-> s[i]], \A i \in 1..k : p[m + i - 1] = s[i]
    PROVE  SubSeq(p, m, n) = s
  <1>1. PICK S : p \in Seq(S)
    BY DEF IsList
  <1>2. SubSeq(p, m, n) = [i \in 1..k |-> p[m + i - 1]]
    <2>1. SubSeq(p, m, n) = [i \in 1..(1 + n - m) |-> p[i + m - 1]]
      BY <1>1
    <2>2. 1 + n - m = k /\ \A i \in 1..k : i + m - 1 = m + i - 1
      OBVIOUS
    <2> QED  BY <2>1, <2>2
  <1> QED  BY <1>2

\* Less than a minute more than the position, in hundredths of a minute.
Near(c, a) == \E more \in 0..99 : c = 6000 * a.deg + 100 * a.min + more

\* What is read of a coordinate in the packet: the position, to the minute.
LEMMA PlaceSays ==
    ASSUME NEW p, NEW a, NEW d \in {2, 3}, Angular(a), PlaceChars(p, a, d),
           a.deg < 1000, d = 2 => a.deg < 100, a.min < 100
    PROVE  /\ Near(Coordinate(p, d), a)
           /\ SubSeq(p, Len(p) - 1, Len(p)) = <<44, a.hemisphere>>
  <1> DEFINE deg == Digits(a.deg, d)
             min == Digits(a.min, 2)
             d2 == d + 2
             d4 == d + 4
             frac == SubSeq(p, d + 3, d4)
             hundredths == atoi(frac)
  <1>1. /\ deg \in Seq(Digit) /\ Len(deg) = d
        /\ min \in Seq(Digit) /\ Len(min) = 2
    <2>1. d \in 1..4 /\ 2 \in 1..4
      OBVIOUS
    <2> QED  BY <2>1, DigitsAreDigits, Zenon DEF Angular
  <1>2. atoi(deg) = a.deg /\ atoi(min) = a.min
    <2>1. atoi(Digits(a.min, 2)) = a.min
      BY DigitsSay DEF Angular
    <2>2. CASE d = 2
      <3>1. atoi(Digits(a.deg, 2)) = a.deg
        BY <2>2, DigitsSay DEF Angular
      <3> QED  BY <2>1, <2>2, <3>1, Zenon
    <2>3. CASE d = 3
      <3>1. atoi(Digits(a.deg, 3)) = a.deg
        BY <2>3, DigitsSay DEF Angular
      <3> QED  BY <2>1, <2>3, <3>1, Zenon
    <2> QED  BY <2>2, <2>3
  <1>3. Coordinate(p, d) = 6000 * atoi(SubSeq(p, 1, d)) + 100 * atoi(SubSeq(p, d + 1, d2))
                           + (IF hundredths < 10 THEN 10 * hundredths ELSE hundredths)
    BY DEF Coordinate
  <1> HIDE DEF deg, min
  <1>4. SubSeq(p, 1, d) = deg
    <2>1. deg = [i \in 1..d |-> deg[i]]  BY <1>1
    <2>2. \A i \in 1..d : p[1 + i - 1] = deg[i]  BY DEF PlaceChars, deg
    <2>3. IsList(p) /\ d \in Nat /\ 1 \in Nat /\ 1 >= 1 /\ d >= 1 /\ d = 1 + d - 1 /\ d <= Len(p)
      BY DEF PlaceChars
    <2> QED  BY <2>1, <2>2, <2>3, PartIs
  <1>5. SubSeq(p, d + 1, d2) = min
    <2>1. min = [i \in 1..2 |-> min[i]]  BY <1>1
    <2>2. \A i \in 1..2 : p[(d + 1) + i - 1] = min[i]  BY DEF PlaceChars, min
    <2>3. IsList(p) /\ d + 1 \in Nat /\ 2 \in Nat /\ d2 \in Nat /\ d + 1 >= 1 /\ 2 >= 1
          /\ d2 = (d + 1) + 2 - 1 /\ d2 <= Len(p)
      BY DEF PlaceChars
    <2> QED  BY <2>1, <2>2, <2>3, PartIs
  <1>6. SubSeq(p, Len(p) - 1, Len(p)) = <<44, a.hemisphere>>
    <2> DEFINE side == <<44, a.hemisphere>>
               d8 == d + 8
    <2>1. side = [i \in 1..2 |-> side[i]]
      OBVIOUS
    <2>8. side[1] = 44 /\ side[2] = a.hemisphere
      OBVIOUS
    <2>2. d + 7 + 1 - 1 = d + 7 /\ d + 7 + 2 - 1 = d8 /\ d8 - 1 = d + 7
      OBVIOUS
    <2>3. IsList(p) /\ d + 7 \in Nat /\ 2 \in Nat /\ d8 \in Nat /\ d + 7 >= 1 /\ 2 >= 1
          /\ d8 = (d + 7) + 2 - 1 /\ d8 <= Len(p) /\ Len(p) = d8
      BY DEF PlaceChars
    <2>4. p[d + 7] = side[1] /\ p[d8] = side[2]
      BY <2>8 DEF PlaceChars
    <2> HIDE DEF side, d8
    <2>5. \A i \in 1..2 : p[(d + 7) + i - 1] = side[i]
      BY <2>2, <2>4
    <2>6. SubSeq(p, d + 7, d8) = side
      BY <2>1, <2>3, <2>5, PartIs
    <2>7. SubSeq(p, Len(p) - 1, Len(p)) = side
      BY <2>2, <2>3, <2>6, Zenon
    <2> QED  BY <2>7 DEF side
  <1>7. hundredths \in 0..99
    <2> DEFINE x == p[d + 3]
               y == p[d4]
               s == <<x, y>>
    <2>1. x \in Digit /\ y \in Digit
      <3>1. d + 3 = d + 2 + 1 /\ d4 = d + 2 + 2 /\ 1 \in 1..4 /\ 2 \in 1..4
        OBVIOUS
      <3> QED  BY <3>1 DEF PlaceChars
    <2>2. s = [i \in 1..2 |-> s[i]] /\ s[1] = x /\ s[2] = y
      OBVIOUS
    <2>3. s \in Seq(Digit) /\ Len(s) = 2
      BY <2>1
    <2>4. d + 3 + 1 - 1 = d + 3 /\ d + 3 + 2 - 1 = d4
      OBVIOUS
    <2>5. IsList(p) /\ d + 3 \in Nat /\ 2 \in Nat /\ d4 \in Nat /\ d + 3 >= 1 /\ 2 >= 1
          /\ d4 = (d + 3) + 2 - 1 /\ d4 <= Len(p)
      BY DEF PlaceChars
    <2> HIDE DEF x, y, s, d4
    <2>6. \A i \in 1..2 : p[(d + 3) + i - 1] = s[i]
      BY <2>2, <2>4 DEF x, y
    <2>7. frac = s
      <3> DEFINE d3 == d + 3
                 two == 2
      <3>1. /\ d3 \in Nat /\ two \in Nat /\ d4 \in Nat /\ d3 >= 1 /\ two >= 1
            /\ d4 = d3 + two - 1 /\ d4 <= Len(p) /\ IsList(p)
            /\ s = [i \in 1..two |-> s[i]] /\ \A i \in 1..two : p[d3 + i - 1] = s[i]
        BY <2>2, <2>5, <2>6
      <3> HIDE DEF d3, two
      <3>2. SubSeq(p, d3, d4) = s
        BY <3>1, PartIs, SMTT(30)
      <3> QED  BY <3>2 DEF d3
    <2>8. atoi(s) = 10 * (s[1] - 48) + (s[2] - 48)
      BY <2>3, AtoiDigits
    <2> HIDE DEF frac
    <2>9. hundredths = 10 * (x - 48) + (y - 48)
      BY <2>2, <2>7, <2>8
    <2> QED  BY <2>1, <2>9 DEF Digit
  <1> HIDE DEF hundredths
  <1> DEFINE more == IF hundredths < 10 THEN 10 * hundredths ELSE hundredths
             x == atoi(SubSeq(p, 1, d))
             y == atoi(SubSeq(p, d + 1, d2))
  <1>8. x = a.deg /\ y = a.min
    BY <1>2, <1>4, <1>5, Zenon
  <1>9. more \in 0..99
    BY <1>7
  <1>10. Coordinate(p, d) = 6000 * x + 100 * y + more
    BY <1>3
  <1> HIDE DEF x, y, more
  <1>11. Coordinate(p, d) = 6000 * a.deg + 100 * a.min + more
    BY <1>8, <1>10
  <1>12. Near(Coordinate(p, d), a)
    BY <1>9, <1>11 DEF Near
  <1> QED  BY <1>6, <1>12, Zenon

\* strtok finds the hemisphere behind the comma.
LEMMA PlaceHasTwoParts ==
    ASSUME NEW p, NEW a, NEW d \in {2, 3}, Angular(a), PlaceChars(p, a, d),
           a.hemisphere \notin {0, 44}
    PROVE  TwoParts(p)
  <1> DEFINE deg == Digits(a.deg, d)
             min == Digits(a.min, 2)
  <1>1. /\ deg \in Seq(Digit) /\ Len(deg) = d
        /\ min \in Seq(Digit) /\ Len(min) = 2
    <2>1. d \in 1..4 /\ 2 \in 1..4
      OBVIOUS
    <2> QED  BY <2>1, DigitsAreDigits, Zenon DEF Angular
  <1> HIDE DEF deg, min
  <1>2. \A k \in 1..d : p[k] \in Digit
    <2>1. \A k \in 1..d : deg[k] \in Digit
      BY <1>1
    <2> QED  BY <2>1 DEF PlaceChars, deg
  <1>3. \A k \in 1..2 : p[d + k] \in Digit
    <2>1. ASSUME NEW k \in 1..2
          PROVE  min[k] \in Digit
      <3>1. k \in 1..Len(min)
        BY <1>1
      <3> QED  BY <1>1, <3>1, ElementOfSeq, Zenon
    <2> QED  BY <2>1 DEF PlaceChars, min
  <1>4. \A n \in 1..(d + 6) : p[n] \in Digit
    <2> TAKE n \in 1..(d + 6)
    <2>1. CASE n \in 1..d  BY <1>2, <2>1
    <2>2. CASE n \in (d + 1)..(d + 2)
      <3>1. n - d \in 1..2 /\ d + (n - d) = n  BY <2>2
      <3> QED  BY <1>3, <3>1
    <2>3. CASE n \in (d + 3)..(d + 6)
      <3>1. n - d - 2 \in 1..4 /\ d + 2 + (n - d - 2) = n  BY <2>3
      <3> QED  BY <3>1 DEF PlaceChars
    <2> QED  BY <2>1, <2>2, <2>3
  <1>5. Len(p) = d + 8 /\ p[d + 7] = 44 /\ p[d + 8] = a.hemisphere
    BY DEF PlaceChars
  <1>6. \A n \in 1..(d + 8) : p[n] # 0
    <2>1. \A n \in 1..(d + 6) : p[n] # 0
      BY <1>4 DEF Digit
    <2> QED  BY <1>5, <2>1
  <1>7. p[1] # 44
    <2>1. p[1] \in Digit  BY <1>4
    <2> QED  BY <2>1 DEF Digit
  <1> DEFINE i == 1
             j == d + 7
             k == d + 8
  <1>8. /\ i \in 1..Len(p) /\ j \in 1..Len(p) /\ k \in 1..Len(p) /\ i < j /\ j < k
        /\ p[i] # 44 /\ p[j] = 44 /\ p[k] # 44 /\ \A n \in 1..k : p[n] # 0
    BY <1>5, <1>6, <1>7
  <1> HIDE DEF i, j, k
  <1> QED  BY <1>8, Zenon DEF TwoParts

\* The sign of an angle is that of its hemisphere.
LEMMA AngleSays ==
    ASSUME NEW a, Angular(a), NEW c, Near(c, a), NEW angle,
           angle = IF a.hemisphere \in {83, 87} THEN -c ELSE c
    PROVE  Within1Minute(angle, a)
  <1> DEFINE low == 6000 * a.deg + 100 * a.min
             m == Minutes(a)
             size == IF angle < 0 THEN -angle ELSE angle
  <1>1. PICK more \in 0..99 : c = low + more
    BY DEF Near
  <1>2. low \in Nat /\ 100 * m = low /\ m \in Nat
    BY DEF Angular, Minutes
  <1> HIDE DEF low, m
  <1>3. c \in Nat /\ c >= 100 * m /\ c <= 100 * m + 99
    BY <1>1, <1>2
  <1>4. size = c /\ (angle < 0) = (a.hemisphere \in {83, 87} /\ size # 0)
    BY <1>3
  <1> HIDE DEF size
  <1>5. size \in (100 * m)..(100 * m + 99)
    BY <1>2, <1>3, <1>4
  <1> QED  BY <1>4, <1>5 DEF Within1Minute, size, m
-----------------------------------------------------------------------------
\* The sentence of the GPS at its places.

\* A part of a part is a part.
LEMMA HasWithin ==
    ASSUME NEW b, NEW at \in Nat, NEW t \in Text, Has(b, at, t),
           NEW from \in Nat, NEW s \in Text, Has(t, from, s), from + Len(s) <= Len(t)
    PROVE  Has(b, at + from, s)
  <1> SUFFICES ASSUME NEW i \in 0..(Len(s) - 1)
               PROVE  At(b, (at + from) + i) = At(s, i)
    BY DEF Has
  <1> DEFINE j == from + i
  <1>1. j \in 0..(Len(t) - 1) /\ (at + from) + i = at + j
    BY TextLen
  <1>2. At(t, j) = At(s, i)
    BY DEF Has
  <1> HIDE DEF j
  <1>3. At(b, at + j) = At(t, j)
    BY <1>1 DEF Has
  <1> QED  BY <1>1, <1>2, <1>3

\* The commas from one place to another.
Commas(b, i, j) == {k \in i..j : At(b, k) = 44}

\* The commas counted: the one that is the last of n.
LEMMA PastIs ==
    ASSUME NEW b, NEW i \in Nat, NEW j \in Nat, i <= j, j <= Len(b), Len(b) \in Nat,
           At(b, j) = 44, NEW n, Cardinality(Commas(b, i, j)) = n
    PROVE  PastComma(b, i, n) = j + 1
  <1> DEFINE Upto(m) == Commas(b, i, m)
             Found(m) == At(b, m) = 44 /\ Cardinality(Upto(m)) = n
             found == CHOOSE m \in i..Len(b) : Found(m)
  <1>1. j \in i..Len(b) /\ Found(j)
    OBVIOUS
  <1>2. \A m \in Nat : IsFiniteSet(Upto(m))
    <2> TAKE m \in Nat
    <2>1. i \in Int /\ m \in Int /\ Upto(m) \subseteq i..m
      BY DEF Commas
    <2> HIDE DEF Upto
    <2>2. IsFiniteSet(i..m)
      BY <2>1, FS_Interval, Zenon
    <2> QED  BY <2>1, <2>2, FS_Subset
  <1>3. ASSUME NEW m \in i..Len(b), Found(m)
        PROVE  m = j
    <2>1. ASSUME NEW x \in Nat, NEW y \in Nat, x < y, i <= x, Found(x), Found(y)
          PROVE  FALSE
      <3>1. Upto(x) \subseteq Upto(y) /\ y \in Upto(y) /\ y \notin Upto(x)
        BY <2>1 DEF Commas
      <3>2. Cardinality(Upto(y)) = Cardinality(Upto(x)) /\ IsFiniteSet(Upto(y))
        BY <1>2, <2>1
      <3> HIDE DEF Upto
      <3> QED  BY <3>1, <3>2, FS_Subset
    <2>2. m \in Nat /\ i <= m /\ (m < j \/ j < m \/ m = j)
      OBVIOUS
    <2> HIDE DEF Found
    <2> QED  BY <1>1, <1>3, <2>1, <2>2
  <1>4. PastComma(b, i, n) = 1 + found
    BY DEF PastComma, Commas
  <1>5. found = j
    <2> HIDE DEF Found
    <2> QED  BY <1>1, <1>3
  <1> HIDE DEF found
  <1> QED  BY <1>4, <1>5

\* The parts of a sentence with a time.
Sentence(b, c, place) ==
    /\ b \in Text /\ Len(b) > 31 + Len(place)
    /\ Has(b, 0, <<36, 71, 78, 82, 77, 67, 44>>)
    /\ Has(b, 7, c.time) /\ Has(b, 13, <<46, 48, 48>>)
    /\ Has(b, 16, place)
    /\ Has(b, 16 + Len(place), <<44, 48, 46, 48, 44, 48, 46, 48, 44>>)
    /\ Has(b, 25 + Len(place), c.date)

\* What stands for the position.
Placing(f) == IF f = None THEN <<44, 86, 44, 44, 44, 44>>
              ELSE <<44, 65, 44>> \o Angle(f.lat, 2) \o <<44>> \o Angle(f.long, 3)

\* A sentence has those parts.
LEMMA SentenceReads ==
    ASSUME NEW f, Placing(f) \in Text, NEW c, c # None,
           c.time \in Seq(Digit), c.date \in Seq(Digit), Len(c.time) = 6, Len(c.date) = 6
    PROVE  Sentence(Rmc(f, c), c, Placing(f))
  <1> DEFINE dollar == <<36, 71, 78, 82, 77, 67, 44>>
             zeros == <<46, 48, 48>>
             time == Cat(c.time, zeros)
             place == Placing(f)
             speed == <<44, 48, 46, 48, 44, 48, 46, 48, 44>>
             end == <<44, 44, 44, 65, 42, 54, 56, 13, 10>>
             l == Len(place)
             b1 == Cat(dollar, time)
             b2 == Cat(b1, place)
             b3 == Cat(b2, speed)
             b4 == Cat(b3, c.date)
             b5 == Cat(b4, end)
  <1>1. Rmc(f, c) = b5
    BY DEF Rmc, Cat, Placing
  <1>2. /\ dollar \in Text /\ Len(dollar) = 7 /\ zeros \in Text /\ Len(zeros) = 3
        /\ speed \in Text /\ Len(speed) = 9 /\ end \in Text /\ Len(end) = 9
        /\ place \in Text /\ l \in Nat
    BY DEF Text
  <1> HIDE DEF dollar, zeros, place, speed, end
  <1>3. c.time \in Text /\ c.date \in Text
    <2>1. Digit \subseteq Nat
      BY DEF Digit
    <2> QED  BY <2>1, SeqMonotonic, Zenon DEF Text
  <1>4. /\ time \in Text /\ Len(time) = 9
        /\ Has(time, 0, c.time) /\ Has(time, 6, zeros)
    <2>1. Has(c.time, 0, c.time)
      BY DEF Has
    <2>2. 0 \in Nat /\ 6 \in Nat /\ 0 + Len(c.time) <= Len(c.time) /\ 6 = Len(c.time)
      OBVIOUS
    <2>3. Has(time, 0, c.time)
      BY <1>2, <1>3, <2>1, <2>2, HasKept, Zenon
    <2>4. Has(time, 6, zeros)
      BY <1>2, <1>3, <2>2, HasBehind, Zenon
    <2>5. Len(c.time) + Len(zeros) = 9
      BY <1>2
    <2>6. time \in Text /\ Len(time) = Len(c.time) + Len(zeros)
      BY <1>2, <1>3, CatIsText, Zenon
    <2> QED  BY <2>3, <2>4, <2>5, <2>6, Zenon
  <1> HIDE DEF time
  <1>5. /\ b1 \in Text /\ Len(b1) = 16
        /\ Has(b1, 0, dollar) /\ Has(b1, 7, time)
    <2>1. Has(dollar, 0, dollar)
      BY DEF Has
    <2>2. 0 \in Nat /\ 7 \in Nat /\ 0 + Len(dollar) <= Len(dollar) /\ 7 = Len(dollar)
          /\ Len(dollar) + Len(time) = 16
      BY <1>2, <1>4
    <2>3. b1 \in Text /\ Len(b1) = Len(dollar) + Len(time)
      BY <1>2, <1>4, CatIsText, Zenon
    <2>4. Has(b1, 0, dollar)
      BY <1>2, <1>4, <2>1, <2>2, HasKept, Zenon
    <2>5. Has(b1, 7, time)
      BY <1>2, <1>4, <2>2, HasBehind, Zenon
    <2> QED  BY <2>2, <2>3, <2>4, <2>5, Zenon
  <1>6. Has(b1, 7, c.time) /\ Has(b1, 13, zeros)
    <2>1. /\ 0 \in Nat /\ 6 \in Nat /\ 7 \in Nat /\ 7 + 0 = 7 /\ 7 + 6 = 13
          /\ 0 + Len(c.time) <= Len(time) /\ 6 + Len(zeros) <= Len(time)
      BY <1>2, <1>4
    <2>2. Has(b1, 7 + 0, c.time)
      BY <1>3, <1>4, <1>5, <2>1, HasWithin, Zenon
    <2>3. Has(b1, 7 + 6, zeros)
      BY <1>2, <1>4, <1>5, <2>1, HasWithin, Zenon
    <2> QED  BY <2>1, <2>2, <2>3, Zenon
  <1> HIDE DEF b1
  <1> DEFINE l25 == 25 + l
             l16 == 16 + l
             l31 == 31 + l
  <1>7. /\ l25 \in Nat /\ l16 \in Nat /\ l31 \in Nat /\ l16 + 9 = l25 /\ l25 + 6 = l31
        /\ 16 + l = l16 /\ 16 <= l16 /\ 16 <= l25 /\ 16 <= l31 /\ l16 <= l25 /\ l16 <= l31
        /\ l25 <= l31
    BY <1>2
  <1> HIDE DEF l25, l16, l31
  <1>8. /\ b2 \in Text /\ Len(b2) = l16
        /\ Has(b2, 0, dollar) /\ Has(b2, 7, c.time) /\ Has(b2, 13, zeros) /\ Has(b2, 16, place)
    <2>1. /\ 0 \in Nat /\ 7 \in Nat /\ 13 \in Nat /\ 16 \in Nat /\ 16 = Len(b1)
          /\ 0 + Len(dollar) <= Len(b1) /\ 7 + Len(c.time) <= Len(b1)
          /\ 13 + Len(zeros) <= Len(b1) /\ Len(b1) + l = l16
      BY <1>2, <1>5, <1>7
    <2>2. b2 \in Text /\ Len(b2) = Len(b1) + l
      BY <1>2, <1>5, CatIsText, Zenon
    <2>3. Has(b2, 0, dollar)  BY <1>2, <1>5, <2>1, HasKept, Zenon
    <2>4. Has(b2, 7, c.time)  BY <1>2, <1>3, <1>5, <1>6, <2>1, HasKept, Zenon
    <2>5. Has(b2, 13, zeros)  BY <1>2, <1>5, <1>6, <2>1, HasKept, Zenon
    <2>6. Has(b2, 16, place)  BY <1>2, <1>5, <2>1, HasBehind, Zenon
    <2> QED  BY <2>1, <2>2, <2>3, <2>4, <2>5, <2>6, Zenon
  <1> HIDE DEF b2
  <1>9. /\ b3 \in Text /\ Len(b3) = l25
        /\ Has(b3, 0, dollar) /\ Has(b3, 7, c.time) /\ Has(b3, 13, zeros) /\ Has(b3, 16, place)
        /\ Has(b3, l16, speed)
    <2>1. /\ 0 \in Nat /\ 7 \in Nat /\ 13 \in Nat /\ 16 \in Nat /\ l16 = Len(b2)
          /\ 0 + Len(dollar) <= Len(b2) /\ 7 + Len(c.time) <= Len(b2)
          /\ 13 + Len(zeros) <= Len(b2) /\ 16 + l <= Len(b2) /\ Len(b2) + Len(speed) = l25
      BY <1>2, <1>7, <1>8
    <2>2. b3 \in Text /\ Len(b3) = Len(b2) + Len(speed)
      BY <1>2, <1>8, CatIsText, Zenon
    <2>3. Has(b3, 0, dollar)  BY <1>2, <1>8, <2>1, HasKept, Zenon
    <2>4. Has(b3, 7, c.time)  BY <1>2, <1>3, <1>8, <2>1, HasKept, Zenon
    <2>5. Has(b3, 13, zeros)  BY <1>2, <1>8, <2>1, HasKept, Zenon
    <2>6. Has(b3, 16, place)  BY <1>2, <1>8, <2>1, HasKept, Zenon
    <2>7. Has(b3, l16, speed)  BY <1>2, <1>7, <1>8, <2>1, HasBehind, Zenon
    <2> QED  BY <2>1, <2>2, <2>3, <2>4, <2>5, <2>6, <2>7, Zenon
  <1> HIDE DEF b3
  <1>10. /\ b4 \in Text /\ Len(b4) = l31
         /\ Has(b4, 0, dollar) /\ Has(b4, 7, c.time) /\ Has(b4, 13, zeros) /\ Has(b4, 16, place)
         /\ Has(b4, l16, speed) /\ Has(b4, l25, c.date)
    <2>1. /\ 0 \in Nat /\ 7 \in Nat /\ 13 \in Nat /\ 16 \in Nat /\ l25 = Len(b3)
          /\ 0 + Len(dollar) <= Len(b3) /\ 7 + Len(c.time) <= Len(b3)
          /\ 13 + Len(zeros) <= Len(b3) /\ 16 + l <= Len(b3) /\ l16 + Len(speed) <= Len(b3)
          /\ Len(b3) + Len(c.date) = l31
      BY <1>2, <1>7, <1>9
    <2>2. b4 \in Text /\ Len(b4) = Len(b3) + Len(c.date)
      BY <1>3, <1>9, CatIsText, Zenon
    <2>3. Has(b4, 0, dollar)  BY <1>2, <1>3, <1>9, <2>1, HasKept, Zenon
    <2>4. Has(b4, 7, c.time)  BY <1>3, <1>9, <2>1, HasKept, Zenon
    <2>5. Has(b4, 13, zeros)  BY <1>2, <1>3, <1>9, <2>1, HasKept, Zenon
    <2>6. Has(b4, 16, place)  BY <1>2, <1>3, <1>9, <2>1, HasKept, Zenon
    <2>7. Has(b4, l16, speed)  BY <1>2, <1>3, <1>7, <1>9, <2>1, HasKept, Zenon
    <2>8. Has(b4, l25, c.date)  BY <1>3, <1>7, <1>9, <2>1, HasBehind, Zenon
    <2> QED  BY <2>1, <2>2, <2>3, <2>4, <2>5, <2>6, <2>7, <2>8, Zenon
  <1> HIDE DEF b4
  <1>11. /\ b5 \in Text /\ Len(b5) > l31
         /\ Has(b5, 0, dollar) /\ Has(b5, 7, c.time) /\ Has(b5, 13, zeros) /\ Has(b5, 16, place)
         /\ Has(b5, l16, speed) /\ Has(b5, l25, c.date)
    <2>1. /\ 0 \in Nat /\ 7 \in Nat /\ 13 \in Nat /\ 16 \in Nat
          /\ 0 + Len(dollar) <= Len(b4) /\ 7 + Len(c.time) <= Len(b4)
          /\ 13 + Len(zeros) <= Len(b4) /\ 16 + l <= Len(b4) /\ l16 + Len(speed) <= Len(b4)
          /\ l25 + Len(c.date) <= Len(b4) /\ Len(b4) + Len(end) > l31
      BY <1>2, <1>7, <1>10
    <2>2. b5 \in Text /\ Len(b5) = Len(b4) + Len(end)
      BY <1>2, <1>10, CatIsText, Zenon
    <2>3. Has(b5, 0, dollar)  BY <1>2, <1>10, <2>1, HasKept, Zenon
    <2>4. Has(b5, 7, c.time)  BY <1>2, <1>3, <1>10, <2>1, HasKept, Zenon
    <2>5. Has(b5, 13, zeros)  BY <1>2, <1>10, <2>1, HasKept, Zenon
    <2>6. Has(b5, 16, place)  BY <1>2, <1>10, <2>1, HasKept, Zenon
    <2>7. Has(b5, l16, speed)  BY <1>2, <1>7, <1>10, <2>1, HasKept, Zenon
    <2>8. Has(b5, l25, c.date)  BY <1>2, <1>3, <1>7, <1>10, <2>1, HasKept, Zenon
    <2> QED  BY <2>1, <2>2, <2>3, <2>4, <2>5, <2>6, <2>7, <2>8, Zenon
  <1> HIDE DEF b5
  <1>12. Sentence(b5, c, place)
    BY <1>11, Zenon DEF Sentence, dollar, zeros, speed, l16, l25, l31, l
  <1> QED  BY <1>1, <1>12 DEF place

\* The places of an angle in a part of a text are places of the text.
LEMMA AngleWithin ==
    ASSUME NEW b, NEW at \in Nat, NEW t \in Text, Has(b, at, t), NEW a, Angular(a),
           NEW d \in {2, 3}, NEW from \in Nat, AnglePlaces(t, from, a, d), from + d + 9 <= Len(t)
    PROVE  AnglePlaces(b, at + from, a, d)
  <1> DEFINE deg == Digits(a.deg, d)
             min == Digits(a.min, 2)
             frac == Digits(a.frac, 4)
             side == <<44, a.hemisphere>>
             f2 == from + d
             f3 == from + d + 3
             f7 == from + d + 7
  <1>1. /\ deg \in Text /\ Len(deg) = d /\ min \in Text /\ Len(min) = 2
        /\ frac \in Text /\ Len(frac) = 4
    <2>1. d \in 1..4 /\ 2 \in 1..4 /\ 4 \in 1..4
      OBVIOUS
    <2>2. Digit \subseteq Nat
      BY DEF Digit
    <2>3. /\ deg \in Seq(Digit) /\ Len(deg) = d /\ min \in Seq(Digit) /\ Len(min) = 2
          /\ frac \in Seq(Digit) /\ Len(frac) = 4
      BY <2>1, DigitsAreDigits, Zenon DEF Angular
    <2> QED  BY <2>2, <2>3, SeqMonotonic, Zenon DEF Text
  <1>2. side \in Text /\ Len(side) = 2
    BY DEF Text, Angular
  <1>3. Has(t, from, deg) /\ Has(t, f2, min) /\ Has(t, f3, frac) /\ Has(t, f7, side)
    BY Zenon DEF AnglePlaces
  <1> HIDE DEF deg, min, frac, side
  <1>4. /\ f2 \in Nat /\ f3 \in Nat /\ f7 \in Nat
        /\ from + Len(deg) <= Len(t) /\ f2 + Len(min) <= Len(t) /\ f3 + Len(frac) <= Len(t)
        /\ f7 + Len(side) <= Len(t)
        /\ at + f2 = (at + from) + d /\ at + f3 = (at + from) + d + 3
        /\ at + f7 = (at + from) + d + 7
    BY <1>1, <1>2, TextLen
  <1> HIDE DEF f2, f3, f7
  <1>5. Has(b, at + from, deg)  BY <1>1, <1>3, <1>4, HasWithin, Zenon
  <1>6. Has(b, at + f2, min)  BY <1>1, <1>3, <1>4, HasWithin, Zenon
  <1>7. Has(b, at + f3, frac)  BY <1>1, <1>3, <1>4, HasWithin, Zenon
  <1>8. Has(b, at + f7, side)  BY <1>2, <1>3, <1>4, HasWithin, Zenon
  <1> QED  BY <1>4, <1>5, <1>6, <1>7, <1>8, Zenon DEF AnglePlaces, deg, min, frac, side

\* And of a text that is longer.
LEMMA AngleKept ==
    ASSUME NEW s \in Text, NEW t \in Text, NEW a, Angular(a),
           NEW d \in {2, 3}, NEW at \in Nat, AnglePlaces(s, at, a, d), at + d + 9 <= Len(s)
    PROVE  AnglePlaces(Cat(s, t), at, a, d)
  <1>1. Has(s, 0, s) /\ 0 + Len(s) <= Len(s) /\ 0 + at = at /\ 0 \in Nat
    BY TextLen DEF Has
  <1>2. Has(Cat(s, t), 0, s)
    BY <1>1, HasKept, Zenon
  <1>3. Cat(s, t) \in Text
    BY CatIsText
  <1>4. AnglePlaces(Cat(s, t), 0 + at, a, d)
    BY <1>1, <1>2, <1>3, AngleWithin, Zenon
  <1> QED  BY <1>1, <1>4, Zenon

\* An angle of the GPS has numbers for its parts.
LEMMA PositionIsAngular ==
    ASSUME NEW limit \in Nat, NEW sides, sides \subseteq Nat, NEW a \in Position(limit, sides)
    PROVE  Angular(a) /\ a.deg <= limit /\ a.min < 100 /\ a.hemisphere \in sides
  <1> DEFINE deg == a.deg
             min == a.min
             frac == a.frac
  <1>1. a.hemisphere \in sides
    BY DEF Position
  <1>2. a.hemisphere \in Nat
    BY <1>1, Zenon
  <1>3. deg \in 0..limit /\ min \in 0..59 /\ frac \in 0..9999
    BY DEF Position
  <1> HIDE DEF deg, min, frac
  <1>4. deg \in Nat /\ min \in Nat /\ frac \in Nat /\ deg <= limit /\ min < 100
    BY <1>3
  <1> QED  BY <1>1, <1>2, <1>4, Zenon DEF Angular, deg, min, frac

\* A fix is two angles whose degrees and minutes have their digits.
LEMMA FixIsAngular ==
    ASSUME NEW f \in Fixes
    PROVE  /\ Angular(f.lat) /\ Angular(f.long)
           /\ f.lat.deg < 100 /\ f.long.deg < 1000 /\ f.lat.min < 100 /\ f.long.min < 100
           /\ f.lat.hemisphere \in {78, 83} /\ f.long.hemisphere \in {69, 87}
  <1>1. f.lat \in Position(90, {78, 83}) /\ f.long \in Position(180, {69, 87})
    BY GpsAssumption
  <1>2. /\ Angular(f.lat) /\ f.lat.deg <= 90 /\ f.lat.min < 100
        /\ f.lat.hemisphere \in {78, 83}
    <2>1. 90 \in Nat /\ {78, 83} \subseteq Nat
      OBVIOUS
    <2> QED  BY <1>1, <2>1, PositionIsAngular, Zenon
  <1>3. /\ Angular(f.long) /\ f.long.deg <= 180 /\ f.long.min < 100
        /\ f.long.hemisphere \in {69, 87}
    <2> DEFINE limit == 180
               sides == {69, 87}
               a == f.long
    <2>1. limit \in Nat /\ sides \subseteq Nat /\ a \in Position(limit, sides)
      BY <1>1
    <2> HIDE DEF limit, sides, a
    <2>2. Angular(a) /\ a.deg <= limit /\ a.min < 100 /\ a.hemisphere \in sides
      BY <2>1, PositionIsAngular, Zenon
    <2> QED  BY <2>2 DEF limit, sides, a
  <1>4. f.lat.deg < 100 /\ f.long.deg < 1000
    BY <1>2, <1>3 DEF Angular
  <1> QED  BY <1>2, <1>3, <1>4

\* The places of a position within its part of the sentence.
LocatedPlaces(b, at, f) ==
    /\ Has(b, at, <<44, 65, 44>>)
    /\ AnglePlaces(b, at + 3, f.lat, 2)
    /\ AnglePlaces(b, at + 15, f.long, 3)

\* The part of a sentence for a position, or for none.
LEMMA PlacingReads ==
    ASSUME NEW f \in Fixes \cup {None}
    PROVE  /\ Placing(f) \in Text
           /\ f = None => Len(Placing(f)) = 6
           /\ f # None => Len(Placing(f)) = 27 /\ LocatedPlaces(Placing(f), 0, f)
  <1>1. CASE f = None
    BY <1>1 DEF Placing, Text
  <1>2. CASE f # None
    <2> DEFINE valid == <<44, 65, 44>>
               lat == Angle(f.lat, 2)
               comma == <<44>>
               long == Angle(f.long, 3)
               p1 == Cat(valid, lat)
               p2 == Cat(p1, comma)
               p3 == Cat(p2, long)
    <2>1. Placing(f) = p3
      BY <1>2 DEF Placing, Cat
    <2>2. valid \in Text /\ Len(valid) = 3 /\ comma \in Text /\ Len(comma) = 1
      BY DEF Text
    <2>3. Angular(f.lat) /\ Angular(f.long) /\ 2 \in {2, 3} /\ 3 \in {2, 3}
      BY <1>2, FixIsAngular
    <2>4. lat \in Text /\ Len(lat) = 2 + 9 /\ AnglePlaces(lat, 0, f.lat, 2)
      BY <2>3, AngleReads, Zenon
    <2>5. long \in Text /\ Len(long) = 3 + 9 /\ AnglePlaces(long, 0, f.long, 3)
      BY <2>3, AngleReads, Zenon
    <2> HIDE DEF valid, lat, comma, long
    <2>6. p1 \in Text /\ Len(p1) = 14 /\ Has(p1, 0, valid) /\ AnglePlaces(p1, 3, f.lat, 2)
      <3>1. 0 \in Nat /\ 3 \in Nat /\ 0 + Len(valid) <= Len(valid) /\ 3 = Len(valid)
            /\ Len(valid) + Len(lat) = 14 /\ 0 + 2 + 9 <= Len(lat) /\ 3 + 0 = 3
        BY <2>2, <2>4
      <3>2. p1 \in Text /\ Len(p1) = Len(valid) + Len(lat)
        BY <2>2, <2>4, CatIsText, Zenon
      <3>3. Has(valid, 0, valid)
        BY DEF Has
      <3>4. Has(p1, 0, valid)
        BY <2>2, <2>4, <3>1, <3>3, HasKept, Zenon
      <3>5. Has(p1, 3, lat)
        BY <2>2, <2>4, <3>1, HasBehind, Zenon
      <3>6. AnglePlaces(p1, 3 + 0, f.lat, 2)
        <4> HIDE DEF p1
        <4> QED  BY <2>3, <2>4, <3>1, <3>5, AngleWithin, Zenon
      <3> QED  BY <3>1, <3>2, <3>4, <3>6, Zenon
    <2> HIDE DEF p1
    <2>7. p2 \in Text /\ Len(p2) = 15 /\ Has(p2, 0, valid) /\ AnglePlaces(p2, 3, f.lat, 2)
      <3>1. 0 \in Nat /\ 3 \in Nat /\ 0 + Len(valid) <= Len(p1) /\ Len(p1) + Len(comma) = 15
            /\ 3 + 2 + 9 <= Len(p1)
        BY <2>2, <2>6
      <3>2. p2 \in Text /\ Len(p2) = Len(p1) + Len(comma)
        BY <2>2, <2>6, CatIsText, Zenon
      <3>3. Has(p2, 0, valid)
        BY <2>2, <2>6, <3>1, HasKept, Zenon
      <3>4. AnglePlaces(p2, 3, f.lat, 2)
        BY <2>2, <2>3, <2>6, <3>1, AngleKept, Zenon
      <3> QED  BY <3>1, <3>2, <3>3, <3>4, Zenon
    <2> HIDE DEF p2
    <2>8. /\ p3 \in Text /\ Len(p3) = 27 /\ Has(p3, 0, valid)
          /\ AnglePlaces(p3, 3, f.lat, 2) /\ AnglePlaces(p3, 15, f.long, 3)
      <3>1. 0 \in Nat /\ 3 \in Nat /\ 0 + Len(valid) <= Len(p2) /\ Len(p2) + Len(long) = 27
            /\ 3 + 2 + 9 <= Len(p2) /\ 15 = Len(p2) /\ 15 \in Nat /\ 15 + 0 = 15
            /\ 0 + 3 + 9 <= Len(long)
        BY <2>2, <2>5, <2>7
      <3>2. p3 \in Text /\ Len(p3) = Len(p2) + Len(long)
        BY <2>5, <2>7, CatIsText, Zenon
      <3>3. Has(p3, 0, valid)
        BY <2>2, <2>5, <2>7, <3>1, HasKept, Zenon
      <3>4. AnglePlaces(p3, 3, f.lat, 2)
        BY <2>3, <2>5, <2>7, <3>1, AngleKept, Zenon
      <3>5. Has(p3, 15, long)
        BY <2>5, <2>7, <3>1, HasBehind, Zenon
      <3>6. AnglePlaces(p3, 15 + 0, f.long, 3)
        <4> HIDE DEF p3
        <4> QED  BY <2>3, <2>5, <3>1, <3>5, AngleWithin, Zenon
      <3> QED  BY <3>1, <3>2, <3>3, <3>4, <3>6, Zenon
    <2> HIDE DEF p3
    <2>9. LocatedPlaces(p3, 0, f)
      <3>1. 0 + 3 = 3 /\ 0 + 15 = 15
        OBVIOUS
      <3> QED  BY <2>8, <3>1, Zenon DEF LocatedPlaces, valid
    <2> QED  BY <1>2, <2>1, <2>8, <2>9, Zenon
  <1> QED  BY <1>1, <1>2

\* One comma more.
LEMMA CountMore ==
    ASSUME NEW S, NEW n \in Nat, IsFiniteSet(S), Cardinality(S) = n, NEW x, x \notin S,
           NEW m, m = n + 1, NEW T, T = S \cup {x}
    PROVE  IsFiniteSet(T) /\ Cardinality(T) = m
  BY FS_AddElement

\* One is one.
LEMMA CountOne ==
    ASSUME NEW x, NEW T, T = {x}
    PROVE  IsFiniteSet(T) /\ Cardinality(T) = 1
  BY FS_Singleton

\* The sets of commas that parse_GPS steps over.
LEMMA CommaSets ==
    /\ Cardinality({6}) = 1
    /\ Cardinality({16, 18}) = 2
    /\ Cardinality({47, 51}) = 2
    /\ Cardinality({19, 20, 21, 22, 26, 30}) = 6
  <1>1. Cardinality({6}) = 1
    BY CountOne
  <1>2. Cardinality({16, 18}) = 2
    <2>1. IsFiniteSet({16}) /\ Cardinality({16}) = 1  BY CountOne
    <2>2. 18 \notin {16} /\ {16, 18} = {16} \cup {18} /\ 2 = 1 + 1 /\ 1 \in Nat  OBVIOUS
    <2> QED  BY <2>1, <2>2, CountMore
  <1>3. Cardinality({47, 51}) = 2
    <2>1. IsFiniteSet({47}) /\ Cardinality({47}) = 1  BY CountOne
    <2>2. 51 \notin {47} /\ {47, 51} = {47} \cup {51} /\ 2 = 1 + 1 /\ 1 \in Nat  OBVIOUS
    <2> QED  BY <2>1, <2>2, CountMore
  <1>4. Cardinality({19, 20, 21, 22, 26, 30}) = 6
    <2> DEFINE s1 == {19}
               s2 == {19, 20}
               s3 == {19, 20, 21}
               s4 == {19, 20, 21, 22}
               s5 == {19, 20, 21, 22, 26}
               s6 == {19, 20, 21, 22, 26, 30}
    <2>1. /\ 20 \notin s1 /\ s2 = s1 \cup {20} /\ 2 = 1 + 1 /\ 1 \in Nat
          /\ 21 \notin s2 /\ s3 = s2 \cup {21} /\ 3 = 2 + 1 /\ 2 \in Nat
          /\ 22 \notin s3 /\ s4 = s3 \cup {22} /\ 4 = 3 + 1 /\ 3 \in Nat
          /\ 26 \notin s4 /\ s5 = s4 \cup {26} /\ 5 = 4 + 1 /\ 4 \in Nat
          /\ 30 \notin s5 /\ s6 = s5 \cup {30} /\ 6 = 5 + 1 /\ 5 \in Nat
      OBVIOUS
    <2>2. IsFiniteSet(s1) /\ Cardinality(s1) = 1
      BY CountOne
    <2> HIDE DEF s1, s2, s3, s4, s5, s6
    <2>3. IsFiniteSet(s2) /\ Cardinality(s2) = 2  BY <2>1, <2>2, CountMore
    <2>4. IsFiniteSet(s3) /\ Cardinality(s3) = 3  BY <2>1, <2>3, CountMore
    <2>5. IsFiniteSet(s4) /\ Cardinality(s4) = 4  BY <2>1, <2>4, CountMore
    <2>6. IsFiniteSet(s5) /\ Cardinality(s5) = 5  BY <2>1, <2>5, CountMore
    <2>7. IsFiniteSet(s6) /\ Cardinality(s6) = 6  BY <2>1, <2>6, CountMore
    <2> QED  BY <2>7 DEF s6
  <1> QED  BY <1>1, <1>2, <1>3, <1>4

\* The speed and the course: where their commas are.
LEMMA SpeedCommas ==
    ASSUME NEW b, NEW at \in Nat, Has(b, at, <<44, 48, 46, 48, 44, 48, 46, 48, 44>>),
           NEW k \in at..(at + 8)
    PROVE  At(b, k) = 44 <=> k \in {at, at + 4, at + 8}
  <1> DEFINE s == <<44, 48, 46, 48, 44, 48, 46, 48, 44>>
             i == k - at
  <1>1. Len(s) = 9 /\ \A j \in 0..8 : At(s, j) = 44 <=> j \in {0, 4, 8}
    BY DEF At
  <1>2. At(b, at + i) = At(s, i)
    BY <1>1 DEF Has
  <1>3. at + i = k /\ i \in 0..8
    OBVIOUS
  <1> HIDE DEF s
  <1>4. At(b, k) = At(s, i)
    BY <1>2, <1>3
  <1>5. At(s, i) = 44 <=> i \in {0, 4, 8}
    BY <1>1, <1>3
  <1>6. i \in {0, 4, 8} <=> k \in {at, at + 4, at + 8}
    OBVIOUS
  <1> QED  BY <1>4, <1>5, <1>6

\* Digits are no commas.
LEMMA DigitsNoComma ==
    ASSUME NEW b, NEW at \in Nat, NEW s \in Seq(Digit), Has(b, at, s),
           NEW k \in at..(at + Len(s) - 1)
    PROVE  At(b, k) \in Digit /\ At(b, k) # 44
  <1> DEFINE i == k - at
  <1>1. i \in 0..(Len(s) - 1) /\ at + i = k /\ i + 1 \in 1..Len(s) /\ i < Len(s)
    BY LenProperties
  <1>2. At(b, at + i) = At(s, i)
    BY <1>1 DEF Has
  <1>3. s[i + 1] \in Digit
    BY <1>1, ElementOfSeq, Zenon
  <1>4. At(b, k) \in Digit
    BY <1>1, <1>2, <1>3 DEF At
  <1> QED  BY <1>4 DEF Digit

\* Where a sentence with a time has its commas, up to the position.
LEMMA FirstCommas ==
    ASSUME NEW b, NEW c, NEW place, Sentence(b, c, place), c.time \in Seq(Digit), Len(c.time) = 6,
           Has(place, 0, <<44, 65, 44>>) \/ Has(place, 0, <<44, 86, 44>>), place \in Text,
           Len(place) >= 3
    PROVE  /\ At(b, 0) = 36
           /\ \A k \in 0..6 : At(b, k) = 44 <=> k \in {6}
           /\ At(b, 7) # 44
           /\ \A k \in 7..18 : At(b, k) = 44 <=> k \in {16, 18}
  <1>1. \A k \in 0..6 : At(b, k) = At(<<36, 71, 78, 82, 77, 67, 44>>, k)
    BY DEF Sentence, Has
  <1>2. At(b, 0) = 36 /\ \A k \in 0..6 : At(b, k) = 44 <=> k \in {6}
    <2> DEFINE dollar == <<36, 71, 78, 82, 77, 67, 44>>
    <2>1. At(dollar, 0) = 36 /\ \A k \in 0..6 : At(dollar, k) = 44 <=> k = 6
      BY DEF At
    <2> HIDE DEF dollar
    <2>2. 0 \in 0..6 /\ \A k \in 0..6 : At(b, k) = At(dollar, k)
      BY <1>1 DEF dollar
    <2> QED  BY <2>1, <2>2
  <1>3. \A k \in 7..12 : At(b, k) # 44
    <2> TAKE k \in 7..12
    <2>1. Has(b, 7, c.time) /\ 7 \in Nat /\ k \in 7..(7 + Len(c.time) - 1)
      BY DEF Sentence
    <2> QED  BY <2>1, DigitsNoComma, Zenon
  <1>4. At(b, 13) # 44 /\ At(b, 14) # 44 /\ At(b, 15) # 44
    <2>1. \A i \in 0..2 : At(b, 13 + i) = At(<<46, 48, 48>>, i)
      BY DEF Sentence, Has
    <2>2. At(b, 13 + 0) = 46 /\ At(b, 13 + 1) = 48 /\ At(b, 13 + 2) = 48
      BY <2>1 DEF At
    <2> QED  BY <2>2
  <1>5. At(b, 16) = 44 /\ At(b, 17) # 44 /\ At(b, 18) = 44
    <2>1. \A i \in 0..2 : At(b, 16 + i) = At(place, i)
      <3>1. Has(b, 16, place)
        BY DEF Sentence
      <3>2. Len(place) \in Nat /\ \A i \in 0..2 : i \in 0..(Len(place) - 1)
        BY TextLen
      <3> QED  BY <3>1, <3>2 DEF Has
    <2>2. At(place, 0) = 44 /\ At(place, 1) # 44 /\ At(place, 2) = 44
      <3>1. CASE Has(place, 0, <<44, 65, 44>>)
        <4>1. \A i \in 0..2 : At(place, i) = At(<<44, 65, 44>>, i)
          BY <3>1 DEF Has
        <4> QED  BY <4>1 DEF At
      <3>2. CASE Has(place, 0, <<44, 86, 44>>)
        <4>1. \A i \in 0..2 : At(place, i) = At(<<44, 86, 44>>, i)
          BY <3>2 DEF Has
        <4> QED  BY <4>1 DEF At
      <3> QED  BY <3>1, <3>2
    <2>3. At(b, 16 + 0) = At(place, 0) /\ At(b, 16 + 1) = At(place, 1)
          /\ At(b, 16 + 2) = At(place, 2)
      BY <2>1
    <2> QED  BY <2>2, <2>3
  <1>6. At(b, 7) # 44
    BY <1>3
  <1>7. \A k \in 7..18 : At(b, k) = 44 <=> k \in {16, 18}
    <2> TAKE k \in 7..18
    <2>1. k \in 7..12 \/ k = 13 \/ k = 14 \/ k = 15 \/ k = 16 \/ k = 17 \/ k = 18
      OBVIOUS
    <2> QED  BY <1>3, <1>4, <1>5, <2>1
  <1> QED  BY <1>2, <1>6, <1>7

\* What a GPS message gives: the fix, if there is one, and the clock, once it is set.
Stated(e, f, c) ==
    /\ e.type = "GPS"
    /\ f = None => e.lat = <<>>
    /\ f # None => /\ e.lat # <<>>
                   /\ PlaceChars(e.lat, f.lat, 2) /\ PlaceChars(e.long, f.long, 3)
    /\ IsSet(c) => e.time # <<>> /\ e.time = c.time \o c.date
    /\ ~IsSet(c) => e.time = <<>>

\* The place of a part of a text, which Chars copies.
LEMMA CharsCopied ==
    ASSUME NEW b, NEW at \in Nat, NEW s \in Seq(Digit), Has(b, at, s)
    PROVE  Chars(b, at, Len(s)) = s
  <1> DEFINE n == Len(s)
  <1>1. Chars(b, at, n) = [k \in 1..n |-> At(b, at + k - 1)]
    BY DEF Chars
  <1>2. s = [k \in 1..n |-> s[k]] /\ n \in Nat
    BY LenProperties
  <1>3. ASSUME NEW k \in 1..n
        PROVE  At(b, at + k - 1) = s[k]
    <2>1. k - 1 \in 0..(n - 1) /\ at + k - 1 = at + (k - 1) /\ (k - 1) + 1 = k /\ k - 1 < n
      BY <1>2
    <2>2. At(b, at + (k - 1)) = At(s, k - 1)
      BY <2>1 DEF Has
    <2> QED  BY <2>1, <2>2 DEF At
  <1> QED  BY <1>1, <1>2, <1>3

\* The eleventh character of a clock is the tens of its year.
LEMMA ClockYear ==
    ASSUME NEW c, c.time \in Seq(Digit), c.date \in Seq(Digit), Len(c.time) = 6, Len(c.date) = 6,
           c # None
    PROVE  /\ NoTimeLock(c.time \o c.date) <=> ~IsSet(c)
           /\ c.time \o c.date # <<>>
  <1>1. Len(c.time \o c.date) = 12 /\ (c.time \o c.date)[11] = c.date[11 - 6]
    <2> DEFINE s == c.time
               t == c.date
    <2>1. s \in Seq(Digit) /\ t \in Seq(Digit) /\ Len(s) = 6 /\ Len(t) = 6
      OBVIOUS
    <2> HIDE DEF s, t
    <2>2. Len(s \o t) = 12 /\ (s \o t)[11] = t[11 - Len(s)]
      <3> DEFINE n == 11
      <3>1. n \in 1..(Len(s) + Len(t)) /\ ~(n <= Len(s)) /\ Len(s) + Len(t) = 12
        BY <2>1
      <3> HIDE DEF n
      <3>2. Len(s \o t) = Len(s) + Len(t)
        BY <2>1, ConcatProperties, Zenon
      <3>3. (s \o t)[n] = IF n <= Len(s) THEN s[n] ELSE t[n - Len(s)]
        BY <2>1, <3>1, ConcatProperties, Zenon
      <3> QED  BY <3>1, <3>2, <3>3, Zenon DEF n
    <2> QED  BY <2>1, <2>2 DEF s, t
  <1>2. 11 - 6 = 5 /\ Len(<<>>) = 0
    OBVIOUS
  <1> QED  BY <1>1, <1>2 DEF NoTimeLock, IsSet

\* The places parse_GPS finds in a sentence with a position.
LEMMA LocatedCommas ==
    ASSUME NEW b, NEW c, NEW f \in Fixes, f # None, Sentence(b, c, Placing(f))
    PROVE  /\ At(b, 19) # 44
           /\ AnglePlaces(b, 19, f.lat, 2) /\ AnglePlaces(b, 31, f.long, 3)
           /\ \A k \in 44..51 : At(b, k) = 44 <=> k \in {47, 51}
           /\ Has(b, 52, c.date)
           /\ Len(b) > 58
  <1> DEFINE place == Placing(f)
  <1>1. place \in Text /\ Len(place) = 27 /\ LocatedPlaces(place, 0, f)
    BY PlacingReads
  <1>2. /\ Has(b, 16, place) /\ Len(b) > 31 + Len(place)
        /\ Has(b, 16 + Len(place), <<44, 48, 46, 48, 44, 48, 46, 48, 44>>)
        /\ Has(b, 25 + Len(place), c.date)
    BY DEF Sentence
  <1> HIDE DEF place
  <1>3. /\ 16 + Len(place) = 43 /\ 25 + Len(place) = 52 /\ 31 + Len(place) = 58
    BY <1>1
  <1>4. Angular(f.lat) /\ Angular(f.long)
    BY FixIsAngular
  <1>5. AnglePlaces(b, 19, f.lat, 2)
    <2>1. /\ 0 + 3 = 3 /\ 16 + 3 = 19 /\ 16 \in Nat /\ 3 \in Nat /\ 2 \in {2, 3}
          /\ 3 + 2 + 9 <= Len(place)
      BY <1>1
    <2>2. AnglePlaces(place, 3, f.lat, 2)
      BY <1>1, <2>1, Zenon DEF LocatedPlaces
    <2>3. AnglePlaces(b, 16 + 3, f.lat, 2)
      BY <1>1, <1>2, <1>4, <2>1, <2>2, AngleWithin, Zenon
    <2> QED  BY <2>1, <2>3, Zenon
  <1>6. AnglePlaces(b, 31, f.long, 3)
    <2>1. /\ 0 + 15 = 15 /\ 16 + 15 = 31 /\ 16 \in Nat /\ 15 \in Nat /\ 3 \in {2, 3}
          /\ 15 + 3 + 9 <= Len(place)
      BY <1>1
    <2>2. AnglePlaces(place, 15, f.long, 3)
      BY <1>1, <2>1, Zenon DEF LocatedPlaces
    <2>3. AnglePlaces(b, 16 + 15, f.long, 3)
      BY <1>1, <1>2, <1>4, <2>1, <2>2, AngleWithin, Zenon
    <2> QED  BY <2>1, <2>3, Zenon
  <1>7. At(b, 19) # 44
    <2> DEFINE deg == Digits(f.lat.deg, 2)
    <2>1. Has(b, 19, deg)
      BY <1>5 DEF AnglePlaces
    <2>2. deg \in Seq(Digit) /\ Len(deg) = 2
      <3>1. 2 \in 1..4
        OBVIOUS
      <3> QED  BY <1>4, <3>1, DigitsAreDigits, Zenon DEF Angular
    <2> HIDE DEF deg
    <2>3. 19 \in Nat /\ 19 \in 19..(19 + Len(deg) - 1)
      BY <2>2
    <2> QED  BY <2>1, <2>2, <2>3, DigitsNoComma
  <1>8. \A k \in 44..51 : At(b, k) = 44 <=> k \in {47, 51}
    <2> TAKE k \in 44..51
    <2>1. 43 \in Nat /\ k \in 43..(43 + 8) /\ Has(b, 43, <<44, 48, 46, 48, 44, 48, 46, 48, 44>>)
      BY <1>2, <1>3
    <2>2. At(b, k) = 44 <=> k \in {43, 43 + 4, 43 + 8}
      BY <2>1, SpeedCommas
    <2>3. k \in {43, 43 + 4, 43 + 8} <=> k \in {47, 51}
      OBVIOUS
    <2> QED  BY <2>2, <2>3
  <1> QED  BY <1>2, <1>3, <1>5, <1>6, <1>7, <1>8

\* And in one without.
LEMMA UnlocatedCommas ==
    ASSUME NEW b, NEW c, Sentence(b, c, Placing(None))
    PROVE  /\ At(b, 19) = 44
           /\ \A k \in 19..30 : At(b, k) = 44 <=> k \in {19, 20, 21, 22, 26, 30}
           /\ Has(b, 31, c.date)
           /\ Len(b) > 37
  <1> DEFINE place == <<44, 86, 44, 44, 44, 44>>
  <1>1. Placing(None) = place /\ Len(place) = 6
    BY DEF Placing
  <1>2. /\ Has(b, 16, place) /\ Len(b) > 31 + Len(place)
        /\ Has(b, 16 + Len(place), <<44, 48, 46, 48, 44, 48, 46, 48, 44>>)
        /\ Has(b, 25 + Len(place), c.date)
    BY <1>1 DEF Sentence
  <1>3. At(b, 19) = 44 /\ At(b, 20) = 44 /\ At(b, 21) = 44
    <2>1. \A i \in 0..5 : At(b, 16 + i) = At(place, i)
      BY <1>1, <1>2 DEF Has
    <2>2. At(place, 3) = 44 /\ At(place, 4) = 44 /\ At(place, 5) = 44
      BY DEF At
    <2> HIDE DEF place
    <2>3. At(b, 16 + 3) = 44 /\ At(b, 16 + 4) = 44 /\ At(b, 16 + 5) = 44
      BY <2>1, <2>2
    <2> QED  BY <2>3
  <1> HIDE DEF place
  <1>4. 16 + Len(place) = 22 /\ 25 + Len(place) = 31 /\ 31 + Len(place) = 37
    BY <1>1
  <1>5. \A k \in 22..30 : At(b, k) = 44 <=> k \in {22, 26, 30}
    <2> TAKE k \in 22..30
    <2>1. 22 \in Nat /\ k \in 22..(22 + 8) /\ Has(b, 22, <<44, 48, 46, 48, 44, 48, 46, 48, 44>>)
      BY <1>2, <1>4
    <2>2. At(b, k) = 44 <=> k \in {22, 22 + 4, 22 + 8}
      BY <2>1, SpeedCommas
    <2> QED  BY <2>2
  <1>6. \A k \in 19..30 : At(b, k) = 44 <=> k \in {19, 20, 21, 22, 26, 30}
    <2> TAKE k \in 19..30
    <2>1. k = 19 \/ k = 20 \/ k = 21 \/ k \in 22..30
      OBVIOUS
    <2>2. CASE k \in 22..30
      BY <1>5, <2>2
    <2> QED  BY <1>3, <2>1, <2>2
  <1> QED  BY <1>2, <1>3, <1>4, <1>6

\* The places that parse_GPS reads at.
Places(b, time, lat, long, date) ==
    /\ time = PastComma(b, 0, 1) /\ lat = PastComma(b, time, 2) /\ At(b, time) # 44
    /\ long = lat + 12
    /\ date = IF At(b, lat) # 44 THEN PastComma(b, long + 13, 2) ELSE PastComma(b, lat, 6)

\* And what it makes of them.
GpsAt(b, lat, long, clock) ==
    [type |-> "GPS",
     lat |-> IF At(b, lat) # 44 THEN Chars(b, lat, 4) \o Chars(b, lat + 5, 6) ELSE <<>>,
     long |-> IF At(b, lat) # 44 THEN Chars(b, long, 5) \o Chars(b, long + 6, 6) ELSE <<>>,
     time |-> IF NoTimeLock(clock) THEN <<>> ELSE clock]

\* What parse_GPS gives once its commas are known.
LEMMA ParsedAt ==
    ASSUME NEW b, NEW time, NEW lat, NEW long, NEW date, NEW clock,
           Places(b, time, lat, long, date), clock = Chars(b, time, 6) \o Chars(b, date, 6)
    PROVE  parse_GPS(b) = GpsAt(b, lat, long, clock)
  BY DEF parse_GPS, Places, GpsAt

\* A list of some length is not the empty one.
LEMMA ListNotEmpty == ASSUME NEW s, Len(s) > 0 PROVE s # <<>>
  <1>1. Len(<<>>) = 0
    OBVIOUS
  <1> QED  BY <1>1

\* What the parse task makes of a sentence with a time: its fix and its clock.
LEMMA GpsUnderstood ==
    ASSUME NEW f \in Fixes \cup {None}, NEW c \in Clocks, c # None
    PROVE  Stated(Effect(Rmc(f, c)), f, c)
  <1> DEFINE b == Rmc(f, c)
             place == Placing(f)
             e == parse_GPS(b)
             clock == c.time \o c.date
  <1>1. c.time \in Seq(Digit) /\ c.date \in Seq(Digit) /\ Len(c.time) = 6 /\ Len(c.date) = 6
    BY GpsAssumption DEF Digit
  <1>2. place \in Text /\ Len(place) >= 3
        /\ (Has(place, 0, <<44, 65, 44>>) \/ Has(place, 0, <<44, 86, 44>>))
    <2>1. CASE f # None
      <3>1. place \in Text /\ Len(place) = 27 /\ Has(place, 0, <<44, 65, 44>>)
        BY <2>1, PlacingReads, Zenon DEF LocatedPlaces
      <3>2. Len(place) >= 3
        BY <3>1
      <3> QED  BY <3>1, <3>2, Zenon
    <2>2. CASE f = None
      <3>1. place = <<44, 86, 44, 44, 44, 44>>
        BY <2>2 DEF Placing
      <3>2. Has(place, 0, <<44, 86, 44>>)
        BY <3>1 DEF Has, At
      <3>3. place \in Text /\ Len(place) >= 3
        BY <3>1 DEF Text
      <3> QED  BY <3>2, <3>3, Zenon
    <2> QED  BY <2>1, <2>2, Zenon
  <1>3. Sentence(b, c, place)
    BY <1>1, <1>2, SentenceReads
  <1>4. Len(b) \in Nat /\ Len(b) > 31
    <2>1. b \in Text /\ Len(b) > 31 + Len(place)
      BY <1>3 DEF Sentence
    <2> HIDE DEF b, place
    <2> QED  BY <1>2, <2>1, TextLen
  <1> HIDE DEF b
  <1>5. /\ At(b, 0) = 36
        /\ \A k \in 0..6 : At(b, k) = 44 <=> k \in {6}
        /\ At(b, 7) # 44
        /\ \A k \in 7..18 : At(b, k) = 44 <=> k \in {16, 18}
    BY <1>1, <1>2, <1>3, FirstCommas
  <1>6. Effect(b) = e
    BY <1>5 DEF Effect, parse_is_GPS
  <1>7. PastComma(b, 0, 1) = 7
    <2>1. Commas(b, 0, 6) = {6} /\ At(b, 6) = 44
      BY <1>5 DEF Commas
    <2>2. Cardinality(Commas(b, 0, 6)) = 1
      BY <2>1, CommaSets
    <2>3. 0 \in Nat /\ 6 \in Nat /\ 0 <= 6 /\ 6 <= Len(b) /\ 6 + 1 = 7
      BY <1>4
    <2> QED  BY <1>4, <2>1, <2>2, <2>3, PastIs
  <1>8. PastComma(b, 7, 2) = 19
    <2>1. Commas(b, 7, 18) = {16, 18} /\ At(b, 18) = 44
      BY <1>5 DEF Commas
    <2>2. Cardinality(Commas(b, 7, 18)) = 2
      BY <2>1, CommaSets
    <2>3. 7 \in Nat /\ 18 \in Nat /\ 7 <= 18 /\ 18 <= Len(b) /\ 18 + 1 = 19
      BY <1>4
    <2> QED  BY <1>4, <2>1, <2>2, <2>3, PastIs
  <1>9. Chars(b, 7, 6) = c.time
    <2>1. Has(b, 7, c.time) /\ 7 \in Nat
      BY <1>3 DEF Sentence
    <2>2. Chars(b, 7, Len(c.time)) = c.time
      BY <1>1, <2>1, CharsCopied, Zenon
    <2> QED  BY <1>1, <2>2, Zenon
  <1>10. /\ NoTimeLock(clock) <=> ~IsSet(c)
         /\ clock # <<>>
    BY <1>1, ClockYear
  <1> HIDE DEF place
  <1>11. CASE f # None
    <2>1. /\ At(b, 19) # 44
          /\ AnglePlaces(b, 19, f.lat, 2) /\ AnglePlaces(b, 31, f.long, 3)
          /\ \A k \in 44..51 : At(b, k) = 44 <=> k \in {47, 51}
          /\ Has(b, 52, c.date)
          /\ Len(b) > 58
      BY <1>3, <1>11, LocatedCommas DEF place
    <2>2. PastComma(b, 44, 2) = 52
      <3>1. Commas(b, 44, 51) = {47, 51} /\ At(b, 51) = 44
        BY <2>1 DEF Commas
      <3>2. Cardinality(Commas(b, 44, 51)) = 2
        BY <3>1, CommaSets
      <3>3. 44 \in Nat /\ 51 \in Nat /\ 44 <= 51 /\ 51 <= Len(b) /\ 51 + 1 = 52
        BY <1>4, <2>1
      <3> QED  BY <1>4, <3>1, <3>2, <3>3, PastIs
    <2>3. Chars(b, 52, 6) = c.date
      <3>1. 52 \in Nat
        OBVIOUS
      <3>2. Chars(b, 52, Len(c.date)) = c.date
        BY <1>1, <2>1, <3>1, CharsCopied, Zenon
      <3> QED  BY <1>1, <3>2, Zenon
    <2>4. e = [type |-> "GPS",
               lat |-> Chars(b, 19, 4) \o Chars(b, 24, 6),
               long |-> Chars(b, 31, 5) \o Chars(b, 37, 6),
               time |-> IF NoTimeLock(clock) THEN <<>> ELSE clock]
      <3>1. 19 + 12 = 31 /\ 31 + 13 = 44 /\ 19 + 5 = 24 /\ 31 + 6 = 37
        OBVIOUS
      <3>2. Places(b, 7, 19, 31, 52)
        BY <1>5, <1>7, <1>8, <2>1, <2>2, <3>1 DEF Places
      <3>4. clock = Chars(b, 7, 6) \o Chars(b, 52, 6)
        BY <1>9, <2>3
      <3> HIDE DEF clock
      <3>3. e = GpsAt(b, 19, 31, clock)
        BY <3>2, <3>4, ParsedAt, Zenon
      <3> HIDE DEF e
      <3> QED  BY <2>1, <3>1, <3>3 DEF GpsAt
    <2>5. PlaceChars(Chars(b, 19, 4) \o Chars(b, 24, 6), f.lat, 2)
      <3>1. 2 + 2 = 4 /\ 19 + 2 + 3 = 24 /\ 19 \in Nat /\ 2 \in {2, 3}
        OBVIOUS
      <3>2. PlaceChars(Chars(b, 19, 2 + 2) \o Chars(b, 19 + 2 + 3, 6), f.lat, 2)
        BY <1>11, <2>1, <3>1, PlaceCopied, FixIsAngular, Zenon
      <3> QED  BY <3>1, <3>2
    <2>6. PlaceChars(Chars(b, 31, 5) \o Chars(b, 37, 6), f.long, 3)
      <3>1. 3 + 2 = 5 /\ 31 + 3 + 3 = 37 /\ 31 \in Nat /\ 3 \in {2, 3}
        OBVIOUS
      <3>2. PlaceChars(Chars(b, 31, 3 + 2) \o Chars(b, 31 + 3 + 3, 6), f.long, 3)
        BY <1>11, <2>1, <3>1, PlaceCopied, FixIsAngular, Zenon
      <3> QED  BY <3>1, <3>2
    <2>7. Chars(b, 19, 4) \o Chars(b, 24, 6) # <<>>
      BY <2>5, ListNotEmpty DEF PlaceChars
    <2> HIDE DEF e, clock
    <2>8. /\ e.type = "GPS"
          /\ e.lat = Chars(b, 19, 4) \o Chars(b, 24, 6)
          /\ e.long = Chars(b, 31, 5) \o Chars(b, 37, 6)
          /\ e.time = IF NoTimeLock(clock) THEN <<>> ELSE clock
      BY <2>4
    <2>9. Stated(e, f, c)
      BY <1>10, <1>11, <2>5, <2>6, <2>7, <2>8, Zenon DEF Stated, clock
    <2> QED  BY <1>6, <2>9 DEF b
  <1>12. CASE f = None
    <2>1. /\ At(b, 19) = 44
          /\ \A k \in 19..30 : At(b, k) = 44 <=> k \in {19, 20, 21, 22, 26, 30}
          /\ Has(b, 31, c.date)
          /\ Len(b) > 37
      BY <1>3, <1>12, UnlocatedCommas DEF place
    <2>2. PastComma(b, 19, 6) = 31
      <3>1. Commas(b, 19, 30) = {19, 20, 21, 22, 26, 30} /\ At(b, 30) = 44
        BY <2>1 DEF Commas
      <3>2. Cardinality(Commas(b, 19, 30)) = 6
        BY <3>1, CommaSets
      <3>3. 19 \in Nat /\ 30 \in Nat /\ 19 <= 30 /\ 30 <= Len(b) /\ 30 + 1 = 31
        BY <1>4, <2>1
      <3> QED  BY <1>4, <3>1, <3>2, <3>3, PastIs
    <2>3. Chars(b, 31, 6) = c.date
      <3>1. 31 \in Nat
        OBVIOUS
      <3>2. Chars(b, 31, Len(c.date)) = c.date
        BY <1>1, <2>1, <3>1, CharsCopied, Zenon
      <3> QED  BY <1>1, <3>2, Zenon
    <2>4. e = [type |-> "GPS", lat |-> <<>>, long |-> <<>>,
               time |-> IF NoTimeLock(clock) THEN <<>> ELSE clock]
      <3>1. 19 + 12 = 31
        OBVIOUS
      <3>2. Places(b, 7, 19, 31, 31)
        BY <1>5, <1>7, <1>8, <2>1, <2>2, <3>1 DEF Places
      <3>4. clock = Chars(b, 7, 6) \o Chars(b, 31, 6)
        BY <1>9, <2>3
      <3> HIDE DEF clock
      <3>3. e = GpsAt(b, 19, 31, clock)
        BY <3>2, <3>4, ParsedAt, Zenon
      <3> HIDE DEF e
      <3> QED  BY <2>1, <3>3 DEF GpsAt
    <2> HIDE DEF e, clock
    <2>5. e.type = "GPS" /\ e.lat = <<>> /\ e.time = IF NoTimeLock(clock) THEN <<>> ELSE clock
      BY <2>4
    <2>6. Stated(e, f, c)
      BY <1>10, <1>12, <2>5, Zenon DEF Stated, clock
    <2> QED  BY <1>6, <2>6 DEF b
  <1> QED  BY <1>11, <1>12

\* Without a time, a sentence changes nothing.
LEMMA TimelessIsNothing ==
    ASSUME NEW f \in Fixes \cup {None}
    PROVE  Effect(Rmc(f, None)) = NoEffect
  <1> DEFINE b == Rmc(f, None)
             dollar == <<36, 71, 78, 82, 77, 67, 44>>
             place == Placing(f)
             speed == <<44, 48, 46, 48, 44, 48, 46, 48, 44>>
             end == <<44, 44, 44, 65, 42, 54, 56, 13, 10>>
             b1 == Cat(dollar, place)
             b2 == Cat(b1, speed)
             b3 == Cat(b2, end)
  <1>1. dollar \in Text /\ Len(dollar) = 7 /\ speed \in Text /\ end \in Text
        /\ Len(speed) = 9 /\ Len(end) = 9
    BY DEF Text
  <1>2. place \in Text /\ Len(place) >= 3 /\ At(place, 0) = 44
    <2>1. CASE f # None
      <3>1. place \in Text /\ Len(place) = 27 /\ Has(place, 0, <<44, 65, 44>>)
        BY <2>1, PlacingReads DEF LocatedPlaces
      <3>2. At(place, 0 + 0) = At(<<44, 65, 44>>, 0)
        BY <3>1 DEF Has
      <3> QED  BY <3>1, <3>2 DEF At
    <2>2. CASE f = None
      <3>1. place = <<44, 86, 44, 44, 44, 44>>
        BY <2>2 DEF Placing
      <3> QED  BY <3>1 DEF At, Text
    <2> QED  BY <2>1, <2>2
  <1>3. \A i \in 0..6 : At(dollar, i) = 44 <=> i = 6
    BY DEF At
  <1>0. At(dollar, 0) = 36
    BY DEF At
  <1>4. b = b3
    <2>1. b = (((dollar \o <<>>) \o place) \o speed) \o <<>> \o end
      BY DEF Rmc, Placing
    <2>2. dollar \o <<>> = dollar
      BY <1>1, ConcatEmptySeq DEF Text
    <2> HIDE DEF dollar, place, speed, end
    <2>3. b2 \in Text
      BY <1>1, <1>2, CatIsText
    <2>4. b2 \o <<>> = b2
      BY <2>3, ConcatEmptySeq DEF Text
    <2>5. b = (b2 \o <<>>) \o end
      BY <2>1, <2>2 DEF Cat
    <2> QED  BY <2>4, <2>5 DEF Cat
  <1> HIDE DEF dollar, place, speed, end, b
  <1>5. b1 \in Text /\ Len(b1) >= 8
        /\ At(b1, 7) = 44 /\ \A i \in 0..6 : At(b1, i) = At(dollar, i)
    <2>1. b1 \in Text /\ Len(b1) = Len(dollar) + Len(place)
      BY <1>1, <1>2, CatIsText, Zenon
    <2>2. Len(dollar) + Len(place) >= 8
      BY <1>1, <1>2, TextLen
    <2>3. At(b1, 7) = At(place, 0)
      <3>1. 7 \in Nat /\ 0 \in Nat /\ Behind(dollar, 7, 0)
        BY <1>1 DEF Behind
      <3> QED  BY <1>1, <1>2, <3>1, AtRight, Zenon
    <2>4. ASSUME NEW i \in 0..6 PROVE At(b1, i) = At(dollar, i)
      <3>1. i \in Nat /\ i < Len(dollar)
        BY <1>1
      <3> QED  BY <1>1, <1>2, <3>1, AtLeft, Zenon
    <2> QED  BY <1>2, <2>1, <2>2, <2>3, <2>4
  <1> HIDE DEF b1
  <1>6. b2 \in Text /\ Len(b2) >= 8 /\ \A i \in 0..7 : At(b2, i) = At(b1, i)
    <2>1. b2 \in Text /\ Len(b2) = Len(b1) + Len(speed)
      BY <1>1, <1>5, CatIsText, Zenon
    <2>2. Len(b1) + Len(speed) >= 8
      BY <1>1, <1>5, TextLen
    <2>3. ASSUME NEW i \in 0..7 PROVE At(b2, i) = At(b1, i)
      <3>1. i \in Nat /\ i < Len(b1)
        BY <1>5, TextLen
      <3> QED  BY <1>1, <1>5, <3>1, AtLeft, Zenon
    <2> QED  BY <2>1, <2>2, <2>3
  <1> HIDE DEF b2
  <1>7. b3 \in Text /\ Len(b3) >= 8 /\ \A i \in 0..7 : At(b3, i) = At(b2, i)
    <2>1. b3 \in Text /\ Len(b3) = Len(b2) + Len(end)
      BY <1>1, <1>6, CatIsText, Zenon
    <2>2. Len(b2) + Len(end) >= 8
      BY <1>1, <1>6, TextLen
    <2>3. ASSUME NEW i \in 0..7 PROVE At(b3, i) = At(b2, i)
      <3>1. i \in Nat /\ i < Len(b2)
        BY <1>6, TextLen
      <3> QED  BY <1>1, <1>6, <3>1, AtLeft, Zenon
    <2> QED  BY <2>1, <2>2, <2>3
  <1> HIDE DEF b3
  <1>8. At(b, 0) = 36 /\ At(b, 7) = 44 /\ \A i \in 0..6 : At(b, i) = 44 <=> i \in {6}
    BY <1>0, <1>3, <1>4, <1>5, <1>6, <1>7
  <1>9. PastComma(b, 0, 1) = 7
    <2>1. Commas(b, 0, 6) = {6} /\ At(b, 6) = 44
      BY <1>8 DEF Commas
    <2>2. Cardinality(Commas(b, 0, 6)) = 1
      BY <2>1, CommaSets
    <2>3. 0 \in Nat /\ 6 \in Nat /\ 0 <= 6 /\ 6 <= Len(b) /\ 6 + 1 = 7 /\ Len(b) \in Nat
      BY <1>4, <1>7, TextLen
    <2> QED  BY <2>1, <2>2, <2>3, PastIs
  <1>10. Effect(b) = parse_GPS(b) /\ parse_GPS(b) = NoEffect
    BY <1>8, <1>9 DEF Effect, parse_is_GPS, parse_GPS
  <1> QED  BY <1>10 DEF b
-----------------------------------------------------------------------------
\* The second invariant: the place in the packet.

\* While every text was read whole, the packet holds the last fix and the last clock.
Placed(p, s) ==
    /\ "LAT" \in p.fields <=> s["FIX"] # None
    /\ "LONG" \in p.fields <=> s["FIX"] # None
    /\ s["FIX"] # None => /\ s["FIX"] \in Fixes
                          /\ PlaceChars(p.LAT, s["FIX"].lat, 2)
                          /\ PlaceChars(p.LONG, s["FIX"].long, 3)
    /\ "TIME" \in p.fields <=> s["CLOCK"] # None
    /\ s["CLOCK"] # None => p.TIME = s["CLOCK"].time \o s["CLOCK"].date

PlacedInv == whole => Placed(packet, since)

\* A packet that differs only in what the car answered.
SamePlace(p, r) ==
    /\ r.LAT = p.LAT /\ r.LONG = p.LONG /\ r.TIME = p.TIME
    /\ "LAT" \in r.fields <=> "LAT" \in p.fields
    /\ "LONG" \in r.fields <=> "LONG" \in p.fields
    /\ "TIME" \in r.fields <=> "TIME" \in p.fields

\* An answer of the car leaves the position and the time alone.
LEMMA PlaceKept ==
    ASSUME NEW p, NEW s, NEW r, NEW t, Placed(p, s), SamePlace(p, r),
           t["FIX"] = s["FIX"], t["CLOCK"] = s["CLOCK"]
    PROVE  Placed(r, t)
  BY Zenon DEF Placed, SamePlace

\* So does a text that sets a sensor or the VIN.
LEMMA CarSetsNoPlace ==
    ASSUME NEW p, PacketOK(p), NEW q \in Sensor \cup {"VIN"}, NEW v
    PROVE  SamePlace(p, [p EXCEPT ![q] = v, !.fields = @ \cup {q}])
  <1> DEFINE r == [p EXCEPT ![q] = v, !.fields = @ \cup {q}]
  <1>1. q \notin {"LAT", "LONG", "TIME", "fields"} /\ q \in PacketField
    BY DEF Sensor, PacketField
  <1>2. /\ r.LAT = p.LAT /\ r.LONG = p.LONG /\ r.TIME = p.TIME
        /\ r.fields = p.fields \cup {q}
    BY <1>1 DEF PacketOK, PacketField
  <1> HIDE DEF r
  <1>3. SamePlace(p, r)
    BY <1>1, <1>2 DEF SamePlace
  <1> QED  BY <1>3 DEF r

\* The first packet has no place yet.
LEMMA InitPlaced == Init => PlacedInv
  <1> SUFFICES ASSUME Init PROVE PlacedInv
    OBVIOUS
  <1>1. packet.fields = {"MISC"}
    BY DEF Init, NewData
  <1>2. since["FIX"] = None /\ since["CLOCK"] = None
    BY DEF Init, Nothing
  <1> QED  BY <1>1, <1>2 DEF PlacedInv, Placed

\* A sensor's answer keeps the place.
LEMMA SensorAnswersPlaced == IInv /\ PlacedInv /\ SensorAnswers => PlacedInv'
  <1> SUFFICES ASSUME IInv, PlacedInv, SensorAnswers PROVE PlacedInv'
    OBVIOUS
  <1>1. PICK q \in Sensor, v \in Values :
          /\ Parsed(With(packet, Effect(Answer(q, v))))
          /\ since' = [since EXCEPT ![q] = v]
    <2>1. PICK a \in Answered : /\ Parsed(With(packet, a.effect))
                               /\ since' = [since EXCEPT ![a.sensor] = a.value]
      BY Zenon DEF SensorAnswers
    <2>2. PICK q \in Sensor, v \in Values :
            a = [sensor |-> q, value |-> v, effect |-> Effect(Answer(q, v))]
      BY DEF Answered
    <2>3. a.sensor = q /\ a.value = v /\ a.effect = Effect(Answer(q, v))
      BY <2>2
    <2> QED  BY <2>1, <2>3, Zenon
  <1>2. v \in ByteValue
    BY ReportAssumption DEF ByteValue
  <1> DEFINE e == Effect(Answer(q, v))
  <1>3. e = [type |-> q, value |-> v] /\ Width(e)
    BY <1>2, AnswerIsUnderstood, EffectWidth
  <1>4. e.type = q /\ e.value = v
    BY <1>3
  <1> HIDE DEF e
  <1>5. packet' = [packet EXCEPT ![q] = v, !.fields = @ \cup {q}]
    BY <1>1, <1>3, <1>4, ParsedKeeps DEF IInv, e
  <1>6. SamePlace(packet, packet')
    BY <1>5, CarSetsNoPlace DEF IInv
  <1>7. since'["FIX"] = since["FIX"] /\ since'["CLOCK"] = since["CLOCK"]
    BY <1>1 DEF IInv, SinceField, Sensor
  <1>8. whole' = whole
    BY DEF SensorAnswers
  <1> QED  BY <1>6, <1>7, <1>8, PlaceKept, Zenon DEF PlacedInv

\* NO DATA changes nothing.
LEMMA SensorHasNoDataPlaced == IInv /\ PlacedInv /\ SensorHasNoData => PlacedInv'
  <1> SUFFICES ASSUME IInv, PlacedInv, SensorHasNoData PROVE PlacedInv'
    OBVIOUS
  <1>1. PICK q \in Sensor : Parsed(With(packet, Effect(NoData(q))))
    BY DEF SensorHasNoData, Silence
  <1>2. packet' = packet
    <2>1. Effect(NoData(q)).type = "UNKNOWN"
      BY SilenceIsNothing DEF NoEffect
    <2> QED  BY <1>1, <2>1 DEF Parsed, With, Sensor
  <1>3. since' = since /\ whole' = whole
    BY DEF SensorHasNoData
  <1> QED  BY <1>2, <1>3, Zenon DEF PlacedInv

\* The VIN keeps the place.
LEMMA CarAnswersVinPlaced == IInv /\ PlacedInv /\ CarAnswersVin => PlacedInv'
  <1> SUFFICES ASSUME IInv, PlacedInv, CarAnswersVin PROVE PlacedInv'
    OBVIOUS
  <1>1. Width(AnsweredVin) /\ AnsweredVin.type = "VIN" /\ AnsweredVin.value = CarVin
    BY EffectWidth, VinIsUnderstood DEF AnsweredVin
  <1>2. packet' = [packet EXCEPT !["VIN"] = CarVin, !.fields = @ \cup {"VIN"}]
    BY <1>1, VinIsUnderstood, ParsedKeeps DEF IInv, CarAnswersVin
  <1>3. SamePlace(packet, packet')
    BY <1>2, CarSetsNoPlace DEF IInv
  <1>4. since' = since /\ whole' = whole
    BY DEF CarAnswersVin
  <1> QED  BY <1>3, <1>4, PlaceKept, Zenon DEF PlacedInv

\* What a sentence with a time changes in the packet.
LEMMA StatedIsPlaced ==
    ASSUME NEW p, PacketOK(p), NEW e, NEW f \in Fixes \cup {None}, NEW c, c # None,
           Stated(e, f, c), NEW s, Placed(p, s), NEW t,
           t["FIX"] = (IF f = None THEN s["FIX"] ELSE f),
           t["CLOCK"] = (IF IsSet(c) THEN c ELSE s["CLOCK"])
    PROVE  Placed(With(p, e), t)
  <1> DEFINE located == IF e.lat = <<>> THEN p
                        ELSE [p EXCEPT !.LAT = e.lat, !.LONG = e.long,
                                       !.fields = @ \cup {"LAT", "LONG"}]
             r == With(p, e)
  <1>1. r = IF e.time = <<>> THEN located
            ELSE [located EXCEPT !.TIME = e.time, !.fields = @ \cup {"TIME"}]
    BY DEF Stated, With, WithGps, Sensor
  <1>2. /\ located = [x \in PacketField |-> located[x]] /\ located.TIME = p.TIME
        /\ "TIME" \in located.fields <=> "TIME" \in p.fields
    BY DEF PacketOK, PacketField
  <1>3. /\ "LAT" \in located.fields <=> t["FIX"] # None
        /\ "LONG" \in located.fields <=> t["FIX"] # None
        /\ t["FIX"] # None => /\ t["FIX"] \in Fixes
                              /\ PlaceChars(located.LAT, t["FIX"].lat, 2)
                              /\ PlaceChars(located.LONG, t["FIX"].long, 3)
    <2>1. CASE f = None
      <3>1. located = p /\ t["FIX"] = s["FIX"]
        BY <2>1 DEF Stated
      <3> QED  BY <3>1, Zenon DEF Placed
    <2>2. CASE f # None
      <3>1. /\ e.lat # <<>> /\ PlaceChars(e.lat, f.lat, 2) /\ PlaceChars(e.long, f.long, 3)
            /\ t["FIX"] = f /\ f \in Fixes
        BY <2>2, Zenon DEF Stated
      <3>2. /\ located.LAT = e.lat /\ located.LONG = e.long
            /\ "LAT" \in located.fields /\ "LONG" \in located.fields
        BY <3>1 DEF PacketOK, PacketField
      <3> QED  BY <2>2, <3>1, <3>2, Zenon
    <2> QED  BY <2>1, <2>2, Zenon
  <1> HIDE DEF located, r
  <1>4. /\ r.LAT = located.LAT /\ r.LONG = located.LONG
        /\ "LAT" \in r.fields <=> "LAT" \in located.fields
        /\ "LONG" \in r.fields <=> "LONG" \in located.fields
        /\ e.time = <<>> => r = located
        /\ e.time # <<>> => r.TIME = e.time /\ "TIME" \in r.fields
    BY <1>1, <1>2 DEF PacketField
  <1>5. /\ "TIME" \in r.fields <=> t["CLOCK"] # None
        /\ t["CLOCK"] # None => r.TIME = t["CLOCK"].time \o t["CLOCK"].date
    <2>1. CASE IsSet(c)
      <3>1. e.time # <<>> /\ e.time = c.time \o c.date /\ t["CLOCK"] = c
        BY <2>1, Zenon DEF Stated
      <3> QED  BY <1>4, <3>1, Zenon
    <2>2. CASE ~IsSet(c)
      <3>1. e.time = <<>> /\ t["CLOCK"] = s["CLOCK"]
        BY <2>2, Zenon DEF Stated
      <3> QED  BY <1>2, <1>4, <3>1, Zenon DEF Placed
    <2> QED  BY <2>1, <2>2, Zenon
  <1>6. Placed(r, t)
    BY <1>3, <1>4, <1>5, Zenon DEF Placed
  <1> QED  BY <1>6 DEF r

\* A sentence of the GPS gives the packet its place.
LEMMA GpsReportsPlaced == IInv /\ PlacedInv /\ GpsReports => PlacedInv'
  <1> SUFFICES ASSUME IInv, PlacedInv, GpsReports, whole PROVE Placed(packet', since')
    <2>1. GpsReports => whole' = whole
      BY DEF GpsReports
    <2> QED  BY <2>1, Zenon DEF PlacedInv
  <1>1. PICK f \in Fixes \cup {None}, c \in Clocks \cup {None} :
          /\ Parsed(With(packet, Effect(Rmc(f, c))))
          /\ since' = [since EXCEPT !.FIX = IF f = None \/ c = None THEN @ ELSE f,
                                    !.CLOCK = IF IsSet(c) THEN c ELSE @]
    <2>1. PICK s \in Said :
            /\ Parsed(With(packet, s.effect))
            /\ since' = [since EXCEPT !.FIX = IF s.fix = None \/ s.clock = None THEN @ ELSE s.fix,
                                      !.CLOCK = IF IsSet(s.clock) THEN s.clock ELSE @]
      BY Zenon DEF GpsReports
    <2>2. PICK f \in Fixes \cup {None}, c \in Clocks \cup {None} :
            s = [fix |-> f, clock |-> c, effect |-> Effect(Rmc(f, c))]
      BY DEF Said
    <2>3. s.fix = f /\ s.clock = c /\ s.effect = Effect(Rmc(f, c))
      BY <2>2
    <2>4. Parsed(With(packet, Effect(Rmc(f, c))))
      BY <2>1, <2>3, Zenon
    <2> QED  BY <2>1, <2>3, <2>4
  <1> DEFINE e == Effect(Rmc(f, c))
  <1>2. /\ since'["FIX"] = IF f = None \/ c = None THEN since["FIX"] ELSE f
        /\ since'["CLOCK"] = IF IsSet(c) THEN c ELSE since["CLOCK"]
    BY <1>1 DEF IInv, SinceField
  <1>3. packet' = With(packet, e) /\ PacketOK(packet) /\ Placed(packet, since)
    BY <1>1 DEF Parsed, IInv, PlacedInv
  <1>4. CASE c = None
    <2>1. e = NoEffect
      BY <1>4, TimelessIsNothing
    <2>2. packet' = packet
      BY <1>3, <2>1 DEF With, NoEffect, Sensor
    <2>3. ~IsSet(c)
      BY <1>4 DEF IsSet
    <2>4. since'["FIX"] = since["FIX"] /\ since'["CLOCK"] = since["CLOCK"]
      BY <1>2, <1>4, <2>3, Zenon
    <2> QED  BY <1>3, <2>2, <2>4, PlaceKept, Zenon DEF SamePlace
  <1>5. CASE c # None
    <2>1. Stated(e, f, c)
      BY <1>5, GpsUnderstood, Zenon
    <2> HIDE DEF e
    <2>2. /\ since'["FIX"] = (IF f = None THEN since["FIX"] ELSE f)
          /\ since'["CLOCK"] = (IF IsSet(c) THEN c ELSE since["CLOCK"])
      BY <1>2, <1>5, Zenon
    <2>3. Placed(With(packet, e), since')
      BY <1>3, <1>5, <2>1, <2>2, StatedIsPlaced, Zenon
    <2> QED  BY <1>3, <2>3, Zenon
  <1> QED  BY <1>4, <1>5

\* The packet handed on starts again without a place.
LEMMA HandOnPlaced == IInv /\ PlacedInv /\ HandOn => PlacedInv'
  <1> SUFFICES ASSUME IInv, HandOn PROVE Placed(packet', since')
    BY DEF PlacedInv
  <1>1. packet' = [packet EXCEPT !.fields = {"MISC"}] /\ since' = Nothing
    BY DEF HandOn, HandOver
  <1>2. packet'.fields = {"MISC"}
    BY <1>1 DEF IInv, PacketOK, PacketField
  <1>3. since'["FIX"] = None /\ since'["CLOCK"] = None
    BY <1>1 DEF Nothing
  <1> QED  BY <1>2, <1>3 DEF Placed

\* The packet holds the last fix and the last clock (collector_parse_task, parse_GPS).
THEOREM PlaceInductive == Spec => []PlacedInv
  <1>1. Init => PlacedInv
    BY InitPlaced
  <1>2. IInv /\ PlacedInv /\ [Next]_vars => PlacedInv'
    <2> SUFFICES ASSUME IInv, PlacedInv, [Next]_vars PROVE PlacedInv'
      OBVIOUS
    <2>1. CASE CarAnswersVin  BY <2>1, CarAnswersVinPlaced
    <2>2. CASE SensorAnswers  BY <2>2, SensorAnswersPlaced
    <2>3. CASE SensorHasNoData  BY <2>3, SensorHasNoDataPlaced
    <2>4. CASE GpsReports  BY <2>4, GpsReportsPlaced
    <2>5. CASE ReadInTwo
      BY <2>5, Zenon DEF ReadInTwo, PlacedInv
    <2>6. CASE HandOn  BY <2>6, HandOnPlaced
    <2>7. CASE UNCHANGED vars
      BY <2>7, Zenon DEF vars, PlacedInv
    <2> QED  BY <2>1, <2>2, <2>3, <2>4, <2>5, <2>6, <2>7 DEF Next
  <1> QED  BY <1>1, <1>2, Inductive, PTL DEF Spec

\* The length of the text with the position is a number.
LEMMA UndatedIsNumber ==
    ASSUME NEW p, PacketOK(p), NEW i
    PROVE  UndatedLen(p, i) \in Nat
  <1> DEFINE long == IF "LONG" \in p.fields THEN 9 + AngleLen(p, "LONG", Angles(p).long) ELSE 0
             lat == IF "LAT" \in p.fields THEN 8 + AngleLen(p, "LAT", Angles(p).lat) ELSE 0
             l == Len(VinText(p))
             m == IntLen(i)
  <1>1. UndatedLen(p, i) = 20 + FrameLen(p, i) + SensorsLen(p) + DateLen(p) + long + lat
    BY DEF UndatedLen
  <1>2. \A f, angle : AngleLen(p, f, angle) \in Nat
    <2> TAKE f, angle
    <2>1. RealLen(angle \div 6000) \in 8..18
      BY IntLenIsSmall
    <2>2. AngleLen(p, f, angle) = IF f \in p.fields THEN RealLen(angle \div 6000) + 1 ELSE 0
      BY DEF AngleLen
    <2> QED  BY <2>1, <2>2
  <1>3. long \in Nat /\ lat \in Nat
    BY <1>2
  <1>4. FrameLen(p, i) = 2 * (l + 7) + 8 + m + 1
    BY DEF FrameLen
  <1>5. l \in 0..17 /\ m \in 1..11
    BY VinTextIsSmall, IntLenIsSmall DEF PacketOK
  <1>6. SensorsLen(p) \in 0..91 /\ DateLen(p) \in Nat
    BY SensorsLenIsSmall DEF DateLen
  <1> HIDE DEF long, lat, l, m
  <1>7. FrameLen(p, i) \in Nat
    BY <1>4, <1>5
  <1> QED  BY <1>1, <1>3, <1>6, <1>7

\* What the length of the text does to the flag behind it.
LEMMA FlagAndLength ==
    ASSUME NEW p, PacketOK(p), NEW i
    PROVE  /\ GpsLen(p, i) < TextSize =>
                (Flagged(p, i) <=> /\ {"LAT", "LONG", "TIME"} \subseteq p.fields
                                   /\ TwoParts(p.LAT) /\ TwoParts(p.LONG))
           /\ GpsLen(p, i) > TextSize => Flagged(p, i)
           /\ GpsLen(p, i) \in Nat
  <1> DEFINE u == UndatedLen(p, i)
             flagged == Flagged(p, i)
             more == IF ~flagged THEN 0 ELSE IF "TIME" \in p.fields THEN 19 ELSE 10
             given == /\ {"LAT", "LONG", "TIME"} \subseteq p.fields
                      /\ TwoParts(p.LAT) /\ TwoParts(p.LONG)
  <1>1. u \in Nat
    BY UndatedIsNumber
  <1>2. flagged = (IF u >= 200 THEN u > 200 ELSE given)
    BY DEF Flagged, TextSize
  <1>3. GpsLen(p, i) = u + more
    BY DEF GpsLen
  <1>4. more \in Nat /\ (~flagged => more = 0)
    OBVIOUS
  <1> HIDE DEF u, flagged, more, given
  <1>5. u >= 200 => (flagged <=> u > 200)
    BY <1>2
  <1>6. ~(u >= 200) => (flagged <=> given)
    BY <1>2
  <1>7. /\ GpsLen(p, i) < 200 => (flagged <=> given)
        /\ GpsLen(p, i) > 200 => flagged
        /\ GpsLen(p, i) \in Nat
    BY <1>1, <1>3, <1>4, <1>5, <1>6
  <1> QED  BY <1>7 DEF TextSize, flagged, given

\* The coordinates of the packet are the last fix's, to the minute.
LEMMA PlacedAngles ==
    ASSUME NEW p, NEW s, Placed(p, s), s["FIX"] # None
    PROVE  /\ Within1Minute(Angles(p).lat, s["FIX"].lat)
           /\ Within1Minute(Angles(p).long, s["FIX"].long)
           /\ TwoParts(p.LAT) /\ TwoParts(p.LONG)
  <1> DEFINE f == s["FIX"]
             lat == Angles(p).lat
             long == Angles(p).long
  <1>1. f \in Fixes /\ PlaceChars(p.LAT, f.lat, 2) /\ PlaceChars(p.LONG, f.long, 3)
    BY Zenon DEF Placed
  <1> HIDE DEF f
  <1>2. /\ Angular(f.lat) /\ Angular(f.long)
        /\ f.lat.deg < 100 /\ f.long.deg < 1000 /\ f.lat.min < 100 /\ f.long.min < 100
        /\ f.lat.hemisphere \in {78, 83} /\ f.long.hemisphere \in {69, 87}
    BY <1>1, FixIsAngular
  <1>3. /\ lat = IF Negative(p.LAT, 83) THEN -Coordinate(p.LAT, 2) ELSE Coordinate(p.LAT, 2)
        /\ long = IF Negative(p.LONG, 87) THEN -Coordinate(p.LONG, 3) ELSE Coordinate(p.LONG, 3)
    BY DEF Angles
  <1> HIDE DEF lat, long
  <1>4. Within1Minute(lat, f.lat) /\ TwoParts(p.LAT)
    <2> DEFINE a == f.lat
               q == p.LAT
               c == Coordinate(q, 2)
    <2>1. /\ Angular(a) /\ PlaceChars(q, a, 2) /\ 2 \in {2, 3} /\ a.min < 100 /\ a.deg < 100
          /\ a.hemisphere \in {78, 83}
      BY <1>1, <1>2
    <2>2. lat = IF Negative(q, 83) THEN -c ELSE c
      BY <1>3
    <2> HIDE DEF a, q
    <2>3. a.deg < 1000
      BY <2>1 DEF Angular
    <2>4. Near(c, a) /\ SubSeq(q, Len(q) - 1, Len(q)) = <<44, a.hemisphere>>
      BY <2>1, <2>3, PlaceSays
    <2>5. Negative(q, 83) <=> a.hemisphere \in {83, 87}
      BY <2>1, <2>4 DEF Negative
    <2> HIDE DEF c
    <2>6. Within1Minute(lat, a)
      BY <2>1, <2>2, <2>4, <2>5, AngleSays
    <2>7. a.hemisphere \notin {0, 44}
      BY <2>1
    <2>8. TwoParts(q)
      BY <2>1, <2>7, PlaceHasTwoParts
    <2> QED  BY <2>6, <2>8 DEF a, q
  <1>5. Within1Minute(long, f.long) /\ TwoParts(p.LONG)
    <2> DEFINE a == f.long
               q == p.LONG
               c == Coordinate(q, 3)
    <2>1. /\ Angular(a) /\ PlaceChars(q, a, 3) /\ 3 \in {2, 3} /\ a.min < 100 /\ a.deg < 1000
          /\ a.hemisphere \in {69, 87}
      BY <1>1, <1>2
    <2>2. long = IF Negative(q, 87) THEN -c ELSE c
      BY <1>3
    <2> HIDE DEF a, q
    <2>4. Near(c, a) /\ SubSeq(q, Len(q) - 1, Len(q)) = <<44, a.hemisphere>>
      BY <2>1, PlaceSays
    <2>5. Negative(q, 87) <=> a.hemisphere \in {83, 87}
      BY <2>1, <2>4 DEF Negative
    <2> HIDE DEF c
    <2>6. Within1Minute(long, a)
      BY <2>1, <2>2, <2>4, <2>5, AngleSays
    <2>7. a.hemisphere \notin {0, 44}
      BY <2>1
    <2>8. TwoParts(q)
      BY <2>1, <2>7, PlaceHasTwoParts
    <2> QED  BY <2>6, <2>8 DEF a, q
  <1> QED  BY <1>4, <1>5 DEF f, lat, long

\* The text with the position is published just when there is one, with the last fix,
\* to the minute, and the last clock (collector_parse_task, parse_GPS, msgMQTT).
THEOREM PositionsAreGiven == Spec => PositionIsGiven
  <1> DEFINE Given ==
        report' # None /\ whole =>
          /\ report'.gpsLen < TextSize =>
               (report'.gps <=> since["FIX"] # None /\ since["CLOCK"] # None)
          /\ report'.gpsLen > TextSize => report'.gps
          /\ since["FIX"] # None =>
               /\ Within1Minute(report'.position.lat, since["FIX"].lat)
               /\ Within1Minute(report'.position.long, since["FIX"].long)
          /\ since["CLOCK"] # None =>
               report'.clock = since["CLOCK"].time \o since["CLOCK"].date
  <1>1. IInv /\ PlacedInv /\ [Next]_vars => [Given]_vars
    <2> SUFFICES ASSUME IInv, PlacedInv, [Next]_vars, report' # None, whole, vars' # vars
                 PROVE  /\ report'.gpsLen < TextSize =>
                             (report'.gps <=> since["FIX"] # None /\ since["CLOCK"] # None)
                        /\ report'.gpsLen > TextSize => report'.gps
                        /\ since["FIX"] # None =>
                             /\ Within1Minute(report'.position.lat, since["FIX"].lat)
                             /\ Within1Minute(report'.position.long, since["FIX"].long)
                        /\ since["CLOCK"] # None =>
                             report'.clock = since["CLOCK"].time \o since["CLOCK"].date
      BY Zenon DEF Given
    <2> DEFINE p == packet
    <2>1. PICK i \in Attempts, digits \in ClockDigits : report' = msgMQTT(p, i, digits)
      BY OnlyHandOnReports, Zenon
    <2>2. PacketOK(p) /\ Placed(p, since)
      BY Zenon DEF IInv, PlacedInv
    <2>3. /\ report'.gps = (Flagged(p, i) /\ GpsLen(p, i) # TextSize)
          /\ report'.position = IF {"LAT", "LONG"} \subseteq p.fields THEN Angles(p) ELSE None
          /\ report'.clock = p.TIME
          /\ report'.gpsLen = GpsLen(p, i)
      BY <2>1 DEF msgMQTT
    <2> HIDE DEF p
    <2>4. /\ GpsLen(p, i) < TextSize =>
               (Flagged(p, i) <=> /\ {"LAT", "LONG", "TIME"} \subseteq p.fields
                                  /\ TwoParts(p.LAT) /\ TwoParts(p.LONG))
          /\ GpsLen(p, i) > TextSize => Flagged(p, i)
          /\ GpsLen(p, i) \in Nat
      BY <2>2, FlagAndLength
    <2>5. /\ GpsLen(p, i) < TextSize => GpsLen(p, i) # TextSize
          /\ GpsLen(p, i) > TextSize => GpsLen(p, i) # TextSize
      BY <2>4 DEF TextSize
    <2>6. since["FIX"] # None =>
            /\ Within1Minute(Angles(p).lat, since["FIX"].lat)
            /\ Within1Minute(Angles(p).long, since["FIX"].long)
            /\ TwoParts(p.LAT) /\ TwoParts(p.LONG)
      BY <2>2, PlacedAngles
    <2>7. /\ {"LAT", "LONG"} \subseteq p.fields <=> since["FIX"] # None
          /\ {"LAT", "LONG", "TIME"} \subseteq p.fields
               <=> since["FIX"] # None /\ since["CLOCK"] # None
      BY <2>2 DEF Placed
    <2>8. report'.gpsLen < TextSize =>
            (report'.gps <=> since["FIX"] # None /\ since["CLOCK"] # None)
      BY <2>3, <2>4, <2>5, <2>6, <2>7, Zenon
    <2>9. report'.gpsLen > TextSize => report'.gps
      BY <2>3, <2>4, <2>5, Zenon
    <2>10. since["FIX"] # None =>
             /\ Within1Minute(report'.position.lat, since["FIX"].lat)
             /\ Within1Minute(report'.position.long, since["FIX"].long)
      BY <2>3, <2>6, <2>7, Zenon
    <2>11. since["CLOCK"] # None => report'.clock = since["CLOCK"].time \o since["CLOCK"].date
      BY <2>2, <2>3, Zenon DEF Placed
    <2> QED  BY <2>8, <2>9, <2>10, <2>11, Zenon
  <1> QED  BY <1>1, Inductive, PlaceInductive, PTL DEF Spec, PositionIsGiven
=============================================================================
