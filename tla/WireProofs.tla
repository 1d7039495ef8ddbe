----------------------------- MODULE WireProofs -----------------------------
(***************************************************************************)
(* What is proved about Wire: the invariants of its runs, for every size   *)
(* of the buffers, every message and every way the bytes come in.          *)
(*                                                                         *)
(* The reads come first, of any bytes; then how the bytes of the messages  *)
(* that were not read yet are laid in the stream (Laid), and what a read   *)
(* does to them and to the messages made of them (Delivered); then the     *)
(* inductive invariant, one lemma for each action, and the properties.     *)
(***************************************************************************)
EXTENDS WireCodec

USE DEF CONNECT, CONNACK, PUBLISH, PUBACK, PUBREC, PUBREL, PUBCOMP, SUBSCRIBE, SUBACK,
        UNSUBACK, PINGREQ, PINGRESP

-----------------------------------------------------------------------------
(* What is read of any bytes.                                              *)

\* The first n bytes of a buffer are bytes.
Filled(buf, n) == \A i \in Nat : i < n => buf[i] \in Byte

\* The loop over the remaining length stays among the bytes that were read.
LEMMA AfterLengthFacts ==
  ASSUME NEW buf, NEW n \in Nat, n >= 1
  PROVE  /\ AfterLength(buf, n) \in Nat
         /\ AfterLength(buf, n) >= 1 /\ AfterLength(buf, n) <= n
  <1> DEFINE E(i) == EndsLength(buf, n, i)
             c == CHOOSE i \in 1..(n - 1) : E(i)
  <1> HIDE DEF E
  <1>1. CASE \E i \in 1..(n - 1) : E(i)
    <2>1. c \in 1..(n - 1)
      BY <1>1
    <2>2. AfterLength(buf, n) = 1 + c
      BY <1>1, Zenon DEF AfterLength, E
    <2> HIDE DEF c
    <2> QED
      BY <2>1, <2>2
  <1>2. CASE ~ \E i \in 1..(n - 1) : E(i)
    <2>1. AfterLength(buf, n) = IF n > 1 THEN n ELSE 1
      BY <1>2, Zenon DEF AfterLength, E
    <2> QED
      BY <2>1
  <1> QED
    BY <1>1, <1>2

\* The length announced by any bytes is a number.
LEMMA TotalFacts ==
  ASSUME NEW buf, NEW n \in Nat, n >= 1, Filled(buf, n), NEW total \in mqtt_get_total_length(buf, n)
  PROVE  total \in Nat
  <1>1. /\ AfterLength(buf, n) \in Nat
        /\ AfterLength(buf, n) >= 1 /\ AfterLength(buf, n) <= n
    BY AfterLengthFacts
  <1>2. \A i \in 1..4 : LengthPart(buf, n, i) \in Nat
    <2> TAKE i \in 1..4
    <2>1. CASE i < AfterLength(buf, n)
      <3>1. buf[i] \in Byte
        BY <1>1, <2>1 DEF Filled
      <3>2. buf[i] % 128 \in Nat
        BY <3>1 DEF Byte
      <3>3. Power(i - 1) \in Nat
        <4>1. i - 1 = 0 \/ i - 1 = 1 \/ i - 1 = 2 \/ i - 1 = 3
          OBVIOUS
        <4> QED
          BY <4>1, Powers, SMT
      <3>4. \A x, y \in Nat : x * y \in Nat
        OBVIOUS
      <3>5. (buf[i] % 128) * Power(i - 1) \in Nat
        BY <3>2, <3>3, <3>4
      <3>6. LengthPart(buf, n, i) = (buf[i] % 128) * Power(i - 1)
        BY <2>1, Zenon DEF LengthPart, Power
      <3> QED
        BY <3>5, <3>6
    <2>2. CASE ~(i < AfterLength(buf, n))
      <3>1. LengthPart(buf, n, i) = 0
        BY <2>2, Zenon DEF LengthPart
      <3> QED
        BY <3>1
    <2> QED
      BY <2>1, <2>2
  <1>3. /\ LengthPart(buf, n, 1) \in Nat /\ LengthPart(buf, n, 2) \in Nat
        /\ LengthPart(buf, n, 3) \in Nat /\ LengthPart(buf, n, 4) \in Nat
    BY <1>2
  <1>4. RemainingLength(buf, n) \in Nat
    BY <1>3 DEF RemainingLength
  <1>5. \A x \in Overlong : x \in Nat
    BY InputAssumption, SizeAssumption
  <1> QED
    BY <1>1, <1>4, <1>5 DEF mqtt_get_total_length

\* So are the type and the QoS in the first byte.
LEMMA TypeAndQos ==
  ASSUME NEW buf, NEW n \in Nat, n >= 1, Filled(buf, n)
  PROVE  /\ mqtt_get_type(buf) \in Nat
         /\ mqtt_get_qos(buf) \in Nat /\ mqtt_get_qos(buf) <= 3
  <1>1. buf[0] \in Byte
    BY DEF Filled
  <1> QED
    BY <1>1 DEF Byte, mqtt_get_type, mqtt_get_qos

\* Any number taken for an int is one.
LEMMA SignedFacts ==
  ASSUME NEW x \in Int
  PROVE  Signed(x) \in Ints
  <1> DEFINE w == Word
             y == x % w
             h == w \div 2
  <1>1. w \in Nat /\ w > 0 /\ w % 2 = 0
    BY SizeAssumption
  <1>2. \A v \in Nat : v > 0 => x % v \in Nat /\ x % v < v
    OBVIOUS
  <1>3. y \in Nat /\ y < w
    BY <1>1, <1>2
  <1>4. \A v \in Nat : v % 2 = 0 => v \div 2 \in Nat /\ v = (v \div 2) + (v \div 2)
    OBVIOUS
  <1>5. h \in Nat /\ w = h + h
    BY <1>1, <1>4
  <1>6. Signed(x) = IF y < h THEN y ELSE y - w
    BY Zenon DEF Signed
  <1>7. Ints = (-h)..(h - 1)
    BY DEF Ints
  <1> HIDE DEF y, h, w
  <1>8. \A z \in Int : z = (IF y < h THEN y ELSE y - w) => z \in (-h)..(h - 1)
    BY <1>3, <1>5
  <1>9. (IF y < h THEN y ELSE y - w) \in Int
    BY <1>3, <1>5
  <1> QED
    BY <1>6, <1>7, <1>8, <1>9

\* A topic and data that are not NULL end among n bytes, and data that are NULL
\* have no length, whatever the bytes hold.
Fits(e, n) ==
    /\ e \in Events
    /\ e.topic = NULL \/ e.topic + e.topic_len <= n
    /\ e.data = NULL \/ e.data + e.data_len <= n
    /\ e.data = NULL => e.data_len = 0

\* Whatever bytes were read, topic and data of the first event end among them.
LEMMA FirstEventFacts ==
  ASSUME NEW buf, NEW n \in Nat, n >= 1, Filled(buf, n), NEW total \in Nat
  PROVE  Fits(FirstEvent(buf, n, total), n)
  <1> DEFINE a == AfterLength(buf, n)
             t == TopicLen(buf, n)
             s == Signed(total)
             d == DataAt(buf, n)
             topic == mqtt_get_publish_topic(buf, n)
             data == mqtt_get_publish_data(buf, n, total)
  <1>1. a \in Nat /\ a >= 1 /\ a <= n /\ s \in Int
    BY AfterLengthFacts, SignedFacts, SizeAssumption DEF Ints
  <1>2. TopicAt(buf, n) = a + 2
    BY DEF TopicAt
  <1>3. ASSUME ~(a + 2 >= n)
        PROVE  t \in Nat
    <2> HIDE DEF a
    <2>1. buf[a] \in Byte /\ buf[a + 1] \in Byte
      BY <1>1, <1>3 DEF Filled
    <2>2. t = buf[a] * 256 + buf[a + 1]
      BY DEF TopicLen, a
    <2>3. \A x, y \in Byte : x * 256 + y \in Nat
      BY DEF Byte
    <2> QED
      BY <2>1, <2>2, <2>3
  <1> HIDE DEF a, t, s, d
  <1>4. /\ topic.at \in Nat \cup {NULL} /\ topic.len \in Nat
        /\ topic.at = NULL \/ topic.at + topic.len <= n
    <2>1. CASE a + 2 >= n \/ a + 2 + t > n
      <3>1. topic = [at |-> NULL, len |-> n]
        BY <1>2, <2>1, Zenon DEF mqtt_get_publish_topic, t
      <3>2. topic.at = NULL /\ topic.len = n
        BY <3>1
      <3> QED
        BY <3>2
    <2>2. CASE ~(a + 2 >= n \/ a + 2 + t > n)
      <3>1. topic = [at |-> a + 2, len |-> t]
        BY <1>2, <2>2, Zenon DEF mqtt_get_publish_topic, t
      <3>2. topic.at = a + 2 /\ topic.len = t
        BY <3>1
      <3>3. t \in Nat
        BY <1>3, <2>2
      <3> HIDE DEF topic
      <3> QED
        BY <1>1, <2>2, <3>2, <3>3
    <2> QED
      BY <2>1, <2>2
  <1>5. /\ data.at \in Nat \cup {NULL} /\ data.len \in Nat
        /\ data.at = NULL \/ data.at + data.len <= n
        /\ data.at = NULL => data.len = 0
    <2> DEFINE p == AfterTopic(buf, n)
               q == mqtt_get_qos(buf) > 0
    <2>1. p = a + 2 + t
      BY <1>2 DEF AfterTopic, t
    <2>2. d = p + (IF q THEN 2 ELSE 0)
      BY DEF DataAt, d
    <2> HIDE DEF p, q
    <2>3. CASE (a + 2 >= n \/ p >= n) \/ (q /\ d >= n) \/ s < d
      <3>1. data = [at |-> NULL, len |-> 0]
        BY <1>2, <2>3, Zenon DEF mqtt_get_publish_data, NoTopicFits, p, q, d, s
      <3>2. data.at = NULL /\ data.len = 0
        BY <3>1
      <3> QED
        BY <3>2
    <2>4. CASE ~((a + 2 >= n \/ p >= n) \/ (q /\ d >= n) \/ s < d)
      <3>1. data = [at |-> d, len |-> Least(s, n) - d]
        BY <1>2, <2>4, Zenon DEF mqtt_get_publish_data, NoTopicFits, p, q, d, s
      <3>2. data.at = d /\ data.len = Least(s, n) - d
        BY <3>1
      <3>3. t \in Nat
        BY <1>3, <2>4
      <3>4. p \in Nat
        BY <1>1, <2>1, <3>3
      <3>5. d \in Nat /\ d < n /\ d <= s
        <4>1. CASE q
          BY <1>1, <2>2, <2>4, <3>4, <4>1
        <4>2. CASE ~q
          BY <1>1, <2>2, <2>4, <3>4, <4>2
        <4> QED
          BY <4>1, <4>2
      <3>6. Least(s, n) \in Nat /\ Least(s, n) >= d /\ Least(s, n) <= n
        BY <1>1, <3>5 DEF Least
      <3>7. d # NULL
        BY <3>5 DEF NULL
      <3> HIDE DEF data
      <3> QED
        BY <3>2, <3>5, <3>6, <3>7
    <2> QED
      BY <2>3, <2>4
  <1> DEFINE e == FirstEvent(buf, n, total)
             v == Signed(total - n + data.len)
  <1>6. e = [topic |-> topic.at, topic_len |-> topic.len, data |-> data.at,
             data_len |-> data.len, offset |-> 0, total |-> v]
    BY DEF FirstEvent
  <1> HIDE DEF topic, data
  <1>7. v \in Ints
    <2>1. total - n + data.len \in Int
      BY <1>5
    <2> QED
      BY <2>1, SignedFacts
  <1> HIDE DEF v
  <1>8. e \in Events
    BY <1>4, <1>5, <1>6, <1>7 DEF Events
  <1>9. /\ e.topic = topic.at /\ e.topic_len = topic.len
        /\ e.data = data.at /\ e.data_len = data.len
    BY <1>6
  <1> HIDE DEF e
  <1> QED
    BY <1>4, <1>5, <1>8, <1>9 DEF Fits, e

\* Every id that is read or drawn is one of 16 bits.
LEMMA IdFacts ==
  ASSUME NEW buf, NEW n \in Nat, n >= 1, Filled(buf, n), NEW id \in mqtt_get_id(buf, n)
  PROVE  /\ id \in Nat /\ id <= Max16
         /\ mqtt_get_type(buf) = PINGREQ => id = 0
  <1> DEFINE t == mqtt_get_type(buf)
             p == PublishIds(buf, n)
             a == IF n < 4 THEN StaleIds
                  ELSE {IF buf[1] < 128 THEN buf[2] * 256 + buf[3] ELSE 0}
             acks == {4, 5, 6, 7, 9, 11, 8}
  <1>1. mqtt_get_id(buf, n) = CASE t = 3 -> p [] t \in acks -> a [] OTHER -> {0}
    BY Zenon DEF mqtt_get_id
  <1>2. \A x, y \in Byte : x * 256 + y \in Nat /\ x * 256 + y <= Max16
    BY SMT DEF Byte, Max16
  <1>3. 0 \in Nat /\ 0 <= Max16
    BY Max14Facts
  <1>4. \A i \in StaleIds : i \in Nat /\ i <= Max16
    BY InputAssumption, Max14Facts
  <1>5. \A i \in p : i \in Nat /\ i <= Max16
    <2> DEFINE q == mqtt_get_qos(buf)
               at == AfterTopic(buf, n)
               far == TopicAt(buf, n) > n \/ DataAt(buf, n) > n
    <2>1. p = IF q = 0 THEN {0} ELSE IF far THEN StaleIds ELSE {buf[at] * 256 + buf[at + 1]}
      BY Zenon DEF PublishIds
    <2>2. ASSUME q # 0, ~far
          PROVE  buf[at] \in Byte /\ buf[at + 1] \in Byte
      <3> DEFINE k == AfterLength(buf, n)
                 tl == TopicLen(buf, n)
      <3>1. k \in Nat /\ k >= 1 /\ q \in Nat
        BY AfterLengthFacts, TypeAndQos
      <3>2. TopicAt(buf, n) = k + 2 /\ at = (k + 2) + tl
        BY DEF TopicAt, AfterTopic
      <3>3. tl = buf[k] * 256 + buf[k + 1]
        BY DEF TopicLen
      <3>4. DataAt(buf, n) = at + 2
        <4>1. q > 0
          BY <2>2, <3>1
        <4> QED
          BY <4>1, Zenon DEF DataAt
      <3>5. k + 2 <= n /\ at + 2 <= n
        <4>1. ~(k + 2 > n)
          BY <2>2, <3>2
        <4>2. ~(at + 2 > n)
          BY <2>2, <3>4
        <4> HIDE DEF k, tl
        <4>3. buf[k] \in Byte /\ buf[k + 1] \in Byte
          BY <3>1, <4>1 DEF Filled
        <4>4. tl \in Nat
          BY <3>3, <4>3, <1>2
        <4>5. at \in Nat
          BY <3>1, <3>2, <4>4
        <4> QED
          BY <3>1, <4>1, <4>2, <4>5
      <3>6. at \in Nat
        <4> HIDE DEF k, tl
        <4>3. buf[k] \in Byte /\ buf[k + 1] \in Byte
          BY <3>1, <3>5 DEF Filled
        <4>4. tl \in Nat
          BY <3>3, <4>3, <1>2
        <4> QED
          BY <3>1, <3>2, <4>4
      <3> HIDE DEF at
      <3> QED
        BY <3>5, <3>6 DEF Filled
    <2> HIDE DEF p, q, far, at
    <2>3. CASE q = 0
      BY <1>3, <2>1, <2>3
    <2>4. CASE q # 0 /\ far
      BY <1>4, <2>1, <2>4
    <2>5. CASE q # 0 /\ ~far
      BY <1>2, <2>1, <2>2, <2>5
    <2> QED
      BY <2>3, <2>4, <2>5
  <1>6. \A i \in a : i \in Nat /\ i <= Max16
    <2>1. CASE n < 4
      BY <1>4, <2>1
    <2>2. CASE ~(n < 4)
      <3>1. buf[2] \in Byte /\ buf[3] \in Byte
        BY <2>2 DEF Filled
      <3>2. /\ buf[2] * 256 + buf[3] \in Nat /\ buf[2] * 256 + buf[3] <= Max16
        BY <1>2, <3>1
      <3> QED
        BY <1>3, <2>2, <3>2
    <2> QED
      BY <2>1, <2>2
  <1> HIDE DEF t, p, a
  <1>7. CASE t = 3
    <2>0. t \notin acks
      BY <1>7
    <2>1. mqtt_get_id(buf, n) = p
      <3> HIDE DEF acks
      <3> QED
        BY <1>1, <1>7, <2>0, Zenon
    <2> QED
      BY <1>5, <1>7, <2>1 DEF t
  <1>8. CASE t # 3 /\ t \in acks
    <2>1. mqtt_get_id(buf, n) = a
      <3> HIDE DEF acks
      <3> QED
        BY <1>1, <1>8, Zenon
    <2>2. t # 12
      BY <1>8
    <2> QED
      BY <1>6, <2>1, <2>2 DEF t
  <1>9. CASE t # 3 /\ t \notin acks
    <2>1. mqtt_get_id(buf, n) = {0}
      <3> HIDE DEF acks
      <3> QED
        BY <1>1, <1>9, Zenon
    <2> QED
      BY <1>3, <2>1
  <1> QED
    BY <1>7, <1>8, <1>9

\* What a reply may be.
LEMMA ReplyFacts ==
  ASSUME NEW t, NEW q
  PROVE  /\ ReplyType(t, q) \in {NoReply, PUBACK, PUBREC, PUBREL, PUBCOMP, PINGRESP}
         /\ ReplyType(t, q) = PINGRESP => t = PINGREQ
         /\ t \in {CONNACK, SUBACK, PINGRESP} => ReplyType(t, q) = NoReply
         /\ t = PUBLISH /\ q = 0 => ReplyType(t, q) = NoReply
         /\ t = PUBLISH => ReplyType(t, q) # PINGRESP
  <1> DEFINE r == ReplyType(t, q)
             a == t = 3 /\ q = 1
             b == t = 3 /\ q = 2
             c == t = 5
             d == t = 6
             e == t = 12
  <1>1. r = CASE a -> 4 [] b -> 5 [] c -> 6 [] d -> 7 [] e -> 13 [] OTHER -> 0
    BY Zenon DEF ReplyType, NoReply
  <1>2. /\ a => ~b /\ ~c /\ ~d /\ ~e /\ t = 3 /\ t # 2 /\ t # 9 /\ t # 13 /\ q # 0
        /\ b => ~a /\ ~c /\ ~d /\ ~e /\ t = 3 /\ t # 2 /\ t # 9 /\ t # 13 /\ q # 0
        /\ c => ~a /\ ~b /\ ~d /\ ~e /\ t # 3 /\ t # 2 /\ t # 9 /\ t # 13
        /\ d => ~a /\ ~b /\ ~c /\ ~e /\ t # 3 /\ t # 2 /\ t # 9 /\ t # 13
        /\ e => ~a /\ ~b /\ ~c /\ ~d /\ t = 12 /\ t # 3 /\ t # 2 /\ t # 9 /\ t # 13
    OBVIOUS
  <1> HIDE DEF r, a, b, c, d, e
  <1>3. /\ a => r = 4
        /\ b => r = 5
        /\ c => r = 6
        /\ d => r = 7
        /\ e => r = 13
        /\ ~a /\ ~b /\ ~c /\ ~d /\ ~e => r = 0
    <2>1. a => r = 4
      BY <1>1, <1>2, Zenon
    <2>2. b => r = 5
      BY <1>1, <1>2, Zenon
    <2>3. c => r = 6
      BY <1>1, <1>2, Zenon
    <2>4. d => r = 7
      BY <1>1, <1>2, Zenon
    <2>5. e => r = 13
      BY <1>1, <1>2, Zenon
    <2>6. ~a /\ ~b /\ ~c /\ ~d /\ ~e => r = 0
      BY <1>1, Zenon
    <2> QED
      BY <2>1, <2>2, <2>3, <2>4, <2>5, <2>6
  <1> QED
    BY <1>2, <1>3 DEF r, NoReply

\* A message that is written can be, and decodes as it was meant.
LEMMA EncodedDecodes ==
  ASSUME NEW m, CanWrite(m)
  PROVE  Decodes(Encoded(m), m)
  BY PublishDecodes, SubscribeDecodes, AckDecodes, PingDecodes DEF CanWrite

\* The answers to the broker are messages the client can write.
LEMMA ReplyCanBeWritten ==
  ASSUME NEW r \in {PUBACK, PUBREC, PUBREL, PUBCOMP, PINGRESP},
         NEW id \in Nat, id <= Max16, r = PINGRESP => id = 0
  PROVE  CanWrite(Plain(r, id))
  <1>1. r \in Nat /\ r >= 1 /\ r <= 14 /\ r # PUBLISH /\ r # SUBSCRIBE /\ r # PINGREQ
    OBVIOUS
  <1>2. /\ Plain(r, id) \in Message
        /\ Plain(r, id).type = r /\ Plain(r, id).id = id
    BY <1>1, PlainFacts
  <1>3. Regular(Plain(r, id))
    BY <1>1, <1>2 DEF Regular
  <1> QED
    BY <1>1, <1>2, <1>3 DEF CanWrite

\* So are the messages of its own, with the id drawn for them.
LEMMA OwnCanBeWritten ==
  ASSUME NEW m \in Outbound, NEW id \in Ids
  PROVE  CanWrite(IF m.qos > 0 \/ m.type = SUBSCRIBE THEN [m EXCEPT !.id = id] ELSE m)
  <1> DEFINE w == IF m.qos > 0 \/ m.type = SUBSCRIBE THEN [m EXCEPT !.id = id] ELSE m
  <1>1. m \in Message /\ Writable(m)
    BY MessageAssumption
  <1>2. m.qos \in Nat /\ id \in 0..Max16
    <2>1. id \in 1..(Max16 - 1)
      BY InputAssumption
    <2>2. m.qos \in Nat
      BY <1>1, FieldFacts
    <2>3. id \in 0..Max16
      BY <2>1, Max14Facts
    <2> QED
      BY <2>2, <2>3
  <1>3. CASE m.qos > 0 \/ m.type = SUBSCRIBE
    <2>1. w = [m EXCEPT !.id = id]
      BY <1>3
    <2>2. /\ w.type = m.type /\ w.qos = m.qos /\ w.topic = m.topic /\ w.data = m.data
          /\ w \in Message
      BY <1>1, <1>2, <2>1 DEF Message
    <2>3. m.type \in {PUBLISH, SUBSCRIBE}
      <3>1. CASE m.type \notin {PUBLISH, SUBSCRIBE}
        <4>1. m = Plain(m.type, m.id)
          BY <1>1, <3>1 DEF Writable, Regular
        <4>2. m.qos = 0
          BY <4>1 DEF Plain
        <4> QED
          BY <1>3, <3>1, <4>2
      <3> QED
        BY <3>1
    <2>4. Regular(w)
      <3>1. Len(m.topic) \in 1..Max16
        BY <1>1, <2>3 DEF Writable, Regular
      <3> QED
        BY <2>2, <2>3, <3>1 DEF Regular
    <2>5. m.type = SUBSCRIBE => m.qos = 0
      BY <1>1 DEF Writable
    <2>6. ~(m.type = PUBLISH /\ m.qos = 0)
      BY <1>2, <1>3
    <2> HIDE DEF w
    <2>7. CanWrite(w)
      BY <2>2, <2>3, <2>4, <2>5, <2>6 DEF CanWrite
    <2> QED
      BY <2>7 DEF w
  <1>4. CASE ~(m.qos > 0 \/ m.type = SUBSCRIBE)
    <2>1. m.qos = 0
      BY <1>2, <1>4
    <2>2. CanWrite(m)
      BY <1>1, <1>4, <2>1 DEF CanWrite, Writable
    <2> QED
      BY <1>4, <2>2
  <1> QED
    BY <1>3, <1>4

-----------------------------------------------------------------------------
(* Where the messages stand in the stream.                                 *)

\* With d messages read, l bytes of the last one missing, the stream holds what
\* is missing and then the messages after it: at[k] bytes stand before message k.
LaidBy(st, se, d, l, at) ==
    /\ at \in [(d + 1)..(Len(se) + 1) -> Nat]
    /\ at[d + 1] = l
    /\ at[Len(se) + 1] = Len(st)
    /\ \A j, k \in (d + 1)..(Len(se) + 1) : j <= k => at[j] <= at[k]
    /\ \A k \in (d + 1)..Len(se) :
         /\ at[k + 1] = at[k] + Len(Standard(se[k]))
         /\ \A i \in 1..Len(Standard(se[k])) : st[at[k] + i] = Standard(se[k])[i]

Laid(st, se, d, l) == \E at : LaidBy(st, se, d, l, at)

\* No bytes are no messages.
LEMMA LaidEmpty ==
  Laid(<<>>, <<>>, 0, 0)
  <1> DEFINE at == [k \in 1..1 |-> 0]
  <1>1. Len(<<>>) = 0
    BY EmptySeq
  <1>2. LaidBy(<<>>, <<>>, 0, 0, at)
    BY <1>1 DEF LaidBy
  <1> QED
    BY <1>2 DEF Laid

\* The bytes of a message are bytes, and more than those of its body.
LEMMA StandardBytes ==
  ASSUME NEW m \in Arrivals
  PROVE  /\ Standard(m) \in Seq(Byte)
         /\ Len(Standard(m)) \in Nat /\ Len(Standard(m)) > Len(StandardBody(m))
         /\ Len(StandardBody(m)) \in Nat
  <1>1. Arrives(m)
    BY ArrivalFacts
  <1>2. PICK k : StandardLaid(m, StandardLength(Len(StandardBody(m))), k)
    BY <1>1, StandardParts DEF Arrives
  <1>3. /\ Standard(m) \in Seq(Byte)
        /\ Len(Standard(m)) = 1 + k + Len(StandardBody(m))
        /\ k \in Nat
    BY <1>2 DEF StandardLaid, LengthLaid
  <1>4. Len(Standard(m)) \in Nat /\ Len(StandardBody(m)) \in Nat
    BY <1>1, <1>3, LenProperties DEF Arrives
  <1> QED
    BY <1>3, <1>4

\* What is missing is in the stream.
LEMMA LaidLeft ==
  ASSUME NEW st \in Seq(Byte), NEW se, Len(se) \in Nat, NEW d \in Nat, d <= Len(se), NEW l,
         Laid(st, se, d, l)
  PROVE  l \in Nat /\ l <= Len(st)
  <1>1. PICK at : LaidBy(st, se, d, l, at)
    BY DEF Laid
  <1>2. d + 1 \in (d + 1)..(Len(se) + 1) /\ Len(se) + 1 \in (d + 1)..(Len(se) + 1)
        /\ d + 1 <= Len(se) + 1
    OBVIOUS
  <1>3. at[d + 1] \in Nat /\ at[d + 1] <= at[Len(se) + 1]
    BY <1>1, <1>2 DEF LaidBy
  <1> QED
    BY <1>1, <1>3 DEF LaidBy

\* When nothing is missing the next message begins the stream, if there is one.
LEMMA LaidHead ==
  ASSUME NEW st \in Seq(Byte), NEW se, Len(se) \in Nat, NEW d \in Nat, d <= Len(se),
         Laid(st, se, d, 0)
  PROVE  /\ d = Len(se) => Len(st) = 0
         /\ d < Len(se) => \A i \in 1..Len(Standard(se[d + 1])) : st[i] = Standard(se[d + 1])[i]
  <1>1. PICK at : LaidBy(st, se, d, 0, at)
    BY DEF Laid
  <1>2. at[d + 1] = 0 /\ at[Len(se) + 1] = Len(st)
    BY <1>1 DEF LaidBy
  <1>3. ASSUME d < Len(se), NEW i \in 1..Len(Standard(se[d + 1]))
        PROVE  st[i] = Standard(se[d + 1])[i]
    <2>1. d + 1 \in (d + 1)..Len(se)
      BY <1>3
    <2>2. st[at[d + 1] + i] = Standard(se[d + 1])[i]
      BY <1>1, <2>1 DEF LaidBy
    <2>3. at[d + 1] + i = i
      BY <1>2
    <2> QED
      BY <2>2, <2>3
  <1> QED
    BY <1>2, <1>3

\* One more message is sent.
LEMMA LaidAppend ==
  ASSUME NEW st \in Seq(Byte), NEW se \in Seq(Arrivals), NEW m \in Arrivals, NEW d \in Nat,
         d <= Len(se), NEW l, Laid(st, se, d, l)
  PROVE  Laid(st \o Standard(m), Append(se, m), d, l)
  <1> DEFINE s == Standard(m)
             st2 == st \o s
             se2 == Append(se, m)
             n == Len(se)
  <1>1. PICK at : LaidBy(st, se, d, l, at)
    BY DEF Laid
  <1>2. /\ n \in Nat /\ Len(st) \in Nat /\ Len(s) \in Nat /\ Len(st2) = Len(st) + Len(s)
        /\ \A i \in 1..Len(st) : st2[i] = st[i]
        /\ \A i \in 1..Len(s) : st2[Len(st) + i] = s[i]
    <2>1. Beside(st, s)
      BY StandardBytes, Besides
    <2>2. n \in Nat
      BY LenProperties
    <2> QED
      BY <2>1, <2>2 DEF Beside
  <1>3. /\ Len(se2) = n + 1
        /\ \A k \in 1..n : se2[k] = se[k]
        /\ se2[n + 1] = m
    BY AppendProperties
  <1>4. /\ at \in [(d + 1)..(n + 1) -> Nat]
        /\ at[d + 1] = l
        /\ at[n + 1] = Len(st)
        /\ \A j, k \in (d + 1)..(n + 1) : j <= k => at[j] <= at[k]
        /\ \A k \in (d + 1)..n :
             /\ at[k + 1] = at[k] + Len(Standard(se[k]))
             /\ \A i \in 1..Len(Standard(se[k])) : st[at[k] + i] = Standard(se[k])[i]
    BY <1>1 DEF LaidBy
  <1> HIDE DEF s, st2, se2, n
  <1> DEFINE at2 == [k \in (d + 1)..((n + 1) + 1) |->
                       IF k <= n + 1 THEN at[k] ELSE Len(st) + Len(s)]
  <1>5. d \in Nat /\ d <= n
    BY DEF n
  <1>6. \A k \in (d + 1)..(n + 1) : at2[k] = at[k] /\ at[k] \in Nat /\ at[k] <= Len(st)
    <2> TAKE k \in (d + 1)..(n + 1)
    <2>1. k \in (d + 1)..((n + 1) + 1) /\ k <= n + 1 /\ n + 1 \in (d + 1)..(n + 1)
      BY <1>2, <1>5
    <2> QED
      BY <1>4, <2>1
  <1>7. at2[(n + 1) + 1] = Len(st) + Len(s)
    <2>1. (n + 1) + 1 \in (d + 1)..((n + 1) + 1) /\ ~((n + 1) + 1 <= n + 1)
      BY <1>2, <1>5
    <2> QED
      BY <2>1
  <1>8. \A k \in (d + 1)..((n + 1) + 1) : k \in (d + 1)..(n + 1) \/ k = (n + 1) + 1
    BY <1>2, <1>5
  <1>9. at2 \in [(d + 1)..((n + 1) + 1) -> Nat]
    <2>1. \A k \in (d + 1)..((n + 1) + 1) : (IF k <= n + 1 THEN at[k] ELSE Len(st) + Len(s)) \in Nat
      <3> SUFFICES ASSUME NEW k \in (d + 1)..((n + 1) + 1)
                   PROVE  (IF k <= n + 1 THEN at[k] ELSE Len(st) + Len(s)) \in Nat
        OBVIOUS
      <3>1. CASE k <= n + 1
        <4>1. k \in (d + 1)..(n + 1)
          BY <1>2, <1>5, <3>1
        <4> QED
          BY <1>6, <3>1, <4>1
      <3>2. CASE ~(k <= n + 1)
        BY <1>2, <3>2
      <3> QED
        BY <3>1, <3>2
    <2> QED
      BY <2>1
  <1> HIDE DEF at2
  <1>10. at2[d + 1] = l
    <2>1. d + 1 \in (d + 1)..(n + 1)
      BY <1>2, <1>5
    <2> QED
      BY <1>4, <1>6, <2>1
  <1>11. \A j, k \in (d + 1)..((n + 1) + 1) : j <= k => at2[j] <= at2[k]
    <2> SUFFICES ASSUME NEW j \in (d + 1)..((n + 1) + 1), NEW k \in (d + 1)..((n + 1) + 1), j <= k
                 PROVE  at2[j] <= at2[k]
      OBVIOUS
    <2>1. CASE k \in (d + 1)..(n + 1)
      <3>1. j \in (d + 1)..(n + 1)
        BY <1>2, <1>5, <2>1
      <3> QED
        BY <1>4, <1>6, <2>1, <3>1
    <2>2. CASE k = (n + 1) + 1
      <3>1. at2[k] = Len(st) + Len(s)
        BY <1>7, <2>2
      <3>2. CASE j \in (d + 1)..(n + 1)
        <4>1. at2[j] \in Nat /\ at2[j] <= Len(st)
          BY <1>6, <3>2
        <4> QED
          BY <1>2, <3>1, <4>1
      <3>3. CASE j = (n + 1) + 1
        BY <1>2, <1>7, <3>1, <3>3
      <3> QED
        BY <1>8, <3>2, <3>3
    <2> QED
      BY <1>8, <2>1, <2>2
  <1>12. ASSUME NEW k \in (d + 1)..(n + 1)
         PROVE  /\ at2[k + 1] = at2[k] + Len(Standard(se2[k]))
                /\ \A i \in 1..Len(Standard(se2[k])) : st2[at2[k] + i] = Standard(se2[k])[i]
    <2>1. CASE k <= n
      <3>1. k \in (d + 1)..n /\ k + 1 \in (d + 1)..(n + 1) /\ k \in 1..n
        BY <1>2, <1>5, <2>1
      <3>2. se2[k] = se[k]
        BY <1>3, <3>1
      <3>3. at2[k] = at[k] /\ at2[k + 1] = at[k + 1] /\ at[k + 1] <= Len(st) /\ at[k] \in Nat
        BY <1>6, <3>1
      <3>4. /\ at[k + 1] = at[k] + Len(Standard(se[k]))
            /\ \A i \in 1..Len(Standard(se[k])) : st[at[k] + i] = Standard(se[k])[i]
        BY <1>4, <3>1
      <3> DEFINE w == Standard(se[k])
                 x == at[k]
      <3> HIDE DEF w, x
      <3>5. ASSUME NEW i \in 1..Len(w)
            PROVE  st2[x + i] = w[i]
        <4>1. x + i \in 1..Len(st)
          <5>1. x \in Nat /\ x + Len(w) <= Len(st)
            BY <3>3, <3>4 DEF w, x
          <5>2. Len(w) \in Nat
            <6>1. se[k] \in Arrivals
              BY <3>1, ElementOfSeq DEF n
            <6> QED
              BY <6>1, StandardBytes DEF w
          <5> QED
            BY <1>2, <5>1, <5>2
        <4>2. st[x + i] = w[i]
          BY <3>4 DEF w, x
        <4> QED
          BY <1>2, <4>1, <4>2
      <3> QED
        BY <3>2, <3>3, <3>4, <3>5 DEF w, x
    <2>2. CASE ~(k <= n)
      <3>1. k = n + 1
        BY <1>2, <1>5, <2>2
      <3>2. Standard(se2[k]) = s
        BY <1>3, <3>1 DEF s
      <3>3. at2[k] = Len(st)
        BY <1>4, <1>6, <3>1
      <3>4. at2[k + 1] = at2[k] + Len(s)
        BY <1>7, <3>1, <3>3
      <3>5. \A i \in 1..Len(s) : st2[at2[k] + i] = s[i]
        <4> DEFINE x == at2[k]
                   y == Len(st)
        <4>1. x = y /\ \A i \in 1..Len(s) : st2[y + i] = s[i]
          BY <1>2, <3>3
        <4> HIDE DEF x, y
        <4>2. \A i \in 1..Len(s) : st2[x + i] = s[i]
          BY <4>1
        <4> QED
          BY <4>2 DEF x
      <3> QED
        BY <3>2, <3>4, <3>5
    <2> QED
      BY <2>1, <2>2
  <1>13. LaidBy(st2, se2, d, l, at2)
    <2>1. at2[(n + 1) + 1] = Len(st2)
      BY <1>2, <1>7
    <2> QED
      BY <1>3, <1>9, <1>10, <1>11, <1>12, <2>1 DEF LaidBy
  <1> QED
    BY <1>13 DEF Laid, s, st2, se2

\* What a read of n bytes leaves.
LEMMA DropFacts ==
  ASSUME NEW st \in Seq(Byte), NEW n \in Nat, n <= Len(st)
  PROVE  /\ SubSeq(st, n + 1, Len(st)) \in Seq(Byte)
         /\ Len(SubSeq(st, n + 1, Len(st))) = Len(st) - n
         /\ \A i \in 1..(Len(st) - n) : SubSeq(st, n + 1, Len(st))[i] = st[n + i]
  <1> DEFINE m == n + 1
             t == Len(st)
  <1>1. m \in Nat /\ m >= 1 /\ t <= Len(st) /\ m <= t + 1 /\ t - m + 1 = t - n /\ t \in Nat
    BY LenProperties
  <1>2. \A i \in 1..(t - n) : m + i - 1 = n + i
    BY <1>1
  <1> HIDE DEF m, t
  <1>3. /\ SubSeq(st, m, t) \in Seq(Byte)
        /\ Len(SubSeq(st, m, t)) = t - m + 1
        /\ \A i \in 1..(t - m + 1) : SubSeq(st, m, t)[i] = st[m + i - 1]
    BY <1>1, PartFacts
  <1>4. /\ SubSeq(st, m, t) \in Seq(Byte)
        /\ Len(SubSeq(st, m, t)) = t - n
        /\ \A i \in 1..(t - n) : SubSeq(st, m, t)[i] = st[n + i]
    BY <1>1, <1>2, <1>3
  <1> QED
    BY <1>4 DEF m, t

\* n bytes are read: some of what is missing, or some of the next message.
LEMMA LaidShift ==
  ASSUME NEW st \in Seq(Byte), NEW se \in Seq(Arrivals), NEW d \in Nat, NEW e \in Nat,
         e <= Len(se), NEW l, Laid(st, se, d, l),
         NEW n \in Nat, n <= Len(st), NEW r \in Nat,
         \/ e = d /\ l = n + r
         \/ e = d + 1 /\ l = 0 /\ Len(Standard(se[e])) = n + r
  PROVE  Laid(SubSeq(st, n + 1, Len(st)), se, e, r)
  <1> DEFINE s == Len(se)
             t == Len(st)
             st2 == SubSeq(st, n + 1, t)
  <1>1. PICK at : LaidBy(st, se, d, l, at)
    BY DEF Laid
  <1>2. s \in Nat /\ t \in Nat
    BY LenProperties
  <1>3. /\ at \in [(d + 1)..(s + 1) -> Nat]
        /\ at[d + 1] = l
        /\ at[s + 1] = t
        /\ \A j, k \in (d + 1)..(s + 1) : j <= k => at[j] <= at[k]
        /\ \A k \in (d + 1)..s :
             /\ at[k + 1] = at[k] + Len(Standard(se[k]))
             /\ \A i \in 1..Len(Standard(se[k])) : st[at[k] + i] = Standard(se[k])[i]
    BY <1>1 DEF LaidBy
  <1>4. /\ st2 \in Seq(Byte) /\ Len(st2) = t - n
        /\ \A i \in 1..(t - n) : st2[i] = st[n + i]
    BY DropFacts
  <1>5. e = d \/ e = d + 1
    OBVIOUS
  <1>a. e <= s
    OBVIOUS
  <1>6. at[e + 1] = n + r
    <2>1. CASE e = d /\ l = n + r
      BY <1>3, <2>1
    <2>2. CASE e = d + 1 /\ l = 0 /\ Len(Standard(se[e])) = n + r
      <3>1. e \in (d + 1)..s
        BY <1>2, <1>a, <2>2
      <3>2. at[e + 1] = at[e] + Len(Standard(se[e]))
        BY <1>3, <3>1
      <3> QED
        BY <1>3, <2>2, <3>2
    <2> QED
      BY <2>1, <2>2
  <1> HIDE DEF s, t, st2
  <1>7. ASSUME NEW k \in (e + 1)..(s + 1)
        PROVE  /\ k \in (d + 1)..(s + 1) /\ at[k] \in Nat /\ at[k] >= n /\ at[k] <= t
    <2>1. k \in (d + 1)..(s + 1) /\ e + 1 \in (d + 1)..(s + 1) /\ s + 1 \in (d + 1)..(s + 1)
          /\ e + 1 <= k /\ k <= s + 1
      BY <1>2, <1>5, <1>a
    <2>2. at[k] \in Nat /\ at[e + 1] <= at[k] /\ at[k] <= at[s + 1]
      BY <1>3, <2>1
    <2> QED
      BY <1>3, <1>6, <2>1, <2>2
  <1> DEFINE at2 == [k \in (e + 1)..(s + 1) |-> at[k] - n]
  <1>8. at2 \in [(e + 1)..(s + 1) -> Nat]
    <2>1. \A k \in (e + 1)..(s + 1) : at[k] - n \in Nat
      BY <1>7
    <2> QED
      BY <2>1
  <1>9. \A k \in (e + 1)..(s + 1) : at2[k] = at[k] - n
    OBVIOUS
  <1> HIDE DEF at2
  <1>10. at2[e + 1] = r /\ at2[s + 1] = t - n
    <2>1. e + 1 \in (e + 1)..(s + 1) /\ s + 1 \in (e + 1)..(s + 1)
      BY <1>2, <1>a
    <2> QED
      BY <1>3, <1>6, <1>9, <2>1
  <1>11. \A j, k \in (e + 1)..(s + 1) : j <= k => at2[j] <= at2[k]
    <2> SUFFICES ASSUME NEW j \in (e + 1)..(s + 1), NEW k \in (e + 1)..(s + 1), j <= k
                 PROVE  at2[j] <= at2[k]
      OBVIOUS
    <2>1. at[j] \in Nat /\ at[k] \in Nat /\ at[j] <= at[k]
      BY <1>3, <1>7
    <2> DEFINE x == at[j]
               y == at[k]
    <2>2. at2[j] = x - n /\ at2[k] = y - n
      BY <1>9
    <2>3. x \in Nat /\ y \in Nat /\ x <= y
      BY <2>1
    <2> HIDE DEF x, y
    <2>4. x - n <= y - n
      BY <2>3
    <2> QED
      BY <2>2, <2>4
  <1>12. ASSUME NEW k \in (e + 1)..s
         PROVE  /\ at2[k + 1] = at2[k] + Len(Standard(se[k]))
                /\ \A i \in 1..Len(Standard(se[k])) : st2[at2[k] + i] = Standard(se[k])[i]
    <2> DEFINE w == Standard(se[k])
    <2>1. /\ k \in (d + 1)..s /\ k \in (e + 1)..(s + 1) /\ k + 1 \in (e + 1)..(s + 1)
          /\ k \in 1..s
      BY <1>2, <1>5, <1>a
    <2>2. Len(w) \in Nat
      <3>1. se[k] \in Arrivals
        BY <2>1, ElementOfSeq DEF s
      <3> QED
        BY <3>1, StandardBytes
    <2>3. at[k + 1] = at[k] + Len(w) /\ \A i \in 1..Len(w) : st[at[k] + i] = w[i]
      BY <1>3, <2>1
    <2>4. at2[k] = at[k] - n /\ at2[k + 1] = at[k + 1] - n
      BY <1>9, <2>1
    <2>5. at[k] \in Nat /\ at[k] >= n /\ at[k + 1] <= t
      BY <1>7, <2>1
    <2> HIDE DEF w
    <2> DEFINE x == at[k]
    <2>a. x \in Nat /\ x >= n /\ x + Len(w) <= t
      BY <2>3, <2>5
    <2>b. at2[k] = x - n /\ at2[k + 1] = (x + Len(w)) - n
      BY <2>3, <2>4
    <2>c. \A i \in 1..Len(w) : st[x + i] = w[i]
      BY <2>3
    <2> HIDE DEF x
    <2>d. x - n \in Nat /\ (x - n) + Len(w) <= t - n /\ (x + Len(w)) - n = (x - n) + Len(w)
      BY <1>2, <2>2, <2>a
    <2> DEFINE y == x - n
               z == at2[k]
    <2>e. z = y /\ at2[k + 1] = y + Len(w)
      BY <2>b, <2>d
    <2>f. x = n + y
      BY <2>a
    <2>g. y \in Nat /\ y + Len(w) <= t - n
      BY <2>d
    <2> HIDE DEF y, z
    <2>6. at2[k + 1] = z + Len(w)
      BY <2>e
    <2>7. ASSUME NEW i \in 1..Len(w)
          PROVE  st2[z + i] = w[i]
      <3>1. y + i \in 1..(t - n)
        BY <1>2, <2>2, <2>g
      <3>a. n + (y + i) = x + i
        BY <2>f, <2>g
      <3>2. st2[y + i] = st[x + i]
        BY <1>4, <3>1, <3>a
      <3> QED
        BY <2>c, <2>e, <3>2
    <2> QED
      BY <2>6, <2>7 DEF w, z
  <1>13. LaidBy(st2, se, e, r, at2)
    <2>1. at2[s + 1] = Len(st2)
      BY <1>4, <1>10
    <2> QED
      BY <1>8, <1>10, <1>11, <1>12, <2>1 DEF LaidBy, s
  <1> QED
    BY <1>13 DEF Laid, st2, t
-----------------------------------------------------------------------------
(* What one read does to the bytes that are left, and to the messages.     *)

\* Where the data of a PUBLISH stand among its bytes.
LEMMA StandardData ==
  ASSUME NEW m \in Arrivals, m.type = PUBLISH
  PROVE  /\ HeaderLen(m) \in Nat /\ Len(m.data) \in Nat /\ m.data \in Seq(Byte)
         /\ Len(Standard(m)) = HeaderLen(m) + Len(m.data)
         /\ \A j \in 1..Len(m.data) : Standard(m)[HeaderLen(m) + j] = m.data[j]
  <1> DEFINE b == StandardBody(m)
             s == Standard(m)
             i == IdIf(m)
             t == m.topic
             d == m.data
             h == HeaderLen(m)
  <1>1. /\ m \in Message /\ Len(t) <= Max16 /\ b \in Seq(Byte) /\ Len(b) < 128^4
        /\ m.type * 16 + m.qos * 2 \in Byte
    BY ArrivalFacts DEF Arrives
  <1>2. PICK k : StandardLaid(m, StandardLength(Len(b)), k)
    BY <1>1, StandardParts
  <1>3. BodyLaid(m)
    BY <1>1, BodyParts
  <1>4. h = Len(s) - Len(d)
    BY DEF HeaderLen
  <1>5. /\ t \in Seq(Byte) /\ d \in Seq(Byte) /\ i \in Seq(Byte)
    BY <1>1, FieldFacts, IdIfFacts
  <1>6. Len(t) \in Nat /\ Len(d) \in Nat /\ Len(i) \in Nat
    BY <1>5, LenProperties
  <1>7. /\ k \in Nat
        /\ Len(s) = 1 + k + Len(b)
        /\ \A x \in 1..Len(b) : s[1 + k + x] = b[x]
    BY <1>2 DEF StandardLaid, LengthLaid
  <1>8. /\ Len(b) = 2 + Len(t) + Len(i) + Len(d)
        /\ \A j \in 1..Len(d) : b[2 + Len(t) + Len(i) + j] = d[j]
    BY <1>3 DEF BodyLaid
  <1> HIDE DEF b, s, i, t, d, h
  <1>9. h = 1 + k + (2 + Len(t) + Len(i)) /\ h \in Nat /\ Len(s) = h + Len(d)
    BY <1>4, <1>6, <1>7, <1>8
  <1>10. ASSUME NEW j \in 1..Len(d)
         PROVE  s[h + j] = d[j]
    <2>1. /\ 2 + Len(t) + Len(i) + j \in 1..Len(b)
          /\ 1 + k + (2 + Len(t) + Len(i) + j) = h + j
      BY <1>6, <1>7, <1>8, <1>9
    <2>2. s[1 + k + (2 + Len(t) + Len(i) + j)] = b[2 + Len(t) + Len(i) + j]
      BY <1>7, <2>1
    <2> QED
      BY <1>8, <2>1, <2>2
  <1> QED
    BY <1>5, <1>6, <1>9, <1>10 DEF s, d, h

\* The CONNACK has four bytes, the last of which is the return code.
LEMMA ConnackBytes ==
  ASSUME NEW c \in {0, 5}
  PROVE  /\ Standard(Plain(CONNACK, c)) \in Seq(Byte)
         /\ Len(Standard(Plain(CONNACK, c))) = 4
         /\ Standard(Plain(CONNACK, c))[4] = c
  <1> DEFINE m == Plain(CONNACK, c)
             b == StandardBody(m)
             s == Standard(m)
  <1>1. m \in Arrivals
    BY DEF Arrivals
  <1>2. /\ b \in Seq(Byte) /\ Len(b) < 128^4
        /\ m.type * 16 + m.qos * 2 \in Byte
    BY <1>1, ArrivalFacts DEF Arrives
  <1>3. b = <<0, c>>
    <2>1. m.type = CONNACK /\ m.id = c
      BY DEF Plain
    <2> QED
      BY <2>1, Bodies
  <1>4. Len(b) = 2 /\ b[2] = c
    BY <1>3
  <1>5. PICK k : StandardLaid(m, StandardLength(Len(b)), k)
    BY <1>2, StandardParts
  <1> HIDE DEF m
  <1>6. k = 1
    BY <1>4, <1>5 DEF StandardLaid, LengthLaid
  <1>7. /\ s \in Seq(Byte) /\ Len(s) = 1 + k + Len(b)
        /\ \A i \in 1..Len(b) : s[1 + k + i] = b[i]
    BY <1>5 DEF StandardLaid
  <1> HIDE DEF b, s
  <1>8. Len(s) = 4
    BY <1>4, <1>6, <1>7
  <1>9. s[1 + 1 + 2] = b[2]
    BY <1>4, <1>6, <1>7
  <1> QED
    BY <1>4, <1>7, <1>8, <1>9 DEF s, m

\* A read returns no more than was asked for and there is, and nothing only of nothing.
LEMMA ReadSizeFacts ==
  ASSUME NEW most \in Nat, stream \in Seq(Byte), NEW n \in ReadSizes(most)
  PROVE  /\ n \in Nat /\ n <= most /\ n <= Len(stream)
         /\ most >= 1 /\ n = 0 => stream = <<>>
  <1> DEFINE l == Len(stream)
             least == Least(most, l)
  <1>1. l \in Nat /\ (l = 0 => stream = <<>>)
    BY LenProperties, EmptySeq
  <1>2. n \in Pieces => n \in Nat /\ n # 0
    BY InputAssumption
  <1>3. (n \in Pieces /\ n < least) \/ n = least
    BY DEF ReadSizes
  <1> HIDE DEF l
  <1>4. (least = most /\ most < l) \/ (least = l /\ l <= most)
    BY <1>1 DEF Least
  <1> HIDE DEF least
  <1>5. n \in Nat /\ n <= most /\ n <= l /\ (most >= 1 /\ n = 0 => l = 0)
    BY <1>1, <1>2, <1>3, <1>4
  <1> QED
    BY <1>1, <1>5 DEF l

\* What a read leaves in the buffer and in the stream.
LEMMA TakenFacts ==
  ASSUME stream \in Seq(Byte), NEW n \in Nat, n <= Len(stream)
  PROVE  /\ \A i \in 0..(n - 1) : Taken(n)[i] = stream[i + 1]
         /\ Filled(Taken(n), n)
         /\ SubSeq(stream, n + 1, Len(stream)) \in Seq(Byte)
         /\ front \in [1..4 -> Byte] => FrontAfter(n) \in [1..4 -> Byte]
  <1>1. Len(stream) \in Nat
    BY LenProperties
  <1>2. \A i \in 1..n : stream[i] \in Byte
    BY <1>1, ElementOfSeq
  <1>3. \A i \in 0..(n - 1) : Taken(n)[i] = stream[i + 1]
    BY DEF Taken
  <1>4. ASSUME NEW i \in Nat, i < n
        PROVE  Taken(n)[i] \in Byte
    <2>1. i \in 0..(n - 1) /\ i + 1 \in 1..n
      BY <1>4
    <2> QED
      BY <1>2, <1>3, <2>1
  <1>5. SubSeq(stream, n + 1, Len(stream)) \in Seq(Byte)
    BY DropFacts
  <1>6. ASSUME front \in [1..4 -> Byte]
        PROVE  FrontAfter(n) \in [1..4 -> Byte]
    <2>1. \A i \in 1..4 : (IF i <= n THEN stream[i] ELSE front[i]) \in Byte
      BY <1>2, <1>6
    <2> QED
      BY <2>1 DEF FrontAfter
  <1> QED
    BY <1>3, <1>4, <1>5, <1>6 DEF Filled

\* The first n bytes of buf are those of s from its place i on.
Begins(buf, n, s, i) == \A j \in 1..n : buf[j - 1] = s[i + j]

\* The next piece of some data is put behind what was read of them.
Grow(s, i, n, buf) == SubSeq(s, 1, i) \o Bytes(buf, 0, n) = SubSeq(s, 1, i + n)

\* Grow holds of any data and any buffer that goes on with them.
LEMMA DataGrow ==
  ASSUME NEW s \in Seq(Byte), NEW i \in Nat, NEW n \in Nat, i + n <= Len(s),
         NEW buf, Begins(buf, n, s, i)
  PROVE  Grow(s, i, n, buf)
  <1> DEFINE p == SubSeq(s, i + 1, i + n)
             x == i + 1
             y == i + n
  <1>1. Len(s) \in Nat
    BY LenProperties
  <1>2. /\ x \in Nat /\ y \in Nat /\ x >= 1 /\ y <= Len(s) /\ x <= y + 1
        /\ y - x + 1 = n
        /\ \A j \in 1..n : x + j - 1 = i + j
    BY <1>1
  <1> HIDE DEF x, y
  <1>3. /\ SubSeq(s, x, y) \in Seq(Byte) /\ Len(SubSeq(s, x, y)) = y - x + 1
        /\ \A j \in 1..(y - x + 1) : SubSeq(s, x, y)[j] = s[x + j - 1]
    BY <1>2, PartFacts
  <1>4. p = SubSeq(s, x, y)
    BY DEF x, y
  <1> HIDE DEF p
  <1>5. p \in Seq(Byte) /\ Len(p) = n /\ \A j \in 1..n : p[j] = s[i + j]
    BY <1>2, <1>3, <1>4
  <1>6. Bytes(buf, 0, n) = p
    <2>1. Bytes(buf, 0, n) = SubSeq(p, 1, n)
      <3>1. \A j \in 1..n : buf[0 + j - 1] = p[j]
        <4> TAKE j \in 1..n
        <4>1. 0 + j - 1 = j - 1
          OBVIOUS
        <4>2. buf[j - 1] = s[i + j]
          BY DEF Begins
        <4> QED
          BY <1>5, <4>1, <4>2
      <3> QED
        <4>1. n <= Len(p) /\ 0 \in Nat
          BY <1>5
        <4> QED
          BY <1>5, <3>1, <4>1, BytesRead, Zenon
    <2>2. SubSeq(p, 1, Len(p)) = p
      BY <1>5, SubSeqFull
    <2> QED
      BY <1>5, <2>1, <2>2
  <1>7. SubSeq(s, 1, i) \o SubSeq(s, i + 1, i + n) = SubSeq(s, 1, i + n)
    <2>1. /\ 1 \in 1..(Len(s) + 1)
          /\ i \in (1 - 1)..Len(s)
          /\ i + n \in i..Len(s)
      BY <1>1
    <2> QED
      BY <2>1, ConcatAdjacentSubSeq
  <1> QED
    BY <1>6, <1>7 DEF p, Grow

-----------------------------------------------------------------------------
(* What the client has made of the messages of a connection, and how the   *)
(* bytes it has not read go on.                                            *)

\* Of the PUBLISH m all but left bytes of data were handed out, up to off, as g,
\* and what is missing comes next.
HalfTaken(st, m, g, left, off, total) ==
    /\ m.type = PUBLISH
    /\ left <= Len(m.data)
    /\ g = [m EXCEPT !.data = SubSeq(m.data, 1, Len(m.data) - left)]
    /\ off = Len(m.data) - left
    /\ total = Len(m.data)
    /\ \A i \in 1..left : st[i] = m.data[(Len(m.data) - left) + i]

Delivered(st, se, gt, e, p, left) ==
    /\ Len(gt) <= Len(se)
    /\ \A k \in 1..Len(gt) : (k = Len(gt) /\ p = "chunk") \/ gt[k] = se[k]
    /\ p = "chunk" => /\ Len(gt) >= 1
                      /\ HalfTaken(st, se[Len(gt)], gt[Len(gt)], left,
                                   e.offset + e.data_len, e.total)
    /\ Laid(st, se, Len(gt), left)

\* A connection starts with nothing delivered.
LEMMA DeliveredFirst ==
  ASSUME NEW e, NEW p, p # "chunk"
  PROVE  Delivered(<<>>, <<>>, <<>>, e, p, 0)
  BY LaidEmpty DEF Delivered

\* A message of the broker does not change what was delivered.
LEMMA DeliveredAppend ==
  ASSUME NEW st \in Seq(Byte), NEW se \in Seq(Arrivals), NEW gt \in Seq(Message), NEW e, NEW p,
         NEW left, Delivered(st, se, gt, e, p, left), NEW m \in Arrivals
  PROVE  Delivered(st \o Standard(m), Append(se, m), gt, e, p, left)
  <1> DEFINE d == Len(gt)
             s == Len(se)
             se2 == Append(se, m)
             st2 == st \o Standard(m)
  <1>1. d \in Nat /\ s \in Nat
    BY LenProperties
  <1>2. /\ d <= s
        /\ \A k \in 1..d : (k = d /\ p = "chunk") \/ gt[k] = se[k]
        /\ p = "chunk" =>
             d >= 1 /\ HalfTaken(st, se[d], gt[d], left, e.offset + e.data_len, e.total)
        /\ Laid(st, se, d, left)
    BY DEF Delivered
  <1>3. Len(se2) = s + 1 /\ \A k \in 1..s : se2[k] = se[k]
    BY AppendProperties
  <1>4. Laid(st2, se2, d, left)
    BY <1>1, <1>2, LaidAppend
  <1>5. left \in Nat /\ left <= Len(st) /\ Len(st) \in Nat
    BY <1>1, <1>2, LaidLeft, LenProperties
  <1>6. \A i \in 1..Len(st) : st2[i] = st[i]
    BY StandardBytes, Besides DEF Beside
  <1> HIDE DEF d, s, se2, st2
  <1>7. \A i \in 1..left : st2[i] = st[i]
    <2>1. \A i \in 1..left : i \in 1..Len(st)
      BY <1>5
    <2> QED
      BY <1>6, <2>1
  <1>8. \A k \in 1..d : (k = d /\ p = "chunk") \/ gt[k] = se2[k]
    <2>1. \A k \in 1..d : k \in 1..s
      BY <1>1, <1>2
    <2> QED
      BY <1>2, <1>3, <2>1
  <1>9. ASSUME p = "chunk"
        PROVE  d >= 1 /\ HalfTaken(st2, se2[d], gt[d], left, e.offset + e.data_len, e.total)
    <2>1. d >= 1 /\ HalfTaken(st, se[d], gt[d], left, e.offset + e.data_len, e.total)
      BY <1>2, <1>9
    <2>2. se2[d] = se[d]
      BY <1>1, <1>2, <1>3, <2>1
    <2> QED
      BY <1>7, <2>1, <2>2, Zenon DEF HalfTaken
  <1>10. d <= Len(se2)
    BY <1>1, <1>2, <1>3
  <1> QED
    BY <1>4, <1>8, <1>9, <1>10 DEF Delivered, d, se2, st2

\* One more message is taken whole.
LEMMA DeliveredWhole ==
  ASSUME NEW st \in Seq(Byte), NEW se \in Seq(Arrivals), NEW gt \in Seq(Message), NEW e, NEW p,
         p # "chunk", Delivered(st, se, gt, e, p, 0), Len(gt) < Len(se),
         NEW n \in Nat, n <= Len(st), n = Len(Standard(se[Len(gt) + 1])),
         NEW e2, NEW p2, p2 # "chunk"
  PROVE  /\ Append(gt, se[Len(gt) + 1]) \in Seq(Message)
         /\ Delivered(SubSeq(st, n + 1, Len(st)), se, Append(gt, se[Len(gt) + 1]), e2, p2, 0)
  <1> DEFINE d == Len(gt)
             s == Len(se)
             d1 == d + 1
             m == se[d1]
             gt2 == Append(gt, m)
             st2 == SubSeq(st, n + 1, Len(st))
  <1>1. d \in Nat /\ s \in Nat /\ d1 \in 1..s /\ d1 \in Nat /\ d1 <= s
    BY LenProperties
  <1>2. /\ \A k \in 1..d : gt[k] = se[k]
        /\ Laid(st, se, d, 0)
    BY DEF Delivered
  <1>3. m \in Message
    <2>1. m \in Arrivals
      BY <1>1, ElementOfSeq
    <2> QED
      BY <2>1, ArrivalFacts DEF Arrives
  <1>4. /\ gt2 \in Seq(Message) /\ Len(gt2) = d1
        /\ \A k \in 1..d : gt2[k] = gt[k]
        /\ gt2[d1] = m
    BY <1>3, AppendProperties
  <1>5. Laid(st2, se, d1, 0)
    <2>1. n = n + 0 /\ 0 \in Nat
      OBVIOUS
    <2>2. d1 = d + 1 /\ Len(Standard(se[d1])) = n + 0
      BY <2>1
    <2> HIDE DEF d, d1
    <2> QED
      BY <1>1, <1>2, <2>1, <2>2, LaidShift
  <1>6. \A k \in 1..d1 : k \in 1..d \/ k = d1
    BY <1>1
  <1>7. \A k \in 1..d1 : gt2[k] = se[k]
    BY <1>2, <1>4, <1>6
  <1> HIDE DEF d1, gt2, st2
  <1>8. Delivered(st2, se, gt2, e2, p2, 0)
    BY <1>1, <1>4, <1>5, <1>7 DEF Delivered
  <1> QED
    BY <1>4, <1>8 DEF gt2, st2, d1

\* The header of the PUBLISH m and some of its data are among n bytes; g is what is
\* made of them, and e the event.
FirstPart(m, n, g, e) ==
    /\ m.type = PUBLISH
    /\ n < Len(Standard(m)) /\ n >= HeaderLen(m)
    /\ g = [m EXCEPT !.data = SubSeq(m.data, 1, n - HeaderLen(m))]
    /\ e.offset = 0 /\ e.data_len = n - HeaderLen(m) /\ e.total = Len(m.data)

\* After the header of m and some of its data, the rest of the data comes next.
LEMMA FirstPartTaken ==
  ASSUME NEW st \in Seq(Byte), NEW m \in Arrivals, NEW n \in Nat, n <= Len(st), NEW g, NEW e,
         FirstPart(m, n, g, e),
         \A i \in 1..Len(Standard(m)) : st[i] = Standard(m)[i],
         NEW r \in Nat, Len(Standard(m)) = n + r, r <= Len(st) - n
  PROVE  /\ g \in Message
         /\ HalfTaken(SubSeq(st, n + 1, Len(st)), m, g, r, e.offset + e.data_len, e.total)
  <1> DEFINE t == Len(Standard(m))
             h == HeaderLen(m)
             l == Len(m.data)
             x == n - h
             c == SubSeq(m.data, 1, x)
             st2 == SubSeq(st, n + 1, Len(st))
  <1>1. m \in Message
    BY ArrivalFacts DEF Arrives
  <1>2. /\ m.type = PUBLISH /\ n < t /\ n >= h /\ g = [m EXCEPT !.data = c]
        /\ e.offset = 0 /\ e.data_len = x /\ e.total = l
    BY DEF FirstPart
  <1>3. /\ h \in Nat /\ l \in Nat /\ m.data \in Seq(Byte) /\ t = h + l
        /\ \A j \in 1..l : Standard(m)[h + j] = m.data[j]
    BY <1>2, StandardData
  <1>4. Len(st) \in Nat
    BY LenProperties
  <1>5. \A i \in 1..(Len(st) - n) : st2[i] = st[n + i]
    BY DropFacts
  <1>6. t = n + r /\ \A i \in 1..t : st[i] = Standard(m)[i]
    OBVIOUS
  <1> HIDE DEF t, h, st2, c
  <1>a. x = n - h
    OBVIOUS
  <1> HIDE DEF x, l
  <1>7. x \in Nat /\ x <= l /\ x = l - r /\ r <= l
    BY <1>2, <1>3, <1>6, <1>a
  <1> USE DEF l
  <1>8. c \in Seq(Byte)
    <2>1. x <= Len(m.data) /\ 1 \in Nat /\ 1 <= x + 1
      BY <1>7
    <2> QED
      BY <1>3, <1>7, <2>1, PartFacts DEF c
  <1>9. g \in Message
    BY <1>1, <1>2, <1>8 DEF Message
  <1>10. ASSUME NEW i \in 1..r
         PROVE  st2[i] = m.data[(l - r) + i]
    <2>1. /\ i \in 1..(Len(st) - n) /\ n + i \in 1..t
          /\ (l - r) + i \in 1..l /\ h + ((l - r) + i) = n + i
      <3> HIDE DEF l, x
      <3> QED
        BY <1>3, <1>4, <1>6, <1>7
    <2>2. st2[i] = Standard(m)[n + i]
      BY <1>5, <1>6, <2>1
    <2>3. Standard(m)[h + ((l - r) + i)] = m.data[(l - r) + i]
      BY <1>3, <2>1
    <2> QED
      BY <2>1, <2>2, <2>3
  <1>11. HalfTaken(st2, m, g, r, e.offset + e.data_len, e.total)
    <2>1. g = [m EXCEPT !.data = SubSeq(m.data, 1, l - r)]
      BY <1>2, <1>7 DEF c
    <2>2. e.offset + e.data_len = l - r
      BY <1>2, <1>7
    <2> QED
      BY <1>2, <1>7, <1>10, <2>1, <2>2 DEF HalfTaken
  <1> QED
    BY <1>9, <1>11 DEF st2

\* The header of a PUBLISH is read, with some of its data.
LEMMA DeliveredPart ==
  ASSUME NEW st \in Seq(Byte), NEW se \in Seq(Arrivals), NEW gt \in Seq(Message), NEW e, NEW p,
         p # "chunk", Delivered(st, se, gt, e, p, 0), Len(gt) < Len(se),
         NEW n \in Nat, n <= Len(st), NEW g, NEW e2, FirstPart(se[Len(gt) + 1], n, g, e2)
  PROVE  /\ Append(gt, g) \in Seq(Message)
         /\ Delivered(SubSeq(st, n + 1, Len(st)), se, Append(gt, g), e2, "chunk",
                      Len(Standard(se[Len(gt) + 1])) - n)
  <1> DEFINE d == Len(gt)
             s == Len(se)
             d1 == d + 1
             m == se[d1]
             t == Len(Standard(m))
             r == t - n
             gt2 == Append(gt, g)
             st2 == SubSeq(st, n + 1, Len(st))
  <1>1. d \in Nat /\ s \in Nat /\ d1 \in 1..s /\ d1 \in Nat /\ d1 <= s /\ d1 >= 1 /\ d <= s
    BY LenProperties
  <1>2. /\ \A k \in 1..d : gt[k] = se[k]
        /\ Laid(st, se, d, 0)
    BY DEF Delivered
  <1>3. m \in Arrivals
    BY <1>1, ElementOfSeq
  <1>4. t \in Nat /\ n < t
    <2>1. t \in Nat
      BY <1>3, StandardBytes
    <2>2. n < t
      BY DEF FirstPart
    <2> QED
      BY <2>1, <2>2
  <1>5. FirstPart(m, n, g, e2) /\ d < Len(se)
    OBVIOUS
  <1>6. \A i \in 1..t : st[i] = Standard(m)[i]
    <2> HIDE DEF d
    <2>1. d \in Nat /\ d <= Len(se) /\ Len(se) \in Nat /\ d < Len(se)
      BY <1>1, <1>5
    <2> QED
      BY <1>2, <2>1, LaidHead
  <1> HIDE DEF t
  <1>7. r \in Nat /\ t = n + r
    BY <1>4
  <1> HIDE DEF r
  <1>8. Laid(st2, se, d1, r)
    <2>1. d1 = d + 1 /\ Len(Standard(se[d1])) = n + r /\ d1 <= Len(se)
      BY <1>1, <1>7 DEF t
    <2> HIDE DEF d, d1
    <2> QED
      BY <1>1, <1>2, <1>7, <2>1, LaidShift
  <1>9. r <= Len(st) - n
    <2>1. st2 \in Seq(Byte) /\ Len(st2) = Len(st) - n
      BY DropFacts
    <2>2. d1 <= Len(se) /\ Len(se) \in Nat
      BY <1>1
    <2> HIDE DEF d1, st2
    <2>3. r <= Len(st2)
      BY <1>1, <1>8, <2>1, <2>2, LaidLeft
    <2> QED
      BY <2>1, <2>3
  <1>10. /\ g \in Message
         /\ HalfTaken(st2, m, g, r, e2.offset + e2.data_len, e2.total)
    <2>1. \A i \in 1..Len(Standard(m)) : st[i] = Standard(m)[i]
      BY <1>6 DEF t
    <2>2. Len(Standard(m)) = n + r
      BY <1>7 DEF t
    <2> HIDE DEF m
    <2> QED
      BY <1>3, <1>5, <1>7, <1>9, <2>1, <2>2, FirstPartTaken
  <1>11. /\ gt2 \in Seq(Message) /\ Len(gt2) = d1
         /\ \A k \in 1..d : gt2[k] = gt[k]
         /\ gt2[d1] = g
    BY <1>10, AppendProperties
  <1>12. \A k \in 1..d1 : k \in 1..d \/ k = d1
    BY <1>1
  <1>13. \A k \in 1..d1 : k = d1 \/ gt2[k] = se[k]
    BY <1>2, <1>11, <1>12
  <1> HIDE DEF gt2, st2, d, m
  <1>14. Delivered(st2, se, gt2, e2, "chunk", r)
    <2>1. m = se[d1]
      BY DEF m
    <2> HIDE DEF d1
    <2> QED
      BY <1>1, <1>8, <1>10, <1>11, <1>13, <2>1 DEF Delivered
  <1> QED
    BY <1>11, <1>14 DEF gt2, st2, r, t, m, d

\* The event e2 is the one of the n bytes after those of e.
Follows(e2, e, n) ==
    e2.offset = e.offset + e.data_len /\ e2.data_len = n /\ e2.total = e.total

\* g2 is g with the first n bytes of buf behind its data.
Longer(g2, g, buf, n) == g2 = [g EXCEPT !.data = @ \o Bytes(buf, 0, n)]

NextTaken(st, m, g2, left, off, total, n) ==
    /\ g2 \in Message
    /\ HalfTaken(SubSeq(st, n + 1, Len(st)), m, g2, left - n, off + n, total)
    /\ n = left => g2 = m

\* After n more bytes of the data, the rest of the data comes next.
LEMMA NextPartTaken ==
  ASSUME NEW st \in Seq(Byte), NEW m \in Message, NEW g, NEW left \in Nat, left <= Len(st), NEW off,
         NEW total, HalfTaken(st, m, g, left, off, total),
         NEW n \in Nat, n <= Len(st), n <= left,
         NEW buf, Begins(buf, n, st, 0),
         NEW g2, Longer(g2, g, buf, n)
  PROVE  NextTaken(st, m, g2, left, off, total, n)
  <1> DEFINE l == Len(m.data)
             i == l - left
             i2 == i + n
             c == SubSeq(m.data, 1, i)
             c2 == SubSeq(m.data, 1, i2)
             b == Bytes(buf, 0, n)
             r == left - n
             st2 == SubSeq(st, n + 1, Len(st))
  <1>1. /\ m.type = PUBLISH /\ left <= l /\ g = [m EXCEPT !.data = c]
        /\ off = i /\ total = l
        /\ \A j \in 1..left : st[j] = m.data[i + j]
    BY DEF HalfTaken
  <1>2. m.data \in Seq(Byte) /\ l \in Nat
    BY FieldFacts, LenProperties
  <1>3. Len(st) \in Nat
    BY LenProperties
  <1>4. \A j \in 1..(Len(st) - n) : st2[j] = st[n + j]
    BY DropFacts
  <1>5. g2 = [g EXCEPT !.data = @ \o b]
    BY DEF Longer
  <1>i. i = l - left /\ i2 = i + n /\ r = left - n
    OBVIOUS
  <1> HIDE DEF l, st2, b, i, i2, r, c, c2
  <1>6. /\ i \in Nat /\ i2 \in Nat /\ i + n <= l /\ i2 <= l /\ r \in Nat /\ i2 = l - r /\ r <= l
        /\ i2 = off + n
    BY <1>1, <1>2, <1>i
  <1>7. \A j \in 1..r : n + j \in 1..left /\ i + (n + j) = i2 + j
    BY <1>6, <1>i
  <1>8. n = left => i2 = l
    BY <1>1, <1>2, <1>i
  <1>9. c \o b = c2
    <2>1. Begins(buf, n, m.data, i)
      <3>1. ASSUME NEW j \in 1..n
            PROVE  buf[j - 1] = m.data[i + j]
        <4>1. 0 + j = j /\ j \in 1..left
          OBVIOUS
        <4>2. buf[j - 1] = st[0 + j]
          BY DEF Begins
        <4> QED
          BY <1>1, <4>1, <4>2
      <3> QED
        BY <3>1 DEF Begins
    <2>2. i + n <= Len(m.data)
      BY <1>6 DEF l
    <2>3. Grow(m.data, i, n, buf)
      BY <1>2, <1>6, <2>1, <2>2, DataGrow
    <2>4. SubSeq(m.data, 1, i) \o Bytes(buf, 0, n) = SubSeq(m.data, 1, i2)
      BY <1>i, <2>3 DEF Grow
    <2> QED
      BY <2>4 DEF c, c2, b
  <1>10. g2 = [m EXCEPT !.data = c2]
    <2>1. g.data = c
      BY <1>1 DEF Message
    <2>2. g2 = [g EXCEPT !.data = c2]
      BY <1>5, <1>9, <2>1
    <2> QED
      BY <1>1, <2>2 DEF Message
  <1>11. c2 \in Seq(Byte)
    <2>1. i2 <= Len(m.data) /\ 1 \in Nat /\ 1 <= i2 + 1
      BY <1>6 DEF l
    <2> QED
      BY <1>2, <1>6, <2>1, PartFacts DEF c2
  <1>12. g2 \in Message
    BY <1>10, <1>11 DEF Message
  <1>13. HalfTaken(st2, m, g2, r, off + n, total)
    <2>1. ASSUME NEW j \in 1..r
          PROVE  st2[j] = m.data[i2 + j]
      <3>1. j \in 1..(Len(st) - n)
        BY <1>3 DEF r
      <3>2. st2[j] = st[n + j]
        BY <1>4, <3>1
      <3>3. st[n + j] = m.data[i + (n + j)]
        BY <1>1, <1>7
      <3> QED
        BY <1>7, <3>2, <3>3
    <2>2. \A j \in 1..r : st2[j] = m.data[(l - r) + j]
      BY <1>6, <2>1
    <2>3. off + n = l - r
      BY <1>6
    <2>4. g2 = [m EXCEPT !.data = SubSeq(m.data, 1, l - r)]
      BY <1>6, <1>10 DEF c2
    <2> QED
      BY <1>1, <1>6, <2>2, <2>3, <2>4 DEF HalfTaken, l
  <1>14. ASSUME n = left
         PROVE  g2 = m
    <2>1. SubSeq(m.data, 1, Len(m.data)) = m.data
      BY <1>2, SubSeqFull
    <2>2. c2 = m.data
      BY <1>8, <1>14, <2>1 DEF c2, l
    <2> QED
      BY <1>10, <2>2 DEF Message
  <1> QED
    BY <1>12, <1>13, <1>14 DEF st2, r, NextTaken

\* The next bytes of a PUBLISH are read.
LEMMA DeliveredMore ==
  ASSUME NEW st \in Seq(Byte), NEW se \in Seq(Arrivals), NEW gt \in Seq(Message), NEW e,
         NEW left, Delivered(st, se, gt, e, "chunk", left),
         NEW n \in Nat, n <= Len(st), n <= left,
         NEW buf, Begins(buf, n, st, 0),
         NEW e2, Follows(e2, e, n), NEW p2, p2 = "chunk" \/ n = left
  PROVE  /\ [gt EXCEPT ![Len(gt)].data = @ \o Bytes(buf, 0, n)] \in Seq(Message)
         /\ Delivered(SubSeq(st, n + 1, Len(st)), se,
                      [gt EXCEPT ![Len(gt)].data = @ \o Bytes(buf, 0, n)], e2, p2, left - n)
  <1> DEFINE d == Len(gt)
             s == Len(se)
             m == se[d]
             g == gt[d]
             g2 == [g EXCEPT !.data = @ \o Bytes(buf, 0, n)]
             gt2 == [gt EXCEPT ![d] = g2]
             st2 == SubSeq(st, n + 1, Len(st))
             off == e.offset + e.data_len
             r == left - n
  <1>1. d \in Nat /\ s \in Nat
    BY LenProperties
  <1>2. /\ d <= s /\ d >= 1
        /\ \A k \in 1..d : k = d \/ gt[k] = se[k]
        /\ HalfTaken(st, m, g, left, off, e.total)
        /\ Laid(st, se, d, left)
    BY DEF Delivered
  <1>3. d \in 1..d /\ d \in 1..s
    BY <1>1, <1>2
  <1>4. m \in Message
    <2>1. m \in Arrivals
      BY <1>3, ElementOfSeq
    <2> QED
      BY <2>1, ArrivalFacts DEF Arrives
  <1>5. left \in Nat /\ left <= Len(st)
    BY <1>1, <1>2, LaidLeft
  <1>6. Longer(g2, g, buf, n)
    BY DEF Longer
  <1>7. [gt EXCEPT ![d].data = @ \o Bytes(buf, 0, n)] = gt2
    OBVIOUS
  <1> HIDE DEF g, m, off, g2
  <1>8. /\ g2 \in Message
        /\ HalfTaken(st2, m, g2, r, off + n, e.total)
        /\ n = left => g2 = m
    <2>1. NextTaken(st, m, g2, left, off, e.total, n)
      BY <1>2, <1>4, <1>5, <1>6, NextPartTaken
    <2> QED
      BY <2>1 DEF NextTaken
  <1>9. /\ gt2 \in Seq(Message) /\ Len(gt2) = d
        /\ \A k \in 1..d : gt2[k] = IF k = d THEN g2 ELSE gt[k]
    BY <1>3, <1>8, ExceptSeq
  <1>10. r \in Nat /\ left = n + r
    BY <1>5
  <1> HIDE DEF r
  <1>11. Laid(st2, se, d, r)
    <2>1. d <= Len(se)
      BY <1>2
    <2> HIDE DEF d
    <2> QED
      BY <1>1, <1>2, <1>10, <2>1, LaidShift
  <1> HIDE DEF gt2, st2, d
  <1>12. \A k \in 1..d : (k = d /\ p2 = "chunk") \/ gt2[k] = se[k]
    <2> TAKE k \in 1..d
    <2>1. CASE k # d
      BY <1>2, <1>9, <2>1
    <2>2. CASE k = d
      <3>1. gt2[d] = g2 /\ se[d] = m
        BY <1>3, <1>9 DEF m
      <3> QED
        BY <1>8, <2>2, <3>1
    <2> QED
      BY <2>1, <2>2
  <1>13. HalfTaken(st2, se[d], gt2[d], r, e2.offset + e2.data_len, e2.total)
    <2>1. gt2[d] = g2 /\ se[d] = m
      BY <1>3, <1>9 DEF m
    <2>2. e2.offset + e2.data_len = off + n /\ e2.total = e.total
      BY DEF Follows, off
    <2> QED
      BY <1>8, <2>1, <2>2
  <1>14. Delivered(st2, se, gt2, e2, p2, r)
    BY <1>2, <1>9, <1>11, <1>12, <1>13 DEF Delivered
  <1> QED
    BY <1>7, <1>9, <1>14 DEF st2, r, d
-----------------------------------------------------------------------------
(* The inductive invariant.                                                *)

Connected == pc \in {"publish", "receive", "chunk"}

\* How much of the PUBLISH that is read in pieces is missing.
Left == IF pc = "chunk" THEN message_length - message_length_read ELSE 0

Ranges ==
    /\ stream \in Seq(Byte)
    /\ broker \in {"none", "asked", "accepted", "refused"}
    /\ answer \in {"none", "late", "cut", "whole"}
    /\ budget \in 0..MaxMessages
    /\ front \in [1..4 -> Byte]
    /\ pc \in {"connect", "connack", "publish", "receive", "chunk"}
    /\ message_length \in Nat /\ message_length_read \in Nat
    /\ clean \in BOOLEAN

\* What was written last is a CONNECT or a message the client can write, encoded.
Written ==
    \/ \E info \in Infos : out = [meant |-> info, bytes |-> mqtt_msg_connect(info)]
    \/ \E m : CanWrite(m) /\ out = [meant |-> m, bytes |-> Encoded(m)]

\* Before the CONNECT the socket is empty, and before its answer is read it holds
\* at most that answer.
Connecting ==
    /\ ~Connected => clean
    /\ pc = "connect" => stream = <<>> /\ broker = "none"
    /\ pc = "connack" =>
         /\ Len(out.bytes) >= 4
         /\ \/ broker = "asked" /\ stream = <<>>
            \/ broker = "accepted" /\ stream = Standard(Plain(CONNACK, 0))
            \/ broker = "refused" /\ stream = Standard(Plain(CONNACK, 5))
    /\ Connected => broker # "none"

\* The event ends in the in buffer, and among the bytes that were read into it.
Within == Fits(event, Least(InLen, message_length_read))

Midway == pc = "chunk" => message_length_read < message_length

Histories ==
    /\ sent \in Seq(Arrivals) /\ got \in Seq(Message)
    /\ ~clean \/ ~Connected => sent = <<>> /\ got = <<>>
    /\ clean /\ Connected => Delivered(stream, sent, got, event, pc, Left)

IInv ==
    /\ Ranges
    /\ Within
    /\ Written
    /\ Connecting
    /\ UnacceptedIsStale
    /\ Midway
    /\ Histories

\* The ping that stands for no message is one the client can write.
LEMMA NothingWritten ==
  \E m : CanWrite(m) /\ Nothing = [meant |-> m, bytes |-> Encoded(m)]
  <1> DEFINE m == Plain(PINGREQ, 0)
  <1>1. m \in Message /\ m.type = PINGREQ /\ m.id = 0
    BY PlainFacts, Max14Facts, SMT
  <1>2. CanWrite(m)
    <2>1. Regular(m)
      BY <1>1 DEF Regular, Plain
    <2> QED
      BY <1>1, <2>1 DEF CanWrite
  <1>3. Encoded(m) = mqtt_msg_ping(m)
    <2> HIDE DEF m
    <2> QED
      BY <1>1 DEF Encoded
  <1> QED
    BY <1>2, <1>3 DEF Nothing

\* What was written has its type.
LEMMA OutTyped ==
  ASSUME Written
  PROVE  /\ out \in Outs
         /\ out.bytes \in Seq(Byte) /\ Len(out.bytes) \in Nat
  <1>1. ASSUME NEW info \in Infos, out = [meant |-> info, bytes |-> mqtt_msg_connect(info)]
        PROVE  out \in Outs /\ out.bytes \in Seq(Byte)
    BY <1>1, ConnectDecodes DEF Outs, Decodes
  <1>2. ASSUME NEW m, CanWrite(m), out = [meant |-> m, bytes |-> Encoded(m)]
        PROVE  out \in Outs /\ out.bytes \in Seq(Byte)
    BY <1>2, EncodedDecodes DEF Outs, Decodes, CanWrite
  <1>3. out \in Outs /\ out.bytes \in Seq(Byte)
    BY <1>1, <1>2 DEF Written
  <1> QED
    BY <1>3, LenProperties

\* The event of a new connection points nowhere.
LEMMA NoEventFits ==
  ASSUME NEW n
  PROVE  Fits(NoEvent, n)
  <1> DEFINE h == Word \div 2
  <1>1. Word \in Nat /\ Word > 0 /\ Word % 2 = 0
    BY SizeAssumption
  <1>2. \A w \in Nat : w > 0 /\ w % 2 = 0 => w \div 2 \in Nat /\ w \div 2 >= 1
    OBVIOUS
  <1>3. h \in Nat /\ h >= 1
    BY <1>1, <1>2
  <1>4. Ints = (-h)..(h - 1)
    BY DEF Ints
  <1> HIDE DEF h
  <1>5. 0 \in Ints
    BY <1>3, <1>4
  <1>6. NoEvent \in Events
    BY <1>5 DEF NoEvent, Events
  <1>7. NoEvent.topic = NULL /\ NoEvent.data = NULL /\ NoEvent.data_len = 0
    BY DEF NoEvent
  <1> QED
    BY <1>6, <1>7 DEF Fits

\* The invariant holds initially.
LEMMA InitHolds ==
  ASSUME Init
  PROVE  IInv
  <1>1. Ranges
    <2>1. MaxMessages \in 0..MaxMessages /\ <<>> \in Seq(Byte)
      BY SizeFacts, EmptySeq
    <2>2. front \in [1..4 -> Byte]
      BY InputAssumption DEF Init
    <2> QED
      BY <2>1, <2>2 DEF Init, Ranges
  <1>2. Within
    BY NoEventFits DEF Init, Within
  <1>3. Written
    BY NothingWritten DEF Init, Written
  <1>4. Connecting
    BY DEF Init, Connecting, Connected
  <1>5. UnacceptedIsStale
    BY DEF Init, UnacceptedIsStale
  <1>6. Midway
    BY DEF Init, Midway
  <1>7. Histories
    BY EmptySeq DEF Init, Histories, Connected
  <1> QED
    BY <1>1, <1>2, <1>3, <1>4, <1>5, <1>6, <1>7 DEF IInv

\* A message of the broker: the histories go on, and the bytes with them.
LEMMA Arriving ==
  ASSUME Histories, Ranges, Connected, NEW m \in Arrivals,
         stream' = stream \o Standard(m), sent' = Remembered(m),
         UNCHANGED <<readVars, pc>>
  PROVE  Histories'
  <1>1. got' = got /\ clean' = clean /\ event' = event /\ pc' = pc /\ Left' = Left /\ Connected'
    BY DEF readVars, Left, Connected
  <1>2. sent' \in Seq(Arrivals)
    <2>1. Append(sent, m) \in Seq(Arrivals)
      BY AppendProperties DEF Histories
    <2> QED
      BY <2>1, EmptySeq DEF Remembered
  <1>3. CASE clean
    <2>1. Delivered(stream, sent, got, event, pc, Left)
      BY <1>3 DEF Histories
    <2>2. Delivered(stream', sent', got, event, pc, Left)
      BY <1>3, <2>1, DeliveredAppend DEF Histories, Ranges, Remembered
    <2> QED
      BY <1>1, <1>2, <1>3, <2>2 DEF Histories
  <1>4. CASE ~clean
    BY <1>1, <1>2, <1>4 DEF Histories, Remembered
  <1> QED
    BY <1>3, <1>4

\* The broker's answer to CONNECT keeps the invariant.
LEMMA BrokerAnswersKeeps ==
  ASSUME IInv, BrokerAnswers
  PROVE  IInv'
  <1> USE DEF IInv
  <1>1. /\ broker = "asked"
        /\ UNCHANGED <<budget, answer, front, message_length, message_length_read, event>>
        /\ UNCHANGED <<got, clean, pc, out>>
    BY DEF BrokerAnswers, readVars
  <1>2. PICK code \in {0, 5} :
          /\ broker' = IF code = 0 THEN "accepted" ELSE "refused"
          /\ stream' = stream \o Standard(Plain(CONNACK, code))
          /\ sent' = IF pc = "connack" THEN sent ELSE Remembered(Plain(CONNACK, code))
    BY DEF BrokerAnswers
  <1>3. Plain(CONNACK, code) \in Arrivals /\ Standard(Plain(CONNACK, code)) \in Seq(Byte)
    BY ConnackBytes DEF Arrivals
  <1>4. pc = "connack" \/ Connected
    BY <1>1 DEF Connecting, Connected, Ranges
  <1>5. Ranges'
    <2>1. stream' \in Seq(Byte)
      BY <1>2, <1>3, ConcatProperties DEF Ranges
    <2> QED
      BY <1>1, <1>2, <2>1 DEF Ranges
  <1>6. Within'
    BY <1>1 DEF Within
  <1>7. Written'
    BY <1>1 DEF Written
  <1>8. Connecting'
    <2>1. CASE pc = "connack"
      <3>1. stream' = Standard(Plain(CONNACK, code))
        BY <1>1, <1>2, <1>3, <2>1, ConcatEmptySeq DEF Connecting
      <3> QED
        BY <1>1, <1>2, <2>1, <3>1 DEF Connecting, Connected
    <2>2. CASE Connected
      BY <1>1, <1>2, <2>2 DEF Connecting, Connected
    <2> QED
      BY <1>4, <2>1, <2>2
  <1>9. UnacceptedIsStale'
    BY <1>1, <1>2 DEF UnacceptedIsStale
  <1>10. Midway'
    BY <1>1 DEF Midway
  <1>11. Histories'
    <2>1. CASE pc = "connack"
      BY <1>1, <1>2, <2>1 DEF Histories, Connected
    <2>2. CASE Connected
      <3>1. pc # "connack"
        BY <2>2 DEF Connected
      <3> QED
        BY <1>1, <1>2, <1>3, <2>2, <3>1, Arriving DEF readVars
    <2> QED
      BY <1>4, <2>1, <2>2
  <1> QED
    BY <1>5, <1>6, <1>7, <1>8, <1>9, <1>10, <1>11

\* So does each of its messages.
LEMMA BrokerSendsKeeps ==
  ASSUME IInv, NEW m \in Messages, BrokerSends(m)
  PROVE  IInv'
  <1> USE DEF IInv
  <1>1. /\ broker = "accepted" /\ pc \notin {"connect", "connack"} /\ budget > 0
        /\ budget' = budget - 1
        /\ UNCHANGED <<broker, answer, front, message_length, message_length_read, event>>
        /\ UNCHANGED <<got, clean, pc, out>>
    BY DEF BrokerSends, readVars
  <1>2. stream' = stream \o Standard(m) /\ sent' = Remembered(m)
    BY DEF BrokerSends
  <1>3. m \in Arrivals /\ Standard(m) \in Seq(Byte)
    BY StandardBytes DEF Arrivals
  <1>4. Connected
    BY <1>1 DEF Ranges, Connected
  <1>5. Ranges'
    <2>1. stream' \in Seq(Byte)
      BY <1>2, <1>3, ConcatProperties DEF Ranges
    <2>2. budget' \in 0..MaxMessages
      BY <1>1, SizeFacts DEF Ranges
    <2> QED
      BY <1>1, <2>1, <2>2 DEF Ranges
  <1>6. Within'
    BY <1>1 DEF Within
  <1>7. Written'
    BY <1>1 DEF Written
  <1>8. Connecting'
    BY <1>1, <1>4 DEF Connecting, Connected
  <1>9. UnacceptedIsStale'
    BY <1>1 DEF UnacceptedIsStale
  <1>10. Midway'
    BY <1>1 DEF Midway
  <1>11. Histories'
    BY <1>1, <1>2, <1>3, <1>4, Arriving DEF readVars
  <1> QED
    BY <1>5, <1>6, <1>7, <1>8, <1>9, <1>10, <1>11

\* Writing the CONNECT keeps it.
LEMMA ConnectKeeps ==
  ASSUME IInv, Connect
  PROVE  IInv'
  <1> USE DEF IInv
  <1>1. /\ pc = "connect" /\ broker' = "asked" /\ pc' = "connack"
        /\ UNCHANGED <<stream, budget, sent, answer, front>>
        /\ UNCHANGED <<message_length, message_length_read, event, got, clean>>
    BY DEF Connect, readVars
  <1>2. PICK info \in Infos : out' = [meant |-> info, bytes |-> mqtt_msg_connect(info)]
    BY DEF Connect
  <1>3. Ranges'
    BY <1>1 DEF Ranges
  <1>4. Within'
    BY <1>1 DEF Within
  <1>5. Written'
    BY <1>2 DEF Written
  <1>6. Connecting'
    <2>1. Len(out'.bytes) >= 4
      BY <1>2, ConnectDecodes
    <2> QED
      BY <1>1, <2>1 DEF Connecting, Connected
  <1>7. UnacceptedIsStale' /\ Midway'
    BY <1>1 DEF UnacceptedIsStale, Midway
  <1>8. Histories'
    BY <1>1 DEF Histories, Connected
  <1> QED
    BY <1>3, <1>4, <1>5, <1>6, <1>7, <1>8

\* The connection is given up.
LEMMA AbortKeeps ==
  ASSUME IInv, Abort, front' \in [1..4 -> Byte], answer' \in {"none", "late", "cut", "whole"}
  PROVE  IInv'
  <1> USE DEF IInv
  <1>1. /\ pc' = "connect" /\ stream' = <<>> /\ broker' = "none" /\ sent' = <<>> /\ got' = <<>>
        /\ event' = NoEvent /\ clean' = TRUE /\ out' = Nothing
        /\ UNCHANGED <<budget, message_length, message_length_read>>
    BY DEF Abort, Quiet
  <1>2. Ranges'
    BY <1>1, EmptySeq DEF Ranges
  <1>3. Within'
    BY <1>1, NoEventFits DEF Within
  <1>4. Written'
    BY <1>1, NothingWritten DEF Written
  <1>5. Connecting'
    BY <1>1 DEF Connecting, Connected
  <1>6. UnacceptedIsStale' /\ Midway'
    BY <1>1 DEF UnacceptedIsStale, Midway
  <1>7. Histories'
    BY <1>1, EmptySeq DEF Histories, Connected
  <1> QED
    BY <1>2, <1>3, <1>4, <1>5, <1>6, <1>7

\* Reading the answer keeps it, however much of the answer the read returns.
LEMMA ReadConnackKeeps ==
  ASSUME IInv, ReadConnack
  PROVE  IInv'
  <1> USE DEF IInv
  <1> DEFINE most == Least(Len(out.bytes), InLen)
  <1>1. /\ pc = "connack" /\ Len(out.bytes) >= 4
        /\ \/ broker = "asked" /\ stream = <<>>
           \/ broker = "accepted" /\ stream = Standard(Plain(CONNACK, 0))
           \/ broker = "refused" /\ stream = Standard(Plain(CONNACK, 5))
    BY DEF ReadConnack, Connecting
  <1>2. most \in Nat /\ most >= 1
    <2>1. Len(out.bytes) \in Nat
      BY OutTyped
    <2> QED
      BY <1>1, <2>1, SizeFacts DEF Least
  <1>3. PICK n \in ReadSizes(most) :
          /\ front' = FrontAfter(n)
          /\ answer' = IF n = 0 THEN "late" ELSE IF n < 4 THEN "cut" ELSE "whole"
          /\ IF Accepted(front')
             THEN /\ pc' = "publish"
                  /\ DropBytes(n)
                  /\ clean' = (n \in {0, 4})
                  /\ Forget(clean')
                  /\ Quiet
                  /\ UNCHANGED <<broker, budget, message_length, message_length_read, event>>
             ELSE Abort
    BY Zenon DEF ReadConnack
  <1> HIDE DEF most
  <1>4. /\ n \in Nat /\ n <= Len(stream) /\ (n = 0 => stream = <<>>)
    BY <1>2, <1>3, ReadSizeFacts DEF Ranges
  <1>5. /\ front' \in [1..4 -> Byte] /\ SubSeq(stream, n + 1, Len(stream)) \in Seq(Byte)
    BY <1>3, <1>4, TakenFacts DEF Ranges
  <1>6. \A i \in 1..4 : front'[i] = IF i <= n THEN stream[i] ELSE front[i]
    BY <1>3 DEF FrontAfter
  <1>7. answer' \in {"none", "late", "cut", "whole"}
    BY <1>3
  <1>8. CASE Accepted(front')
    <2>1. /\ pc' = "publish" /\ stream' = SubSeq(stream, n + 1, Len(stream))
          /\ clean' = (n \in {0, 4}) /\ Forget(clean') /\ out' = Nothing
          /\ UNCHANGED <<broker, budget, message_length, message_length_read, event>>
      BY <1>3, <1>8 DEF DropBytes, Quiet
    <2>2. front'[1] \div 16 = CONNACK /\ front'[4] = 0
      BY <1>8 DEF Accepted
    <2>3. Within'
      BY <2>1 DEF Within
    <2>4. Ranges'
      BY <1>5, <1>7, <2>1 DEF Ranges
    <2>5. Written'
      BY <2>1, NothingWritten DEF Written
    <2>6. Connecting'
      BY <1>1, <2>1 DEF Connecting, Connected
    <2>7. UnacceptedIsStale'
      <3>1. CASE n = 0
        BY <1>3, <3>1 DEF UnacceptedIsStale
      <3>2. CASE n # 0 /\ n < 4
        BY <1>3, <3>2 DEF UnacceptedIsStale
      <3>3. CASE n >= 4
        <4>1. stream[4] = 0
          BY <1>6, <2>2, <3>3
        <4>2. stream # <<>>
          BY <1>4, <3>3
        <4>3. broker # "refused"
          BY <1>1, <4>1, ConnackBytes
        <4> QED
          BY <1>1, <2>1, <4>2, <4>3 DEF UnacceptedIsStale
      <3> QED
        BY <1>4, <3>1, <3>2, <3>3
    <2>8. sent' = <<>> /\ got' = <<>>
      BY <1>1, <2>1 DEF Forget, Histories, Connected
    <2>9. ASSUME clean'
          PROVE  stream' = <<>>
      <3>1. CASE n = 0
        <4>1. stream = <<>> /\ Len(stream) = 0
          BY <1>4, <3>1
        <4> QED
          BY <2>1, <3>1, <4>1, SubSeqEmpty
      <3>2. CASE n = 4
        <4>1. stream # <<>>
          BY <1>4, <3>2
        <4>2. Len(stream) = 4
          BY <1>1, <4>1, ConnackBytes
        <4> QED
          BY <2>1, <3>2, <4>2, SubSeqEmpty
      <3> QED
        BY <2>1, <2>9, <3>1, <3>2
    <2>10. Histories'
      <3>1. Left' = 0 /\ Connected' /\ pc' # "chunk"
        BY <2>1 DEF Left, Connected
      <3>2. ASSUME clean'
            PROVE  Delivered(stream', sent', got', event', pc', Left')
        BY <2>8, <2>9, <3>1, <3>2, DeliveredFirst
      <3> QED
        BY <2>8, <3>1, <3>2, EmptySeq DEF Histories
    <2> QED
      BY <2>1, <2>3, <2>4, <2>5, <2>6, <2>7, <2>10 DEF Midway
  <1>9. CASE ~Accepted(front')
    BY <1>3, <1>5, <1>7, <1>9, AbortKeeps
  <1> QED
    BY <1>8, <1>9

\* A failed read keeps it.
LEMMA ConnectionLostKeeps ==
  ASSUME IInv, ConnectionLost
  PROVE  IInv'
  BY AbortKeeps DEF IInv, ConnectionLost, Ranges

\* Writing a message keeps it.
LEMMA WriteKeeps ==
  ASSUME IInv, Write
  PROVE  IInv'
  <1> USE DEF IInv
  <1>1. /\ pc = "publish" /\ pc' = "receive"
        /\ message_length' = 0 /\ message_length_read' = 0 /\ event' = NoEvent
        /\ UNCHANGED <<stream, broker, budget, sent, answer, front, got, clean>>
    BY DEF Write, brokerVars
  <1>2. Written'
    <2>1. PICK m \in Outbound, id \in Ids :
            LET meant == IF m.qos > 0 \/ m.type = SUBSCRIBE THEN [m EXCEPT !.id = id] ELSE m
            IN  out' = [meant |-> meant, bytes |-> Encoded(meant)]
      BY Zenon DEF Write
    <2> DEFINE meant == IF m.qos > 0 \/ m.type = SUBSCRIBE THEN [m EXCEPT !.id = id] ELSE m
    <2>2. CanWrite(meant)
      BY OwnCanBeWritten
    <2>3. out' = [meant |-> meant, bytes |-> Encoded(meant)]
      BY <2>1
    <2> HIDE DEF meant
    <2> QED
      BY <2>2, <2>3 DEF Written
  <1>3. Ranges'
    BY <1>1 DEF Ranges
  <1>4. Within'
    BY <1>1, NoEventFits DEF Within
  <1>5. Connecting'
    BY <1>1 DEF Connecting, Connected
  <1>6. UnacceptedIsStale' /\ Midway'
    BY <1>1 DEF UnacceptedIsStale, Midway
  <1>7. Histories'
    <2>1. Connected /\ Connected' /\ Left = 0 /\ Left' = 0 /\ pc # "chunk" /\ pc' # "chunk"
      BY <1>1 DEF Connected, Left
    <2>2. Delivered(stream, sent, got, event, pc, 0) => Delivered(stream, sent, got, event', pc', 0)
      BY <2>1 DEF Delivered
    <2> QED
      BY <1>1, <2>1, <2>2 DEF Histories
  <1> QED
    BY <1>2, <1>3, <1>4, <1>5, <1>6, <1>7

\* Giving up the rest of a message keeps it.
LEMMA ChunkFailsKeeps ==
  ASSUME IInv, ChunkFails
  PROVE  IInv'
  <1> USE DEF IInv
  <1>1. /\ pc = "chunk" /\ pc' = "publish" /\ clean' = FALSE /\ sent' = <<>> /\ got' = <<>>
        /\ out' = Nothing
        /\ UNCHANGED <<stream, broker, budget, answer, front, message_length>>
        /\ UNCHANGED <<message_length_read, event>>
    BY DEF ChunkFails, Forget, Quiet
  <1>2. Ranges' /\ Within'
    BY <1>1 DEF Ranges, Within
  <1>3. Written'
    BY <1>1, NothingWritten DEF Written
  <1>4. Connecting'
    BY <1>1 DEF Connecting, Connected
  <1>5. UnacceptedIsStale' /\ Midway'
    BY <1>1 DEF UnacceptedIsStale, Midway
  <1>6. Histories'
    BY <1>1, EmptySeq DEF Histories
  <1> QED
    BY <1>2, <1>3, <1>4, <1>5, <1>6

\* The first event of a read is one of its bytes, and its type and the answer are
\* those the broker can read.
LEMMA AnswerFacts ==
  ASSUME NEW buf, NEW n \in Nat, n >= 1, Filled(buf, n), NEW read \in mqtt_get_id(buf, n),
         NEW reply, reply = ReplyType(mqtt_get_type(buf), mqtt_get_qos(buf)), reply # NoReply,
         NEW id \in IF reply \in {NoReply, PINGRESP} THEN {read} ELSE ChosenIds(read)
  PROVE  CanWrite(Plain(reply, id))
  <1> DEFINE type == mqtt_get_type(buf)
             qos == mqtt_get_qos(buf)
  <1>1. /\ read \in Nat /\ read <= Max16
        /\ type = PINGREQ => read = 0
    BY IdFacts
  <1>2. /\ ReplyType(type, qos) \in {NoReply, PUBACK, PUBREC, PUBREL, PUBCOMP, PINGRESP}
        /\ ReplyType(type, qos) = PINGRESP => type = PINGREQ
    BY ReplyFacts
  <1>a. reply = ReplyType(type, qos)
    OBVIOUS
  <1> HIDE DEF type, qos
  <1>3. reply \in {PUBACK, PUBREC, PUBREL, PUBCOMP, PINGRESP}
    <2>1. reply \in {NoReply, PUBACK, PUBREC, PUBREL, PUBCOMP, PINGRESP}
      BY <1>2, <1>a
    <2> QED
      BY <2>1
  <1>4. CASE reply = PINGRESP
    <2>1. id = read /\ type = PINGREQ
      BY <1>2, <1>4, <1>a
    <2> QED
      BY <1>1, <1>3, <2>1, ReplyCanBeWritten
  <1>5. CASE reply # PINGRESP
    <2>1. id \in ChosenIds(read)
      BY <1>5
    <2>2. id = read \/ id \in Ids
      BY <2>1 DEF ChosenIds
    <2>3. id \in Nat /\ id <= Max16
      BY <1>1, <2>2, InputAssumption, Max14Facts
    <2> QED
      BY <1>3, <1>5, <2>3, ReplyCanBeWritten
  <1> QED
    BY <1>4, <1>5

\* What a read that keeps the client clean makes of the message it began at.
LEMMA UnderstoodFacts ==
  ASSUME NEW m \in Arrivals, NEW n \in Nat, n >= HeaderLen(m), n <= Len(Standard(m)),
         NEW buf, Holds(buf, n, m), NEW read \in mqtt_get_id(buf, n),
         NEW reply, reply = ReplyType(mqtt_get_type(buf), mqtt_get_qos(buf)),
         NEW id \in IF reply \in {NoReply, PINGRESP} THEN {read} ELSE ChosenIds(read)
  PROVE  /\ mqtt_get_type(buf) = m.type
         /\ m.type # PUBLISH => /\ n = Len(Standard(m))
                                /\ \A e : Understood(buf, id, e) = m
         /\ m.type = PUBLISH =>
              /\ mqtt_get_total_length(buf, n) = {Len(Standard(m))}
              /\ n = Len(Standard(m)) =>
                   Understood(buf, id, FirstEvent(buf, n, Len(Standard(m)))) = m
              /\ n < Len(Standard(m)) =>
                   FirstPart(m, n, Understood(buf, id, FirstEvent(buf, n, Len(Standard(m)))),
                             FirstEvent(buf, n, Len(Standard(m))))
  <1>1. Arrives(m) /\ m \in Message
    BY ArrivalFacts DEF Arrives
  <1>2. CASE m.type # PUBLISH
    <2>1. m = Plain(m.type, m.id) /\ m.type \in {CONNACK, SUBACK, PINGRESP}
      BY <1>1, <1>2 DEF Arrives
    <2>2. Len(m.data) = 0
      BY <2>1, EmptySeq DEF Plain
    <2>3. Len(Standard(m)) \in Nat
      BY StandardBytes
    <2>4. n = Len(Standard(m))
      BY <2>2, <2>3 DEF HeaderLen
    <2>5. /\ mqtt_get_type(buf) = m.type
          /\ \A x \in mqtt_get_id(buf, n) : \A e : Understood(buf, x, e) = m
      BY <1>1, <1>2, <2>4, PlainRead
    <2>6. reply = NoReply
      BY <2>1, <2>5, ReplyFacts
    <2>7. id = read
      BY <2>6
    <2> QED
      BY <1>2, <2>4, <2>5, <2>7
  <1>3. CASE m.type = PUBLISH
    <2> DEFINE e == FirstEvent(buf, n, Len(Standard(m)))
               u == Understood(buf, id, e)
               c == SubSeq(m.data, 1, n - HeaderLen(m))
    <2>1. PublishSeen(buf, n, m)
      BY <1>1, <1>3, PublishRead
    <2>2. /\ mqtt_get_type(buf) = PUBLISH /\ mqtt_get_qos(buf) = m.qos
          /\ mqtt_get_total_length(buf, n) = {Len(Standard(m))}
          /\ mqtt_get_id(buf, n) = {m.id}
          /\ e.offset = 0 /\ e.data_len = n - HeaderLen(m) /\ e.total = Len(m.data)
          /\ u = [type |-> PUBLISH, qos |-> m.qos, id |-> id, topic |-> m.topic, data |-> c]
      BY <2>1 DEF PublishSeen
    <2> HIDE DEF e, u, c
    <2>3. read = m.id
      BY <2>2
    <2>4. id = m.id
      <3>1. CASE m.id = 0
        <4>1. m.qos = 0
          BY <1>1, <1>3, <3>1 DEF Arrives
        <4>2. reply = NoReply
          BY <2>2, <4>1, ReplyFacts
        <4> QED
          BY <2>3, <4>2
      <3>2. CASE m.id # 0
        BY <2>3, <3>2 DEF ChosenIds
      <3> QED
        BY <3>1, <3>2
    <2>5. u = [m EXCEPT !.data = c]
      <3>1. m = [type |-> m.type, qos |-> m.qos, id |-> m.id, topic |-> m.topic, data |-> m.data]
        BY <1>1, FieldFacts
      <3> QED
        BY <1>3, <2>2, <2>4, <3>1
    <2>6. ASSUME n = Len(Standard(m))
          PROVE  u = m
      <3>1. /\ HeaderLen(m) \in Nat /\ Len(m.data) \in Nat /\ m.data \in Seq(Byte)
            /\ Len(Standard(m)) = HeaderLen(m) + Len(m.data)
        BY <1>3, StandardData
      <3>2. n - HeaderLen(m) = Len(m.data)
        BY <2>6, <3>1
      <3>3. c = m.data
        BY <3>1, <3>2, SubSeqFull DEF c
      <3> QED
        BY <1>1, <2>5, <3>3 DEF Message
    <2>7. ASSUME n < Len(Standard(m))
          PROVE  FirstPart(m, n, u, e)
      BY <1>3, <2>2, <2>5, <2>7 DEF FirstPart, c
    <2> QED
      BY <1>3, <2>2, <2>6, <2>7 DEF u, e
  <1> QED
    BY <1>2, <1>3

\* A read taken for one message keeps the invariant, whatever its bytes are.
LEMMA ReceiveKeeps ==
  ASSUME IInv, pc = "receive", NEW n \in Nat, n >= 1, n <= InLen, n <= Len(stream), Receive(n),
         UNCHANGED <<broker, budget, answer>>
  PROVE  IInv'
  <1> USE DEF IInv
  <1> DEFINE buf == Taken(n)
             type == mqtt_get_type(buf)
             reply == ReplyType(type, mqtt_get_qos(buf))
             st2 == SubSeq(stream, n + 1, Len(stream))
             d == Len(got)
             m == sent[d + 1]
  <1>1. PICK total \in mqtt_get_total_length(buf, n), read \in mqtt_get_id(buf, n) :
        \E id \in IF reply \in {NoReply, PINGRESP} THEN {read} ELSE ChosenIds(read) :
          /\ DropBytes(n)
          /\ front' = FrontAfter(n)
          /\ IF reply = NoReply THEN Quiet
             ELSE out' = [meant |-> Plain(reply, id), bytes |-> Encoded(Plain(reply, id))]
          /\ IF type = PUBLISH
             THEN /\ message_length' = total
                  /\ message_length_read' = n
                  /\ event' = FirstEvent(buf, n, total)
                  /\ pc' = IF n >= total THEN "publish" ELSE "chunk"
             ELSE /\ pc' = "publish"
                  /\ UNCHANGED <<message_length, message_length_read, event>>
          /\ clean' = KeepsClean(n)
          /\ IF clean'
             THEN /\ got' = Append(got, Understood(buf, id, event'))
                  /\ UNCHANGED sent
             ELSE Forget(FALSE)
    BY Zenon DEF Receive
  <1>2. PICK id \in IF reply \in {NoReply, PINGRESP} THEN {read} ELSE ChosenIds(read) :
          /\ DropBytes(n)
          /\ front' = FrontAfter(n)
          /\ IF reply = NoReply THEN Quiet
             ELSE out' = [meant |-> Plain(reply, id), bytes |-> Encoded(Plain(reply, id))]
          /\ IF type = PUBLISH
             THEN /\ message_length' = total
                  /\ message_length_read' = n
                  /\ event' = FirstEvent(buf, n, total)
                  /\ pc' = IF n >= total THEN "publish" ELSE "chunk"
             ELSE /\ pc' = "publish"
                  /\ UNCHANGED <<message_length, message_length_read, event>>
          /\ clean' = KeepsClean(n)
          /\ IF clean'
             THEN /\ got' = Append(got, Understood(buf, id, event'))
                  /\ UNCHANGED sent
             ELSE Forget(FALSE)
    BY <1>1, Zenon
  <1>r. reply = ReplyType(mqtt_get_type(buf), mqtt_get_qos(buf)) /\ type = mqtt_get_type(buf)
        /\ total \in mqtt_get_total_length(buf, n)
    OBVIOUS
  <1> HIDE DEF buf, type, reply, st2, d, m
  <1>3. /\ stream' = st2 /\ front' = FrontAfter(n)
        /\ clean' = KeepsClean(n)
        /\ UNCHANGED <<broker, budget, answer>>
    BY <1>2 DEF DropBytes, st2
  <1>4. /\ type = PUBLISH => /\ message_length' = total /\ message_length_read' = n
                             /\ event' = FirstEvent(buf, n, total)
                             /\ n >= total => pc' = "publish"
                             /\ ~(n >= total) => pc' = "chunk"
        /\ type # PUBLISH => /\ pc' = "publish"
                             /\ UNCHANGED <<message_length, message_length_read, event>>
    BY <1>2
  <1>5. /\ clean' => got' = Append(got, Understood(buf, id, event')) /\ sent' = sent
        /\ ~clean' => got' = <<>> /\ sent' = <<>>
    BY <1>2 DEF Forget
  <1>6. /\ \A i \in 0..(n - 1) : buf[i] = stream[i + 1]
        /\ Filled(buf, n)
        /\ st2 \in Seq(Byte)
        /\ front' \in [1..4 -> Byte]
    BY <1>3, TakenFacts DEF Ranges, buf, st2
  <1>7. total \in Nat /\ Fits(FirstEvent(buf, n, total), n) /\ InLen \in Nat
    <2>1. total \in Nat
      BY <1>6, <1>r, TotalFacts
    <2> QED
      BY <1>6, <2>1, FirstEventFacts, SizeFacts
  <1>8. pc' \in {"publish", "chunk"} /\ message_length' \in Nat /\ message_length_read' \in Nat
    BY <1>4, <1>7 DEF Ranges
  <1>9. clean' \in BOOLEAN
    BY <1>3 DEF KeepsClean, Ranges
  <1>10. Ranges'
    BY <1>3, <1>6, <1>8, <1>9 DEF Ranges
  <1>11. Within'
    <2>1. CASE type = PUBLISH
      <3>1. event' = FirstEvent(buf, n, total)
        BY <1>4, <2>1
      <3>2. Least(InLen, message_length_read') = n
        BY <1>4, <1>7, <2>1 DEF Least
      <3> QED
        BY <1>7, <3>1, <3>2 DEF Within
    <2>2. CASE type # PUBLISH
      BY <1>4, <2>2 DEF Within
    <2> QED
      BY <2>1, <2>2
  <1>12. Written'
    <2>1. CASE reply = NoReply
      BY <1>2, <2>1, NothingWritten DEF Written, Quiet
    <2>2. CASE reply # NoReply
      <3>1. out' = [meant |-> Plain(reply, id), bytes |-> Encoded(Plain(reply, id))]
        BY <1>2, <2>2
      <3>2. CanWrite(Plain(reply, id))
        BY <1>2, <1>6, <1>r, <2>2, AnswerFacts
      <3> QED
        BY <3>1, <3>2 DEF Written
    <2> QED
      BY <2>1, <2>2
  <1>13. Connecting'
    BY <1>3, <1>8 DEF Connecting, Connected
  <1>14. UnacceptedIsStale'
    BY <1>3 DEF UnacceptedIsStale
  <1>15. Midway'
    BY <1>4, <1>7 DEF Midway
  <1>16. Histories'
    <2>1. CASE ~clean'
      BY <1>5, <2>1, EmptySeq DEF Histories
    <2>2. CASE clean'
      <3> DEFINE t == Len(Standard(m))
                 u == Understood(buf, id, event')
                 e == FirstEvent(buf, n, total)
      <3>1. clean /\ n >= HeaderLen(m) /\ n <= t
        BY <1>3, <2>2 DEF KeepsClean, m, d
      <3>2. Connected /\ Left = 0 /\ pc # "chunk"
        BY DEF Connected, Left
      <3>3. /\ Delivered(stream, sent, got, event, pc, 0)
            /\ sent \in Seq(Arrivals) /\ got \in Seq(Message)
        BY <3>1, <3>2 DEF Histories
      <3>4. /\ d \in Nat /\ Len(sent) \in Nat /\ d <= Len(sent)
            /\ Laid(stream, sent, d, 0)
        BY <3>3, LenProperties DEF Delivered, d
      <3>5. /\ d = Len(sent) => Len(stream) = 0
            /\ d < Len(sent) => \A i \in 1..t : stream[i] = Standard(m)[i]
        BY <3>4, LaidHead DEF Ranges, m
      <3>6. d < Len(sent)
        BY <3>4, <3>5
      <3>7. m \in Arrivals
        <4>1. d + 1 \in 1..Len(sent)
          BY <3>4, <3>6
        <4> QED
          BY <3>3, <4>1, ElementOfSeq DEF m
      <3>8. t \in Nat
        BY <3>7, StandardBytes
      <3>9. Holds(buf, n, m)
        <4>1. ASSUME NEW i \in 0..(n - 1)
              PROVE  buf[i] = Standard(m)[i + 1]
          <5>1. i + 1 \in 1..t
            <6> HIDE DEF t
            <6> QED
              BY <3>1, <3>8
          <5> QED
            BY <1>6, <3>5, <3>6, <5>1
        <4> QED
          BY <4>1 DEF Holds
      <3>10. /\ type = m.type
             /\ m.type # PUBLISH => n = t /\ \A x : Understood(buf, id, x) = m
             /\ m.type = PUBLISH => /\ total = t
                                    /\ n = t => Understood(buf, id, e) = m
                                    /\ n < t => FirstPart(m, n, Understood(buf, id, e), e)
        <4> DEFINE f == FirstEvent(buf, n, t)
        <4>1. /\ type = m.type
              /\ m.type # PUBLISH => n = t /\ \A x : Understood(buf, id, x) = m
              /\ m.type = PUBLISH => /\ mqtt_get_total_length(buf, n) = {t}
                                     /\ n = t => Understood(buf, id, f) = m
                                     /\ n < t => FirstPart(m, n, Understood(buf, id, f), f)
          BY <1>r, <3>1, <3>7, <3>9, UnderstoodFacts
        <4>2. m.type = PUBLISH => total = t
          BY <1>r, <4>1
        <4>3. m.type = PUBLISH => e = f
          BY <4>2
        <4> HIDE DEF e, f
        <4> QED
          BY <4>1, <4>2, <4>3
      <3> HIDE DEF t, u, e
      <3>11. m = sent[Len(got) + 1] /\ Len(got) < Len(sent)
        BY <3>6 DEF m, d
      <3>12. got' = Append(got, u) /\ sent' = sent /\ stream' = SubSeq(stream, n + 1, Len(stream))
        BY <1>3, <1>5, <2>2 DEF u, st2
      <3>13. Connected'
        BY <1>8 DEF Connected
      <3>14. CASE n = t
        <4>1. u = m
          BY <1>4, <3>10, <3>14 DEF u, e
        <4>2. pc' = "publish"
          BY <1>4, <3>8, <3>10, <3>14
        <4>3. Left' = 0 /\ pc' # "chunk"
          BY <4>2 DEF Left
        <4>4. /\ Append(got, sent[Len(got) + 1]) \in Seq(Message)
              /\ Delivered(SubSeq(stream, n + 1, Len(stream)), sent,
                           Append(got, sent[Len(got) + 1]), event', pc', 0)
          BY <3>2, <3>3, <3>11, <3>14, <4>3, DeliveredWhole DEF Ranges, t
        <4>5. got' \in Seq(Message) /\ Delivered(stream', sent', got', event', pc', Left')
          BY <3>11, <3>12, <4>1, <4>3, <4>4
        <4> QED
          BY <2>2, <3>3, <3>12, <3>13, <4>5 DEF Histories
      <3>15. CASE n # t
        <4>1. n < t
          BY <3>1, <3>8, <3>15
        <4>2. type = PUBLISH /\ total = t /\ event' = e
          BY <1>4, <3>10, <3>15 DEF e
        <4>3. FirstPart(m, n, u, event')
          BY <3>10, <4>1, <4>2 DEF u
        <4>4. pc' = "chunk" /\ message_length' = t /\ message_length_read' = n
          BY <1>4, <3>8, <4>1, <4>2
        <4>5. Left' = t - n
          BY <4>4 DEF Left
        <4>6. /\ Append(got, u) \in Seq(Message)
              /\ Delivered(SubSeq(stream, n + 1, Len(stream)), sent, Append(got, u), event',
                           "chunk", Len(Standard(sent[Len(got) + 1])) - n)
          BY <3>2, <3>3, <3>11, <4>3, DeliveredPart DEF Ranges
        <4>7. got' \in Seq(Message) /\ Delivered(stream', sent', got', event', pc', Left')
          BY <3>11, <3>12, <4>4, <4>5, <4>6 DEF t
        <4> QED
          BY <2>2, <3>3, <3>12, <3>13, <4>7 DEF Histories
      <3> QED
        BY <3>14, <3>15
    <2> QED
      BY <2>1, <2>2
  <1> QED
    BY <1>10, <1>11, <1>12, <1>13, <1>14, <1>15, <1>16

\* So does a pass of mqtt_process_receive, with a read or a timeout.
LEMMA ProcessReceiveKeeps ==
  ASSUME IInv, ProcessReceive
  PROVE  IInv'
  <1> USE DEF IInv
  <1>1. pc = "receive" /\ UNCHANGED <<broker, budget, answer>>
    BY DEF ProcessReceive
  <1>2. PICK n \in ReadSizes(InLen) :
          IF n = 0 THEN pc' = "publish" /\ Quiet /\ UNCHANGED <<stream, sent, readVars>>
                   ELSE Receive(n)
    BY Zenon DEF ProcessReceive
  <1>3. n \in Nat /\ n <= InLen /\ n <= Len(stream)
    BY SizeFacts, ReadSizeFacts DEF Ranges
  <1>4. CASE n = 0
    <2>1. /\ pc' = "publish" /\ out' = Nothing
          /\ UNCHANGED <<stream, sent, broker, budget, answer, front, message_length>>
          /\ UNCHANGED <<message_length_read, event, got, clean>>
      BY <1>1, <1>2, <1>4 DEF Quiet, readVars
    <2>2. Ranges' /\ Within'
      BY <2>1 DEF Ranges, Within
    <2>3. Written'
      BY <2>1, NothingWritten DEF Written
    <2>4. Connecting'
      BY <1>1, <2>1 DEF Connecting, Connected
    <2>5. UnacceptedIsStale' /\ Midway'
      BY <1>1, <2>1 DEF UnacceptedIsStale, Midway
    <2>6. Histories'
      <3>1. Connected /\ Connected' /\ Left = 0 /\ Left' = 0 /\ pc # "chunk" /\ pc' # "chunk"
        BY <1>1, <2>1 DEF Connected, Left
      <3>2. Delivered(stream, sent, got, event, pc, 0)
              => Delivered(stream, sent, got, event, pc', 0)
        BY <3>1 DEF Delivered
      <3> QED
        BY <2>1, <3>1, <3>2 DEF Histories
    <2> QED
      BY <2>2, <2>3, <2>4, <2>5, <2>6
  <1>5. CASE n # 0
    <2>1. n >= 1 /\ Receive(n)
      BY <1>2, <1>3, <1>5
    <2> HIDE DEF IInv
    <2> QED
      BY <1>1, <1>3, <2>1, ReceiveKeeps
  <1> QED
    BY <1>4, <1>5

\* So does the next piece of a message.
LEMMA ChunkKeeps ==
  ASSUME IInv, Chunk
  PROVE  IInv'
  <1> USE DEF IInv
  <1> DEFINE left == message_length - message_length_read
  <1>1. /\ pc = "chunk"
        /\ pc' = IF message_length_read' >= message_length THEN "publish" ELSE "chunk"
        /\ out' = Nothing
        /\ UNCHANGED <<broker, budget, sent, answer, message_length, clean>>
    BY DEF Chunk, Quiet, brokerVars
  <1>2. PICK n \in ReadSizes(ChunkSize) :
         /\ DropBytes(n)
         /\ front' = FrontAfter(n)
         /\ message_length_read' = message_length_read + n
         /\ event' = [event EXCEPT !.data = 0, !.data_len = n,
                                   !.offset = event.offset + event.data_len]
         /\ got' = IF clean THEN [got EXCEPT ![Len(got)].data = @ \o Bytes(Taken(n), 0, n)]
                            ELSE got
    BY Zenon DEF Chunk
  <1>3. message_length \in Nat /\ message_length_read \in Nat /\ left \in Nat
    BY <1>1 DEF Ranges, Midway
  <1>4. InLen \in Nat /\ ChunkSize \in Nat /\ ChunkSize <= left /\ ChunkSize <= InLen
    BY <1>3, SizeFacts DEF ChunkSize, Least
  <1>5. n \in Nat /\ n <= left /\ n <= InLen /\ n <= Len(stream)
    <2>1. n \in Nat /\ n <= ChunkSize /\ n <= Len(stream)
      BY <1>4, ReadSizeFacts DEF Ranges
    <2> QED
      BY <1>3, <1>4, <2>1
  <1>6. /\ stream' = SubSeq(stream, n + 1, Len(stream)) /\ stream' \in Seq(Byte)
        /\ front' \in [1..4 -> Byte]
        /\ \A i \in 0..(n - 1) : Taken(n)[i] = stream[i + 1]
    BY <1>2, <1>5, TakenFacts DEF Ranges, DropBytes
  <1>7. message_length_read' \in Nat /\ pc' \in {"publish", "chunk"}
    BY <1>1, <1>2, <1>3, <1>5
  <1>8. Ranges'
    BY <1>1, <1>6, <1>7 DEF Ranges
  <1>9. event \in Events
    BY DEF Within, Fits
  <1>10. /\ event' \in Events /\ Follows(event', event, n)
         /\ event'.topic = event.topic /\ event'.topic_len = event.topic_len /\ event'.data = 0
    <2> DEFINE o == event.offset + event.data_len
    <2>1. o \in Nat
      BY <1>9 DEF Events
    <2>2. event' = [event EXCEPT !.data = 0, !.data_len = n, !.offset = o]
      BY <1>2
    <2> HIDE DEF o
    <2>3. event' \in Events
      BY <1>5, <1>9, <2>1, <2>2 DEF Events
    <2>4. /\ event'.offset = o /\ event'.data_len = n /\ event'.total = event.total
          /\ event'.topic = event.topic /\ event'.topic_len = event.topic_len /\ event'.data = 0
      BY <1>9, <2>2 DEF Events
    <2> QED
      BY <2>3, <2>4 DEF Follows, o
  <1>11. Within'
    <2> DEFINE t == event.topic
               tl == event.topic_len
               old == Least(InLen, message_length_read)
               new == Least(InLen, message_length_read + n)
    <2>1. (t = NULL \/ t + tl <= old) /\ t \in Nat \cup {NULL} /\ tl \in Nat
      BY <1>9 DEF Within, Fits, Events
    <2>2. old \in Nat /\ new \in Nat /\ old <= new /\ n <= new
      BY <1>3, <1>4, <1>5 DEF Least
    <2> HIDE DEF t, tl, old, new
    <2>3. t = NULL \/ t + tl <= new
      BY <2>1, <2>2
    <2>4. /\ event' \in Events /\ event'.topic = t /\ event'.topic_len = tl
          /\ event'.data = 0 /\ event'.data_len = n
      BY <1>10 DEF Follows, t, tl
    <2>5. 0 # NULL /\ 0 + n <= new
      BY <1>5, <2>2 DEF NULL
    <2>6. Fits(event', new)
      BY <2>3, <2>4, <2>5 DEF Fits
    <2>7. Least(InLen, message_length_read') = new
      BY <1>2 DEF new
    <2> QED
      BY <2>6, <2>7 DEF Within
  <1>12. Written'
    BY <1>1, NothingWritten DEF Written
  <1>13. Connecting'
    BY <1>1, <1>7 DEF Connecting, Connected
  <1>14. UnacceptedIsStale'
    BY <1>1 DEF UnacceptedIsStale
  <1>15. Midway'
    BY <1>1, <1>3, <1>7 DEF Midway
  <1>16. Histories'
    <2>1. Connected /\ Connected' /\ Left = left
      BY <1>1, <1>7 DEF Connected, Left
    <2>2. CASE ~clean
      BY <1>1, <1>2, <2>1, <2>2 DEF Histories
    <2>3. CASE clean
      <3> DEFINE gt2 == [got EXCEPT ![Len(got)].data = @ \o Bytes(Taken(n), 0, n)]
      <3>1. /\ Delivered(stream, sent, got, event, "chunk", left)
            /\ sent \in Seq(Arrivals) /\ got \in Seq(Message)
        BY <1>1, <2>1, <2>3 DEF Histories
      <3>2. Begins(Taken(n), n, stream, 0)
        <4>1. ASSUME NEW j \in 1..n
              PROVE  Taken(n)[j - 1] = stream[0 + j]
          <5>1. j - 1 \in 0..(n - 1) /\ (j - 1) + 1 = 0 + j
            BY <1>5
          <5> QED
            BY <1>6, <5>1
        <4> QED
          BY <4>1 DEF Begins
      <3>3. pc' = "chunk" \/ n = left
        BY <1>1, <1>2, <1>3, <1>5
      <3> HIDE DEF left
      <3>4. /\ gt2 \in Seq(Message)
            /\ Delivered(SubSeq(stream, n + 1, Len(stream)), sent, gt2, event', pc', left - n)
        BY <1>5, <1>10, <3>1, <3>2, <3>3, DeliveredMore DEF Ranges
      <3>5. got' = gt2
        BY <1>2, <2>3
      <3>6. Left' = left - n
        <4>1. message_length' = message_length /\ message_length_read' = message_length_read + n
          BY <1>1, <1>2
        <4>2. pc' = IF message_length_read + n >= message_length THEN "publish" ELSE "chunk"
          BY <1>1, <4>1
        <4>3. left = message_length - message_length_read
          BY DEF left
        <4>4. CASE message_length_read + n >= message_length
          <5>1. Left' = 0
            BY <4>2, <4>4 DEF Left
          <5> QED
            BY <1>3, <1>5, <4>3, <4>4, <5>1
        <4>5. CASE ~(message_length_read + n >= message_length)
          <5>1. Left' = message_length - (message_length_read + n)
            BY <4>1, <4>2, <4>5 DEF Left
          <5> QED
            BY <1>3, <1>5, <4>3, <5>1
        <4> QED
          BY <4>4, <4>5
      <3> HIDE DEF gt2
      <3> QED
        BY <1>1, <1>6, <2>1, <2>3, <3>1, <3>4, <3>5, <3>6 DEF Histories
    <2> QED
      BY <2>2, <2>3
  <1> QED
    BY <1>8, <1>11, <1>12, <1>13, <1>14, <1>15, <1>16

\* A stuttering step keeps the invariant.
LEMMA StutterKeeps ==
  ASSUME IInv, UNCHANGED vars
  PROVE  IInv'
  <1>1. /\ UNCHANGED <<stream, broker, budget, sent, answer, front, message_length>>
        /\ UNCHANGED <<message_length_read, event, got, clean, pc, out>>
    BY DEF vars, brokerVars, readVars
  <1>2. Ranges' /\ Within' /\ Written'
    BY <1>1 DEF IInv, Ranges, Within, Written
  <1>3. Connecting' /\ UnacceptedIsStale' /\ Midway'
    BY <1>1 DEF IInv, Connecting, UnacceptedIsStale, Midway, Connected
  <1>4. Histories'
    <2>1. Left' = Left /\ Connected' = Connected
      BY <1>1 DEF Left, Connected
    <2> QED
      BY <1>1, <2>1 DEF IInv, Histories
  <1> QED
    BY <1>2, <1>3, <1>4 DEF IInv

\* The invariant holds in every state of every behaviour.
THEOREM Inductive == Spec => []IInv
  <1>1. Init => IInv
    BY InitHolds
  <1>2. IInv /\ [Next]_vars => IInv'
    <2> SUFFICES ASSUME IInv, [Next]_vars
                 PROVE  IInv'
      OBVIOUS
    <2>1. CASE BrokerAnswers
      BY <2>1, BrokerAnswersKeeps
    <2>2. ASSUME NEW m \in Messages, BrokerSends(m)
          PROVE  IInv'
      BY <2>2, BrokerSendsKeeps
    <2>3. CASE Connect
      BY <2>3, ConnectKeeps
    <2>4. CASE ReadConnack
      BY <2>4, ReadConnackKeeps
    <2>5. CASE ConnectionLost
      BY <2>5, ConnectionLostKeeps
    <2>6. CASE Write
      BY <2>6, WriteKeeps
    <2>7. CASE ProcessReceive
      BY <2>7, ProcessReceiveKeeps
    <2>8. CASE Chunk
      BY <2>8, ChunkKeeps
    <2>9. CASE ChunkFails
      BY <2>9, ChunkFailsKeeps
    <2>10. CASE UNCHANGED vars
      BY <2>10, StutterKeeps
    <2> QED
      BY <2>1, <2>2, <2>3, <2>4, <2>5, <2>6, <2>7, <2>8, <2>9, <2>10 DEF Next, Broker, Client
  <1> QED
    BY <1>1, <1>2, PTL DEF Spec
-----------------------------------------------------------------------------
(* The properties.                                                         *)

\* Every variable stays in its range: bytes and ids have their width, the lengths
\* and the offset of an event are never negative whatever header was read, and
\* its total is an int (mqtt_msg.c:136-228, mqtt_client.c:519-539).
THEOREM TypeCorrect == Spec => []TypeOK
  <1>1. IInv => TypeOK
    <2> SUFFICES ASSUME IInv
                 PROVE  TypeOK
      OBVIOUS
    <2>1. out \in Outs
      BY OutTyped DEF IInv
    <2>2. sent \in Seq(Message)
      <3>1. Arrivals \subseteq Message
        BY ArrivalFacts DEF Arrives
      <3> QED
        BY <3>1, SeqMonotonic DEF IInv, Histories
    <2> QED
      BY <2>1, <2>2 DEF IInv, Ranges, Within, Fits, Histories, TypeOK
  <1> QED
    BY <1>1, Inductive, PTL

\* Whatever bytes are taken for a header, and whatever comes after it, a topic or
\* data that are not NULL end in the in buffer and among the bytes the message
\* was read into it with, and data that are NULL have no length; nothing is said
\* of the length of a topic that is NULL (mqtt_msg.c:155-228,
\* mqtt_client.c:510-559).
THEOREM EventsWithinBuffer == Spec => []WithinBuffer
  <1>1. IInv => WithinBuffer
    BY DEF IInv, Within, Fits, WithinBuffer
  <1> QED
    BY <1>1, Inductive, PTL

\* A connection the broker has not accepted is taken for one it has only where its
\* answer did not come in time, or not in one piece, and the return code that was
\* looked at is a byte the in buffer held before (mqtt_client.c:250-267).
THEOREM UnacceptedOnlyStale == Spec => []UnacceptedIsStale
  <1>1. IInv => UnacceptedIsStale
    BY DEF IInv
  <1> QED
    BY <1>1, Inductive, PTL

\* Whatever the client writes announces its own length and is read by the broker
\* as it was meant; what is not written would not have fitted (mqtt_msg.c:63-127,
\* 313-580).
THEOREM BrokerDecodes == Spec => []OutboundDecodes
  <1>1. IInv => OutboundDecodes
    <2> SUFFICES ASSUME IInv
                 PROVE  OutboundDecodes
      OBVIOUS
    <2>1. Decodes(out.bytes, out.meant)
      <3>1. ASSUME NEW info \in Infos, out = [meant |-> info, bytes |-> mqtt_msg_connect(info)]
            PROVE  Decodes(out.bytes, out.meant)
        BY <3>1, ConnectDecodes
      <3>2. ASSUME NEW m, CanWrite(m), out = [meant |-> m, bytes |-> Encoded(m)]
            PROVE  Decodes(out.bytes, out.meant)
        BY <3>2, EncodedDecodes
      <3> QED
        BY <3>1, <3>2 DEF IInv, Written
    <2> QED
      BY <2>1 DEF Decodes, OutboundDecodes, FixedHeader
  <1> QED
    BY <1>1, Inductive, PTL

\* A part of some data that is not all of them comes before them.
LEMMA StrictPart ==
  ASSUME NEW s \in Seq(Byte), NEW i \in Nat, i < Len(s)
  PROVE  IsStrictPrefix(SubSeq(s, 1, i), s) /\ Len(SubSeq(s, 1, i)) = i
  <1> DEFINE c == SubSeq(s, 1, i)
  <1>1. Len(s) \in Nat
    BY LenProperties
  <1>2. 1 \in Nat /\ 1 <= i + 1 /\ i <= Len(s) /\ i - 1 + 1 = i
    BY <1>1
  <1>3. c \in Seq(Byte) /\ Len(c) = i
    <2>1. c \in Seq(Byte) /\ Len(c) = i - 1 + 1
      BY <1>2, PartFacts
    <2> QED
      BY <1>2, <2>1
  <1>4. SubSeq(c, 1, i) = c
    BY <1>3, SubSeqFull
  <1> HIDE DEF c
  <1>5. SubSeq(c, 1, Len(c)) = SubSeq(s, 1, Len(c)) /\ c # s /\ Len(c) <= Len(s)
    BY <1>1, <1>2, <1>3, <1>4 DEF c
  <1>6. IsStrictPrefix(c, s)
    BY <1>5 DEF IsStrictPrefix, IsPrefix
  <1> QED
    BY <1>3, <1>6 DEF c

\* A client whose reads began at the messages takes from the bytes exactly the
\* messages the broker sent, in order, each PUBLISH with its topic, all of its data
\* and the id that is acknowledged, in however many pieces the data comes
\* (mqtt_client.c:510-559, 625-645).
THEOREM DeliveredInOrder == Spec => []CleanDelivery
  <1>1. IInv => CleanDelivery
    <2> SUFFICES ASSUME IInv, clean
                 PROVE  /\ Len(got) <= Len(sent)
                        /\ \A k \in 1..Len(got) :
                             IF k = Len(got) /\ pc = "chunk"
                             THEN /\ [Latest EXCEPT !.data = <<>>] = [sent[k] EXCEPT !.data = <<>>]
                                  /\ IsStrictPrefix(Latest.data, sent[k].data)
                                  /\ event.offset + event.data_len = Len(Latest.data)
                                  /\ event.total = Len(sent[k].data)
                             ELSE got[k] = sent[k]
      BY DEF CleanDelivery
    <2>1. CASE ~Connected
      <3>1. sent = <<>> /\ got = <<>>
        BY <2>1 DEF IInv, Histories
      <3>2. Len(got) = 0 /\ Len(sent) = 0
        BY <3>1
      <3> QED
        BY <3>2
    <2>2. CASE Connected
      <3>1. /\ Delivered(stream, sent, got, event, pc, Left)
            /\ sent \in Seq(Arrivals) /\ got \in Seq(Message)
        BY <2>2 DEF IInv, Histories
      <3>2. /\ Len(got) <= Len(sent)
            /\ \A k \in 1..Len(got) : (k = Len(got) /\ pc = "chunk") \/ got[k] = sent[k]
            /\ pc = "chunk" => /\ Len(got) >= 1
                               /\ HalfTaken(stream, sent[Len(got)], got[Len(got)], Left,
                                            event.offset + event.data_len, event.total)
        BY <3>1 DEF Delivered
      <3>3. Len(got) \in Nat /\ Len(sent) \in Nat
        BY <3>1, LenProperties
      <3>4. ASSUME pc = "chunk"
            PROVE  LET m == sent[Len(got)]
                   IN  /\ [Latest EXCEPT !.data = <<>>] = [m EXCEPT !.data = <<>>]
                       /\ IsStrictPrefix(Latest.data, m.data)
                       /\ event.offset + event.data_len = Len(Latest.data)
                       /\ event.total = Len(m.data)
        <4> DEFINE m == sent[Len(got)]
                   i == Len(m.data) - Left
                   c == SubSeq(m.data, 1, i)
        <4>1. m \in Message
          <5>1. Len(got) \in 1..Len(sent)
            BY <3>2, <3>3, <3>4
          <5>2. m \in Arrivals
            BY <3>1, <5>1, ElementOfSeq
          <5> QED
            BY <5>2, ArrivalFacts DEF Arrives
        <4>2. m.data \in Seq(Byte) /\ Len(m.data) \in Nat
          BY <4>1, FieldFacts, LenProperties
        <4>3. Left \in Nat /\ Left > 0
          BY <3>4 DEF IInv, Midway, Ranges, Left
        <4>4. /\ Left <= Len(m.data) /\ Latest = [m EXCEPT !.data = c]
              /\ event.offset + event.data_len = i /\ event.total = Len(m.data)
          BY <3>2, <3>4 DEF HalfTaken, Latest
        <4> HIDE DEF m
        <4>5. i \in Nat /\ i < Len(m.data)
          BY <4>2, <4>3, <4>4
        <4> HIDE DEF i
        <4>6. IsStrictPrefix(c, m.data) /\ Len(c) = i
          BY <4>2, <4>5, StrictPart
        <4> HIDE DEF c
        <4>7. Latest.data = c /\ [Latest EXCEPT !.data = <<>>] = [m EXCEPT !.data = <<>>]
          BY <4>1, <4>4 DEF Message
        <4> QED
          BY <4>4, <4>6, <4>7 DEF m
      <3> QED
        BY <3>2, <3>4
    <2> QED
      BY <2>1, <2>2
  <1> QED
    BY <1>1, Inductive, PTL
=============================================================================
