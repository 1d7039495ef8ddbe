-------------------------------- MODULE Wire --------------------------------
(***************************************************************************)
(* MQTT on the wire: the codec of components/lib/mqtt_msg.c and the parts  *)
(* of mqtt_client.c that use it byte by byte, esp_mqtt_connect,            *)
(* mqtt_process_receive and deliver_publish.                               *)
(*                                                                         *)
(* TCP hands the client the bytes of the broker in pieces of any size.     *)
(* The client takes whatever one read returns for one message, and only    *)
(* reads on for a PUBLISH whose header announces more.  `clean' remembers  *)
(* whether every read so far began at a message, held its header and did   *)
(* not pass its end; what holds without it holds for any bytes.            *)
(*                                                                         *)
(* The client writes one message and reads once in every pass of its loop. *)
(* A byte is a number below 256, an offset counts from 0 as in C.          *)
(***************************************************************************)
EXTENDS Integers, Sequences, SequencesExt

CONSTANTS
    InLen,          \* in_buffer_length: MQTT_BUFFER_SIZE_BYTE in the code
    OutLen,         \* out_buffer_length: the same
    Word,           \* 2^32: the numbers of a uint32_t; an int holds half of them
    Messages,       \* what the broker may send to this client
    Outbound,       \* what the client may write while connected
    Infos,          \* the connect_info it may be configured with
    Garbage,        \* what malloc may have left at the start of the in buffer
    Ids,            \* the message ids platform_random may draw
    StaleIds,       \* the ids that what an earlier read left behind may come to
    Overlong,       \* what a length of five bytes or more may come to
    Pieces,         \* bound: how many bytes a read may return, when there are more
    MaxMessages     \* bound: messages the broker sends

Byte == 0..255

\* The numbers of the message types (mqtt_msg.h).
CONNECT == 1
CONNACK == 2
PUBLISH == 3
PUBACK == 4
PUBREC == 5
PUBREL == 6
PUBCOMP == 7
SUBSCRIBE == 8
SUBACK == 9
UNSUBACK == 11
PINGREQ == 12
PINGRESP == 13

\* The largest number of 16 bits.
Max16 == 65535

Message == [type : 1..14, qos : 0..2, id : 0..Max16, topic : Seq(Byte), data : Seq(Byte)]

\* A message with an id and nothing else that the client looks at.
Plain(type, id) == [type |-> type, qos |-> 0, id |-> id, topic |-> <<>>, data |-> <<>>]

\* The two bytes of a 16-bit number, and a string with its length before it.
Short(n) == <<n \div 256, n % 256>>
Str(s) == Short(Len(s)) \o s
-----------------------------------------------------------------------------
\* The broker's side, as the MQTT standard has it.

StandardLength(n) ==
    LET bytes == CHOOSE k \in 1..4 : n < 128^k /\ (k = 1 \/ n >= 128^(k - 1))
    IN  [i \in 1..bytes |-> ((n \div 128^(i - 1)) % 128) + IF i < bytes THEN 128 ELSE 0]

IdIf(m) == IF m.qos > 0 THEN Short(m.id) ELSE <<>>

StandardBody(m) ==
    CASE m.type = PUBLISH -> Str(m.topic) \o IdIf(m) \o m.data
      [] m.type = CONNACK -> <<0, m.id>>
      [] m.type = SUBACK -> Short(m.id) \o <<1>>
      [] m.type = PINGRESP -> <<>>

Standard(m) == <<m.type * 16 + m.qos * 2>> \o StandardLength(Len(StandardBody(m)))
               \o StandardBody(m)

\* What stands before the data of a PUBLISH.
HeaderLen(m) == Len(Standard(m)) - Len(m.data)

\* What the standard asks of a message: a topic of one to 65535 bytes where there
\* is one, and nothing but an id where there is none.
Regular(m) ==
    IF m.type \in {PUBLISH, SUBSCRIBE} THEN Len(m.topic) \in 1..Max16
    ELSE m = Plain(m.type, m.id)

\* What the broker sends: an id just where there is something to acknowledge, a
\* length that four bytes can write, and a header that fits the in buffer.
Sendable(m) ==
    /\ Regular(m)
    /\ m.type \in {PUBLISH, SUBACK, PINGRESP}
    /\ m.type = PUBLISH => (m.id = 0 <=> m.qos = 0)
    /\ m.type = PINGRESP => m.id = 0
    /\ Len(StandardBody(m)) < 128^4 /\ 5 + Len(StandardBody(m)) < Word \div 2
    /\ HeaderLen(m) < InLen

\* What the client writes of itself; it draws the ids as it does.
Writable(m) ==
    /\ Regular(m)
    /\ m.type \in {PUBLISH, SUBSCRIBE, PUBACK, PUBREC, PUBREL, PUBCOMP, PINGREQ}
    /\ m.type = SUBSCRIBE => m.qos = 0
    /\ m.type = PINGREQ \/ (m.type = PUBLISH /\ m.qos = 0) => m.id = 0

ConnectInfo == [client : Seq(Byte), clean : BOOLEAN, keepalive : 0..Max16,
                username : Seq(Byte), password : Seq(Byte)]

\* The bytes of a CONNECT: its first ten, and the strings that are not empty.
ConnectSize(info) ==
    10 + 2 + Len(info.client) + (IF info.username # <<>> THEN 2 + Len(info.username) ELSE 0)
       + (IF info.password # <<>> THEN 2 + Len(info.password) ELSE 0)

ASSUME SizeAssumption ==
    /\ InLen \in Nat /\ InLen >= 4
    /\ OutLen \in Nat /\ OutLen <= 16386
    /\ Word \in Nat /\ Word > OutLen /\ Word % 2 = 0
    /\ MaxMessages \in Nat

ASSUME InputAssumption ==
    /\ Ids \subseteq 1..(Max16 - 1) /\ Ids # {}
    /\ StaleIds \subseteq 0..Max16 /\ StaleIds # {}
    /\ Overlong \subseteq 0..(Word - 1) /\ Overlong # {}
    /\ Garbage \subseteq [1..4 -> Byte]
    /\ Pieces \subseteq Nat \ {0}

ASSUME MessageAssumption ==
    /\ Messages \subseteq Message /\ \A m \in Messages : Sendable(m)
    /\ Outbound \subseteq Message /\ \A m \in Outbound : Writable(m)
    /\ Infos \subseteq ConnectInfo
    /\ \A info \in Infos : info.client # <<>> /\ 3 + ConnectSize(info) <= OutLen
-----------------------------------------------------------------------------
\* mqtt_msg.c: reading.  buf is the in buffer, len how much of it counts.

mqtt_get_type(buf) == buf[0] \div 16
mqtt_get_qos(buf) == (buf[0] \div 2) % 4

\* Does byte i end the remaining length.
EndsLength(buf, len, i) ==
    /\ i \in 1..(len - 1)
    /\ buf[i] < 128
    /\ \A j \in 1..(i - 1) : buf[j] >= 128

\* i after the loop over the remaining length.
AfterLength(buf, len) ==
    IF \E i \in 1..(len - 1) : EndsLength(buf, len, i)
    THEN 1 + CHOOSE i \in 1..(len - 1) : EndsLength(buf, len, i)
    ELSE IF len > 1 THEN len ELSE 1

LengthPart(buf, len, i) ==
    IF i < AfterLength(buf, len) THEN (buf[i] % 128) * 128^(i - 1) ELSE 0

\* totlen, of a remaining length of at most four bytes.
RemainingLength(buf, len) ==
    LengthPart(buf, len, 1) + LengthPart(buf, len, 2) + LengthPart(buf, len, 3)
    + LengthPart(buf, len, 4)

\* The loop takes in any number of bytes, but from the fifth on the shift leaves
\* the type, and what that comes to is undefined.
mqtt_get_total_length(buf, len) ==
    IF AfterLength(buf, len) <= 5 THEN {RemainingLength(buf, len) + AfterLength(buf, len)}
    ELSE Overlong

\* A number of 32 bits taken for an int.
Signed(n) == IF n % Word < Word \div 2 THEN n % Word ELSE (n % Word) - Word

\* The length of the topic, and where the topic begins.
TopicLen(buf, len) == buf[AfterLength(buf, len)] * 256 + buf[AfterLength(buf, len) + 1]
TopicAt(buf, len) == AfterLength(buf, len) + 2

\* NULL, which is no offset into the buffer.
NULL == -1

\* A plausible slip: a topic that does not end in the buffer is handed out.
TopicUnchecked(buf, len) ==
    IF TopicAt(buf, len) >= len
    THEN [at |-> NULL, len |-> len]
    ELSE [at |-> TopicAt(buf, len), len |-> TopicLen(buf, len)]

\* Where NULL is returned *length keeps the value it came with, the number of
\* bytes that were read.
mqtt_get_publish_topic(buf, len) ==
    IF \/ TopicAt(buf, len) >= len
       \/ TopicAt(buf, len) + TopicLen(buf, len) > len
    THEN [at |-> NULL, len |-> len]
    ELSE [at |-> TopicAt(buf, len), len |-> TopicLen(buf, len)]

\* Where the bytes after the topic begin, and those after the id.
AfterTopic(buf, len) == TopicAt(buf, len) + TopicLen(buf, len)
DataAt(buf, len) == AfterTopic(buf, len) + IF mqtt_get_qos(buf) > 0 THEN 2 ELSE 0

NoTopicFits(buf, len) ==
    \/ TopicAt(buf, len) >= len
    \/ AfterTopic(buf, len) >= len

Least(a, b) == IF a < b THEN a ELSE b

\* A plausible slip: a message that ends before its data begin is not noticed.
DataUnchecked(buf, len, total) ==
    IF \/ NoTopicFits(buf, len)
       \/ mqtt_get_qos(buf) > 0 /\ DataAt(buf, len) >= len
    THEN [at |-> NULL, len |-> 0]
    ELSE [at |-> DataAt(buf, len), len |-> Least(Signed(total), len) - DataAt(buf, len)]

\* The function adds up the length once more, into an int.
mqtt_get_publish_data(buf, len, total) ==
    IF \/ NoTopicFits(buf, len)
       \/ mqtt_get_qos(buf) > 0 /\ DataAt(buf, len) >= len
       \/ Signed(total) < DataAt(buf, len)
    THEN [at |-> NULL, len |-> 0]
    ELSE [at |-> DataAt(buf, len), len |-> Least(Signed(total), len) - DataAt(buf, len)]

\* mqtt_get_id is told that in_buffer_length bytes count: where the id is not
\* among the n bytes just read it looks at what earlier reads left behind
\* (StaleIds).
PublishIds(buf, n) ==
    IF mqtt_get_qos(buf) = 0 THEN {0}
    ELSE IF TopicAt(buf, n) > n \/ DataAt(buf, n) > n THEN StaleIds
    ELSE {buf[AfterTopic(buf, n)] * 256 + buf[AfterTopic(buf, n) + 1]}

mqtt_get_id(buf, n) ==
    CASE mqtt_get_type(buf) = PUBLISH -> PublishIds(buf, n)
      [] mqtt_get_type(buf) \in {PUBACK, PUBREC, PUBREL, PUBCOMP, SUBACK, UNSUBACK, SUBSCRIBE} ->
           IF n < 4 THEN StaleIds
           ELSE {IF buf[1] < 128 THEN buf[2] * 256 + buf[3] ELSE 0}
      [] OTHER -> {0}
-----------------------------------------------------------------------------
\* mqtt_msg.c: writing.  The fixed header takes three bytes of the out buffer,
\* used or not; what does not fit makes fail_message, a message of no bytes.

FixedHeader == 3

\* A plausible slip: 128 still goes into one byte.
fini_messageOffByOne(first, body) ==
    IF Len(body) > 128
    THEN <<first, 128 + (Len(body) % 128), Len(body) \div 128>> \o body
    ELSE <<first, Len(body)>> \o body

fini_message(first, body) ==
    IF Len(body) > 127
    THEN <<first, 128 + (Len(body) % 128), Len(body) \div 128>> \o body
    ELSE <<first, Len(body)>> \o body

\* append_string, append_message_id and the other appends of one message.
Finish(first, body) ==
    IF FixedHeader + Len(body) > OutLen THEN <<>> ELSE fini_message(first, body)

\* mqtt_msg_connect, without a last will, which nothing configures.
ConnectFlags(info) == 2 * (IF info.clean THEN 1 ELSE 0)
                      + (IF info.username # <<>> THEN 128 ELSE 0)
                      + (IF info.password # <<>> THEN 64 ELSE 0)

StrIf(s) == IF s # <<>> THEN Str(s) ELSE <<>>

mqtt_msg_connect(info) ==
    IF info.client = <<>> THEN <<>>
    ELSE Finish(CONNECT * 16,
                <<0, 4, 77, 81, 84, 84, 4, ConnectFlags(info)>> \o Short(info.keepalive)
                \o Str(info.client) \o StrIf(info.username) \o StrIf(info.password))

mqtt_msg_publish(m) ==
    IF m.topic = <<>> THEN <<>>
    ELSE Finish(PUBLISH * 16 + m.qos * 2, Str(m.topic) \o IdIf(m) \o m.data)

mqtt_msg_subscribe(m) ==
    IF m.topic = <<>> THEN <<>>
    ELSE Finish(SUBSCRIBE * 16 + 2, Short(m.id) \o Str(m.topic) \o m.data)

\* mqtt_msg_puback, _pubrec, _pubrel and _pubcomp: only PUBREL has a QoS.
mqtt_msg_ack(m) ==
    Finish(m.type * 16 + (IF m.type = PUBREL THEN 2 ELSE 0), Short(m.id))

mqtt_msg_ping(m) == Finish(m.type * 16, <<>>)

Encoded(m) == CASE m.type = PUBLISH -> mqtt_msg_publish(m)
                [] m.type = SUBSCRIBE -> mqtt_msg_subscribe(m)
                [] m.type \in {PUBACK, PUBREC, PUBREL, PUBCOMP} -> mqtt_msg_ack(m)
                [] m.type \in {PINGREQ, PINGRESP} -> mqtt_msg_ping(m)

\* append_message_id: the id it is given, or one drawn until it is not 0.
ChosenIds(id) == IF id = 0 THEN Ids ELSE {id}

NoReply == 0

\* What mqtt_process_receive answers: a type, or nothing.
ReplyType(type, qos) ==
    CASE type = PUBLISH /\ qos = 1 -> PUBACK
      [] type = PUBLISH /\ qos = 2 -> PUBREC
      [] type = PUBREC -> PUBREL
      [] type = PUBREL -> PUBCOMP
      [] type = PINGREQ -> PINGRESP
      [] OTHER -> NoReply
-----------------------------------------------------------------------------
VARIABLES
    stream,         \* the bytes of the broker that the client has not read
    broker,         \* what the broker has made of the CONNECT of this connection
    answer,         \* history: how much of its CONNACK the last connection read
    budget,         \* messages the broker may still send
    front,          \* the first four bytes of in_buffer, which outlive a connection
    pc,             \* where the client is
    message_length, message_length_read,
    event,          \* the last MQTT_EVENT_DATA of this connection
    out,            \* what the client wrote in its last step: the bytes and their meaning
    sent,           \* history: what the broker has sent on this connection
    got,            \* history: what the client made of it, while clean
    clean           \* history: see above

brokerVars == <<broker, budget, sent>>
readVars == <<front, message_length, message_length_read, event, got, clean>>
vars == <<stream, brokerVars, answer, readVars, pc, out>>

NoEvent == [topic |-> NULL, topic_len |-> 0, data |-> NULL, data_len |-> 0,
            offset |-> 0, total |-> 0]
Nothing == [meant |-> Plain(PINGREQ, 0), bytes |-> mqtt_msg_ping(Plain(PINGREQ, 0))]
Quiet == out' = Nothing

Init ==
    /\ stream = <<>>
    /\ broker = "none"
    /\ answer = "none"
    /\ budget = MaxMessages
    /\ front \in Garbage
    /\ pc = "connect"
    /\ message_length = 0 /\ message_length_read = 0
    /\ event = NoEvent
    /\ out = Nothing
    /\ sent = <<>> /\ got = <<>>
    /\ clean = TRUE

\* transport_read of n bytes to the start of the in buffer: those bytes, what
\* remains in the stream, and what the buffer then begins with.
Taken(n) == [i \in 0..(n - 1) |-> stream[i + 1]]
DropBytes(n) == stream' = SubSeq(stream, n + 1, Len(stream))
FrontAfter(n) == [i \in 1..4 |-> IF i <= n THEN stream[i] ELSE front[i]]

\* The bytes from offset at on.
Bytes(buf, at, len) == [k \in 1..len |-> buf[at + k - 1]]
-----------------------------------------------------------------------------
\* The broker.

\* The histories go on while the client is clean.
Remembered(m) == IF clean THEN Append(sent, m) ELSE <<>>

\* It answers the CONNECT, at once or late; a late answer is one more message.
BrokerAnswers ==
    /\ broker = "asked"
    /\ \E code \in {0, 5} :
         /\ broker' = IF code = 0 THEN "accepted" ELSE "refused"
         /\ stream' = stream \o Standard(Plain(CONNACK, code))
         /\ sent' = IF pc = "connack" THEN sent ELSE Remembered(Plain(CONNACK, code))
    /\ UNCHANGED <<budget, answer, readVars, pc, out>>

BrokerSends(m) ==
    /\ broker = "accepted"
    /\ pc \notin {"connect", "connack"}
    /\ budget > 0
    /\ budget' = budget - 1
    /\ sent' = Remembered(m)
    /\ stream' = stream \o Standard(m)
    /\ UNCHANGED <<broker, answer, readVars, pc, out>>

Broker == BrokerAnswers \/ \E m \in Messages : BrokerSends(m)
-----------------------------------------------------------------------------
\* esp_mqtt_connect.

Connect ==
    /\ pc = "connect"
    /\ \E info \in Infos :
         out' = [meant |-> info, bytes |-> mqtt_msg_connect(info)]
    /\ broker' = "asked"
    /\ pc' = "connack"
    /\ UNCHANGED <<stream, budget, sent, answer, readVars>>

\* The answer is read from the buffer, whatever transport_read put there: what
\* the read did not replace are bytes of an earlier answer, of a message or of
\* its data, or what malloc left.
Accepted(f) == f[1] \div 16 = CONNACK /\ f[4] = 0

\* A plausible slip: the socket stays open, and the next connection reads from it.
AbortKeepsSocket ==
    /\ pc' = "connect"
    /\ broker' = "none"
    /\ sent' = <<>> /\ got' = <<>> /\ event' = NoEvent
    /\ clean' = TRUE
    /\ Quiet
    /\ UNCHANGED <<stream, budget, message_length, message_length_read>>

\* esp_mqtt_abort_connection: the socket is closed with what it held.
Abort ==
    /\ pc' = "connect"
    /\ stream' = <<>>
    /\ broker' = "none"
    /\ sent' = <<>> /\ got' = <<>> /\ event' = NoEvent
    /\ clean' = TRUE
    /\ Quiet
    /\ UNCHANGED <<budget, message_length, message_length_read>>

\* The histories of a client that is no longer clean are dropped.
Forget(b) == IF b THEN UNCHANGED <<sent, got>> ELSE sent' = <<>> /\ got' = <<>>

\* How many bytes a read returns: all there are and fit, or a piece of them, and
\* 0 when it times out because there are none.
ReadSizes(most) ==
    LET all == Least(most, Len(stream))
    IN  {n \in Pieces : n < all} \cup {all}

\* A timeout of transport_read returns 0, which is not taken for an error.
ReadConnack ==
    /\ pc = "connack"
    /\ \E n \in ReadSizes(Least(Len(out.bytes), InLen)) :
         /\ front' = FrontAfter(n)
         /\ answer' = IF n = 0 THEN "late" ELSE IF n < 4 THEN "cut" ELSE "whole"
         /\ IF Accepted(front')
            THEN /\ pc' = "publish"
                 /\ DropBytes(n)
                 /\ clean' = (n \in {0, 4})
                 /\ Forget(clean')
                 /\ Quiet
                 /\ UNCHANGED <<broker, budget, message_length, message_length_read, event>>
            ELSE Abort

\* transport_read returns an error, here or in mqtt_process_receive.
ConnectionLost ==
    /\ pc \in {"connack", "receive"}
    /\ Abort
    /\ UNCHANGED <<front, answer>>
-----------------------------------------------------------------------------
\* esp_mqtt_task, MQTT_STATE_CONNECTED: one message, then one read.  What the
\* last pass left in the event and the two lengths is not used again.

Write ==
    /\ pc = "publish"
    /\ \E m \in Outbound, id \in Ids :
         LET meant == IF m.qos > 0 \/ m.type = SUBSCRIBE THEN [m EXCEPT !.id = id] ELSE m
         IN  out' = [meant |-> meant, bytes |-> Encoded(meant)]
    /\ pc' = "receive"
    /\ message_length' = 0 /\ message_length_read' = 0 /\ event' = NoEvent
    /\ UNCHANGED <<stream, brokerVars, answer, front, got, clean>>

\* Does a read of n bytes keep the client on the boundaries of the messages.
KeepsClean(n) ==
    /\ clean
    /\ n >= HeaderLen(sent[Len(got) + 1])
    /\ n <= Len(Standard(sent[Len(got) + 1]))

\* The first event of a PUBLISH of which n bytes are in buf.  Its total is added
\* up in a uint32_t and handed over in an int: it is negative where the read went
\* beyond the message.
FirstEvent(buf, n, total) ==
    LET topic == mqtt_get_publish_topic(buf, n)
        data == mqtt_get_publish_data(buf, n, total)
    IN  [topic |-> topic.at, topic_len |-> topic.len,
         data |-> data.at, data_len |-> data.len, offset |-> 0,
         total |-> Signed(total - n + data.len)]

\* The message as the client understands it; `id' is the id it acknowledges.
Understood(buf, id, e) ==
    IF mqtt_get_type(buf) = PUBLISH
    THEN [type |-> PUBLISH, qos |-> mqtt_get_qos(buf), id |-> id,
          topic |-> Bytes(buf, e.topic, e.topic_len),
          data |-> Bytes(buf, e.data, e.data_len)]
    ELSE Plain(mqtt_get_type(buf), IF mqtt_get_type(buf) = CONNACK THEN buf[3] ELSE id)

\* A read of n bytes, taken for one message: the answer to it, and for a
\* PUBLISH the first event.
Receive(n) ==
    LET buf == Taken(n)
        type == mqtt_get_type(buf)
        reply == ReplyType(type, mqtt_get_qos(buf))
    IN  \E total \in mqtt_get_total_length(buf, n), read \in mqtt_get_id(buf, n) :
        \E id \in IF reply \in {NoReply, PINGRESP} THEN {read} ELSE ChosenIds(read) :
          /\ DropBytes(n)
          /\ front' = FrontAfter(n)
          /\ IF reply = NoReply THEN Quiet
             ELSE out' = [meant |-> Plain(reply, id), bytes |-> Encoded(Plain(reply, id))]
          /\ IF type = PUBLISH
             THEN /\ message_length' = total
                  /\ message_length_read' = n
                  /\ event' = FirstEvent(buf, n, total)
                  /\ pc' = IF n >= total THEN "publish" ELSE "chunk"
             ELSE /\ pc' = "publish"
                  /\ UNCHANGED <<message_length, message_length_read, event>>
          /\ clean' = KeepsClean(n)
          /\ IF clean'
             THEN /\ got' = Append(got, Understood(buf, id, event'))
                  /\ UNCHANGED sent
             ELSE Forget(FALSE)

\* mqtt_process_receive: 1000 ms without a byte change nothing.
ProcessReceive ==
    /\ pc = "receive"
    /\ \E n \in ReadSizes(InLen) :
         IF n = 0 THEN pc' = "publish" /\ Quiet /\ UNCHANGED <<stream, sent, readVars>>
                  ELSE Receive(n)
    /\ UNCHANGED <<broker, budget, answer>>

\* A plausible slip: the read is not limited to the message.
ChunkSizeUnlimited == InLen

\* What is missing of the message, at most a buffer full.
ChunkSize == Least(InLen, message_length - message_length_read)

\* deliver_publish: the next piece of the message.  The topic still points
\* into the buffer, which now holds something else.
Chunk ==
    /\ pc = "chunk"
    /\ stream # <<>>
    /\ \E n \in ReadSizes(ChunkSize) :
         /\ DropBytes(n)
         /\ front' = FrontAfter(n)
         /\ message_length_read' = message_length_read + n
         /\ event' = [event EXCEPT !.data = 0, !.data_len = n,
                                   !.offset = event.offset + event.data_len]
         /\ got' = IF clean THEN [got EXCEPT ![Len(got)].data = @ \o Bytes(Taken(n), 0, n)]
                            ELSE got
    /\ pc' = IF message_length_read' >= message_length THEN "publish" ELSE "chunk"
    /\ Quiet
    /\ UNCHANGED <<brokerVars, answer, message_length, clean>>

\* A read of it fails or times out: the rest of the message is given up.
ChunkFails ==
    /\ pc = "chunk"
    /\ clean' = FALSE
    /\ Forget(FALSE)
    /\ pc' = "publish"
    /\ Quiet
    /\ UNCHANGED <<stream, broker, budget, answer, front, message_length,
                   message_length_read, event>>

Client == \/ Connect \/ ReadConnack \/ ConnectionLost \/ Write
          \/ ProcessReceive \/ Chunk \/ ChunkFails

Next == Broker \/ Client

Spec == Init /\ [][Next]_vars
-----------------------------------------------------------------------------
Outs == [meant : Message \cup Infos, bytes : Seq(Byte)]
Ints == -(Word \div 2)..(Word \div 2 - 1)
Events == [topic : Nat \cup {NULL}, topic_len : Nat, data : Nat \cup {NULL}, data_len : Nat,
           offset : Nat, total : Ints]

\* Every variable stays in its range: bytes and ids have their width, the lengths
\* and the offset of an event are never negative whatever header was read, and
\* its total is an int (mqtt_msg.c:136-228, mqtt_client.c:519-539).
TypeOK ==
    /\ stream \in Seq(Byte)
    /\ broker \in {"none", "asked", "accepted", "refused"}
    /\ answer \in {"none", "late", "cut", "whole"}
    /\ budget \in 0..MaxMessages
    /\ front \in [1..4 -> Byte]
    /\ pc \in {"connect", "connack", "publish", "receive", "chunk"}
    /\ message_length \in Nat /\ message_length_read \in Nat
    /\ event \in Events
    /\ out \in Outs
    /\ sent \in Seq(Message) /\ got \in Seq(Message)
    /\ clean \in BOOLEAN

Latest == got[Len(got)]

\* As long as no read ended inside a header or passed the end of a message,
\* the client takes from the bytes exactly the messages the broker sent, in
\* order, each PUBLISH with its topic and all of its data and with the id that
\* is acknowledged, and the offsets and the total of the events add up, in
\* however many pieces the data comes (mqtt_client.c:510-559, 625-645).
CleanDelivery ==
    clean =>
      /\ Len(got) <= Len(sent)
      /\ \A k \in 1..Len(got) :
           IF k = Len(got) /\ pc = "chunk"
           THEN /\ [Latest EXCEPT !.data = <<>>] = [sent[k] EXCEPT !.data = <<>>]
                /\ IsStrictPrefix(Latest.data, sent[k].data)
                /\ event.offset + event.data_len = Len(Latest.data)
                /\ event.total = Len(sent[k].data)
           ELSE got[k] = sent[k]

\* Whatever bytes are taken for a header, and whatever comes after it, a topic or
\* data that are not NULL end in the in buffer and among the bytes the message
\* was read into it with, and data that are NULL have no length
\* (mqtt_msg.c:155-228, mqtt_client.c:510-559).  A topic that is NULL has one:
\* mqtt_get_publish_topic leaves the number of bytes that were read, and the event
\* hands it on.
WithinBuffer ==
    LET filled == Least(InLen, message_length_read)
    IN  /\ event.topic # NULL => event.topic + event.topic_len <= filled
        /\ IF event.data = NULL THEN event.data_len = 0
                                ELSE event.data + event.data_len <= filled

\* The client takes itself for connected though the broker has not accepted it
\* only where the return code it looked at is not one of this connection: its
\* answer did not come in time, or not in one piece, and the fourth byte of the
\* in buffer is what an earlier answer, a message or its data, or malloc left
\* there (mqtt_client.c:250-267).
UnacceptedIsStale ==
    pc \in {"publish", "receive", "chunk"} /\ broker # "accepted" =>
      answer \in {"late", "cut"}

\* The 16-bit number, and the string, that begin at a place of a sequence.
ShortAt(s, i) == s[i] * 256 + s[i + 1]
StringAt(s, i) == SubSeq(s, i + 2, i + 1 + ShortAt(s, i))
RestFrom(s, i) == SubSeq(s, i, Len(s))

\* What a broker that follows the standard reads from the bytes of a message.
BodyAt(bytes) == CHOOSE i \in 3..6 : bytes[i - 1] < 128 /\ \A j \in 2..(i - 2) : bytes[j] >= 128
Announced(bytes) == IF BodyAt(bytes) = 3 THEN bytes[2] ELSE bytes[2] - 128 + 128 * bytes[3]

ReadPublish(bytes) ==
    LET at == BodyAt(bytes)
        topic == StringAt(bytes, at)
        qos == (bytes[1] \div 2) % 4
        next == at + 2 + Len(topic)
    IN  [type |-> PUBLISH, qos |-> qos, topic |-> topic,
         id |-> IF qos > 0 THEN ShortAt(bytes, next) ELSE 0,
         data |-> RestFrom(bytes, IF qos > 0 THEN next + 2 ELSE next)]

ReadSubscribe(bytes) ==
    LET at == BodyAt(bytes)
    IN  [type |-> SUBSCRIBE, qos |-> 0, id |-> ShortAt(bytes, at),
         topic |-> StringAt(bytes, at + 2),
         data |-> RestFrom(bytes, at + 4 + ShortAt(bytes, at + 2))]

ReadConnect(bytes) ==
    LET at == BodyAt(bytes)
        flags == bytes[at + 7]
        client == StringAt(bytes, at + 10)
        userAt == at + 12 + Len(client)
        user == IF flags >= 128 THEN StringAt(bytes, userAt) ELSE <<>>
        passAt == IF flags >= 128 THEN userAt + 2 + Len(user) ELSE userAt
    IN  [client |-> client, clean |-> (flags \div 2) % 2 = 1,
         keepalive |-> ShortAt(bytes, at + 8), username |-> user,
         password |-> IF (flags \div 64) % 2 = 1 THEN StringAt(bytes, passAt) ELSE <<>>]

ReadByBroker(bytes) ==
    LET type == bytes[1] \div 16
    IN  CASE type = CONNECT -> ReadConnect(bytes)
          [] type = PUBLISH -> ReadPublish(bytes)
          [] type = SUBSCRIBE -> ReadSubscribe(bytes)
          [] type \in {PUBACK, PUBREC, PUBREL, PUBCOMP} ->
               Plain(type, ShortAt(bytes, BodyAt(bytes)))
          [] OTHER -> Plain(type, 0)

\* The bytes of a message of the client behind its header.
BodySize(m) ==
    (IF m.topic # <<>> THEN 2 + Len(m.topic) ELSE 0)
    + (IF m.qos > 0 \/ m.type \in {SUBSCRIBE, PUBACK, PUBREC, PUBREL, PUBCOMP} THEN 2 ELSE 0)
    + Len(m.data)

\* A message the client writes announces its own length and is read by the
\* broker as it was meant, on both sides of the 127 bytes where the header
\* grows; one that is not written would not have fitted in the out buffer
\* (mqtt_msg.c:63-127).
OutboundDecodes ==
    IF out.bytes = <<>>
    THEN out.meant \in Message /\ FixedHeader + BodySize(out.meant) > OutLen
    ELSE /\ Announced(out.bytes) + BodyAt(out.bytes) - 1 = Len(out.bytes)
         /\ Len(out.bytes) <= OutLen
         /\ ReadByBroker(out.bytes) = out.meant
=============================================================================
