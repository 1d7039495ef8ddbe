----------------------------- MODULE MqttProofs -----------------------------
(***************************************************************************)
(* Proofs about Mqtt, for any number of packets and of failures, any size  *)
(* of OutQueue and any set of ids.                                         *)
(*                                                                         *)
(* The properties relate what happened in different connections, so IInv   *)
(* says what each place of the loop knows of the connection it is in: the  *)
(* state, the socket, what is still planned, and by how much the counter   *)
(* of pending messages may have grown since the last failure.              *)
(***************************************************************************)
EXTENDS Mqtt, FiniteSetTheorems, TLAPS

Message == Suback \cup {Publish}
Stored == SubscribeMsg \cup {ConnectMsg}

\* The acknowledgements among the messages of s.
Acks(s) == {i \in 1..Len(s) : s[i].type = "SUBACK"}

\* The state of the client at each place of its loop.
StatePlace ==
    /\ pc \in {"sub1", "sub2", "pass", "write", "read", "ping"} => state = "CONNECTED"
    /\ pc = "connect" => state = "INIT"
    /\ pc = "hangup" => state = "WAIT_TIMEOUT"

\* Outside a connection the socket is closed, unless the link was given up.
SocketPlace ==
    /\ state = "WAIT_TIMEOUT" => ~sock
    /\ state = "INIT" /\ ~gone => ~sock

\* The subscriptions counted since the last failure.
Fresh ==
    IF pc \in {"connect", "sub1"} THEN 0
    ELSE IF pc = "sub2" THEN 1
    ELSE IF state = "CONNECTED" \/ gone THEN 2 ELSE 0

CountPlace ==
    /\ count <= 2 * failures + Fresh
    /\ count > 0 => pending # None

\* The packets wait in the order they were made.
InOrder ==
    /\ made = packet.n + Len(OutQueue)
    /\ \A i \in 1..Len(OutQueue) : OutQueue[i].n = packet.n + i

\* What is planned belongs to the packet at hand.
PlanPlace ==
    /\ pc # "write" => plan = {}
    /\ "gps" \in plan => packet.gps

IInv ==
    /\ TypeOK
    /\ OneSocket
    /\ CountCoversAcks
    /\ StatePlace
    /\ SocketPlace
    /\ CountPlace
    /\ InOrder
    /\ PlanPlace

-----------------------------------------------------------------------------
(* Counting acknowledgements.                                              *)

LEMMA AcksFinite ==
  ASSUME NEW s \in Seq(Message)
  PROVE  IsFiniteSet(Acks(s)) /\ Cardinality(Acks(s)) \in Nat
  <1>1. IsFiniteSet(1..Len(s))
    BY FS_Interval
  <1>2. Acks(s) \in SUBSET (1..Len(s))
    BY DEF Acks
  <1>3. IsFiniteSet(Acks(s))
    BY <1>1, <1>2, FS_Subset
  <1> QED
    BY <1>3, FS_CardinalityType

LEMMA AcksEmpty == Cardinality(Acks(<<>>)) = 0
  <1>1. Acks(<<>>) = {}
    BY DEF Acks
  <1> QED
    BY <1>1, FS_EmptySet

\* One more message is at most one more acknowledgement, and none if it is a
\* publish.
LEMMA AcksAppend ==
  ASSUME NEW s \in Seq(Message), NEW m \in Message
  PROVE  /\ Cardinality(Acks(Append(s, m))) <= Cardinality(Acks(s)) + 1
         /\ m = Publish => Cardinality(Acks(Append(s, m))) = Cardinality(Acks(s))
  <1>1. IsFiniteSet(Acks(s)) /\ Cardinality(Acks(s)) \in Nat
    BY AcksFinite
  <1>2. CASE m.type = "SUBACK"
    <2>1. Acks(Append(s, m)) = Acks(s) \cup {Len(s) + 1}
      BY <1>2 DEF Acks
    <2>2. m # Publish
      BY <1>2 DEF Publish
    <2>3. Cardinality(Acks(s) \cup {Len(s) + 1}) =
            IF Len(s) + 1 \in Acks(s) THEN Cardinality(Acks(s)) ELSE Cardinality(Acks(s)) + 1
      BY <1>1, FS_AddElement
    <2> QED
      BY <1>1, <2>1, <2>2, <2>3
  <1>3. CASE m.type # "SUBACK"
    <2>1. Acks(Append(s, m)) = Acks(s)
      BY <1>3 DEF Acks
    <2> QED
      BY <1>1, <2>1
  <1> QED
    BY <1>2, <1>3

\* Taking messages from the front takes their acknowledgements.
LEMMA AcksTaken ==
  ASSUME NEW s \in Seq(Message), NEW k \in 1..Len(s)
  PROVE  LET rest == SubSeq(s, k + 1, Len(s))
         IN  /\ rest \in Seq(Message)
             /\ Cardinality(Acks(rest)) <= Cardinality(Acks(s))
             /\ Head(s).type = "SUBACK"
                  => Cardinality(Acks(rest)) <= Cardinality(Acks(s)) - 1
  <1> DEFINE rest == SubSeq(s, k + 1, Len(s))
             f == [i \in Acks(rest) |-> i + k]
  <1>1. /\ rest \in Seq(Message)
        /\ Len(rest) = Len(s) - k
        /\ \A i \in 1..Len(rest) : rest[i] = s[i + k]
    OBVIOUS
  <1>2. \A i \in Acks(rest) : i \in Nat /\ i >= 1 /\ i + k \in Acks(s)
    BY <1>1 DEF Acks
  <1>3. IsFiniteSet(Acks(s)) /\ Cardinality(Acks(s)) \in Nat
    BY AcksFinite
  <1>4. /\ IsFiniteSet(Acks(s) \ {1})
        /\ Cardinality(Acks(s) \ {1}) =
             IF 1 \in Acks(s) THEN Cardinality(Acks(s)) - 1 ELSE Cardinality(Acks(s))
    BY <1>3, FS_RemoveElement
  <1>5. f \in Injection(Acks(rest), Acks(s) \ {1})
    <2>1. \A i \in Acks(rest) : f[i] \in Acks(s) \ {1}
      BY <1>2
    <2>2. \A i, j \in Acks(rest) : f[i] = f[j] => i = j
      BY <1>2
    <2> QED
      BY <2>1, <2>2 DEF Injection, IsInjective
  <1>6. Cardinality(Acks(rest)) <= Cardinality(Acks(s) \ {1})
    BY <1>4, <1>5, FS_Injection
  <1>7. Cardinality(Acks(rest)) \in Nat
    BY <1>1, AcksFinite
  <1>9. Head(s).type = "SUBACK" => 1 \in Acks(s)
    BY DEF Acks
  <1> QED
    BY <1>1, <1>3, <1>4, <1>6, <1>7, <1>9

-----------------------------------------------------------------------------
(* The invariant.                                                          *)

LEMMA AppendTyped ==
  ASSUME NEW S, NEW s \in Seq(S), NEW e \in S
  PROVE  Append(s, e) \in Seq(S)
  OBVIOUS

LEMMA InitHolds == Init => IInv
  <1> SUFFICES ASSUME Init PROVE IInv
    OBVIOUS
  <1> USE MqttAssumption DEF Init
  <1>1. TypeOK
    <2>1. 0 \in 0..MaxCount /\ 0 \in 0..MaxPackets /\ 0 \in 0..MaxFailures
      BY DEF MaxCount
    <2>2. packet \in Packet
      BY <2>1 DEF Packet
    <2>3. OutQueue \in Seq(Packet) /\ Len(OutQueue) <= QLEN
      OBVIOUS
    <2>4. outbox \in Seq(Stored) /\ inbound \in Seq(Message)
      OBVIOUS
    <2>5. written \in Seq((0..MaxPackets) \X Topics)
      OBVIOUS
    <2> QED
      BY <2>1, <2>2, <2>3, <2>4, <2>5 DEF TypeOK, Stored, Message
  <1>2. CountCoversAcks
    BY AcksEmpty DEF CountCoversAcks, Acks
  <1>3. OneSocket /\ StatePlace /\ SocketPlace /\ CountPlace /\ InOrder /\ PlanPlace
    BY DEF OneSocket, StatePlace, SocketPlace, CountPlace, Fresh, InOrder, PlanPlace
  <1> QED
    BY <1>1, <1>2, <1>3 DEF IInv

\* The numbers among the variables.
LEMMA Numbers ==
  ASSUME TypeOK
  PROVE  made \in Nat /\ count \in Nat /\ failures \in Nat /\ packet.n \in Nat
  <1>1. MaxCount \in Nat
    BY MqttAssumption DEF MaxCount
  <1> QED
    BY <1>1, MqttAssumption DEF TypeOK, Packet

\* A failure is counted, or there is no link any more.
LEMMA FailsBounded ==
  ASSUME TypeOK, Fails
  PROVE  /\ failures' \in 0..MaxFailures
         /\ failures' >= failures
         /\ ~gone => failures' = failures + 1
  BY MqttAssumption DEF TypeOK, Fails

LEMMA LinkGoneHolds == IInv /\ LinkGone => IInv'
  <1> SUFFICES ASSUME IInv, LinkGone PROVE IInv'
    OBVIOUS
  <1> USE DEF IInv, LinkGone, packetVars, ackVars
  <1>1. TypeOK'
    BY DEF TypeOK
  <1>2. CountCoversAcks'
    BY DEF CountCoversAcks
  <1>3. CountPlace'
    BY DEF TypeOK, CountPlace, Fresh
  <1> QED
    BY <1>1, <1>2, <1>3
       DEF OneSocket, StatePlace, SocketPlace, InOrder, PlanPlace

LEMMA ProduceHolds == IInv /\ Produce => IInv'
  <1> SUFFICES ASSUME IInv, Produce PROVE IInv'
    OBVIOUS
  <1> USE DEF IInv, Produce, packetVars, ackVars, linkVars
  <1>1. PICK gps \in BOOLEAN : OutQueue' = Append(OutQueue, [n |-> made + 1, gps |-> gps])
    OBVIOUS
  <1>2. [n |-> made + 1, gps |-> gps] \in Packet
    BY MqttAssumption DEF TypeOK, Packet
  <1>3. TypeOK'
    BY <1>1, <1>2, MqttAssumption DEF TypeOK
  <1>4. InOrder'
    <2>1. packet.n \in Nat /\ made \in Nat
      BY Numbers
    <2>2. OutQueue \in Seq(Packet) /\ OutQueue' \in Seq(Packet)
      BY <1>1, <1>2 DEF TypeOK
    <2>3. /\ Len(OutQueue') = Len(OutQueue) + 1
          /\ \A i \in 1..Len(OutQueue) : OutQueue'[i] = OutQueue[i]
          /\ OutQueue'[Len(OutQueue) + 1].n = made + 1
      BY <1>1, <1>2, <2>2
    <2>4. packet' = packet /\ made' = made + 1
      OBVIOUS
    <2>5. made = packet.n + Len(OutQueue)
      BY DEF InOrder
    <2>6. \A i \in 1..Len(OutQueue) : OutQueue'[i].n = packet.n + i
      BY <2>3 DEF InOrder
    <2>7. Len(OutQueue) \in Nat
      BY <2>2
    <2>8. \A i \in 1..Len(OutQueue) + 1 : OutQueue'[i].n = packet.n + i
      <3> HIDE DEF IInv, Produce
      <3> TAKE i \in 1..Len(OutQueue) + 1
      <3>1. CASE i \in 1..Len(OutQueue)
        BY <2>6, <3>1
      <3>2. CASE i = Len(OutQueue) + 1
        <4>1. OutQueue'[i].n = made + 1
          BY <2>3, <3>2
        <4> QED
          BY <4>1, <3>2, <2>1, <2>5, <2>7
      <3>3. i \in 1..Len(OutQueue) \/ i = Len(OutQueue) + 1
        BY <2>7
      <3> QED
        BY <3>1, <3>2, <3>3
    <2>9. made + 1 = packet.n + (Len(OutQueue) + 1)
      BY <2>1, <2>5, <2>7
    <2> QED
      BY <2>3, <2>4, <2>8, <2>9 DEF InOrder
  <1>5. CountCoversAcks'
    BY DEF CountCoversAcks
  <1> QED
    BY <1>3, <1>4, <1>5
       DEF OneSocket, StatePlace, SocketPlace, CountPlace, Fresh, PlanPlace

LEMMA LinkDownHolds == IInv /\ LinkDown => IInv'
  <1> SUFFICES ASSUME IInv, LinkDown PROVE IInv'
    OBVIOUS
  <1> USE DEF IInv, LinkDown, packetVars, ackVars, linkVars
  <1>1. TypeOK'
    BY DEF TypeOK
  <1>2. CountCoversAcks' /\ InOrder'
    BY DEF CountCoversAcks, InOrder
  <1>3. CountPlace'
    BY DEF TypeOK, CountPlace, Fresh
  <1> QED
    BY <1>1, <1>2, <1>3 DEF OneSocket, StatePlace, SocketPlace, PlanPlace

LEMMA DispatchHolds == IInv /\ Dispatch => IInv'
  <1> SUFFICES ASSUME IInv, Dispatch PROVE IInv'
    OBVIOUS
  <1> USE DEF IInv, Dispatch, packetVars, ackVars, linkVars
  <1>1. /\ pc' \in {"connect", "pass", "loop"}
        /\ pc' = "connect" => state = "INIT" /\ state' = "INIT"
        /\ pc' = "pass" => state = "CONNECTED" /\ state' = "CONNECTED"
        /\ pc' = "loop" => state = "WAIT_TIMEOUT" /\ state' = "INIT"
    BY DEF TypeOK
  <1>2. TypeOK'
    BY <1>1 DEF TypeOK
  <1>3. CountCoversAcks' /\ InOrder'
    BY DEF CountCoversAcks, InOrder
  <1>4. CountPlace'
    BY <1>1 DEF TypeOK, CountPlace, Fresh
  <1> QED
    BY <1>1, <1>2, <1>3, <1>4 DEF OneSocket, StatePlace, SocketPlace, PlanPlace

LEMMA ConnectFailsHolds == IInv /\ ConnectFails => IInv'
  <1> SUFFICES ASSUME IInv, ConnectFails PROVE IInv'
    OBVIOUS
  <1> USE DEF IInv, ConnectFails, Abort, tcp_close, packetVars
  <1>1. failures' \in 0..MaxFailures /\ failures' >= failures
    BY FailsBounded
  <1>2. pending' \in {pending, ConnectMsg}
    OBVIOUS
  <1>3. TypeOK'
    <2>1. inbound' \in Seq(Message)
      OBVIOUS
    <2> QED
      BY <1>1, <1>2, <2>1 DEF TypeOK, Message
  <1>4. CountCoversAcks'
    BY AcksEmpty, Numbers DEF CountCoversAcks, Acks
  <1>5. InOrder'
    BY DEF InOrder
  <1>6. CountPlace'
    <2>1. ConnectMsg # None
      BY DEF ConnectMsg, None
    <2> QED
      BY <1>1, <1>2, <2>1, Numbers DEF CountPlace, Fresh
  <1> QED
    BY <1>3, <1>4, <1>5, <1>6 DEF OneSocket, StatePlace, SocketPlace, PlanPlace

LEMMA HangUpHolds == IInv /\ HangUp => IInv'
  <1> SUFFICES ASSUME IInv, HangUp PROVE IInv'
    OBVIOUS
  <1> USE DEF IInv, HangUp, packetVars, ackVars, linkVars
  <1>1. TypeOK'
    BY DEF TypeOK
  <1>2. CountCoversAcks' /\ InOrder'
    BY DEF CountCoversAcks, InOrder
  <1>3. CountPlace'
    BY DEF TypeOK, CountPlace, Fresh, StatePlace
  <1> QED
    BY <1>1, <1>2, <1>3 DEF OneSocket, StatePlace, SocketPlace, PlanPlace

LEMMA ConnectHolds == IInv /\ Connect => IInv'
  <1> SUFFICES ASSUME IInv, Connect PROVE IInv'
    OBVIOUS
  <1> USE DEF IInv, Connect, Works, tcp_connect, packetVars
  <1>1. TypeOK'
    BY DEF TypeOK
  <1>2. CountCoversAcks'
    BY AcksEmpty, Numbers DEF CountCoversAcks, Acks
  <1>3. InOrder'
    BY DEF InOrder
  <1>4. CountPlace'
    <2>1. ConnectMsg # None
      BY DEF ConnectMsg, None
    <2> QED
      BY <2>1, Numbers DEF CountPlace, Fresh
  <1> QED
    BY <1>1, <1>2, <1>3, <1>4 DEF OneSocket, StatePlace, SocketPlace, PlanPlace

\* Both subscriptions are counted before their acknowledgements can come.
LEMMA SubscribeHolds == IInv /\ Subscribe => IInv'
  <1> SUFFICES ASSUME IInv, Subscribe PROVE IInv'
    OBVIOUS
  <1> USE DEF IInv, Subscribe, CountSubscribe, packetVars, linkVars
  <1>1. PICK id \in Ids :
          /\ pending' = [type |-> "SUBSCRIBE", id |-> id]
          /\ \/ /\ Works
                /\ inbound' = Append(inbound, [type |-> "SUBACK", id |-> id])
             \/ Fails /\ UNCHANGED inbound
    OBVIOUS
  <1>2. [type |-> "SUBACK", id |-> id] \in Message
    BY DEF Message, Suback
  <1>3. failures' \in 0..MaxFailures /\ failures' >= failures
    <2>1. CASE Works
      BY <2>1, Numbers DEF Works, TypeOK
    <2>2. CASE Fails
      BY <2>2, FailsBounded
    <2> QED
      BY <1>1, <2>1, <2>2
  <1>4. pending' \in SubscribeMsg /\ pending' # None
    BY <1>1 DEF SubscribeMsg, None
  <1>5. inbound \in Seq(Message) /\ inbound' \in Seq(Message)
    <2>1. inbound \in Seq(Message)
      BY DEF TypeOK, Message
    <2>2. inbound' = inbound \/ inbound' = Append(inbound, [type |-> "SUBACK", id |-> id])
      BY <1>1
    <2> QED
      BY <1>2, <2>1, <2>2
  <1>6. CountPlace'
    <2>1. failures' \in Nat
      BY <1>3, MqttAssumption
    <2> QED
      BY <1>3, <1>4, <2>1, Numbers DEF CountPlace, Fresh, StatePlace
  <1>7. TypeOK'
    <2>1. outbox' \in Seq(Stored)
      <3>1. CASE count > 0
        <4>1. pending \in Stored
          BY <3>1 DEF TypeOK, Stored, CountPlace
        <4> QED
          BY <3>1, <4>1 DEF TypeOK, Stored, Enqueued
      <3>2. CASE ~(count > 0)
        BY <3>2 DEF TypeOK, Stored, Enqueued
      <3> QED
        BY <3>1, <3>2
    <2>2. count' \in 0..MaxCount
      <3>1. Fresh' \in {0, 1, 2}
        BY DEF Fresh
      <3>2. count' <= 2 * failures' + Fresh'
        BY <1>6 DEF CountPlace
      <3> QED
        BY <1>3, <3>1, <3>2, Numbers, MqttAssumption DEF MaxCount
    <2>3. pc' \in {"sub2", "loop"}
      OBVIOUS
    <2> QED
      BY <1>3, <1>4, <1>5, <2>1, <2>2, <2>3 DEF TypeOK, Stored, Message
  <1>8. CountCoversAcks'
    <2>1. Cardinality(Acks(inbound)) <= count /\ Cardinality(Acks(inbound)) \in Nat
      BY <1>5, AcksFinite DEF CountCoversAcks, Acks
    <2>2. Cardinality(Acks(inbound')) <= Cardinality(Acks(inbound)) + 1
      <3>1. CASE inbound' = inbound
        BY <2>1, <3>1
      <3>2. CASE inbound' = Append(inbound, [type |-> "SUBACK", id |-> id])
        BY <1>2, <1>5, <3>2, AcksAppend
      <3> QED
        BY <1>1, <3>1, <3>2
    <2>3. Cardinality(Acks(inbound')) \in Nat
      BY <1>5, AcksFinite
    <2>4. Cardinality(Acks(inbound')) <= count'
      BY <2>1, <2>2, <2>3, Numbers
    <2> QED
      BY <2>4 DEF CountCoversAcks, Acks
  <1>9. InOrder'
    BY DEF InOrder
  <1> QED
    BY <1>6, <1>7, <1>8, <1>9 DEF OneSocket, StatePlace, SocketPlace, PlanPlace

LEMMA RetryHolds == IInv /\ Retry => IInv'
  <1> SUFFICES ASSUME IInv, Retry PROVE IInv'
    OBVIOUS
  <1> USE DEF IInv, Retry, Retries, ackVars, linkVars
  <1>1. TypeOK'
    BY DEF TypeOK, Topics
  <1>2. CountCoversAcks' /\ InOrder'
    BY DEF CountCoversAcks, InOrder
  <1>3. CountPlace'
    BY DEF CountPlace, Fresh
  <1>4. PlanPlace'
    BY DEF PlanPlace
  <1> QED
    BY <1>1, <1>2, <1>3, <1>4 DEF OneSocket, StatePlace, SocketPlace

\* The packet taken is the oldest one made that was not taken before.
LEMMA TakeHolds == IInv /\ Take => IInv'
  <1> SUFFICES ASSUME IInv, Take PROVE IInv'
    OBVIOUS
  <1> USE DEF IInv, Take, ackVars, linkVars
  <1>1. OutQueue \in Seq(Packet) /\ OutQueue # <<>>
    BY DEF TypeOK
  <1>2. /\ Len(OutQueue) \in Nat /\ Len(OutQueue) >= 1
        /\ packet' = OutQueue[1] /\ packet' \in Packet
        /\ OutQueue' \in Seq(Packet)
        /\ Len(OutQueue') = Len(OutQueue) - 1
        /\ \A i \in 1..Len(OutQueue') : OutQueue'[i] = OutQueue[i + 1]
    BY <1>1
  <1>3. TypeOK'
    BY <1>2, MqttAssumption DEF TypeOK, Topics
  <1>4. packet'.n = packet.n + 1
    BY <1>2 DEF InOrder
  <1>5. InOrder'
    <2>1. packet.n \in Nat
      BY Numbers
    <2>2. made' = packet'.n + Len(OutQueue')
      BY <1>2, <1>4, <2>1 DEF InOrder
    <2>3. \A i \in 1..Len(OutQueue') : OutQueue'[i].n = packet'.n + i
      <3> SUFFICES ASSUME NEW i \in 1..Len(OutQueue')
                   PROVE  OutQueue'[i].n = packet'.n + i
        OBVIOUS
      <3>1. i + 1 \in 1..Len(OutQueue) /\ i \in Nat
        BY <1>2
      <3>2. OutQueue[i + 1].n = packet.n + (i + 1)
        BY <3>1 DEF InOrder
      <3>3. OutQueue'[i].n = packet.n + (i + 1)
        BY <1>2, <3>2
      <3>4. \A a \in Nat : (a + 1) + i = a + (i + 1)
        BY <3>1
      <3>5. packet'.n + i = packet.n + (i + 1)
        BY <1>4, <2>1, <3>4, Zenon
      <3> QED
        BY <3>3, <3>5
    <2> QED
      BY <2>2, <2>3 DEF InOrder
  <1>6. CountCoversAcks'
    BY DEF CountCoversAcks
  <1>7. CountPlace'
    BY DEF CountPlace, Fresh
  <1>8. PlanPlace'
    BY DEF PlanPlace
  <1> QED
    BY <1>3, <1>5, <1>6, <1>7, <1>8 DEF OneSocket, StatePlace, SocketPlace

LEMMA IdleHolds == IInv /\ Idle => IInv'
  <1> SUFFICES ASSUME IInv, Idle PROVE IInv'
    OBVIOUS
  <1> USE DEF IInv, Idle, ackVars, linkVars
  <1>1. TypeOK'
    BY DEF TypeOK
  <1>2. CountCoversAcks' /\ InOrder'
    BY DEF CountCoversAcks, InOrder
  <1>3. CountPlace'
    BY DEF CountPlace, Fresh, StatePlace
  <1> QED
    BY <1>1, <1>2, <1>3 DEF OneSocket, StatePlace, SocketPlace, PlanPlace

LEMMA WriteTopicHolds == ASSUME NEW t \in Topics PROVE IInv /\ WriteTopic(t) => IInv'
  <1> SUFFICES ASSUME IInv, WriteTopic(t) PROVE IInv'
    OBVIOUS
  <1> USE DEF IInv, WriteTopic, ackVars, linkVars
  <1>1. failures' \in 0..MaxFailures /\ failures' >= failures
    <2>1. CASE Works
      BY <2>1, Numbers DEF Works, TypeOK
    <2>2. CASE Fails
      BY <2>2, FailsBounded
    <2> QED
      BY <2>1, <2>2
  <1>2. inbound' \in {inbound, Append(inbound, Publish)}
    OBVIOUS
  <1>3. inbound \in Seq(Message) /\ Publish \in Message
    BY DEF TypeOK, Message
  <1>4. inbound' \in Seq(Message)
    BY <1>2, <1>3
  <1>5. failed' \subseteq Topics /\ plan' \subseteq Topics
    BY DEF TypeOK, AfterWrite
  <1>6. written' \in Seq((0..MaxPackets) \X Topics)
    <2>1. <<packet.n, t>> \in (0..MaxPackets) \X Topics
      BY DEF TypeOK, Packet
    <2>2. written' = written \/ written' = Append(written, <<packet.n, t>>)
      OBVIOUS
    <2>3. written \in Seq((0..MaxPackets) \X Topics)
      BY DEF TypeOK
    <2>4. Append(written, <<packet.n, t>>) \in Seq((0..MaxPackets) \X Topics)
      BY <2>1, <2>3, AppendTyped, Zenon
    <2> QED
      BY <2>2, <2>3, <2>4
  <1>7. TypeOK'
    <2>1. pc' \in {"read", "write"}
      OBVIOUS
    <2> QED
      BY <1>1, <1>4, <1>5, <1>6, <2>1 DEF TypeOK, Message
  <1>8. CountCoversAcks'
    <2>1. Cardinality(Acks(inbound')) = Cardinality(Acks(inbound))
      <3>1. CASE inbound' = inbound
        BY <3>1
      <3>2. CASE inbound' = Append(inbound, Publish)
        BY <1>3, <3>2, AcksAppend
      <3> QED
        BY <1>2, <3>1, <3>2
    <2> QED
      BY <2>1 DEF CountCoversAcks, Acks
  <1>9. CountPlace'
    <2>1. failures' \in Nat
      BY <1>1, MqttAssumption
    <2> QED
      BY <1>1, <2>1, Numbers DEF CountPlace, Fresh, StatePlace
  <1>10. InOrder'
    BY DEF InOrder
  <1>11. PlanPlace'
    BY DEF PlanPlace
  <1> QED
    BY <1>7, <1>8, <1>9, <1>10, <1>11 DEF OneSocket, StatePlace, SocketPlace

\* An acknowledgement that is not counted down has not been there.
LEMMA ReceiveHolds == IInv /\ Receive => IInv'
  <1> SUFFICES ASSUME IInv, Receive PROVE IInv'
    OBVIOUS
  <1>1. UNCHANGED <<OutQueue, made, packetVars, pending>> /\ pc = "read"
    BY DEF Receive
  <1>2. state = "CONNECTED" /\ sock
    BY <1>1 DEF IInv, StatePlace, OneSocket
  <1>3. CASE Works /\ pc' = "ping" /\ UNCHANGED <<state, count, outbox, inbound, linkVars>>
    <2> USE <1>1, <1>2, <1>3 DEF IInv, packetVars, linkVars, Works
    <2>1. TypeOK'
      BY DEF TypeOK
    <2>2. CountCoversAcks' /\ InOrder'
      BY DEF CountCoversAcks, InOrder
    <2>3. CountPlace'
      BY DEF CountPlace, Fresh
    <2> QED
      BY <2>1, <2>2, <2>3 DEF OneSocket, StatePlace, SocketPlace, PlanPlace
  <1>4. CASE Fails /\ Abort /\ pc' = "loop" /\ UNCHANGED <<count, outbox>>
    <2> USE <1>1, <1>2, <1>4
    <2>1. /\ failures' \in 0..MaxFailures /\ failures' >= failures
          /\ ~gone => failures' = failures + 1
      BY FailsBounded DEF IInv
    <2> USE DEF IInv, packetVars, Abort, tcp_close
    <2>2. TypeOK'
      <3>1. inbound' \in Seq(Message)
        OBVIOUS
      <3> QED
        BY <2>1, <3>1 DEF TypeOK, Message
    <2>3. CountCoversAcks'
      BY AcksEmpty, Numbers DEF CountCoversAcks, Acks
    <2>4. CountPlace'
      <3>1. failures' \in Nat
        BY <2>1, MqttAssumption
      <3> QED
        BY <2>1, <3>1, Numbers DEF CountPlace, Fresh
    <2>5. InOrder'
      BY DEF InOrder
    <2> QED
      BY <2>2, <2>3, <2>4, <2>5 DEF OneSocket, StatePlace, SocketPlace, PlanPlace
  <1>5. CASE /\ Works
             /\ pc' = "ping"
             /\ \E k \in 1..Len(inbound) : inbound' = SubSeq(inbound, k + 1, Len(inbound))
             /\ IF Head(inbound).type = "SUBACK"
                THEN HandleSuback(Head(inbound))
                ELSE UNCHANGED <<count, outbox>>
             /\ UNCHANGED <<state, linkVars>>
    <2>1. inbound \in Seq(Message)
      BY DEF IInv, TypeOK, Message
    <2>2. PICK k \in 1..Len(inbound) : inbound' = SubSeq(inbound, k + 1, Len(inbound))
      BY <1>5
    <2>3. /\ inbound' \in Seq(Message)
          /\ Cardinality(Acks(inbound')) <= Cardinality(Acks(inbound))
          /\ Head(inbound).type = "SUBACK"
               => Cardinality(Acks(inbound')) <= Cardinality(Acks(inbound)) - 1
      BY <2>1, <2>2, AcksTaken
    <2>4. /\ count' \in Nat /\ count' <= count
          /\ count' < count => count' = count - 1 /\ Head(inbound).type = "SUBACK"
      <3>1. count \in Nat
        BY Numbers DEF IInv
      <3> QED
        BY <1>5, <3>1 DEF HandleSuback
    <2>5. outbox' \in Seq(Stored)
      <3>1. outbox \in Seq(Stored)
        BY DEF IInv, TypeOK, Stored
      <3>2. \A i \in 1..Len(outbox) : Deleted(i) \in Seq(Stored)
        BY <3>1 DEF Deleted
      <3>3. CASE Head(inbound).type # "SUBACK"
        BY <1>5, <3>1, <3>3
      <3>4. CASE Head(inbound).type = "SUBACK"
        <4>1. outbox' = outbox \/ \E i \in 1..Len(outbox) : outbox' = Deleted(i)
          BY <1>5, <3>4 DEF HandleSuback, Matches
        <4> QED
          BY <3>1, <3>2, <4>1
      <3> QED
        BY <3>3, <3>4
    <2>6. count \in Nat /\ failures \in Nat /\ MaxCount \in Nat
      BY Numbers, MqttAssumption DEF IInv, MaxCount
    <2>7. TypeOK'
      <3>1. count' \in 0..MaxCount
        BY <2>4, <2>6 DEF IInv, TypeOK
      <3> QED
        BY <1>1, <1>5, <2>3, <2>5, <3>1
           DEF IInv, TypeOK, packetVars, linkVars, Works, Stored, Message
    <2>8. CountCoversAcks'
      <3>1. Cardinality(Acks(inbound)) <= count /\ Cardinality(Acks(inbound)) \in Nat
        BY <2>1, AcksFinite DEF IInv, CountCoversAcks, Acks
      <3>2. Cardinality(Acks(inbound')) \in Nat
        BY <2>3, AcksFinite
      <3>3. Cardinality(Acks(inbound')) <= count'
        BY <2>3, <2>4, <2>6, <3>1, <3>2
      <3> QED
        BY <3>3 DEF CountCoversAcks, Acks
    <2>9. CountPlace'
      BY <1>1, <1>2, <1>5, <2>4, <2>6 DEF IInv, CountPlace, Fresh, linkVars, Works
    <2>10. InOrder'
      BY <1>1 DEF IInv, InOrder, packetVars
    <2> QED
      BY <1>1, <1>2, <1>5, <2>7, <2>8, <2>9, <2>10
         DEF IInv, OneSocket, StatePlace, SocketPlace, PlanPlace, packetVars, linkVars
  <1> QED
    BY <1>3, <1>4, <1>5 DEF Receive

LEMMA PingHolds == IInv /\ PingAndExpire => IInv'
  <1> SUFFICES ASSUME IInv, PingAndExpire PROVE IInv'
    OBVIOUS
  <1> USE DEF IInv, PingAndExpire, packetVars
  <1>1. CASE /\ Works
             /\ \E k \in 1..Len(outbox) + 1 : outbox' = SubSeq(outbox, k, Len(outbox))
             /\ UNCHANGED <<state, inbound, linkVars>>
    <2> USE <1>1 DEF Works, linkVars
    <2>1. outbox' \in Seq(Stored)
      BY DEF TypeOK, Stored
    <2>2. TypeOK'
      BY <2>1 DEF TypeOK, Stored
    <2>3. CountCoversAcks' /\ InOrder'
      BY DEF CountCoversAcks, InOrder
    <2>4. CountPlace'
      BY DEF CountPlace, Fresh, StatePlace
    <2> QED
      BY <2>2, <2>3, <2>4 DEF OneSocket, StatePlace, SocketPlace, PlanPlace
  <1>2. CASE Fails /\ Abort /\ UNCHANGED outbox
    <2>1. /\ failures' \in 0..MaxFailures /\ failures' >= failures
          /\ ~gone => failures' = failures + 1
      BY <1>2, FailsBounded
    <2> USE <1>2 DEF Abort, tcp_close
    <2>2. TypeOK'
      <3>1. inbound' \in Seq(Message)
        OBVIOUS
      <3> QED
        BY <2>1, <3>1 DEF TypeOK, Message
    <2>3. CountCoversAcks'
      BY AcksEmpty, Numbers DEF CountCoversAcks, Acks
    <2>4. CountPlace'
      <3>1. failures' \in Nat
        BY <2>1, MqttAssumption
      <3> QED
        BY <2>1, <3>1, Numbers DEF CountPlace, Fresh, StatePlace
    <2>5. InOrder'
      BY DEF InOrder
    <2> QED
      BY <2>2, <2>3, <2>4, <2>5 DEF OneSocket, StatePlace, SocketPlace, PlanPlace
  <1> QED
    BY <1>1, <1>2

LEMMA NextHolds == IInv /\ [Next]_vars => IInv'
  <1> SUFFICES ASSUME IInv, [Next]_vars PROVE IInv'
    OBVIOUS
  <1>1. CASE UNCHANGED vars
    BY <1>1
       DEF vars, packetVars, ackVars, linkVars, IInv, TypeOK, OneSocket, CountCoversAcks,
           StatePlace, SocketPlace, CountPlace, Fresh, InOrder, PlanPlace
  <1>2. CASE Produce
    BY <1>2, ProduceHolds
  <1>3. CASE LinkGone
    BY <1>3, LinkGoneHolds
  <1>4. CASE Client
    <2>1. CASE Dispatch
      BY <2>1, DispatchHolds
    <2>2. CASE LinkDown
      BY <2>2, LinkDownHolds
    <2>3. CASE ConnectFails
      BY <2>3, ConnectFailsHolds
    <2>4. CASE HangUp
      BY <2>4, HangUpHolds
    <2>5. CASE Poll
      BY <1>1, <2>5 DEF Poll
    <2>6. CASE Connect
      BY <2>6, ConnectHolds
    <2>7. CASE Subscribe
      BY <2>7, SubscribeHolds
    <2>8. CASE Retry
      BY <2>8, RetryHolds
    <2>9. CASE Take
      BY <2>9, TakeHolds
    <2>10. CASE Idle
      BY <2>10, IdleHolds
    <2>11. CASE \E t \in Topics : WriteTopic(t)
      BY <2>11, WriteTopicHolds
    <2>12. CASE Receive
      BY <2>12, ReceiveHolds
    <2>13. CASE PingAndExpire
      BY <2>13, PingHolds
    <2> QED
      BY <1>4, <2>1, <2>2, <2>3, <2>4, <2>5, <2>6, <2>7, <2>8, <2>9, <2>10, <2>11,
         <2>12, <2>13 DEF Client
  <1> QED
    BY <1>1, <1>2, <1>3, <1>4 DEF Next

THEOREM Inductive == Spec => []IInv
  BY InitHolds, NextHolds, PTL DEF Spec

-----------------------------------------------------------------------------
(* What IInv gives.                                                        *)

\* Every variable of the client stays in its type: pending_msg_count in
\* particular never goes below 0 and never beyond two for each connection
\* (mqtt_client.c:564-577, 1137).
THEOREM TypeCorrect == Spec => []TypeOK
  BY Inductive, PTL DEF IInv

\* No acknowledgement of a connection finds the counter of pending messages at
\* 0, whatever earlier connections left behind (mqtt_client.c:564).
THEOREM AcksAreCounted == Spec => []CountCoversAcks
  BY Inductive, PTL DEF IInv

\* A connected client has its socket, and tcp_connect never overwrites an open
\* one (transport_tcp.c:60).
THEOREM SocketIsNotLost == Spec => []OneSocket
  BY Inductive, PTL DEF IInv

-----------------------------------------------------------------------------
(* The refinement.                                                         *)

LEMMA InitRelays == Init => Promise!Init
  BY DEF Init, Promise!Init, RelayTodo

\* Take is Relay's Take, a write that works is Relay's Write; whatever else the
\* client does, connections that break included, leaves the promise as it is.
LEMMA StepRelays == IInv /\ [Next]_vars => [Promise!Next]_Promise!vars
  <1> SUFFICES ASSUME IInv, [Next]_vars
               PROVE  Promise!Next \/ UNCHANGED <<packet.n, RelayTodo, written>>
    BY DEF Promise!vars
  <1>1. CASE Take
    <2>1. OutQueue \in Seq(Packet) /\ OutQueue # <<>> /\ made \in 0..MaxPackets
      BY <1>1 DEF IInv, TypeOK, Take
    <2>2. packet' = OutQueue[1] /\ packet' \in Packet
      BY <1>1, <2>1 DEF Take
    <2>3. packet'.n = packet.n + 1
      BY <2>1, <2>2 DEF IInv, InOrder
    <2>4. packet.n < MaxPackets
      <3>1. packet.n \in Nat /\ packet'.n \in 0..MaxPackets
        BY <2>2, Numbers DEF IInv, Packet
      <3> QED
        BY <2>3, <3>1, MqttAssumption
    <2>5. RelayTodo = {} /\ failed' = failed /\ failed \subseteq Topics
      BY <1>1 DEF IInv, TypeOK, PlanPlace, RelayTodo, Retries, Take
    <2>6. failed \subseteq {"gps"}
      BY <1>1, <2>5 DEF Take, Retries, Topics
    <2>7. RelayTodo' \in {{"main"}, {"main", "gps"}}
      BY <1>1, <2>5, <2>6 DEF RelayTodo, Take
    <2> QED
      BY <1>1, <2>3, <2>4, <2>5, <2>7 DEF Take, Promise!Next, Promise!Take
  <1>2. CASE \E t \in Topics : WriteTopic(t)
    <2>1. PICK t \in Topics : WriteTopic(t)
      BY <1>2
    <2>2. packet' = packet /\ t \in plan /\ plan' = plan \ {t} /\ (t = "gps" => packet.gps)
      BY <2>1 DEF WriteTopic, IInv, PlanPlace
    <2>3. CASE failed' = AfterWrite(t, TRUE) /\ written' = Append(written, <<packet.n, t>>)
      <3>1. RelayTodo' = RelayTodo \ {t} /\ t \in RelayTodo
        BY <2>2, <2>3 DEF RelayTodo, AfterWrite
      <3>2. Promise!Write(t)
        BY <2>2, <2>3, <3>1 DEF Promise!Write
      <3> QED
        BY <3>2 DEF Promise!Next, Topics
    <2>4. CASE failed' = AfterWrite(t, FALSE) /\ UNCHANGED written
      <3>1. RelayTodo' = RelayTodo
        BY <2>2, <2>4 DEF RelayTodo, AfterWrite
      <3> QED
        BY <2>2, <2>4, <3>1
    <2> QED
      BY <2>1, <2>3, <2>4 DEF WriteTopic
  <1>3. CASE Retry
    BY <1>3 DEF Retry, Retries, IInv, PlanPlace, RelayTodo
  <1>4. CASE Idle
    BY <1>4 DEF Idle, Retries, IInv, PlanPlace, RelayTodo
  <1>5. CASE UNCHANGED packetVars
    BY <1>5 DEF packetVars, RelayTodo
  <1> QED
    BY <1>1, <1>2, <1>3, <1>4, <1>5
       DEF Next, Client, vars, Produce, LinkGone, Dispatch, LinkDown, ConnectFails, HangUp,
           Poll, Connect, Subscribe, Receive, PingAndExpire

\* However connections break, a packet taken from OutQueue is written once to
\* each of its topics before the next one is taken (mqtt_client.c:945-1011).
THEOREM ClientRelays == Spec => ImplementsRelay
  BY Inductive, InitRelays, StepRelays, PTL DEF Spec, ImplementsRelay, Promise!Spec
=============================================================================
