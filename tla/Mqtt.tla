-------------------------------- MODULE Mqtt --------------------------------
(***************************************************************************)
(* The MQTT client of components/mqtt_client.c as this firmware uses it:   *)
(* esp_mqtt_task takes packets from OutQueue, publishes each with QoS 0 to *)
(* MQTT_TOPIC ("main") and, if it carries a position, to MQTT_TOPIC_GPS    *)
(* ("gps"), and retries what could not be written; the handler of          *)
(* MQTT_EVENT_CONNECTED (SIM_utils.c) subscribes to both topics, whose     *)
(* acknowledgements are matched with the pending message and the outbox.   *)
(*                                                                         *)
(* The network fails at most MaxFailures times: a failure is a refused     *)
(* connection, a write or a read that returns an error.  A write that      *)
(* succeeds has reached the socket, which is what the code knows of it.    *)
(* The link under the socket comes back as often as it is lost (ppposInit  *)
(* waits for it) until the task of libGSM gives up; from then on ppposInit *)
(* returns 0 (GivenUpIsFinal of module Gsm).  app_main has seen the link   *)
(* up before the client is started (SIM_init).                             *)
(***************************************************************************)
EXTENDS Integers, Sequences, FiniteSets

CONSTANTS
    MaxPackets,     \* packets put on OutQueue
    QLEN,           \* MESSAGE_QUEUE_LENGTH
    MaxFailures,    \* failures of the network
    Ids             \* the message ids mqtt_msg_subscribe draws

ASSUME MqttAssumption ==
    /\ MaxPackets \in Nat
    /\ QLEN \in Nat \ {0}
    /\ MaxFailures \in Nat
    /\ Ids # {} /\ IsFiniteSet(Ids)

VARIABLES
    OutQueue,   \* the packets waiting: their number and whether gps is due
    made,       \* the packets put on OutQueue so far
    state,      \* client->state
    pc,         \* where esp_mqtt_task is in its loop
    packet,     \* pxRxedMessage, with mensaje.GPS
    failed,     \* the topics whose last publish returned -1 (msg_id, msg_id2)
    plan,       \* the topics still to publish in this pass
    pending,    \* pending_msg_type and pending_msg_id
    count,      \* pending_msg_count
    outbox,     \* types and ids of the messages stored, oldest first
    inbound,    \* what the broker has sent on this connection
    written,    \* what has been written: <<packet number, topic>>
    sock,       \* tcp->sock is an open socket
    gone,       \* the task of libGSM has given up: there will be no link
    failures

linkVars == <<sock, gone>>
packetVars == <<packet, failed, plan, written>>
ackVars == <<pending, count, outbox>>
vars == <<OutQueue, made, state, pc, packetVars, ackVars, inbound, linkVars, failures>>

Topics == {"main", "gps"}
Packet == [n : 0..MaxPackets, gps : BOOLEAN]
SubscribeMsg == [type : {"SUBSCRIBE"}, id : Ids]
ConnectMsg == [type |-> "CONNECT", id |-> 0]
Suback == [type : {"SUBACK"}, id : Ids]
Publish == [type |-> "PUBLISH", id |-> 0]
None == [type |-> "NONE", id |-> 0]

\* Two subscriptions to a session, and a session to a failure but one.
MaxCount == 2 * (MaxFailures + 1)

\* Every variable stays in its range; pending_msg_count grows by at most two
\* for every session (mqtt_client.c:1137) and never goes below 0, where it would
\* be taken for pending messages.
TypeOK ==
    /\ OutQueue \in Seq(Packet) /\ Len(OutQueue) <= QLEN
    /\ made \in 0..MaxPackets
    /\ state \in {"INIT", "CONNECTED", "WAIT_TIMEOUT"}
    /\ pc \in {"loop", "connect", "hangup", "hung", "sub1", "sub2", "pass",
              "write", "read", "ping"}
    /\ packet \in Packet
    /\ failed \subseteq Topics
    /\ plan \subseteq Topics
    /\ pending \in SubscribeMsg \cup {ConnectMsg, None}
    /\ count \in 0..MaxCount
    /\ outbox \in Seq(SubscribeMsg \cup {ConnectMsg})
    /\ inbound \in Seq(Suback \cup {Publish})
    /\ written \in Seq((0..MaxPackets) \X Topics)
    /\ sock \in BOOLEAN
    /\ gone \in BOOLEAN
    /\ failures \in 0..MaxFailures

Init ==
    /\ OutQueue = <<>>
    /\ made = 0
    /\ state = "INIT"
    /\ pc = "loop"
    /\ packet = [n |-> 0, gps |-> FALSE]
    /\ failed = {}
    /\ plan = {}
    /\ pending = None
    /\ count = 0
    /\ outbox = <<>>
    /\ inbound = <<>>
    /\ written = <<>>
    /\ sock = FALSE
    /\ gone = FALSE
    /\ failures = 0

-----------------------------------------------------------------------------
\* The network.

Fails ==
    \/ gone /\ UNCHANGED failures
    \/ ~gone /\ failures < MaxFailures /\ failures' = failures + 1
Works == UNCHANGED failures

\* The task of libGSM ends.
LinkGone ==
    /\ ~gone
    /\ gone' = TRUE
    /\ UNCHANGED <<OutQueue, made, state, pc, packetVars, ackVars, inbound, sock,
                   failures>>

\* tcp_connect: ppposInit() == 1, a new descriptor and connect(); one that was
\* open before is forgotten, not closed.
tcp_connect == ~gone /\ sock' = TRUE

tcp_close == sock' = FALSE

\* A plausible slip: the transport is left open.
AbortKeepsSocket ==
    /\ state' = "WAIT_TIMEOUT"
    /\ inbound' = <<>>
    /\ UNCHANGED linkVars

\* esp_mqtt_abort_connection: what the broker had sent is gone with the socket.
Abort ==
    /\ state' = "WAIT_TIMEOUT"
    /\ inbound' = <<>>
    /\ tcp_close
    /\ UNCHANGED gone

\* The parse and card tasks.
Produce ==
    /\ made < MaxPackets
    /\ Len(OutQueue) < QLEN
    /\ made' = made + 1
    /\ \E gps \in BOOLEAN :
         OutQueue' = Append(OutQueue, [n |-> made + 1, gps |-> gps])
    /\ UNCHANGED <<state, pc, packetVars, ackVars, inbound, linkVars, failures>>

-----------------------------------------------------------------------------
\* esp_mqtt_task: the top of the loop.

\* ppposInit() == 0: the socket of a connected client stays open.  Or ppposInit
\* waits for ever, for a task that was started anew and ended unseen.
LinkDown ==
    /\ pc = "loop"
    /\ gone
    /\ \/ state' = "INIT" /\ UNCHANGED pc
       \/ pc' = "hung" /\ UNCHANGED state
    /\ UNCHANGED <<OutQueue, made, packetVars, ackVars, inbound, linkVars, failures>>

\* ppposInit() == 1 and the switch on the state; auto_reconnect is set, and
\* the wait ends after MQTT_RECONNECT_TIMEOUT_MS.
Dispatch ==
    /\ pc = "loop"
    /\ ~gone
    /\ pc' = CASE state = "INIT" -> "connect"
               [] state = "CONNECTED" -> "pass"
               [] state = "WAIT_TIMEOUT" -> "loop"
    /\ state' = IF state = "WAIT_TIMEOUT" THEN "INIT" ELSE state
    /\ UNCHANGED <<OutQueue, made, packetVars, ackVars, inbound, linkVars, failures>>

-----------------------------------------------------------------------------
\* MQTT_STATE_INIT.

ConnectFails ==
    /\ pc = "connect"
    /\ Fails
    /\ \/ pending' = ConnectMsg     \* esp_mqtt_connect failed
       \/ UNCHANGED pending         \* transport_connect failed
    /\ Abort
    /\ pc' = "hangup"
    /\ UNCHANGED <<OutQueue, made, packetVars, count, outbox>>

\* ppposDisconnect(0, 0): it returns when the task of libGSM has answered, and
\* waits for ever when there is none (DisconnectIsAnswered of module Gsm).
HangUp ==
    /\ pc = "hangup"
    /\ pc' = IF gone THEN "hung" ELSE "loop"
    /\ UNCHANGED <<OutQueue, made, state, packetVars, ackVars, inbound, linkVars,
                   failures>>

\* The loops of ppposInit and ppposDisconnect poll what nobody sets any more.
Poll == pc = "hung" /\ UNCHANGED vars

Connect ==
    /\ pc = "connect"
    /\ tcp_connect
    /\ Works
    /\ pending' = ConnectMsg
    /\ state' = "CONNECTED"
    /\ inbound' = <<>>
    /\ pc' = "sub1"
    /\ UNCHANGED <<OutQueue, made, packetVars, count, outbox, gone>>

\* mqtt_enqueue: the pending message is stored if any is counted.
Enqueued == IF count > 0 THEN Append(outbox, pending) ELSE outbox

\* A plausible slip: the pending message is not counted.
CountSubscribeForgotten == count

\* A plausible slip: moving a message to the outbox counts it again.
CountSubscribeAndStored == IF count > 0 THEN count + 2 ELSE count + 1

\* client->mqtt_state.pending_msg_count ++
CountSubscribe == count + 1

\* esp_mqtt_client_subscribe, called by mqtt_event_handler for both topics.
\* The broker acknowledges what it receives.
Subscribe ==
    /\ pc \in {"sub1", "sub2"}
    /\ outbox' = Enqueued
    /\ count' = CountSubscribe
    /\ \E id \in Ids :
         /\ pending' = [type |-> "SUBSCRIBE", id |-> id]
         /\ \/ /\ Works
               /\ inbound' = Append(inbound, [type |-> "SUBACK", id |-> id])
            \/ Fails /\ UNCHANGED inbound
    /\ pc' = IF pc = "sub1" THEN "sub2" ELSE "loop"
    /\ UNCHANGED <<OutQueue, made, state, packetVars, linkVars>>

-----------------------------------------------------------------------------
\* MQTT_STATE_CONNECTED.

\* A plausible slip: msg_id2 alone does not keep the packet.
RetriesMainOnly == IF "main" \in failed THEN failed ELSE {}

\* What the three retry branches publish: msg_id2 only counts with a position.
Retries == IF packet.gps THEN failed ELSE failed \ {"gps"}

Retry ==
    /\ pc = "pass"
    /\ Retries # {}
    /\ plan' = Retries
    /\ pc' = "write"
    /\ UNCHANGED <<OutQueue, made, state, packet, failed, written, ackVars,
                   inbound, linkVars, failures>>

Take ==
    /\ pc = "pass"
    /\ Retries = {}
    /\ OutQueue # <<>>
    /\ packet' = Head(OutQueue)
    /\ OutQueue' = Tail(OutQueue)
    /\ plan' = IF packet'.gps THEN {"main", "gps"} ELSE {"main"}
    /\ pc' = "write"
    /\ UNCHANGED <<made, state, failed, written, ackVars, inbound, linkVars,
                   failures>>

\* Nothing to publish: neither a read nor a ping.
Idle ==
    /\ pc = "pass"
    /\ Retries = {}
    /\ OutQueue = <<>>
    /\ failed' = {}
    /\ pc' = "loop"
    /\ UNCHANGED <<OutQueue, made, state, packet, plan, written, ackVars,
                   inbound, linkVars, failures>>

\* A plausible slip: what esp_mqtt_client_publish returns is not kept.
AfterWriteForgotten(t, ok) == failed \ {t}

\* msg_id = esp_mqtt_client_publish(...), msg_id2 likewise.
AfterWrite(t, ok) == IF ok THEN failed \ {t} ELSE failed \cup {t}

\* The publish to one topic; the broker may echo it to its subscriber.
WriteTopic(t) ==
    /\ pc = "write"
    /\ t \in plan
    /\ t = "gps" => "main" \notin plan
    /\ plan' = plan \ {t}
    /\ pc' = IF plan' = {} THEN "read" ELSE "write"
    /\ \/ /\ Works
          /\ failed' = AfterWrite(t, TRUE)
          /\ written' = Append(written, <<packet.n, t>>)
          /\ inbound' \in {inbound, Append(inbound, Publish)}
       \/ /\ Fails
          /\ failed' = AfterWrite(t, FALSE)
          /\ UNCHANGED <<written, inbound>>
    /\ UNCHANGED <<OutQueue, made, state, packet, ackVars, linkVars>>

\* outbox_delete: the first item with this type and id.
Matches(m) == {i \in 1..Len(outbox) : outbox[i] = m}
Deleted(i) == SubSeq(outbox, 1, i - 1) \o SubSeq(outbox, i + 1, Len(outbox))

\* is_valid_mqtt_msg for a SUBACK.
HandleSuback(m) ==
    LET sub == [type |-> "SUBSCRIBE", id |-> m.id]
        hits == Matches(sub)
    IN  IF count > 0 /\ hits # {}
        THEN /\ \E i \in hits : (\A j \in hits : i <= j) /\ outbox' = Deleted(i)
             /\ count' = count - 1
        ELSE /\ count' = IF count > 0 /\ pending = sub THEN count - 1 ELSE count
             /\ UNCHANGED outbox

\* mqtt_process_receive: nothing, an error, or one read of one or several
\* messages, of which only the first is looked at.
Receive ==
    /\ pc = "read"
    /\ UNCHANGED <<OutQueue, made, packetVars, pending>>
    /\ \/ /\ Works
          /\ pc' = "ping"
          /\ UNCHANGED <<state, count, outbox, inbound, linkVars>>
       \/ /\ Fails
          /\ Abort
          /\ pc' = "loop"
          /\ UNCHANGED <<count, outbox>>
       \/ /\ Works
          /\ pc' = "ping"
          /\ \E k \in 1..Len(inbound) :
               inbound' = SubSeq(inbound, k + 1, Len(inbound))
          /\ IF Head(inbound).type = "SUBACK"
             THEN HandleSuback(Head(inbound))
             ELSE UNCHANGED <<count, outbox>>
          /\ UNCHANGED <<state, linkVars>>

\* The ping, if it is time for it, then outbox_delete_expired and
\* outbox_cleanup: both remove the oldest items.
PingAndExpire ==
    /\ pc = "ping"
    /\ pc' = "loop"
    /\ UNCHANGED <<OutQueue, made, packetVars, pending, count>>
    /\ \/ /\ Works
          /\ \E k \in 1..Len(outbox) + 1 : outbox' = SubSeq(outbox, k, Len(outbox))
          /\ UNCHANGED <<state, inbound, linkVars>>
       \/ /\ Fails
          /\ Abort
          /\ UNCHANGED outbox

Client ==
    \/ Dispatch \/ LinkDown \/ ConnectFails \/ HangUp \/ Poll \/ Connect
    \/ Subscribe \/ Retry \/ Take \/ Idle \/ (\E t \in Topics : WriteTopic(t)) \/ Receive
    \/ PingAndExpire

Next == Produce \/ LinkGone \/ Client

Spec == Init /\ [][Next]_vars

\* The scheduler runs the client, and every call of it returns.
FairSpec == Spec /\ WF_vars(Client)

-----------------------------------------------------------------------------
\* The client implements Relay: however connections break, between the two
\* publishes of a packet or in the middle of a retry (mqtt_client.c:945-1011),
\* no packet taken from OutQueue is given up before it was written to each of
\* its topics, none is written twice to one, and none overtakes another.
RelayTodo == plan \cup IF packet.gps THEN failed ELSE failed \ {"gps"}

Promise == INSTANCE Relay WITH current <- packet.n, todo <- RelayTodo

ImplementsRelay == Promise!Spec

\* Every acknowledgement of this session finds a message counted as pending:
\* is_valid_mqtt_msg (mqtt_client.c:564) never discards it because the counter,
\* which survives reconnections, fell behind.
CountCoversAcks ==
    Cardinality({i \in 1..Len(inbound) : inbound[i].type = "SUBACK"}) <= count

\* A connected client has its socket, and tcp_connect (transport_tcp.c:60), which
\* overwrites the descriptor, never loses an open one: every way back to a new
\* connection closes the old one, except the one of mqtt_client.c:915, from which
\* no connection is made any more.
OneSocket ==
    /\ state = "CONNECTED" => sock
    /\ pc = "connect" => ~sock

\* When the network fails only so often and the link is not given up, every
\* packet put on OutQueue is written to its main topic at last.
EachIsPublished ==
    \A n \in 1..MaxPackets :
      made >= n ~> gone \/ \E i \in 1..Len(written) : written[i] = <<n, "main">>
=============================================================================
