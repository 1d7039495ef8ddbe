------------------------------ MODULE Collector ------------------------------
(***************************************************************************)
(* The data pipeline of components/can_collector_utils.c: the FreeRTOS     *)
(* tasks and the three queues between them.                                *)
(*                                                                         *)
(*   ELM327 --> elm rx --\                 /--> OutQueue --> MQTT client   *)
(*                        rxQueue --> parse        ^                       *)
(*   GPS -----> gps rx --/                 \       |                       *)
(*                                          storeQueue --> card task <--> SD *)
(*   query task: sends the ELM327 requests and raises packetREADY          *)
(*                                                                         *)
(* rxQueue carries pointers to heap buffers; the two other queues copies of *)
(* the packet.  The SD card is the stack that MessageStack specifies and   *)
(* FileStack implements.  The MQTT client appears as the consumer of       *)
(* OutQueue, `online' when it is connected and polls the queue.            *)
(*                                                                         *)
(* Steps of a task that touch nothing another task sees are merged with    *)
(* the next one that does.  Timeouts of queue operations are steps of      *)
(* their own: they fire only while the operation cannot proceed.           *)
(***************************************************************************)
EXTENDS Sequences, Integers, FiniteSets

CONSTANTS Buffers,      \* the receive buffers the heap has room for
          QLEN,         \* MESSAGE_QUEUE_LENGTH: 5 in the code
          ElmInstalled, \* is elm327_init called, so that the ELM327 UART works
          None,         \* no buffer, no packet
          MaxPackets,   \* bound: packetREADY is raised below this many packets
          MaxBoots      \* bound: how often the device is switched on

ASSUME ParametersAssumption ==
  /\ None \notin Buffers
  /\ QLEN \in Nat \ {0}
  /\ ElmInstalled \in BOOLEAN
  /\ MaxPackets \in Nat
  /\ MaxBoots \in Nat \ {0}

VARIABLES
  heap,        \* buffers that are free
  rx,          \* the buffer each receive task holds, or None
  rxQueue,     \* buffers and what they contain
  leaked,      \* history: buffers no task holds a pointer to any more
  queryPc,     \* where the query task is
  asked,       \* a request for the VIN that the ELM327 has yet to answer
  isVin,       \* is_vin
  packetREADY,
  parsePc,     \* where the parse task is
  packet,      \* the packet it assembles: is its VIN set, are its fields nonzero
  built,       \* how many packets were handed on
  OutQueue, storeQueue,
  cardPc,      \* where the card task is
  message,     \* its local copy of a packet
  stackdepth,  \* its count of the messages on the card
  card,        \* the messages on the card, oldest first
  room,        \* how many messages the file on the card ever held at once
  online,      \* is the MQTT client polling OutQueue
  sent,        \* history: packets the MQTT client took
  dropped,     \* history: packets the parse task found no room for
  lost,        \* history: packets popped from the card and not requeued
  boots,       \* how often the device was switched on
  dark         \* history: packets that were in RAM when it was switched off

rxVars    == <<heap, rx, rxQueue, leaked>>
queryVars == <<queryPc, asked, isVin, packetREADY>>
parseVars == <<parsePc, packet, built, dropped>>
cardVars  == <<cardPc, message, stackdepth, card, room, lost>>
netVars   == <<online, sent>>
bootVars  == <<boots, dark>>
vars == <<rxVars, queryVars, parseVars, OutQueue, storeQueue, cardVars, netVars, bootVars>>

RxTask == {"elm", "gps"}

\* What a buffer holds: an answer with the VIN, or anything else (a sensor
\* value, a GPS sentence, "NO DATA"): that only fills in values and field bits.
Kind == {"VIN", "OTHER"}

\* A packet as it travels: its number, whether it carries the VIN of the car
\* and whether its `fields' byte is nonzero.  The zeros that a pop of the empty
\* stack reads are number 0.
Packet == [id : 1..MaxPackets, vin : BOOLEAN, fields : BOOLEAN]
BlankPacket == [id |-> 0, vin |-> FALSE, fields |-> FALSE]

Card == INSTANCE MessageStack
          WITH Record <- Packet, Blank <- BlankPacket, stack <- card, popped <- message
-----------------------------------------------------------------------------
(* Small parts of the tasks, each after a mutant of it.                    *)

\* mutant: no field set
NewPacketBare == [vin |-> FALSE, fields |-> FALSE]

\* elm327_new_data, then packet.fields = MISC_FIELD
NewPacket == [vin |-> FALSE, fields |-> TRUE]

\* mutant: is_vin is set but the packet's VIN is not filled in
WithVinUncopied(p) == p

\* memcpy(packet.VIN, VIN, 17)
WithVin(p) == [p EXCEPT !.vin = TRUE]

\* mutant: off by one
RoomOffByOne(q) == Len(q) <= QLEN

Room(q) == Len(q) < QLEN

\* mutant: the receive task frees what it sent
HeapAfterSendFreed(b) == heap \cup {b}

\* "data will be vPortFreed by receiving function"
HeapAfterSend(b) == heap

\* mutant: a packet that was sent is stored as well
AfterSendOutStore == "store"

AfterSendOut == "reset"

\* mutant: off by one
HasStoredOffByOne == stackdepth > 1

HasStored == stackdepth > 0

\* mutant: the count is not kept
CountPushForgotten == stackdepth

CountPush == stackdepth + 1

Init == /\ heap = Buffers
        /\ rx = [t \in RxTask |-> None]
        /\ rxQueue = <<>>
        /\ leaked = {}
        /\ queryPc = "start"
        /\ asked = {}
        /\ isVin = FALSE
        /\ packetREADY = FALSE
        /\ parsePc = "receive"
        /\ packet = NewPacket
        /\ built = 0
        /\ dropped = {}
        /\ OutQueue = <<>>
        /\ storeQueue = <<>>
        /\ cardPc = "check"
        /\ message = None
        /\ stackdepth = 0
        /\ card = <<>>
        /\ lost = {}
        /\ room = 0
        /\ online = FALSE
        /\ sent = {}
        /\ boots = 1
        /\ dark = {}
-----------------------------------------------------------------------------
(* collector_query_task                                                    *)

QueryStart == /\ queryPc = "start"
              /\ isVin' = FALSE
              /\ queryPc' = "vin"
              /\ UNCHANGED <<asked, packetREADY>>

QueryVin == /\ queryPc = "vin"
            /\ IF isVin THEN queryPc' = "sensors" /\ UNCHANGED asked
                        ELSE asked' = {"VIN"} /\ UNCHANGED queryPc
            /\ UNCHANGED <<isVin, packetREADY>>

\* Fuel, oil temperature and speed are asked for, then a packet is due.
QuerySensors == /\ queryPc = "sensors"
                /\ built < MaxPackets
                /\ packetREADY' = TRUE
                /\ UNCHANGED <<queryPc, asked, isVin>>

QueryTask == /\ QueryStart \/ QueryVin \/ QuerySensors
             /\ UNCHANGED <<rxVars, parseVars, OutQueue, storeQueue, cardVars, netVars, bootVars>>
-----------------------------------------------------------------------------
(* collector_elm_rx_task and collector_gps_rx_task                         *)

\* pvPortMalloc; while it returns NULL the task waits.
Allocate(t) == /\ rx[t] = None
               /\ \E b \in heap : rx' = [rx EXCEPT ![t] = b] /\ heap' = heap \ {b}
               /\ UNCHANGED <<rxQueue, leaked, asked>>

\* uart_read_bytes timed out or failed: vPortFree.
ReadNothing(t) == /\ rx[t] # None
                  /\ heap' = heap \cup {rx[t]}
                  /\ rx' = [rx EXCEPT ![t] = None]
                  /\ UNCHANGED <<rxQueue, leaked, asked>>

\* What a UART may deliver: an answer to a request, or anything else.  A sentence
\* of the GPS that is read in two can begin as an answer with the VIN does.
Readable(t) == IF t = "gps" THEN Kind
               ELSE IF ElmInstalled THEN asked \cup {"OTHER"} ELSE {}

\* Bytes arrived: xQueueSend(rxQueue, &data, 0), its result not looked at.
\* The pointer is forgotten either way.
ReadAndSend(t, k) ==
  /\ rx[t] # None
  /\ k \in Readable(t)
  /\ asked' = IF t = "gps" THEN asked ELSE asked \ {k}
  /\ IF Room(rxQueue)
       THEN /\ rxQueue' = Append(rxQueue, [buf |-> rx[t], kind |-> k])
            /\ UNCHANGED leaked
       ELSE /\ leaked' = leaked \cup {rx[t]}
            /\ UNCHANGED rxQueue
  /\ rx' = [rx EXCEPT ![t] = None]
  /\ heap' = HeapAfterSend(rx[t])

ReceiveTask(t) ==
  /\ Allocate(t) \/ ReadNothing(t) \/ \E k \in Kind : ReadAndSend(t, k)
  /\ UNCHANGED <<queryPc, isVin, packetREADY, parseVars, OutQueue, storeQueue,
                 cardVars, netVars, bootVars>>
-----------------------------------------------------------------------------
(* collector_parse_task                                                    *)

\* Receive a buffer, parse it into the packet, free it, look at packetREADY.
Parse == /\ parsePc = "receive"
         /\ rxQueue # <<>>
         /\ heap' = heap \cup {Head(rxQueue).buf}
         /\ rxQueue' = Tail(rxQueue)
         /\ IF Head(rxQueue).kind = "VIN"
              THEN packet' = WithVin(packet) /\ isVin' = TRUE
              ELSE UNCHANGED <<packet, isVin>>
         /\ IF packetREADY THEN parsePc' = "out" /\ built' = built + 1
                           ELSE UNCHANGED <<parsePc, built>>
         /\ UNCHANGED <<rx, leaked, OutQueue, storeQueue, dropped, packetREADY>>

ThePacket == [id |-> built, vin |-> packet.vin, fields |-> packet.fields]

\* xQueueSend(OutQueue, &packet, 0)
SendOut == /\ parsePc = "out"
           /\ IF Room(OutQueue)
                THEN OutQueue' = Append(OutQueue, ThePacket) /\ parsePc' = AfterSendOut
                ELSE parsePc' = "store" /\ UNCHANGED OutQueue
           /\ UNCHANGED <<storeQueue, dropped, packet, built, isVin, packetREADY,
                          heap, rx, rxQueue, leaked>>

\* xQueueSend(storeQueue, &packet, 0), else "Storage Queue Full!"
SendStore == /\ parsePc = "store"
             /\ IF Room(storeQueue)
                  THEN storeQueue' = Append(storeQueue, ThePacket) /\ UNCHANGED dropped
                  ELSE dropped' = dropped \cup {built} /\ UNCHANGED storeQueue
             /\ parsePc' = "reset"
             /\ UNCHANGED <<OutQueue, packet, built, isVin, packetREADY,
                            heap, rx, rxQueue, leaked>>

\* packet.fields = MISC_FIELD; packetREADY = false
Reset == /\ parsePc = "reset"
         /\ packet' = [packet EXCEPT !.fields = NewPacket.fields]
         /\ packetREADY' = FALSE
         /\ parsePc' = "receive"
         /\ UNCHANGED <<OutQueue, storeQueue, dropped, built, isVin,
                        heap, rx, rxQueue, leaked>>

ParseTask == /\ Parse \/ SendOut \/ SendStore \/ Reset
             /\ UNCHANGED <<queryPc, asked, cardVars, netVars, bootVars>>
-----------------------------------------------------------------------------
(* collector_card_task                                                     *)

\* uxQueueMessagesWaiting(OutQueue) < MESSAGE_QUEUE_LENGTH && stackdepth > 0:
\* fStack_pop.  The message is off the card from here on; with the card empty
\* the file store may still count messages, and reads zeros.
CardPop == /\ cardPc = "check"
           /\ Room(OutQueue) /\ HasStored
           /\ Card!Pop \/ Card!PopBlank
           /\ stackdepth' = stackdepth - 1
           /\ cardPc' = "requeue"
           /\ UNCHANGED <<OutQueue, storeQueue, room, lost>>

CardSkip == /\ cardPc = "check"
            /\ ~(Room(OutQueue) /\ HasStored)
            /\ cardPc' = "receive"
            /\ UNCHANGED <<OutQueue, storeQueue, message, card, room, stackdepth, lost>>

\* xQueueSend(OutQueue, &message, 100 ms) ...
CardRequeue == /\ cardPc = "requeue"
               /\ Room(OutQueue)
               /\ OutQueue' = Append(OutQueue, message)
               /\ cardPc' = "receive"
               /\ UNCHANGED <<storeQueue, message, card, room, stackdepth, lost>>

\* ... its result not looked at: the next receive overwrites the message.
CardRequeueTimeout == /\ cardPc = "requeue"
                      /\ ~Room(OutQueue)
                      /\ lost' = lost \cup ({message.id} \ {0})
                      /\ cardPc' = "receive"
                      /\ UNCHANGED <<OutQueue, storeQueue, message, card, room, stackdepth>>

CardReceive == /\ cardPc = "receive"
               /\ storeQueue # <<>>
               /\ message' = Head(storeQueue)
               /\ storeQueue' = Tail(storeQueue)
               /\ cardPc' = "push"
               /\ UNCHANGED <<OutQueue, card, room, stackdepth, lost>>

CardReceiveTimeout == /\ cardPc = "receive"
                      /\ storeQueue = <<>>
                      /\ cardPc' = "check"
                      /\ UNCHANGED <<OutQueue, storeQueue, message, card, room, stackdepth, lost>>

\* fStack_push
CardPush == /\ cardPc = "push"
            /\ Card!Push(message)
            /\ stackdepth' = CountPush
            /\ room' = IF Len(card') > room THEN Len(card') ELSE room
            /\ cardPc' = "check"
            /\ UNCHANGED <<OutQueue, storeQueue, lost>>

CardTask == /\ \/ CardPop \/ CardSkip \/ CardRequeue \/ CardRequeueTimeout
               \/ CardReceive \/ CardReceiveTimeout \/ CardPush
            /\ UNCHANGED <<rxVars, queryVars, parseVars, netVars, bootVars>>
-----------------------------------------------------------------------------
(* The MQTT client's end of OutQueue: xQueueReceive once it is connected.  *)

Publish == /\ online
           /\ OutQueue # <<>>
           /\ sent' = sent \cup ({Head(OutQueue).id} \ {0})
           /\ OutQueue' = Tail(OutQueue)
           /\ UNCHANGED online

ConnectionChange == online' = ~online /\ UNCHANGED <<OutQueue, sent>>

Network == /\ Publish \/ ConnectionChange
           /\ UNCHANGED <<rxVars, queryVars, parseVars, storeQueue, cardVars, bootVars>>

-----------------------------------------------------------------------------
(* Every power loss, and the update task's esp_restart, empties the RAM.   *)

Ids(q) == {q[i].id : i \in DOMAIN q} \ {0}

\* The packets that are only in RAM.
InRam == Ids(OutQueue) \cup Ids(storeQueue)
         \cup (IF parsePc \in {"out", "store"} THEN {built} ELSE {})
         \cup (IF cardPc \in {"requeue", "push"} THEN {message.id} \ {0} ELSE {})

\* mutant: the count starts at 0 after a restart
DepthAtBootForgotten == 0

\* stack_init counts the file up to its end, popped messages and all, and the
\* card task starts from that count (FileStack's ScannedDepth).
DepthAtBoot == room

Restart ==
  /\ boots < MaxBoots
  /\ boots' = boots + 1
  /\ dark' = dark \cup InRam
  /\ heap' = Buffers /\ rx' = [t \in RxTask |-> None] /\ rxQueue' = <<>> /\ leaked' = {}
  /\ queryPc' = "start" /\ asked' = {} /\ isVin' = FALSE /\ packetREADY' = FALSE
  /\ parsePc' = "receive" /\ packet' = NewPacket
  /\ OutQueue' = <<>> /\ storeQueue' = <<>>
  /\ cardPc' = "check" /\ message' = None
  /\ stackdepth' = DepthAtBoot
  /\ online' = FALSE
  /\ UNCHANGED <<built, dropped, card, room, lost, sent>>

Next == \/ QueryTask \/ ParseTask \/ CardTask \/ Network \/ Restart
        \/ \E t \in RxTask : ReceiveTask(t)

Spec == Init /\ [][Next]_vars

\* The parse and the card task are scheduled when they can run, and a client
\* that is connected polls OutQueue.  Nothing is assumed of the UARTs, the
\* query task and the receive tasks.
Fairness == /\ WF_vars(ParseTask)
            /\ WF_vars(CardTask)
            /\ WF_vars(Publish /\ Network)

FairSpec == Spec /\ Fairness
-----------------------------------------------------------------------------
\* Every variable stays in its range, and no queue ever holds more than the
\* MESSAGE_QUEUE_LENGTH items it was created for (can_collector_utils.c:256-269).
TypeOK ==
  /\ heap \subseteq Buffers /\ leaked \subseteq Buffers
  /\ rx \in [RxTask -> Buffers \cup {None}]
  /\ rxQueue \in Seq([buf : Buffers, kind : Kind]) /\ Len(rxQueue) <= QLEN
  /\ queryPc \in {"start", "vin", "sensors"}
  /\ asked \subseteq Kind
  /\ isVin \in BOOLEAN /\ packetREADY \in BOOLEAN
  /\ parsePc \in {"receive", "out", "store", "reset"}
  /\ packet \in [vin : BOOLEAN, fields : BOOLEAN]
  /\ built \in 0..MaxPackets
  /\ OutQueue \in Seq(Packet \cup {BlankPacket}) /\ Len(OutQueue) <= QLEN
  /\ storeQueue \in Seq(Packet) /\ Len(storeQueue) <= QLEN
  /\ cardPc \in {"check", "requeue", "receive", "push"}
  /\ message \in Packet \cup {BlankPacket, None}
  /\ stackdepth \in Nat /\ room \in Nat
  /\ card \in Seq(Packet)
  /\ online \in BOOLEAN
  /\ sent \subseteq 1..MaxPackets /\ dropped \subseteq 1..MaxPackets
  /\ lost \subseteq 1..MaxPackets /\ dark \subseteq 1..MaxPackets
  /\ boots \in 1..MaxBoots

\* How often a value occurs in a sequence.
Occurrences(s, P(_)) == Cardinality({i \in DOMAIN s : P(s[i])})

In(b) == IF b THEN 1 ELSE 0

\* Every receive buffer has one owner: the heap, the task that reads into it,
\* one entry of rxQueue, or nobody.  So no buffer is freed twice, used after
\* its free or received twice (can_collector_utils.c:58-81, 133-173).
OneOwner ==
  \A b \in Buffers :
    1 = In(b \in heap) + In(b \in leaked) + In(rx["elm"] = b) + In(rx["gps"] = b)
        + Occurrences(rxQueue, LAMBDA e : e.buf = b)

\* Every packet handed on is in one place: in the hands of the parse task or
\* of the card task, in a queue, on the card, sent, dropped, lost, or gone with
\* the RAM at a restart.  Nothing is sent twice and nothing vanishes but by the
\* three ways the code has (can_collector_utils.c:175-192, 205-221).
OnePlace ==
  \A i \in 1..built :
    1 = In(i = built /\ parsePc \in {"out", "store"})
        + In(cardPc \in {"requeue", "push"} /\ message.id = i)
        + Occurrences(OutQueue, LAMBDA p : p.id = i)
        + Occurrences(storeQueue, LAMBDA p : p.id = i)
        + Occurrences(card, LAMBDA p : p.id = i)
        + In(i \in sent) + In(i \in dropped) + In(i \in lost) + In(i \in dark)

\* The card task's own count reaches every message on the card, and up to the
\* first restart it is their number, so the empty stack is popped only after one
\* (can_collector_utils.c:203-218, stack_utils.c:28-39).
CountsCard == /\ stackdepth >= Len(card)
              /\ boots = 1 => stackdepth = Len(card)

Stored == {storeQueue[i] : i \in DOMAIN storeQueue} \cup {card[i] : i \in DOMAIN card}
Outgoing == {OutQueue[i] : i \in DOMAIN OutQueue}

\* A packet travels with the car's VIN and a nonzero `fields' byte, which
\* elm327.h:65 says is needed "for correct function of fileStack": packetREADY is
\* raised only after is_vin (can_collector_utils.c:29-41, 159-163).  The zeros of
\* an empty stack are never stored, and go out only after a restart.
TravelsWhole == /\ \A p \in Stored \cup Outgoing : p.id # 0 => p.vin /\ p.fields
                /\ \A p \in Stored : p.id # 0
                /\ (\E p \in Outgoing : p.id = 0) => boots > 1

\* Once the client stays connected, every packet that was built is sooner or
\* later sent, unless it was dropped or lost, the card is empty, and no zeros are
\* popped from it any more, whatever its count was at the last boot.
Drains ==
  <>[]online => <>[](/\ card = <<>> /\ stackdepth = 0
                     /\ 1..built = sent \cup dropped \cup lost \cup dark)

\* can_collector_utils.h:66 "storing data when connection fails, and
\* requeueing data when connection is re-established": what is stored is
\* requeued.
StoredIsRequeued == lost = {}
=============================================================================
