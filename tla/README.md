# can_collector: specifications and proofs

can_collector is the firmware of an ESP32 device in a truck. It reads the
vehicle bus through an ELM327 chip and its position through a GPS receiver,
assembles packets, and sends them over a GSM modem (PPP, then MQTT) to a
server. Packets that cannot be sent wait on an SD card. At the end of every
boot the device downloads its firmware again and restarts.

This directory holds TLA+ specifications of that program, TLC configurations
that check them on small instances, and TLAPS proofs for all values of their
constants. Paths and line numbers refer to `src/`.

## Inventory

| part | source | state it keeps | operations |
|---|---|---|---|
| SD card stack | `components/stack_utils.c` | the file `/sdcard/stack`, `fStack_depth` in RAM | `stack_init` (create, count, repair), `fStack_push`, `fStack_pop` |
| collector | `components/can_collector_utils.c` | `rxQueue`, `OutQueue`, `storeQueue`, receive buffers, `is_vin`, `packetREADY`, the packet, `stackdepth` | query, ELM327 receive, GPS receive, parse, card and SIM task |
| update | `components/OTA_utils.c`, `main/can_collector.c` | partitions, boot selection, `OTA_app_state` in NVS | `OTA_init` (probation, rollback), `OTA_download_latest_version`, `app_main` |
| GSM link | `components/libGSM.c` | `gsm_status`, `do_pppos_connect`, `pppos_task_started`, skip flags, PPP control block | `pppos_client_task`, `ppp_status_cb`, `ppposInit`, `ppposDisconnect` |
| MQTT client | `components/mqtt_client.c`, `lib/mqtt_outbox.c`, `SIM_utils.c` | client state, the packet in hand and its two results, pending message, `pending_msg_count`, outbox | `esp_mqtt_task`, connect, subscribe, publish, receive, event handler |
| codec | `lib/mqtt_msg.c` | the in and out buffers | builds and takes apart MQTT messages |
| transports | `lib/transport*.c` | a socket | connect, poll, read, write, close |
| parsing | `components/parse_utils.c` | none | hexadecimal answers, VIN, GPS sentences |
| drivers | `components/elm327.c`, `components/L80GPS.c` | UARTs | set-up and requests |

How they interact. `app_main` runs `OTA_init`, `SIM_init` (which calls
`ppposInit` until PPP is up), `collector_init` (which creates queues and tasks)
and the download, one after the other. The receive tasks pass pointers to heap
buffers through `rxQueue` to the parse task, which frees them. The parse task
puts a finished packet on `OutQueue` or, if that is full, on `storeQueue`. The
card task moves packets from `storeQueue` to the card, and back to `OutQueue`
when there is room. The MQTT task takes packets from `OutQueue`, and asks
`ppposInit` before every pass whether PPP is up. The PPP callback runs in
lwIP's thread and speaks to the PPPoS task through `gsm_status`.

What is hard: the card task's check-then-act on `OutQueue`; flags shared by
tasks without a lock; a file without a length field that must survive power
loss; flash updates in several steps with a reset between any two; a
three-valued handshake between threads through one variable; two publishes per
packet over connections that break between them. `PROJECT.json` lists each
hazard at its line, with the properties that watch it.

What makes each part correct:

- the stack: last in, first out; nothing lost or stranded by a restart;
- the collector: one owner per buffer, one place per packet, no packet without
  a VIN or with a zero `fields` byte, and the card drains once connected;
- a report: the values answered since the last one, the last position, the VIN
  of the car;
- the wire: what is sent is what is received, whatever pieces it comes in;
- the update: there is always firmware to start, and an update is tried;
- the link: one user of the UART at a time, a lost link is dialled again, and a
  disconnection is complete when it returns;
- the client: every packet to each of its topics, once, in order.

## Modules

| module | what it is |
|---|---|
| `FileStack` | the SD card store, byte by byte |
| `MessageStack` | what the store promises; `FileStack` is proved to implement it |
| `FileStackProofs` | proofs about `FileStack` |
| `Collector`, `CollectorProofs` | tasks and queues, with `MessageStack` for the card; proofs |
| `Ota`, `OtaProofs` | the update life cycle with resets; proofs |
| `Gsm`, `GsmProofs` | the PPPoS task, its callback and its caller; proofs |
| `Mqtt`, `MqttProofs` | the MQTT task, its socket, subscriptions and outbox; proofs |
| `Relay` | what the MQTT task promises; `Mqtt` is proved to implement it |
| `Wire` | MQTT byte by byte: the codec, and the client's reads and writes |
| `WireCodec`, `WireProofs` | what the codec does to any message; proofs about `Wire` |
| `Report`, `ReportProofs` | from the texts of the ELM327 and the GPS to the two published texts; proofs |
| `MC*` | the modules TLC runs |

Operators called "mutant" or "a plausible slip" are deliberate mistakes. Each
property is shown to fail when one of them takes the place of the operator that
follows it; no specification uses them.

### FileStack

A position in the file is the number of bytes before it, as for `fseek`. `Top`
is `fStackFindTop`: the position after the last nonzero byte. `Push` and `Pop`
are the cursor movements of the two functions, `ScanFile` is `stack_init` on an
existing file with `fStackFindDepth` and its repair, and `ScanHangs` a boot
whose loops never find the byte they look for. `PowerLoss` may follow any
action. `TornSpec` adds pushes of which only a prefix reached the card, and
calls that hang on a file of zeros. A record's last byte is nonzero:
`elm327.h:65` requires it, and `Collector` checks it (`TravelsWhole`).

Abstractions: records have `MSG_SIZE` bytes over a small alphabet instead of
54; the remainder of line 43 is exact instead of a float comparison (they part
above 310690 records); mounting the card is left out, and so is the file of more
than 2000000000 bytes that line 161 creates anew, which would hold 37 million
records. Lines 48-49 and 101-102 write after a read without an `fseek` in between,
which C leaves undefined; the model takes it to write at the cursor. `PopBlank` of
`MessageStack` is the one liberty the store takes: since popped records are
counted again after a restart, a pop of an empty card may return zeros, though
never while a message is stored.

### Collector

One action per step of a task that another task can see: a queue operation, a
read of a flag, an allocation. A queue operation that waits is enabled when it
can succeed, and its timeout is an action of its own, enabled when it cannot.
`leaked`, `sent`, `dropped` and `lost` only record history. `Readable` is what a
UART may deliver: an answer with the VIN only after a request, or a sentence of the
GPS that is read in two and begins as one. The contents of
packets are reduced to their number, whether they carry the VIN and whether
`fields` is nonzero.

`Restart` is a power loss, or the `esp_restart` that ends every update: queues,
buffers and the packets in them are gone (`dark`), the card stays. `stack_init`
then counts popped messages too (`DepthAtBoot`, which is what `FileStack` shows of
`ScannedDepth`), so zeros are popped and published after a restart until the
count is used up. The properties say what that may not do: no zeros reach the
card, none go out before the first restart, and none for ever.

In the sources as they stand `elm327_init` and `stack_init` are commented out
(`can_collector_utils.c:252, 254`). The tasks are modelled with both made;
`ElmInstalled = FALSE` gives the other build, in which only such a sentence can
make `is_vin` true, and without it no packet is built.

### Ota

Every step between two writes to flash is an action, and `Reset` may come
between any two. Images are distinguished by their history: untried until
`OTA_init` puts them on probation, then tried, and rejected once a rollback
turned away from them. The bootloader and the two partition calls of ESP-IDF
are modelled from their use and marked external. Errors of NVS are left out.

Two observations that contradict no document but deserve one. A reset between
`esp_ota_set_boot_partition` (line 261) and `OTA_set_state(NEW)` (line 267) runs
the new image in whatever state was recorded. VALID leaves it without probation.
After an earlier update the state is as a rule still PENDING_VERIFY, since nothing
ever confirms an image (line 184 onwards leaves it), and then the new image is
rolled back at its first boot. And a reset in the rollback, between lines 153
and 159, rolls back again at the next boot, to the image that was just rejected.

### Gsm

The places of the task (`pc`) are the loops of `pppos_client_task`. AT commands
are answered as expected or not; a PPP session comes up, fails or drops at any
time while it exists. There is one caller, as in the program: the main task
until `collector_init`, then the MQTT task. `carrier` records whether
`cmd_Connect` was answered since the last session ended.

Two assumptions of timing are guards of actions: `Setup` succeeds and `Hangup`
ends only after the caller has polled once. The caller polls every 10 ms, and
the task spends more than 100 ms in `atCmd_waitResponse` and a second in
`vTaskDelay` there. `pppapi_close` on a dead session calls back at once, on a
live one later. Where the task finds the link lost it closes, resets the commands and
sets `gsm_status` after it has let go of the mutex (lines 717-726); `Retry` is one step,
since the session is dead by then and its callback has nothing more to write.

### Mqtt

One action per call that can fail: connect, each subscription, each publish,
the read, the ping. `failed` holds the topics whose last result (`msg_id`,
`msg_id2`) is negative; the three retry branches are `Retries`. A read returns
the head of what the broker sent and drops what came with it. Expiry and
clean-up of the outbox remove any number of its oldest items. A successful
write has reached the socket, which is all the code knows. `sock` is the
descriptor of `transport_tcp.c`, which `tcp_connect` overwrites.

The link below is what `Gsm` shows of it. It comes back as often as it is lost,
until its task gives up (`gone`); then it never does (`GivenUpIsFinal`), and
`ppposInit` returns 0 or, if the short-lived task it creates ends between two of
its polls, never. `ppposDisconnect` (`HangUp`) returns if the task is alive
(`DisconnectIsAnswered`) and waits for ever if it is not: then the client hangs
though nothing is wrong with it. libGSM.h:53 suggests that it does nothing in that
case.

`Enqueued` shows something else: after a reconnection with an unacknowledged
subscription the outbox stores the CONNECT message, because `pending_msg_count`
outlives the message it counted. Nothing acknowledges it, and it expires.

### Wire

The state is the bytes of the broker that have not been read, the first four
bytes of the in buffer (they outlive a connection, and `esp_mqtt_connect` looks
at them after a read that timed out) and what the client makes of a read. A read
returns all bytes there are, or as few as `Pieces` says, or none. `clean` is true
as long as every read began at a message, held its header and did not pass its
end. While it holds, `CleanDelivery` says that nothing is lost or changed; without
it `WithinBuffer` and `TypeOK` still hold, whatever comes: a topic or data that are
not NULL end among the bytes that were read. NULL is no offset (-1), and a topic that is
NULL keeps the number of bytes read as its length (`mqtt_msg.c:172-178`), which the
event hands on and the handler prints. The total of an event is an `int`: where a
read passes the announced end it is negative (`Signed`). A read of two messages at
once is not clean: the code drops the second.

The broker's operators (`Standard` and those above it) are written from the
standard, and so is `ReadByBroker`, the reference for what the client writes.
Offsets count from 0, as in C. Where `mqtt_get_id` looks at bytes earlier reads
left behind, an id of `StaleIds` comes out, any set of 16-bit numbers. A remaining
length of five bytes or more, which the standard forbids and the loops of
`mqtt_msg.c` read on through, shifts beyond the type: one of `Overlong` comes out.
`front` starts as anything `malloc` may hand out. Two assumptions are named in the
module: the broker's messages can be sent at all and their headers fit the in
buffer, which has 1024 bytes (`Sendable`), and what the client writes has a topic, data
and an id of the widths the code gives them (`Writable`).

`UnacceptedIsStale` names the ways a CONNECT that was not accepted passes for
accepted: the read timed out (`late`) or gave fewer than four bytes (`cut`), so that the
return code, or the type too, is a byte of an earlier answer, of a message, of its
data, or of the heap. The run reaches both.

### Report

A text is a sequence of character codes; `parse_*` read it at the places the code
does. `ReadInTwo` cuts a text after any of `Cuts` bytes and lays both parts over
older texts, which the heap may have left in the buffer. Of the two texts
`msgMQTT` writes the model keeps the values and the lengths, with the flag that
lies behind the second. `since`, `vin` and `whole` remember what was answered.

What it shows of the code: the values of the sensors are read as text
(`SpeedIsReported` fails; the properties that hold compare the bytes, not the
numbers), the text with the position may be longer than its buffer and overwrite
the flag, and a VIN that was read in two stays wrong until the next restart.

## Runs

| run | bounds | shows |
|---|---|---|
| `FileStack` | records of 3 bytes, 3 records, 3 boots | the store implements the stack; restarts lose nothing |
| `FileStackHash` | as above, with 35 among the data | a `#` in a record makes the next boot destroy sound bytes |
| `FileStackTorn` | as above, with torn pushes | the repair removes one byte too many |
| `Collector` | 2 buffers, queues of 1, 4 packets, 2 boots | ownership, places, contents, draining, also across a restart |
| `CollectorRequeue` | 3 buffers, queues of 2, 4 packets, 1 boot | a popped message can be lost |
| `Ota` | factory, `ota_0`, `ota_1` | there is always firmware; updates are tried |
| `OtaRollback` | as above | the first update cannot be rolled back |
| `Gsm` | 2 commands, 3 attempts | exclusion on the UART, dialling, disconnecting, redialling, giving up |
| `Mqtt` | 2 packets, queue of 2, 3 failures, 2 ids | the client implements `Relay`; packets are published over one socket |
| `Wire` | in buffer of 8 bytes, reads of 1, 4, 7 or all bytes, 2 messages | delivery in pieces, buffer limits, CONNACK, what the client writes |
| `Report` | 2 values, 2 positions, 2 clocks, 1 torn text | reports are measured, positions given, texts fit |
| `ReportSpeed` | as above | the speed is not what was answered |

Why the bounds are enough. Three records let the card be pushed, popped and
pushed over zeros again, and three boots let the counter be wrong twice in a
row. Queues of one are full with one sender waiting, and two buffers are one more
than `rxQueue` holds; four packets fill `OutQueue` behind a popped message before
and after a restart. Two partitions are the real number. Two commands are
cmd_Connect and one before it, and the counter of failures matters only at its
limit. Three failures can separate the two publishes of a packet and twice the
retry; two ids let a new subscription collide with a stored one. In `Wire` the
messages are one that fits the in buffer, one that comes in three pieces with an
id, and one whose length has two bytes, with data that pass for a header without an
end; the out buffer of 140 bytes lies between the largest message with a short header and one that does not fit, and the data
of the messages looks like headers, among them of a CONNACK. `Word` is 2^30 in the run
instead of 2^32, because TLC's numbers end at 2^31: lengths of four bytes still stay
below half of it, and a negative total is negative for either. `StaleIds` and
`Overlong` are the ends of their ranges and an id the broker did not use. In `Report` one value is the code of a digit
and one is not, one position has a zero behind the point and another hemisphere,
and one clock never was set; the cuts lie in the request, in the answer and in a
sentence. One torn text suffices, since what it leaves is only the packet.

The five violation runs show where the code does not do what its comments say;
each is a finding in `PROJECT.json` with the line it contradicts.

### Liveness and fairness

- `Collector`, `Drains`: weak fairness of the parse task, of the card task and
  of the connected client. Both tasks run at a fixed priority and every call
  they make times out. Nothing is assumed of the UARTs, the query task or the
  receive tasks; the property's premise is a connection that stays up.
- `Ota`, `NewIsTried`: weak fairness of the bootloader, of `OTA_init`, which
  calls nothing that waits, and of `esp_restart`; the premise is that power
  losses end, while the restarts the program asks for go on. `SIM_init` and the
  download may never end.
- `Gsm`, `LostLinkIsRedialled`: weak fairness of the task's steps that need the
  processor only; AT commands are among them because they time out. The answer
  to ATH, which the code awaits for ever, is not assumed.
  `DisconnectIsAnswered` has more as its premise: the modem answers ATH, lwIP
  ends every close, and the caller polls. It excepts a task that has ended.
- `Mqtt`, `EachIsPublished`: weak fairness of the client, whose calls all return,
  and finitely many network failures. It excepts a link that was given up.
- `Wire` and `Report` state no liveness: a read may always be short, and nothing
  has to be answered.

## Proofs

All for every value of the constants, within their assumptions.

**FileStackProofs.** `Sound(f, k, n)` says a file is the marker, room for n
records, k of them stored and each ending in a nonzero byte, and zeros above.
`IInv` says the file is sound and that the counter is at least k, is k in the
first session, and is positive only if there is room for a record. The last part
is why a pop on an empty card with a counter that is too high reads and writes
zeros above the marker and never the marker itself. From it: `TypeCorrect`,
`FirstSession`, `RecordsStayWhole`, `CounterIsReliable`, `BootsAreSafe`,
`HangsUnmarked` and the refinement `FileImplementsStack`, for which `PushSlots`,
`PopReads` and `PopSlots` say what one call does to the records between the marker
and the top. All but `TypeCorrect` and `FirstSession`, which hold for all bytes,
assume `HashFree`: no data byte is the marker. `FileStackHash` shows that this is
needed.

**CollectorProofs.** `IInv` says what each place of a task knows: a packet at
hand has a number and the VIN, what the card task holds between two steps is a
packet or, after a restart only, the zeros of an empty stack, and the file on the
card has room for every stored message. From it `TypeCorrect`, `CardIsCounted` and
`PacketsTravelWhole`. `BuffersHaveOneOwner` and `PacketsHaveOnePlace` count: the
lemmas `CountAppend`, `CountTail` and `CountFront` say how often an item is in a
queue after an operation on it, and the invariants `Owned` and `Placed` add up
the places. `Placed` is stronger than `OnePlace`: a number that no packet has yet
is in no place, without which the next packet could not be known to be new.

**OtaProofs.** `BootIntact` is not inductive: that the erase spares the selected
image rests on the device running that image, true except between selecting a
partition and the restart. `IInv` adds that, what each place knows of the
state, and what a download has written. `AlwaysBootable`, `NewMeansNew` and
`FactorySafe` follow for any number of OTA partitions above one.

**GsmProofs.** `IInv` says for each place of the task whether a session may be
alive, which commands have been answered and whether the control block exists,
and what the two sides of the handshake know of each other. `UartIsShared`,
`DialsSafely`, `NoSessionIsFreed`, `DisconnectMeansClosed` and
`NoLinkAfterGivingUp` follow for any number of commands and of allowed failures.

**MqttProofs.** `IInv` ties the place of the task to what it has in hand: what is
still planned and failed belongs to the packet taken, the packets in `OutQueue`
are those made after it, the counter of pending messages is at least the number
of acknowledgements on their way and at most two for every session, and a session
needs a socket. From it `TypeCorrect`, `AcksAreCounted`, `SocketIsNotLost`, and
`ClientRelays`: every step of the client is one of `Relay` or leaves it alone.

**WireCodec and WireProofs.** `WireCodec` says what the codec does to any message:
a length reads back whatever its size; what `mqtt_msg.c` writes, the broker of the
standard reads as the same message, and nothing is written only if it does not fit;
of a message of the standard, in a buffer that holds at least its header, the
client reads the type, the length, the topic, the id and the data that were sent.
`WireProofs` lifts this to the stream. `DeliveredInOrder` needs to know where the
bytes are: `Delivered` in `IInv` says that, while reads are clean, what has been
delivered is a beginning of what was sent and the unread bytes are the rest, laid
one message behind the other (`Laid`), after what is missing of a message read in
pieces. `UnacceptedOnlyStale` needs to know that before its answer is read a socket
holds that answer or nothing (`Connecting`). `EventsWithinBuffer` holds for any bytes at
all and any value of an overlong length (`Within`). `BrokerDecodes` follows every message the client writes, with the id it draws
(`Written`). Stating it corrected the model in two places: the size of a SUBSCRIBE
did not count its id, and a PINGRESP was given an id that the code does not draw.

**ReportProofs.** The lemmas read texts character by character:
`AnswerIsUnderstood`, `SilenceIsNothing` and `VinIsUnderstood` say that what the parse
task makes of an answer is the value in it, for each of the 256 values, and of the
three lines of the VIN the 17 characters, whatever they are. `EffectWidth` says that
any bytes at all, whole, cut or of another text, give something with the widths
of the packet's fields. `IInv` adds to the types that, while every text since the
last report was read whole, the packet's fields are the sensors that answered and
hold their last answers (`Held`), and that a VIN read whole is the car's.
`TypeCorrect`, `ReportsAreMeasured` and `VinIsTheCars` follow, and `MainTextFits`: no
number of 32 bits makes the main text longer than 194 bytes.

`PositionsAreGiven` needs a second invariant on top of it, `PlacedInv`: while every text
was read whole, the packet has its coordinates and its time just when a fix and a set
clock came since the last report, and they are the characters of that fix and that
clock. It is inductive because the sentence reads back (`GpsUnderstood`): its parts
lie at places that depend only on whether there is a fix (`SentenceReads`), so the
commas that `parse_GPS` counts are the ones before the time, the latitude and the date
(`PastIs`, `LocatedCommas`, `UnlocatedCommas`). From the characters back to the
numbers, `atoi` is only ever asked for two or three digits: its function over the
digits is unfolded three times (`UnsignedSteps`), which takes no induction, and
`DigitsSay` gives that two digits written for a number below 100, and three for one
below 1000, are read as that number. The hundredths of a minute are only bounded,
which is why the property says "to the minute". `FlagAndLength` is the arithmetic of
the flag behind the text. Two slips in the model
came to light: the lengths of an absent sensor and of a text without a flag were given by
CASEs whose guards overlapped, so that only TLC's order of evaluation chose the
right one.

### What stays with TLC

- All liveness: `Drains`, `NewIsTried`, `LostLinkIsRedialled`,
  `DisconnectIsAnswered`, `EachIsPublished`.
- `TextFits`, its second half: how long the text with the position gets depends on
  what `atoi` makes of texts of any length, an induction over data, and it is false
  for attempt counts of very many digits; the run has up to four.
- The violation runs, which are counterexamples.

## Not modelled

- `mqtt_client.c`: init, start, stop, destroy and configuration of the client.
  `mqtt_msg.c`: last will, unsubscribe, disconnect. Nothing uses them, or they run
  once before the task.
- Transports: the dispatch of `transport.c` is a call; SSL and WebSocket are not
  configured.
- `libGSM.c`: byte counters, RF switches and SMS functions (lines 862-1171), and in
  `OTA_utils.c` `OTA_check_latest_version` and `ota_example_task`, none of which
  anything calls.
- SNTP, real time, the set-up of the UARTs, mounting the card, allocation failures
  other than those of the receive buffers.
- In `Report`: the two-character texts without an end and the uninitialised
  `tm_isdst` of `mqtt_client.c:823-847`, which only change the time; the calendar;
  what a text of more than 201 bytes overwrites behind the flag; the 12 bytes
  `elm327_new_data` copies into a latitude of 10, which the next line repairs;
  the decimals of the published numbers.
- `cmake-build-debug`, `.idea`, `sdkconfig` and the certificates are generated
  files and settings.

## Plan

The order was: the store, then the tasks that fill and empty it, the updates, the
link and the client, then the bytes on the wire and the texts. What comes next:

1. `Collector` over `FileStack` instead of `MessageStack`, and `Gsm` with `Mqtt`
   as its caller in one module instead of the two properties that join them now.
2. The float comparison of `stack_utils.c:43`.
