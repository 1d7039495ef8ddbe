--------------------------- MODULE CollectorProofs ---------------------------
(***************************************************************************)
(* Proofs about Collector, for any number of buffers, of packets and of    *)
(* restarts and any length of the queues.                                  *)
(*                                                                         *)
(* The three tasks hand a packet on in several steps, so IInv says what    *)
(* each place of a task knows: that the packet at hand is numbered and     *)
(* carries the VIN, and that only a restart can have put zeros where a     *)
(* packet is expected.                                                     *)
(***************************************************************************)
EXTENDS Collector, FiniteSetTheorems, SequenceTheorems, TLAPS

Entry == [buf : Buffers, kind : Kind]
Outbound == Packet \cup {BlankPacket}

\* The packet under assembly has the VIN from when packetREADY may be raised.
Assembled ==
    /\ packet.fields
    /\ isVin \/ queryPc = "sensors" \/ packetREADY \/ parsePc # "receive" => packet.vin

\* A packet at hand has a number, and one that is due has a number left.
Numbered ==
    /\ parsePc # "receive" => built >= 1
    /\ parsePc = "receive" /\ packetREADY => built < MaxPackets

\* What the card task has at hand between two steps.
InHand ==
    /\ cardPc = "push" => message \in Packet /\ message.vin /\ message.fields
    /\ cardPc = "requeue" => \/ message \in Packet /\ message.vin /\ message.fields
                             \/ message = BlankPacket /\ boots > 1

WholeStore == \A i \in 1..Len(storeQueue) : storeQueue[i].vin /\ storeQueue[i].fields
WholeCard == \A i \in 1..Len(card) : card[i].vin /\ card[i].fields
WholeOut == \A i \in 1..Len(OutQueue) : \/ OutQueue[i].vin /\ OutQueue[i].fields
                                        \/ OutQueue[i] = BlankPacket /\ boots > 1

\* The file never shrinks, so a count that starts from it reaches every message.
RoomCovers == room >= Len(card)

IInv ==
    /\ TypeOK
    /\ CountsCard
    /\ RoomCovers
    /\ Assembled
    /\ Numbered
    /\ InHand
    /\ WholeStore
    /\ WholeCard
    /\ WholeOut

-----------------------------------------------------------------------------
(* Sequences.                                                              *)

LEMMA AppendFacts ==
  ASSUME NEW T, NEW s \in Seq(T), NEW e \in T
  PROVE  /\ Append(s, e) \in Seq(T)
         /\ Len(s) \in Nat
         /\ Len(Append(s, e)) = Len(s) + 1
         /\ \A i \in 1..Len(Append(s, e)) :
              Append(s, e)[i] = IF i <= Len(s) THEN s[i] ELSE e
  BY AppendProperties, LenProperties

LEMMA TailFacts ==
  ASSUME NEW T, NEW s \in Seq(T), s # <<>>
  PROVE  /\ Tail(s) \in Seq(T)
         /\ Len(s) \in Nat \ {0}
         /\ Len(Tail(s)) = Len(s) - 1
         /\ Head(s) \in T
         /\ Head(s) = s[1]
         /\ \A i \in 1..Len(Tail(s)) : Tail(s)[i] = s[i + 1]
  BY HeadTailProperties, EmptySeq

LEMMA FrontFacts ==
  ASSUME NEW T, NEW s \in Seq(T), s # <<>>
  PROVE  LET front == SubSeq(s, 1, Len(s) - 1)
         IN  /\ front \in Seq(T)
             /\ Len(s) \in Nat \ {0}
             /\ Len(front) = Len(s) - 1
             /\ s[Len(s)] \in T
             /\ \A i \in 1..Len(front) : front[i] = s[i]
  <1>1. Len(s) \in Nat \ {0}
    BY EmptySeq
  <1>2. \A i \in 1..Len(s) : s[i] \in T
    BY ElementOfSeq
  <1> DEFINE front == SubSeq(s, 1, Len(s) - 1)
             n == Len(s) - 1
  <1>3. n \in Nat /\ \A i \in 1..n : s[i] \in T
    BY <1>1, <1>2
  <1>4. /\ front \in Seq(T)
        /\ Len(front) = IF 1 <= n THEN n - 1 + 1 ELSE 0
        /\ \A i \in 1..(n - 1 + 1) : front[i] = s[1 + i - 1]
    <2> HIDE DEF n
    <2>1. \A i \in 1..n : s[i] \in T
      BY <1>3
    <2>2. /\ SubSeq(s, 1, n) \in Seq(T)
          /\ Len(SubSeq(s, 1, n)) = IF 1 <= n THEN n - 1 + 1 ELSE 0
          /\ \A i \in 1..(n - 1 + 1) : SubSeq(s, 1, n)[i] = s[1 + i - 1]
      BY <1>3, <2>1, SubSeqProperties
    <2> QED
      BY <2>2 DEF n
  <1>5. s[Len(s)] \in T
    BY <1>1, <1>2
  <1>6. Len(front) = n /\ \A i \in 1..Len(front) : front[i] = s[i]
    <2> HIDE DEF front, n
    <2> QED
      BY <1>3, <1>4
  <1> QED
    BY <1>1, <1>4, <1>5, <1>6

-----------------------------------------------------------------------------
(* Counting the items of a sequence that are in a set.                     *)

Hits(s, V) == {i \in DOMAIN s : s[i] \in V}
Count(s, V) == Cardinality(Hits(s, V))

LEMMA CountType ==
  ASSUME NEW T, NEW s \in Seq(T), NEW V
  PROVE  /\ IsFiniteSet(Hits(s, V))
         /\ Count(s, V) \in Nat
         /\ (\E i \in DOMAIN s : s[i] \in V) <=> Count(s, V) # 0
  <1>1. DOMAIN s = 1..Len(s) /\ Len(s) \in Nat
    BY LenProperties
  <1>2. IsFiniteSet(1..Len(s))
    BY <1>1, FS_Interval
  <1>3. Hits(s, V) \in SUBSET (1..Len(s))
    BY <1>1 DEF Hits
  <1>4. IsFiniteSet(Hits(s, V))
    BY <1>2, <1>3, FS_Subset
  <1>5. Count(s, V) \in Nat
    BY <1>4, FS_CardinalityType DEF Count
  <1>6. Count(s, V) = 0 <=> Hits(s, V) = {}
    BY <1>4, FS_EmptySet DEF Count
  <1> QED
    BY <1>4, <1>5, <1>6 DEF Hits

LEMMA CountEmpty ==
  ASSUME NEW V
  PROVE  Count(<<>>, V) = 0
  <1>1. Hits(<<>>, V) = {}
    BY DEF Hits
  <1> QED
    BY <1>1, FS_EmptySet DEF Count

LEMMA CountAppend ==
  ASSUME NEW T, NEW s \in Seq(T), NEW e \in T, NEW V
  PROVE  Count(Append(s, e), V) = Count(s, V) + In(e \in V)
  <1> DEFINE n == Len(s) + 1
             a == Append(s, e)
  <1>1. /\ DOMAIN s = 1..Len(s) /\ Len(s) \in Nat
        /\ DOMAIN a = 1..n
        /\ a[n] = e
        /\ \A i \in 1..Len(s) : a[i] = s[i]
    BY LenProperties, AppendProperties
  <1>2. IsFiniteSet(Hits(s, V)) /\ Count(s, V) \in Nat
    BY CountType
  <1> HIDE DEF a
  <1>3. CASE e \in V
    <2>1. Hits(a, V) = Hits(s, V) \cup {n}
      BY <1>1, <1>3 DEF Hits
    <2>2. n \notin Hits(s, V)
      BY <1>1 DEF Hits
    <2>3. Cardinality(Hits(s, V) \cup {n}) = Cardinality(Hits(s, V)) + 1
      BY <1>2, <2>2, FS_AddElement
    <2> QED
      BY <1>3, <2>1, <2>3 DEF Count, In, a
  <1>4. CASE e \notin V
    <2>1. Hits(a, V) = Hits(s, V)
      BY <1>1, <1>4 DEF Hits
    <2> QED
      BY <1>2, <1>4, <2>1 DEF Count, In, a
  <1> QED
    BY <1>3, <1>4

LEMMA CountTail ==
  ASSUME NEW T, NEW s \in Seq(T), s # <<>>, NEW V
  PROVE  Count(s, V) = Count(Tail(s), V) + In(Head(s) \in V)
  <1> DEFINE t == Tail(s)
             g == [i \in Hits(t, V) |-> i + 1]
  <1>1. /\ DOMAIN s = 1..Len(s) /\ Len(s) \in Nat \ {0}
        /\ DOMAIN t = 1..(Len(s) - 1)
        /\ Head(s) = s[1]
        /\ \A i \in 1..(Len(s) - 1) : t[i] = s[i + 1]
    BY LenProperties, TailFacts
  <1>2. IsFiniteSet(Hits(s, V)) /\ Count(s, V) \in Nat
    BY CountType
  <1>3. IsFiniteSet(Hits(t, V)) /\ Count(t, V) \in Nat
    BY CountType, TailFacts
  <1> HIDE DEF t
  <1>4. g \in Bijection(Hits(t, V), Hits(s, V) \ {1})
    <2>1. \A i \in Hits(t, V) : i \in 1..(Len(s) - 1) /\ i + 1 \in Hits(s, V) \ {1}
      BY <1>1 DEF Hits
    <2>2. \A i, j \in Hits(t, V) : g[i] = g[j] => i = j
      BY <2>1
    <2>3. \A j \in Hits(s, V) \ {1} : \E i \in Hits(t, V) : g[i] = j
      <3> SUFFICES ASSUME NEW j \in Hits(s, V) \ {1}
                   PROVE  j - 1 \in Hits(t, V) /\ g[j - 1] = j
        OBVIOUS
      <3>1. j \in 2..Len(s) /\ s[j] \in V
        BY <1>1 DEF Hits
      <3>2. j - 1 \in 1..(Len(s) - 1) /\ t[j - 1] = s[j]
        BY <1>1, <3>1
      <3>3. j - 1 \in Hits(t, V)
        BY <1>1, <3>1, <3>2 DEF Hits
      <3> QED
        BY <3>1, <3>3
    <2>4. g \in [Hits(t, V) -> Hits(s, V) \ {1}]
      BY <2>1
    <2> HIDE DEF g
    <2> QED
      BY <2>2, <2>3, <2>4 DEF Bijection, Injection, Surjection, IsInjective
  <1>5. Cardinality(Hits(t, V)) = Cardinality(Hits(s, V) \ {1})
    <2>1. ExistsBijection(Hits(t, V), Hits(s, V) \ {1})
      BY <1>4 DEF ExistsBijection
    <2> QED
      BY <1>3, <2>1, FS_Bijection
  <1>6. Cardinality(Hits(s, V) \ {1}) =
          IF 1 \in Hits(s, V) THEN Cardinality(Hits(s, V)) - 1 ELSE Cardinality(Hits(s, V))
    BY <1>2, FS_RemoveElement
  <1>7. 1 \in Hits(s, V) <=> Head(s) \in V
    BY <1>1 DEF Hits
  <1> QED
    BY <1>2, <1>3, <1>5, <1>6, <1>7 DEF Count, In, t

LEMMA CountFront ==
  ASSUME NEW T, NEW s \in Seq(T), s # <<>>, NEW V
  PROVE  Count(s, V) = Count(SubSeq(s, 1, Len(s) - 1), V) + In(s[Len(s)] \in V)
  <1> DEFINE f == SubSeq(s, 1, Len(s) - 1)
             n == Len(s)
  <1>1. /\ DOMAIN s = 1..n /\ n \in Nat \ {0}
        /\ f \in Seq(T) /\ DOMAIN f = 1..(n - 1)
        /\ \A i \in 1..(n - 1) : f[i] = s[i]
    BY LenProperties, FrontFacts
  <1>2. IsFiniteSet(Hits(s, V)) /\ Count(s, V) \in Nat
    BY CountType
  <1> HIDE DEF f, n
  <1>3. Hits(f, V) = Hits(s, V) \ {n}
    BY <1>1 DEF Hits
  <1>4. n \in Hits(s, V) <=> s[n] \in V
    BY <1>1 DEF Hits
  <1>5. Cardinality(Hits(s, V) \ {n}) =
          IF n \in Hits(s, V) THEN Cardinality(Hits(s, V)) - 1 ELSE Cardinality(Hits(s, V))
    BY <1>2, FS_RemoveElement
  <1>6. Count(s, V) = Count(f, V) + In(s[n] \in V)
    BY <1>2, <1>3, <1>4, <1>5 DEF Count, In
  <1> QED
    BY <1>6 DEF f, n

-----------------------------------------------------------------------------
(* IInv is inductive.                                                      *)

LEMMA InitIInv == Init => IInv
  <1> SUFFICES ASSUME Init
               PROVE  IInv
    OBVIOUS
  <1>1. TypeOK
    <2>1. /\ rx \in [RxTask -> Buffers \cup {None}]
          /\ packet \in [vin : BOOLEAN, fields : BOOLEAN]
          /\ built \in 0..MaxPackets /\ boots \in 1..MaxBoots
      BY ParametersAssumption DEF Init, NewPacket
    <2>2. /\ rxQueue \in Seq([buf : Buffers, kind : Kind]) /\ Len(rxQueue) <= QLEN
          /\ OutQueue \in Seq(Packet \cup {BlankPacket}) /\ Len(OutQueue) <= QLEN
          /\ storeQueue \in Seq(Packet) /\ Len(storeQueue) <= QLEN
          /\ card \in Seq(Packet)
      BY EmptySeq, ParametersAssumption DEF Init
    <2> QED
      BY <2>1, <2>2 DEF Init, TypeOK
  <1> QED
    BY <1>1 DEF Init, IInv, CountsCard, RoomCovers, Assembled, Numbered, InHand,
                WholeStore, WholeCard, WholeOut, NewPacket

LEMMA QueryKeeps ==
  ASSUME IInv, QueryTask
  PROVE  IInv'
  <1> USE DEF QueryTask, queryVars, rxVars, parseVars, cardVars, netVars, bootVars
  <1>1. TypeOK'
    <2>1. /\ queryPc' \in {"start", "vin", "sensors"} /\ asked' \subseteq Kind
          /\ isVin' \in BOOLEAN /\ packetREADY' \in BOOLEAN
      BY DEF IInv, TypeOK, QueryStart, QueryVin, QuerySensors, Kind
    <2> QED
      BY <2>1 DEF IInv, TypeOK
  <1>2. Assembled'
    BY DEF IInv, Assembled, QueryStart, QueryVin, QuerySensors
  <1>3. Numbered'
    BY DEF IInv, TypeOK, Numbered, QueryStart, QueryVin, QuerySensors
  <1>4. (CountsCard /\ RoomCovers /\ InHand /\ WholeStore /\ WholeCard /\ WholeOut)'
    BY DEF IInv, CountsCard, RoomCovers, InHand, WholeStore, WholeCard, WholeOut
  <1> QED
    BY <1>1, <1>2, <1>3, <1>4 DEF IInv

LEMMA ReceiveKeeps ==
  ASSUME IInv, NEW t \in RxTask, ReceiveTask(t)
  PROVE  IInv'
  <1> USE DEF ReceiveTask, parseVars, cardVars, netVars, bootVars
  <1>1. TypeOK'
    <2>1. CASE Allocate(t)
      BY <2>1 DEF IInv, TypeOK, Allocate
    <2>2. CASE ReadNothing(t)
      BY <2>2 DEF IInv, TypeOK, ReadNothing
    <2>3. ASSUME NEW k \in Kind, ReadAndSend(t, k)
          PROVE  TypeOK'
      <3>1. rx[t] \in Buffers
        BY <2>3 DEF IInv, TypeOK, ReadAndSend
      <3>2. rxQueue' \in Seq(Entry) /\ Len(rxQueue') <= QLEN
        <4>1. CASE Room(rxQueue)
          <5>1. [buf |-> rx[t], kind |-> k] \in Entry
            BY <3>1 DEF Entry
          <5>2. rxQueue \in Seq(Entry) /\ Len(rxQueue) < QLEN
            BY <4>1 DEF IInv, TypeOK, Entry, Room
          <5>3. rxQueue' = Append(rxQueue, [buf |-> rx[t], kind |-> k])
            BY <2>3, <4>1 DEF ReadAndSend
          <5> QED
            BY <5>1, <5>2, <5>3, AppendFacts, ParametersAssumption
        <4>2. CASE ~Room(rxQueue)
          BY <2>3, <4>2 DEF IInv, TypeOK, Entry, ReadAndSend
        <4> QED
          BY <4>1, <4>2
      <3>3. heap' \subseteq Buffers /\ leaked' \subseteq Buffers /\ asked' \subseteq Kind
            /\ rx' \in [RxTask -> Buffers \cup {None}]
        BY <2>3, <3>1 DEF IInv, TypeOK, ReadAndSend, HeapAfterSend
      <3> QED
        BY <3>2, <3>3 DEF IInv, TypeOK, Entry
    <2> QED
      BY <2>1, <2>2, <2>3
  <1>2. (/\ CountsCard /\ RoomCovers /\ Assembled /\ Numbered /\ InHand
         /\ WholeStore /\ WholeCard /\ WholeOut)'
    BY DEF IInv, CountsCard, RoomCovers, Assembled, Numbered, InHand,
           WholeStore, WholeCard, WholeOut
  <1> QED
    BY <1>1, <1>2 DEF IInv

LEMMA ParseKeeps ==
  ASSUME IInv, Parse, UNCHANGED <<queryPc, asked, cardVars, netVars, bootVars>>
  PROVE  IInv'
  <1> USE DEF Parse, cardVars, netVars, bootVars
  <1>1. TypeOK'
    <2>1. /\ rxQueue' \in Seq(Entry) /\ Len(rxQueue') <= QLEN
          /\ Head(rxQueue) \in Entry
      <3>1. rxQueue \in Seq(Entry) /\ Len(rxQueue) <= QLEN
        BY DEF IInv, TypeOK, Entry
      <3> QED
        BY <3>1, TailFacts, ParametersAssumption
    <2>2. heap' \subseteq Buffers
      BY <2>1 DEF IInv, TypeOK, Entry
    <2>3. packet' \in [vin : BOOLEAN, fields : BOOLEAN] /\ isVin' \in BOOLEAN
      BY DEF IInv, TypeOK, WithVin
    <2>4. built' \in 0..MaxPackets /\ parsePc' \in {"receive", "out", "store", "reset"}
      BY ParametersAssumption DEF IInv, TypeOK, Numbered
    <2> QED
      BY <2>1, <2>2, <2>3, <2>4 DEF IInv, TypeOK, Entry
  <1>2. Assembled'
    BY DEF IInv, TypeOK, Assembled, WithVin
  <1>3. Numbered'
    BY DEF IInv, TypeOK, Numbered
  <1>4. (CountsCard /\ RoomCovers /\ InHand /\ WholeStore /\ WholeCard /\ WholeOut)'
    BY DEF IInv, CountsCard, RoomCovers, InHand, WholeStore, WholeCard, WholeOut
  <1> QED
    BY <1>1, <1>2, <1>3, <1>4 DEF IInv

\* The packet that is handed on.
LEMMA ThePacketIsWhole ==
  ASSUME IInv, parsePc # "receive"
  PROVE  ThePacket \in Packet /\ ThePacket.vin /\ ThePacket.fields
  BY ParametersAssumption DEF IInv, TypeOK, Assembled, Numbered, ThePacket, Packet

LEMMA SendKeeps ==
  ASSUME IInv, SendOut \/ SendStore,
         UNCHANGED <<queryPc, asked, cardVars, netVars, bootVars>>
  PROVE  IInv'
  <1> USE DEF cardVars, netVars, bootVars
  <1> DEFINE p == ThePacket
  <1>0. p \in Packet /\ p.vin /\ p.fields
    BY ThePacketIsWhole DEF SendOut, SendStore
  <1> HIDE DEF p
  <1>1. /\ OutQueue' \in Seq(Outbound) /\ Len(OutQueue') <= QLEN
        /\ WholeOut'
    <2>1. CASE OutQueue' = Append(OutQueue, p) /\ Room(OutQueue)
      BY <1>0, <2>1, AppendFacts, ParametersAssumption
      DEF IInv, TypeOK, Outbound, WholeOut, Room, SendOut, SendStore
    <2>2. CASE OutQueue' = OutQueue
      BY <2>2 DEF IInv, TypeOK, Outbound, WholeOut, SendOut, SendStore
    <2> QED
      BY <2>1, <2>2 DEF SendOut, SendStore, p
  <1>2. /\ storeQueue' \in Seq(Packet) /\ Len(storeQueue') <= QLEN
        /\ WholeStore'
    <2>1. CASE storeQueue' = Append(storeQueue, p) /\ Room(storeQueue)
      BY <1>0, <2>1, AppendFacts, ParametersAssumption
      DEF IInv, TypeOK, WholeStore, Room, SendOut, SendStore
    <2>2. CASE storeQueue' = storeQueue
      BY <2>2 DEF IInv, TypeOK, WholeStore
    <2> QED
      BY <2>1, <2>2 DEF SendOut, SendStore, p
  <1>3. dropped' \subseteq 1..MaxPackets
    <2>1. built \in 1..MaxPackets
      BY ParametersAssumption DEF IInv, TypeOK, Numbered, SendOut, SendStore
    <2>2. dropped' \in {dropped, dropped \cup {built}}
      BY DEF SendOut, SendStore
    <2> QED
      BY <2>1, <2>2 DEF IInv, TypeOK
  <1>4. parsePc' \in {"store", "reset"}
    BY DEF SendOut, SendStore, AfterSendOut
  <1>5. TypeOK'
    BY <1>1, <1>2, <1>3, <1>4 DEF IInv, TypeOK, Outbound, SendOut, SendStore
  <1>6. Assembled' /\ Numbered'
    BY <1>4 DEF IInv, Assembled, Numbered, SendOut, SendStore
  <1>7. (CountsCard /\ RoomCovers /\ InHand /\ WholeCard)'
    BY DEF IInv, CountsCard, RoomCovers, InHand, WholeCard
  <1> QED
    BY <1>1, <1>2, <1>5, <1>6, <1>7 DEF IInv

LEMMA ResetKeeps ==
  ASSUME IInv, Reset, UNCHANGED <<queryPc, asked, cardVars, netVars, bootVars>>
  PROVE  IInv'
  <1> USE DEF Reset, cardVars, netVars, bootVars
  <1>1. TypeOK'
    BY DEF IInv, TypeOK, NewPacket
  <1>2. Assembled' /\ Numbered'
    BY DEF IInv, TypeOK, Assembled, Numbered, NewPacket
  <1>3. (CountsCard /\ RoomCovers /\ InHand /\ WholeStore /\ WholeCard /\ WholeOut)'
    BY DEF IInv, CountsCard, RoomCovers, InHand, WholeStore, WholeCard, WholeOut
  <1> QED
    BY <1>1, <1>2, <1>3 DEF IInv

-----------------------------------------------------------------------------
(* The card task.                                                          *)

\* What its steps leave alone.
LEMMA CardOthers ==
  ASSUME IInv, UNCHANGED <<rxVars, queryVars, parseVars, netVars, bootVars>>
  PROVE  Assembled' /\ Numbered'
  BY DEF IInv, Assembled, Numbered, rxVars, queryVars, parseVars, netVars, bootVars

LEMMA CardPopKeeps ==
  ASSUME IInv, CardPop, UNCHANGED <<rxVars, queryVars, parseVars, netVars, bootVars>>
  PROVE  IInv'
  <1> USE DEF rxVars, queryVars, parseVars, netVars, bootVars
  <1>1. stackdepth > 0
    BY DEF CardPop, HasStored
  <1>2. CASE Card!Pop
    <2>1. /\ card' \in Seq(Packet) /\ Len(card) \in Nat \ {0} /\ Len(card') = Len(card) - 1
          /\ message' = card[Len(card)] /\ message' \in Packet
          /\ \A i \in 1..Len(card') : card'[i] = card[i]
      BY <1>2, FrontFacts DEF IInv, TypeOK, Card!Pop
    <2>2. message'.vin /\ message'.fields
      BY <2>1 DEF IInv, WholeCard
    <2>3. TypeOK'
      BY <1>1, <2>1 DEF IInv, TypeOK, CardPop
    <2>4. CountsCard' /\ RoomCovers'
      BY <2>1 DEF IInv, TypeOK, CountsCard, RoomCovers, CardPop
    <2>5. InHand'
      BY <2>1, <2>2 DEF InHand, CardPop
    <2>6. WholeCard'
      BY <2>1 DEF IInv, WholeCard
    <2>7. WholeStore' /\ WholeOut'
      BY DEF IInv, WholeStore, WholeOut, CardPop
    <2> QED
      BY <2>3, <2>4, <2>5, <2>6, <2>7, CardOthers DEF IInv
  <1>3. CASE Card!PopBlank
    <2>1. card = <<>> /\ card' = card /\ message' = BlankPacket /\ Len(card) = 0
      BY <1>3 DEF Card!PopBlank
    <2>2. boots > 1
      BY <1>1, <2>1 DEF IInv, TypeOK, CountsCard
    <2>3. TypeOK'
      BY <1>1, <2>1 DEF IInv, TypeOK, CardPop
    <2>4. CountsCard' /\ RoomCovers'
      BY <1>1, <2>1, <2>2 DEF IInv, TypeOK, CountsCard, RoomCovers, CardPop
    <2>5. InHand'
      BY <2>1, <2>2 DEF InHand, CardPop
    <2>6. WholeCard' /\ WholeStore' /\ WholeOut'
      BY <2>1 DEF IInv, WholeCard, WholeStore, WholeOut, CardPop
    <2> QED
      BY <2>3, <2>4, <2>5, <2>6, CardOthers DEF IInv
  <1> QED
    BY <1>2, <1>3 DEF CardPop

LEMMA CardRequeueKeeps ==
  ASSUME IInv, CardRequeue, UNCHANGED <<rxVars, queryVars, parseVars, netVars, bootVars>>
  PROVE  IInv'
  <1> USE DEF rxVars, queryVars, parseVars, netVars, bootVars
  <1>1. message \in Outbound
    BY DEF IInv, InHand, CardRequeue, Outbound
  <1>2. /\ OutQueue' \in Seq(Outbound) /\ Len(OutQueue') <= QLEN
        /\ WholeOut'
    <2>1. /\ OutQueue' = Append(OutQueue, message) /\ Len(OutQueue) < QLEN
          /\ OutQueue \in Seq(Outbound)
      BY DEF IInv, TypeOK, Outbound, CardRequeue, Room
    <2>2. /\ OutQueue' \in Seq(Outbound) /\ Len(OutQueue) \in Nat
          /\ Len(OutQueue') = Len(OutQueue) + 1
          /\ \A i \in 1..Len(OutQueue') :
               OutQueue'[i] = IF i <= Len(OutQueue) THEN OutQueue[i] ELSE message
      BY <1>1, <2>1, AppendFacts
    <2> QED
      BY <2>1, <2>2, ParametersAssumption DEF IInv, InHand, WholeOut, CardRequeue
  <1>3. TypeOK'
    BY <1>2 DEF IInv, TypeOK, Outbound, CardRequeue
  <1>4. (CountsCard /\ RoomCovers /\ InHand /\ WholeStore /\ WholeCard)'
    BY DEF IInv, CountsCard, RoomCovers, InHand, WholeStore, WholeCard, CardRequeue
  <1> QED
    BY <1>2, <1>3, <1>4, CardOthers DEF IInv

LEMMA CardReceiveKeeps ==
  ASSUME IInv, CardReceive, UNCHANGED <<rxVars, queryVars, parseVars, netVars, bootVars>>
  PROVE  IInv'
  <1> USE DEF rxVars, queryVars, parseVars, netVars, bootVars
  <1>1. /\ storeQueue' \in Seq(Packet) /\ Len(storeQueue) \in Nat \ {0}
        /\ Len(storeQueue') = Len(storeQueue) - 1
        /\ message' = storeQueue[1] /\ message' \in Packet
        /\ \A i \in 1..Len(storeQueue') : storeQueue'[i] = storeQueue[i + 1]
    BY TailFacts DEF IInv, TypeOK, CardReceive
  <1>2. WholeStore'
    BY <1>1 DEF IInv, WholeStore
  <1>3. InHand'
    BY <1>1 DEF IInv, InHand, WholeStore, CardReceive
  <1>4. TypeOK'
    BY <1>1, ParametersAssumption DEF IInv, TypeOK, CardReceive
  <1>5. (CountsCard /\ RoomCovers /\ WholeCard /\ WholeOut)'
    BY DEF IInv, CountsCard, RoomCovers, WholeCard, WholeOut, CardReceive
  <1> QED
    BY <1>2, <1>3, <1>4, <1>5, CardOthers DEF IInv

LEMMA CardPushKeeps ==
  ASSUME IInv, CardPush, UNCHANGED <<rxVars, queryVars, parseVars, netVars, bootVars>>
  PROVE  IInv'
  <1> USE DEF rxVars, queryVars, parseVars, netVars, bootVars
  <1>1. message \in Packet /\ message.vin /\ message.fields
    BY DEF IInv, InHand, CardPush
  <1>2. card' = Append(card, message) /\ message' = message
    BY DEF CardPush, Card!Push
  <1>3. /\ card' \in Seq(Packet) /\ Len(card) \in Nat /\ Len(card') = Len(card) + 1
        /\ \A i \in 1..Len(card') : card'[i] = IF i <= Len(card) THEN card[i] ELSE message
    BY <1>1, <1>2, AppendFacts DEF IInv, TypeOK
  <1>4. WholeCard'
    BY <1>1, <1>3 DEF IInv, WholeCard
  <1>5. CountsCard' /\ RoomCovers'
    BY <1>3 DEF IInv, TypeOK, CountsCard, RoomCovers, CardPush, CountPush
  <1>6. TypeOK'
    BY <1>2, <1>3 DEF IInv, TypeOK, CardPush, CountPush
  <1>7. (InHand /\ WholeStore /\ WholeOut)'
    BY DEF IInv, InHand, WholeStore, WholeOut, CardPush
  <1> QED
    BY <1>4, <1>5, <1>6, <1>7, CardOthers DEF IInv

LEMMA CardWaitKeeps ==
  ASSUME IInv, CardSkip \/ CardRequeueTimeout \/ CardReceiveTimeout,
         UNCHANGED <<rxVars, queryVars, parseVars, netVars, bootVars>>
  PROVE  IInv'
  <1> USE DEF CardSkip, CardRequeueTimeout, CardReceiveTimeout,
              rxVars, queryVars, parseVars, netVars, bootVars
  <1>1. lost' \subseteq 1..MaxPackets
    <2>1. cardPc = "requeue" => message.id \in 1..MaxPackets \cup {0}
      BY DEF IInv, InHand, Packet, BlankPacket
    <2>2. \/ lost' = lost
          \/ cardPc = "requeue" /\ lost' = lost \cup ({message.id} \ {0})
      OBVIOUS
    <2>3. lost \subseteq 1..MaxPackets
      BY DEF IInv, TypeOK
    <2>4. cardPc = "requeue" => {message.id} \ {0} \subseteq 1..MaxPackets
      BY <2>1
    <2>5. CASE lost' = lost
      BY <2>3, <2>5
    <2>6. CASE cardPc = "requeue" /\ lost' = lost \cup ({message.id} \ {0})
      BY <2>3, <2>4, <2>6
    <2> QED
      BY <2>2, <2>5, <2>6
  <1>2. TypeOK'
    BY <1>1 DEF IInv, TypeOK
  <1>3. (CountsCard /\ RoomCovers /\ InHand /\ WholeStore /\ WholeCard /\ WholeOut)'
    BY DEF IInv, CountsCard, RoomCovers, InHand, WholeStore, WholeCard, WholeOut
  <1> QED
    BY <1>2, <1>3, CardOthers DEF IInv

-----------------------------------------------------------------------------
LEMMA NetworkKeeps ==
  ASSUME IInv, Network
  PROVE  IInv'
  <1> USE DEF Network, rxVars, queryVars, parseVars, cardVars, bootVars
  <1>1. /\ OutQueue' \in Seq(Outbound) /\ Len(OutQueue') <= QLEN /\ WholeOut'
        /\ sent' \subseteq 1..MaxPackets
    <2>1. CASE Publish
      <3>1. /\ OutQueue' \in Seq(Outbound) /\ Len(OutQueue) \in Nat \ {0}
            /\ Len(OutQueue') = Len(OutQueue) - 1
            /\ Head(OutQueue) \in Outbound
            /\ \A i \in 1..Len(OutQueue') : OutQueue'[i] = OutQueue[i + 1]
        BY <2>1, TailFacts DEF IInv, TypeOK, Outbound, Publish
      <3>2. sent' \subseteq 1..MaxPackets
        <4>1. Head(OutQueue).id \in 1..MaxPackets \cup {0}
          BY <3>1 DEF Outbound, Packet, BlankPacket
        <4> QED
          BY <2>1, <4>1 DEF IInv, TypeOK, Publish
      <3>3. WholeOut'
        BY <3>1 DEF IInv, WholeOut
      <3> QED
        BY <3>1, <3>2, <3>3, ParametersAssumption DEF IInv, TypeOK
    <2>2. CASE ConnectionChange
      BY <2>2 DEF IInv, TypeOK, Outbound, WholeOut, ConnectionChange
    <2> QED
      BY <2>1, <2>2
  <1>2. TypeOK'
    <2>1. online' \in BOOLEAN
      BY DEF IInv, TypeOK, Publish, ConnectionChange
    <2> QED
      BY <1>1, <2>1 DEF IInv, TypeOK, Outbound
  <1>3. (/\ CountsCard /\ RoomCovers /\ Assembled /\ Numbered /\ InHand
         /\ WholeStore /\ WholeCard)'
    BY DEF IInv, CountsCard, RoomCovers, Assembled, Numbered, InHand, WholeStore, WholeCard
  <1> QED
    BY <1>1, <1>2, <1>3 DEF IInv

\* The numbers in a queue of packets.
LEMMA IdsType ==
  ASSUME NEW q \in Seq(Outbound)
  PROVE  Ids(q) \subseteq 1..MaxPackets
  <1>1. \A i \in DOMAIN q : q[i] \in Outbound
    BY LenProperties, ElementOfSeq
  <1>2. \A i \in DOMAIN q : q[i].id \in 1..MaxPackets \cup {0}
    BY <1>1 DEF Outbound, Packet, BlankPacket
  <1> QED
    BY <1>2 DEF Ids

LEMMA RestartKeeps ==
  ASSUME IInv, Restart
  PROVE  IInv'
  <1>1. dark' \subseteq 1..MaxPackets
    <2>1. Ids(OutQueue) \subseteq 1..MaxPackets
      BY IdsType DEF IInv, TypeOK, Outbound
    <2>2. Ids(storeQueue) \subseteq 1..MaxPackets
      <3>1. storeQueue \in Seq(Outbound)
        BY SeqMonotonic DEF IInv, TypeOK, Outbound
      <3> QED
        BY <3>1, IdsType
    <2>3. (IF parsePc \in {"out", "store"} THEN {built} ELSE {}) \subseteq 1..MaxPackets
      BY ParametersAssumption DEF IInv, TypeOK, Numbered
    <2>4. (IF cardPc \in {"requeue", "push"} THEN {message.id} \ {0} ELSE {})
            \subseteq 1..MaxPackets
      BY DEF IInv, InHand, Packet, BlankPacket
    <2> QED
      BY <2>1, <2>2, <2>3, <2>4 DEF IInv, TypeOK, InRam, Restart
  <1>2. boots' \in 1..MaxBoots /\ boots' > 1
    BY ParametersAssumption DEF IInv, TypeOK, Restart
  <1>3. /\ <<>> \in Seq(Packet) /\ <<>> \in Seq(Packet \cup {BlankPacket})
        /\ <<>> \in Seq([buf : Buffers, kind : Kind]) /\ Len(<<>>) = 0
    BY EmptySeq
  <1>4. TypeOK'
    <2>1. /\ rx' \in [RxTask -> Buffers \cup {None}]
          /\ heap' \subseteq Buffers /\ leaked' \subseteq Buffers
          /\ packet' \in [vin : BOOLEAN, fields : BOOLEAN]
          /\ stackdepth' \in Nat
      BY DEF IInv, TypeOK, Restart, NewPacket, DepthAtBoot
    <2>2. /\ rxQueue' \in Seq([buf : Buffers, kind : Kind]) /\ Len(rxQueue') <= QLEN
          /\ OutQueue' \in Seq(Packet \cup {BlankPacket}) /\ Len(OutQueue') <= QLEN
          /\ storeQueue' \in Seq(Packet) /\ Len(storeQueue') <= QLEN
      BY <1>3, ParametersAssumption DEF Restart
    <2>3. /\ queryPc' = "start" /\ asked' = {} /\ isVin' = FALSE /\ packetREADY' = FALSE
          /\ parsePc' = "receive" /\ cardPc' = "check" /\ message' = None
          /\ online' = FALSE
          /\ UNCHANGED <<built, dropped, card, room, lost, sent>>
      BY DEF Restart
    <2> QED
      BY <1>1, <1>2, <2>1, <2>2, <2>3 DEF IInv, TypeOK
  <1>5. CountsCard' /\ RoomCovers'
    BY <1>2 DEF IInv, TypeOK, CountsCard, RoomCovers, Restart, DepthAtBoot
  <1>6. Assembled' /\ Numbered' /\ InHand'
    BY DEF Assembled, Numbered, InHand, Restart, NewPacket
  <1>7. WholeStore' /\ WholeCard' /\ WholeOut'
    BY DEF IInv, WholeStore, WholeCard, WholeOut, Restart
  <1> QED
    BY <1>4, <1>5, <1>6, <1>7 DEF IInv

LEMMA StutterKeeps ==
  ASSUME IInv, UNCHANGED vars
  PROVE  IInv'
  <1> USE DEF vars, rxVars, queryVars, parseVars, cardVars, netVars, bootVars
  <1>1. TypeOK'
    BY DEF IInv, TypeOK
  <1> QED
    BY <1>1 DEF IInv, CountsCard, RoomCovers, Assembled, Numbered, InHand,
                WholeStore, WholeCard, WholeOut

LEMMA NextIInv == IInv /\ [Next]_vars => IInv'
  <1> SUFFICES ASSUME IInv, [Next]_vars
               PROVE  IInv'
    OBVIOUS
  <1>1. CASE QueryTask
    BY <1>1, QueryKeeps
  <1>2. CASE ParseTask
    BY <1>2, ParseKeeps, SendKeeps, ResetKeeps DEF ParseTask
  <1>3. CASE CardTask
    BY <1>3, CardPopKeeps, CardRequeueKeeps, CardReceiveKeeps, CardPushKeeps, CardWaitKeeps
    DEF CardTask
  <1>4. CASE Network
    BY <1>4, NetworkKeeps
  <1>5. CASE Restart
    BY <1>5, RestartKeeps
  <1>6. CASE \E t \in RxTask : ReceiveTask(t)
    BY <1>6, ReceiveKeeps
  <1>7. CASE UNCHANGED vars
    BY <1>7, StutterKeeps
  <1> QED
    BY <1>1, <1>2, <1>3, <1>4, <1>5, <1>6, <1>7 DEF Next

-----------------------------------------------------------------------------
(* The theorems.                                                           *)

\* What each place of the tasks knows is true in every reachable state.
THEOREM Inductive == Spec => []IInv
  BY InitIInv, NextIInv, PTL DEF Spec

\* No queue of the collector ever holds more than it was created for, and every
\* variable stays in its range (can_collector_utils.c:256-269).
THEOREM TypeCorrect == Spec => []TypeOK
  <1>1. IInv => TypeOK
    BY DEF IInv
  <1> QED
    BY <1>1, Inductive, PTL

\* The card task's count reaches every message on the card, over any number of
\* restarts, and is exact until the first (can_collector_utils.c:203-218).
THEOREM CardIsCounted == Spec => []CountsCard
  <1>1. IInv => CountsCard
    BY DEF IInv
  <1> QED
    BY <1>1, Inductive, PTL

\* No packet is stored or queued for sending without the VIN and a nonzero fields
\* byte, and the zeros of an empty stack are never stored and are queued only
\* after a restart (can_collector_utils.c:29-41, 159-163).
THEOREM PacketsTravelWhole == Spec => []TravelsWhole
  <1>1. IInv => TravelsWhole
    <2> SUFFICES ASSUME IInv PROVE TravelsWhole
      OBVIOUS
    <2>1. \A p \in Stored : p \in Packet /\ p.vin /\ p.fields
      <3>1. \A i \in DOMAIN storeQueue : storeQueue[i] \in Packet /\ i \in 1..Len(storeQueue)
        BY LenProperties, ElementOfSeq DEF IInv, TypeOK
      <3>2. \A i \in DOMAIN card : card[i] \in Packet /\ i \in 1..Len(card)
        BY LenProperties, ElementOfSeq DEF IInv, TypeOK
      <3> QED
        BY <3>1, <3>2 DEF IInv, WholeStore, WholeCard, Stored
    <2>2. \A p \in Outgoing : \/ p.vin /\ p.fields /\ p \in Packet
                              \/ p = BlankPacket /\ boots > 1
      <3>1. \A i \in DOMAIN OutQueue : OutQueue[i] \in Outbound /\ i \in 1..Len(OutQueue)
        BY LenProperties, ElementOfSeq DEF IInv, TypeOK, Outbound
      <3> QED
        BY <3>1 DEF IInv, WholeOut, Outgoing, Outbound, BlankPacket
    <2>3. \A p \in Packet : p.id # 0
      BY DEF Packet
    <2> QED
      BY <2>1, <2>2, <2>3 DEF TravelsWhole, BlankPacket
  <1> QED
    BY <1>1, Inductive, PTL

-----------------------------------------------------------------------------
(* Every buffer has one owner.                                             *)

Holding(b) == {e \in Entry : e.buf = b}

LEMMA QueuedBuffers ==
  ASSUME NEW q \in Seq(Entry), NEW b
  PROVE  Occurrences(q, LAMBDA e : e.buf = b) = Count(q, Holding(b))
  <1>1. \A i \in DOMAIN q : q[i] \in Entry
    BY LenProperties, ElementOfSeq
  <1>2. {i \in DOMAIN q : q[i].buf = b} = Hits(q, Holding(b))
    BY <1>1 DEF Hits, Holding
  <1> QED
    BY <1>2 DEF Occurrences, Count

Owners(b) ==
    In(b \in heap) + In(b \in leaked) + In(rx["elm"] = b) + In(rx["gps"] = b)
    + Count(rxQueue, Holding(b))

Owned == \A b \in Buffers : Owners(b) = 1

LEMMA OwnedIsOneOwner == TypeOK => (Owned <=> OneOwner)
  <1> SUFFICES ASSUME TypeOK
               PROVE  Owned <=> OneOwner
    OBVIOUS
  <1>1. \A b \in Buffers :
          Occurrences(rxQueue, LAMBDA e : e.buf = b) = Count(rxQueue, Holding(b))
    BY QueuedBuffers DEF TypeOK, Entry
  <1>2. \A b \in Buffers : Count(rxQueue, Holding(b)) \in Nat
    BY CountType DEF TypeOK, Entry
  <1> QED
    BY <1>1, <1>2 DEF Owned, Owners, OneOwner, In

LEMMA ReceiveOwned ==
  ASSUME IInv, Owned, NEW t \in RxTask, ReceiveTask(t)
  PROVE  Owned'
  <1> SUFFICES ASSUME NEW b \in Buffers
               PROVE  Owners(b)' = 1
    BY DEF Owned
  <1>1. Owners(b) = 1 /\ b # None
    BY ParametersAssumption DEF Owned
  <1>2. /\ rxQueue \in Seq(Entry) /\ Count(rxQueue, Holding(b)) \in Nat
        /\ rx \in [RxTask -> Buffers \cup {None}]
    BY CountType DEF IInv, TypeOK, Entry
  <1>3. t \in {"elm", "gps"} /\ RxTask = {"elm", "gps"}
    BY DEF RxTask
  <1>4. CASE Allocate(t)
    <2>1. PICK c \in heap : rx' = [rx EXCEPT ![t] = c] /\ heap' = heap \ {c}
      BY <1>4 DEF Allocate
    <2>2. rx[t] # b /\ UNCHANGED <<rxQueue, leaked>>
      BY <1>1, <1>4 DEF Allocate
    <2> QED
      BY <1>1, <1>2, <1>3, <2>1, <2>2 DEF Owners, In
  <1>5. CASE ReadNothing(t)
    <2>1. /\ heap' = heap \cup {rx[t]} /\ rx' = [rx EXCEPT ![t] = None]
          /\ UNCHANGED <<rxQueue, leaked>>
      BY <1>5 DEF ReadNothing
    <2> QED
      BY <1>1, <1>2, <1>3, <2>1 DEF Owners, In
  <1>6. ASSUME NEW k \in Kind, ReadAndSend(t, k)
        PROVE  Owners(b)' = 1
    <2>1. rx[t] \in Buffers /\ rx' = [rx EXCEPT ![t] = None] /\ heap' = heap
      BY <1>2, <1>6 DEF ReadAndSend, HeapAfterSend
    <2>2. CASE Room(rxQueue)
      <3> DEFINE e == [buf |-> rx[t], kind |-> k]
      <3>1. rxQueue' = Append(rxQueue, e) /\ leaked' = leaked
        BY <1>6, <2>2 DEF ReadAndSend
      <3>2. e \in Entry /\ (e \in Holding(b) <=> rx[t] = b)
        BY <2>1 DEF Entry, Holding
      <3>3. Count(rxQueue', Holding(b)) = Count(rxQueue, Holding(b)) + In(rx[t] = b)
        BY <1>2, <3>1, <3>2, CountAppend DEF In
      <3>4. Holding(b)' = Holding(b)
        BY DEF Holding
      <3> QED
        BY <1>1, <1>2, <1>3, <2>1, <3>1, <3>3, <3>4 DEF Owners, In
    <2>3. CASE ~Room(rxQueue)
      <3>1. rxQueue' = rxQueue /\ leaked' = leaked \cup {rx[t]}
        BY <1>6, <2>3 DEF ReadAndSend
      <3> QED
        BY <1>1, <1>2, <1>3, <2>1, <3>1 DEF Owners, In
    <2> QED
      BY <2>2, <2>3
  <1> QED
    BY <1>4, <1>5, <1>6 DEF ReceiveTask

LEMMA ParseOwned ==
  ASSUME IInv, Owned, Parse
  PROVE  Owned'
  <1> SUFFICES ASSUME NEW b \in Buffers
               PROVE  Owners(b)' = 1
    BY DEF Owned
  <1>1. Owners(b) = 1
    BY DEF Owned
  <1>2. /\ rxQueue \in Seq(Entry) /\ rxQueue # <<>>
        /\ heap' = heap \cup {Head(rxQueue).buf} /\ rxQueue' = Tail(rxQueue)
        /\ rx' = rx /\ leaked' = leaked
    BY DEF IInv, TypeOK, Entry, Parse
  <1>3. Tail(rxQueue) \in Seq(Entry) /\ Head(rxQueue) \in Entry
    BY <1>2, TailFacts
  <1>4. /\ Count(rxQueue, Holding(b))
             = Count(Tail(rxQueue), Holding(b)) + In(Head(rxQueue) \in Holding(b))
        /\ Count(Tail(rxQueue), Holding(b)) \in Nat
    BY <1>2, <1>3, CountTail, CountType
  <1>5. Head(rxQueue) \in Holding(b) <=> Head(rxQueue).buf = b
    BY <1>3 DEF Holding
  <1>6. Count(rxQueue', Holding(b)') = Count(Tail(rxQueue), Holding(b))
    BY <1>2 DEF Holding
  <1>7. Count(rxQueue', Holding(b)') = Count(rxQueue, Holding(b)) - In(Head(rxQueue).buf = b)
    BY <1>4, <1>5, <1>6 DEF In
  <1>8. b \in heap' <=> b \in heap \/ Head(rxQueue).buf = b
    BY <1>2
  <1>9. Count(rxQueue, Holding(b)) \in Nat
    BY <1>2, CountType
  <1>10. Head(rxQueue).buf = b => Count(rxQueue, Holding(b)) >= 1
    BY <1>4, <1>5 DEF In
  <1> HIDE DEF Count
  <1> QED
    BY <1>1, <1>2, <1>7, <1>8, <1>9, <1>10 DEF Owners, In

LEMMA NextOwned ==
  ASSUME IInv, Owned, [Next]_vars
  PROVE  Owned'
  <1>1. CASE \E t \in RxTask : ReceiveTask(t)
    BY <1>1, ReceiveOwned
  <1>2. CASE Parse
    BY <1>2, ParseOwned
  <1>3. CASE Restart
    <2> SUFFICES ASSUME NEW b \in Buffers
                 PROVE  Owners(b)' = 1
      BY DEF Owned
    <2>1. /\ heap' = Buffers /\ leaked' = {} /\ rxQueue' = <<>>
          /\ rx'["elm"] = None /\ rx'["gps"] = None
      BY <1>3 DEF Restart, RxTask
    <2>2. Count(rxQueue', Holding(b)') = 0
      BY <2>1, CountEmpty
    <2> QED
      BY <2>1, <2>2, ParametersAssumption DEF Owners, In
  <1>4. CASE UNCHANGED rxVars
    BY <1>4 DEF Owned, Owners, Holding, rxVars
  <1>5. \/ \E t \in RxTask : ReceiveTask(t)
        \/ Parse
        \/ Restart
        \/ UNCHANGED rxVars
    BY DEF Next, QueryTask, ParseTask, SendOut, SendStore, Reset, CardTask, Network, vars, rxVars
  <1> QED
    BY <1>1, <1>2, <1>3, <1>4, <1>5

\* No receive buffer is freed twice, used after its free, or received twice
\* (can_collector_utils.c:58-81, 133-173).
THEOREM BuffersHaveOneOwner == Spec => []OneOwner
  <1>1. Init => Owned
    <2> SUFFICES ASSUME Init, NEW b \in Buffers
                 PROVE  Owners(b) = 1
      BY DEF Owned
    <2>1. Count(rxQueue, Holding(b)) = 0
      BY CountEmpty DEF Init
    <2> QED
      BY <2>1, ParametersAssumption DEF Init, Owners, In, RxTask
  <1>2. IInv /\ Owned /\ [Next]_vars => Owned'
    BY NextOwned
  <1>3. IInv /\ Owned => OneOwner
    BY OwnedIsOneOwner DEF IInv
  <1> QED
    BY <1>1, <1>2, <1>3, Inductive, PTL DEF Spec

-----------------------------------------------------------------------------
(* Every packet is in one place.                                           *)

Carrying(n) == {p \in Outbound : p.id = n}

AtParse(n) == In(n = built /\ parsePc \in {"out", "store"})
AtCard(n) == In(cardPc \in {"requeue", "push"} /\ message.id = n)

AtOut(n) == Count(OutQueue, Carrying(n))
AtStore(n) == Count(storeQueue, Carrying(n))
AtSd(n) == Count(card, Carrying(n))
Sent(n) == In(n \in sent)
Dropped(n) == In(n \in dropped)
Lost(n) == In(n \in lost)
Dark(n) == In(n \in dark)

Places(n) ==
    AtParse(n) + AtCard(n) + AtOut(n) + AtStore(n) + AtSd(n)
    + Sent(n) + Dropped(n) + Lost(n) + Dark(n)

\* A number not given to a packet yet is in no place at all.
Placed == \A n \in 1..MaxPackets : Places(n) = In(n <= built)

\* What all the steps below need to know of a packet's number.
LEMMA PlaceTypes ==
  ASSUME IInv, NEW n \in 1..MaxPackets
  PROVE  /\ OutQueue \in Seq(Outbound) /\ storeQueue \in Seq(Outbound) /\ card \in Seq(Outbound)
         /\ n \in Nat /\ n >= 1 /\ built \in Nat
         /\ \A p \in Outbound : p \in Carrying(n) <=> p.id = n
  <1>1. OutQueue \in Seq(Outbound) /\ storeQueue \in Seq(Outbound) /\ card \in Seq(Outbound)
    BY SeqMonotonic DEF IInv, TypeOK, Outbound
  <1>2. n \in Nat /\ n >= 1 /\ built \in Nat
    BY ParametersAssumption DEF IInv, TypeOK
  <1> QED
    BY <1>1, <1>2 DEF Carrying

\* Each place holds a packet a natural number of times, and the histories at
\* most once.
LEMMA PlaceNumbers ==
  ASSUME IInv, NEW n \in 1..MaxPackets
  PROVE  /\ AtParse(n) \in Nat /\ AtCard(n) \in Nat
         /\ AtOut(n) \in Nat /\ AtStore(n) \in Nat /\ AtSd(n) \in Nat
         /\ Sent(n) \in Nat /\ Dropped(n) \in Nat /\ Lost(n) \in Nat /\ Dark(n) \in Nat
         /\ In(n <= built) \in {0, 1}
  <1>1. AtParse(n) \in Nat /\ AtCard(n) \in Nat /\ In(n <= built) \in {0, 1}
    BY DEF AtParse, AtCard, In
  <1>2. AtOut(n) \in Nat /\ AtStore(n) \in Nat /\ AtSd(n) \in Nat
    BY PlaceTypes, CountType DEF AtOut, AtStore, AtSd
  <1>3. Sent(n) \in Nat /\ Dropped(n) \in Nat /\ Lost(n) \in Nat /\ Dark(n) \in Nat
    BY DEF Sent, Dropped, Lost, Dark, In
  <1> QED
    BY <1>1, <1>2, <1>3

\* A place changes only with the variables it is made of.
LEMMA PlaceFrame ==
  ASSUME NEW n
  PROVE  /\ UNCHANGED <<built, parsePc>> => AtParse(n)' = AtParse(n)
         /\ UNCHANGED <<cardPc, message>> => AtCard(n)' = AtCard(n)
         /\ UNCHANGED OutQueue => AtOut(n)' = AtOut(n)
         /\ UNCHANGED storeQueue => AtStore(n)' = AtStore(n)
         /\ UNCHANGED card => AtSd(n)' = AtSd(n)
         /\ UNCHANGED sent => Sent(n)' = Sent(n)
         /\ UNCHANGED dropped => Dropped(n)' = Dropped(n)
         /\ UNCHANGED lost => Lost(n)' = Lost(n)
         /\ UNCHANGED dark => Dark(n)' = Dark(n)
         /\ UNCHANGED built => In(n <= built)' = In(n <= built)
  BY DEF AtParse, AtCard, AtOut, AtStore, AtSd, Sent, Dropped, Lost, Dark

\* A packet that is still on its way is in no history yet.
LEMMA NotYet ==
  ASSUME IInv, Placed, NEW n \in 1..MaxPackets
  PROVE  /\ AtParse(n) # 0 => n \notin dropped
         /\ AtCard(n) # 0 => n \notin lost
         /\ AtOut(n) # 0 => n \notin sent
  <1>1. Places(n) \in {0, 1}
    BY PlaceNumbers DEF Placed
  <1>2. /\ AtParse(n) # 0 => Dropped(n) = 0
        /\ AtCard(n) # 0 => Lost(n) = 0
        /\ AtOut(n) # 0 => Sent(n) = 0
    BY <1>1, PlaceNumbers DEF Places
  <1> QED
    BY <1>2 DEF Dropped, Lost, Sent, In

LEMMA QueuedPackets ==
  ASSUME NEW q \in Seq(Outbound), NEW n
  PROVE  Occurrences(q, LAMBDA p : p.id = n) = Count(q, Carrying(n))
  <1>1. \A i \in DOMAIN q : q[i] \in Outbound
    BY LenProperties, ElementOfSeq
  <1>2. {i \in DOMAIN q : q[i].id = n} = Hits(q, Carrying(n))
    BY <1>1 DEF Hits, Carrying
  <1> QED
    BY <1>2 DEF Occurrences, Count

LEMMA PlacedIsOnePlace ==
  ASSUME IInv, Placed
  PROVE  OnePlace
  <1> SUFFICES ASSUME NEW n \in 1..built
               PROVE  1 = In(n = built /\ parsePc \in {"out", "store"})
                          + In(cardPc \in {"requeue", "push"} /\ message.id = n)
                          + Occurrences(OutQueue, LAMBDA p : p.id = n)
                          + Occurrences(storeQueue, LAMBDA p : p.id = n)
                          + Occurrences(card, LAMBDA p : p.id = n)
                          + In(n \in sent) + In(n \in dropped) + In(n \in lost) + In(n \in dark)
    BY DEF OnePlace
  <1>1. n \in 1..MaxPackets /\ n <= built
    BY ParametersAssumption DEF IInv, TypeOK
  <1>2. OutQueue \in Seq(Outbound) /\ storeQueue \in Seq(Outbound) /\ card \in Seq(Outbound)
    BY <1>1, PlaceTypes
  <1>3. Places(n) = 1
    BY <1>1 DEF Placed, In
  <1>4. /\ Occurrences(OutQueue, LAMBDA p : p.id = n) = AtOut(n)
        /\ Occurrences(storeQueue, LAMBDA p : p.id = n) = AtStore(n)
        /\ Occurrences(card, LAMBDA p : p.id = n) = AtSd(n)
    BY <1>2, QueuedPackets DEF AtOut, AtStore, AtSd
  <1> QED
    BY <1>3, <1>4 DEF Places, AtParse, AtCard, Sent, Dropped, Lost, Dark

LEMMA ParsePlaced ==
  ASSUME IInv, Placed, Parse, UNCHANGED <<cardVars, netVars, bootVars>>,
         NEW n \in 1..MaxPackets
  PROVE  Places(n)' = In(n <= built)'
  <1>1. Places(n) = In(n <= built)
    BY DEF Placed
  <1>2. UNCHANGED <<OutQueue, storeQueue, card, sent, dropped, lost, dark, cardPc, message>>
    BY DEF Parse, cardVars, netVars, bootVars
  <1>3. CASE UNCHANGED <<parsePc, built>>
    BY <1>1, <1>2, <1>3, PlaceFrame DEF Places
  <1>4. CASE parsePc = "receive" /\ parsePc' = "out" /\ built' = built + 1
    <2>1. AtParse(n) = 0 /\ AtParse(n)' = In(n = built + 1)
      BY <1>4 DEF AtParse, In
    <2>2. In(n <= built)' = In(n <= built) + In(n = built + 1)
      BY <1>4, PlaceTypes DEF In
    <2>3. In(n = built + 1) \in Nat
      BY DEF In
    <2> QED
      BY <1>1, <1>2, <2>1, <2>2, <2>3, PlaceFrame, PlaceNumbers DEF Places
  <1> QED
    BY <1>3, <1>4 DEF Parse

LEMMA SendPlaced ==
  ASSUME IInv, Placed, SendOut \/ SendStore, UNCHANGED <<cardVars, netVars, bootVars>>,
         NEW n \in 1..MaxPackets
  PROVE  Places(n)' = In(n <= built)'
  <1>1. Places(n) = In(n <= built)
    BY DEF Placed
  <1>2. /\ UNCHANGED <<card, sent, lost, dark, cardPc, message, built>>
        /\ parsePc \in {"out", "store"}
    BY DEF SendOut, SendStore, cardVars, netVars, bootVars
  <1>3. /\ ThePacket \in Outbound
        /\ In(ThePacket \in Carrying(n)) = In(n = built)
    BY <1>2, ThePacketIsWhole, PlaceTypes DEF Outbound, ThePacket, In
  <1>4. AtParse(n) = In(n = built)
    BY <1>2 DEF AtParse, In
  <1>5. parsePc' = "reset" => AtParse(n)' = 0
    BY DEF AtParse, In
  <1>6. CASE /\ OutQueue' = Append(OutQueue, ThePacket) /\ parsePc' = "reset"
             /\ UNCHANGED <<storeQueue, dropped>>
    <2>1. AtOut(n)' = AtOut(n) + In(n = built)
      BY <1>3, <1>6, PlaceTypes, CountAppend DEF AtOut
    <2> QED
      BY <1>1, <1>2, <1>4, <1>5, <1>6, <2>1, PlaceFrame, PlaceNumbers DEF Places
  <1>7. CASE parsePc' = "store" /\ UNCHANGED <<OutQueue, storeQueue, dropped>>
    <2>1. AtParse(n)' = AtParse(n)
      BY <1>2, <1>7 DEF AtParse
    <2> QED
      BY <1>1, <1>2, <1>7, <2>1, PlaceFrame DEF Places
  <1>8. CASE /\ storeQueue' = Append(storeQueue, ThePacket) /\ parsePc' = "reset"
             /\ UNCHANGED <<OutQueue, dropped>>
    <2>1. AtStore(n)' = AtStore(n) + In(n = built)
      BY <1>3, <1>8, PlaceTypes, CountAppend DEF AtStore
    <2> QED
      BY <1>1, <1>2, <1>4, <1>5, <1>8, <2>1, PlaceFrame, PlaceNumbers DEF Places
  <1>9. CASE /\ dropped' = dropped \cup {built} /\ parsePc' = "reset"
             /\ UNCHANGED <<OutQueue, storeQueue>>
    <2>1. n = built => n \notin dropped
      BY <1>4, NotYet DEF In
    <2>2. Dropped(n)' = Dropped(n) + In(n = built)
      BY <1>9, <2>1 DEF Dropped, In
    <2> QED
      BY <1>1, <1>2, <1>4, <1>5, <1>9, <2>2, PlaceFrame, PlaceNumbers DEF Places
  <1> QED
    BY <1>6, <1>7, <1>8, <1>9 DEF SendOut, SendStore, AfterSendOut

LEMMA CardPlaced ==
  ASSUME IInv, Placed, CardTask, NEW n \in 1..MaxPackets
  PROVE  Places(n)' = In(n <= built)'
  <1>1. Places(n) = In(n <= built)
    BY DEF Placed
  <1>2. UNCHANGED <<sent, dropped, dark, parsePc, built>>
    BY DEF CardTask, parseVars, netVars, bootVars
  <1>3. IInv'
    BY CardPopKeeps, CardRequeueKeeps, CardReceiveKeeps, CardPushKeeps, CardWaitKeeps
    DEF CardTask
  <1>4. /\ cardPc \in {"requeue", "push"} => AtCard(n) = In(message.id = n)
        /\ cardPc \in {"check", "receive"} => AtCard(n) = 0
        /\ cardPc' \in {"requeue", "push"} => AtCard(n)' = In(message'.id = n)
        /\ cardPc' \in {"check", "receive"} => AtCard(n)' = 0
        /\ In(message.id = n) \in Nat /\ In(message'.id = n) \in Nat
    BY DEF AtCard, In
  <1>5. /\ AtSd(n)' \in Nat /\ AtStore(n)' \in Nat
    BY <1>3, CountType DEF IInv, TypeOK, AtSd, AtStore
  <1>6. CASE CardPop
    <2>1. /\ cardPc = "check" /\ cardPc' = "requeue"
          /\ UNCHANGED <<OutQueue, storeQueue, lost>>
      BY <1>6 DEF CardPop
    <2>2. AtSd(n) = AtSd(n)' + In(message'.id = n)
      <3>1. CASE Card!Pop
        <4>1. /\ card # <<>> /\ message' = card[Len(card)]
              /\ card' = SubSeq(card, 1, Len(card) - 1)
          BY <3>1 DEF Card!Pop
        <4>2. card[Len(card)] \in Outbound
          BY <4>1, PlaceTypes, FrontFacts
        <4>3. In(message' \in Carrying(n)) = In(message'.id = n)
          BY <4>1, <4>2, PlaceTypes DEF In
        <4>4. Count(card, Carrying(n))
                = Count(SubSeq(card, 1, Len(card) - 1), Carrying(n))
                  + In(card[Len(card)] \in Carrying(n))
          BY <4>1, PlaceTypes, CountFront
        <4> QED
          BY <4>1, <4>3, <4>4 DEF AtSd
      <3>2. CASE Card!PopBlank
        <4>1. card' = card /\ message'.id = 0
          BY <3>2 DEF Card!PopBlank, BlankPacket
        <4>2. In(message'.id = n) = 0
          BY <4>1, PlaceTypes DEF In
        <4> QED
          BY <4>1, <4>2, PlaceFrame, PlaceNumbers
      <3> QED
        BY <1>6, <3>1, <3>2 DEF CardPop
    <2> QED
      BY <1>1, <1>2, <1>4, <1>5, <2>1, <2>2, PlaceFrame, PlaceNumbers DEF Places
  <1>7. CASE CardRequeue
    <2>1. /\ cardPc = "requeue" /\ cardPc' = "receive"
          /\ OutQueue' = Append(OutQueue, message)
          /\ UNCHANGED <<storeQueue, card, lost>>
      BY <1>7 DEF CardRequeue
    <2>2. message \in Outbound
      BY <2>1 DEF IInv, InHand, Outbound
    <2>3. AtOut(n)' = AtOut(n) + In(message \in Carrying(n))
      BY <2>1, <2>2, PlaceTypes, CountAppend DEF AtOut
    <2>4. In(message \in Carrying(n)) = In(message.id = n)
      BY <2>2, PlaceTypes DEF In
    <2> QED
      BY <1>1, <1>2, <1>4, <2>1, <2>3, <2>4, PlaceFrame, PlaceNumbers DEF Places
  <1>8. CASE CardRequeueTimeout
    <2>1. /\ cardPc = "requeue" /\ cardPc' = "receive"
          /\ lost' = lost \cup ({message.id} \ {0})
          /\ UNCHANGED <<OutQueue, storeQueue, card>>
      BY <1>8 DEF CardRequeueTimeout
    <2>2. message.id = n => n \notin lost
      BY <1>4, <2>1, NotYet DEF In
    <2>3. Lost(n)' = Lost(n) + In(message.id = n)
      BY <2>1, <2>2, PlaceTypes DEF Lost, In
    <2> QED
      BY <1>1, <1>2, <1>4, <2>1, <2>3, PlaceFrame, PlaceNumbers DEF Places
  <1>9. CASE CardReceive
    <2>1. /\ cardPc = "receive" /\ cardPc' = "push" /\ storeQueue # <<>>
          /\ message' = Head(storeQueue) /\ storeQueue' = Tail(storeQueue)
          /\ UNCHANGED <<OutQueue, card, lost>>
      BY <1>9 DEF CardReceive
    <2>2. Head(storeQueue) \in Outbound
      BY <2>1, PlaceTypes, TailFacts
    <2>3. In(message' \in Carrying(n)) = In(message'.id = n)
      BY <2>1, <2>2, PlaceTypes DEF In
    <2>4. Count(storeQueue, Carrying(n))
            = Count(Tail(storeQueue), Carrying(n)) + In(Head(storeQueue) \in Carrying(n))
      BY <2>1, PlaceTypes, CountTail
    <2>5. AtStore(n) = AtStore(n)' + In(message'.id = n)
      BY <2>1, <2>3, <2>4 DEF AtStore
    <2> QED
      BY <1>1, <1>2, <1>4, <1>5, <2>1, <2>5, PlaceFrame, PlaceNumbers DEF Places
  <1>10. CASE CardPush
    <2>1. /\ cardPc = "push" /\ cardPc' = "check"
          /\ card' = Append(card, message)
          /\ UNCHANGED <<OutQueue, storeQueue, lost>>
      BY <1>10 DEF CardPush, Card!Push
    <2>2. message \in Outbound
      BY <2>1 DEF IInv, InHand, Outbound
    <2>3. AtSd(n)' = AtSd(n) + In(message \in Carrying(n))
      BY <2>1, <2>2, PlaceTypes, CountAppend DEF AtSd
    <2>4. In(message \in Carrying(n)) = In(message.id = n)
      BY <2>2, PlaceTypes DEF In
    <2> QED
      BY <1>1, <1>2, <1>4, <2>1, <2>3, <2>4, PlaceFrame, PlaceNumbers DEF Places
  <1>11. CASE CardSkip \/ CardReceiveTimeout
    <2>1. /\ cardPc \in {"check", "receive"} /\ cardPc' \in {"check", "receive"}
          /\ UNCHANGED <<OutQueue, storeQueue, card, lost>>
      BY <1>11 DEF CardSkip, CardReceiveTimeout
    <2> QED
      BY <1>1, <1>2, <1>4, <2>1, PlaceFrame DEF Places
  <1> QED
    BY <1>6, <1>7, <1>8, <1>9, <1>10, <1>11 DEF CardTask

LEMMA NetworkPlaced ==
  ASSUME IInv, Placed, Network, NEW n \in 1..MaxPackets
  PROVE  Places(n)' = In(n <= built)'
  <1>1. Places(n) = In(n <= built)
    BY DEF Placed
  <1>2. UNCHANGED <<storeQueue, card, dropped, lost, dark, parsePc, built, cardPc, message>>
    BY DEF Network, parseVars, cardVars, bootVars
  <1>3. CASE Publish
    <2>1. /\ OutQueue # <<>> /\ OutQueue' = Tail(OutQueue)
          /\ sent' = sent \cup ({Head(OutQueue).id} \ {0})
      BY <1>3 DEF Publish
    <2>2. /\ Head(OutQueue) \in Outbound
          /\ Count(Tail(OutQueue), Carrying(n)) \in Nat
      BY <2>1, PlaceTypes, TailFacts, CountType
    <2>3. /\ In(Head(OutQueue) \in Carrying(n)) = In(Head(OutQueue).id = n)
          /\ In(Head(OutQueue).id = n) \in Nat
      BY <2>2, PlaceTypes DEF In
    <2>4. Count(OutQueue, Carrying(n))
            = Count(Tail(OutQueue), Carrying(n)) + In(Head(OutQueue) \in Carrying(n))
      BY <2>1, PlaceTypes, CountTail
    <2>5. AtOut(n) = AtOut(n)' + In(Head(OutQueue).id = n) /\ AtOut(n)' \in Nat
      BY <2>1, <2>2, <2>3, <2>4 DEF AtOut
    <2>6. Head(OutQueue).id = n => n \notin sent
      <3>1. Head(OutQueue).id = n => In(Head(OutQueue).id = n) = 1
        BY DEF In
      <3>2. Head(OutQueue).id = n => AtOut(n) # 0
        BY <2>5, <3>1
      <3> QED
        BY <3>2, NotYet
    <2>7. Sent(n)' = Sent(n) + In(Head(OutQueue).id = n)
      BY <2>1, <2>6, PlaceTypes DEF Sent, In
    <2> QED
      BY <1>1, <1>2, <2>3, <2>5, <2>7, PlaceFrame, PlaceNumbers DEF Places
  <1>4. CASE ConnectionChange
    BY <1>1, <1>2, <1>4, PlaceFrame DEF Places, ConnectionChange
  <1> QED
    BY <1>3, <1>4 DEF Network

LEMMA RestartPlaced ==
  ASSUME IInv, Placed, Restart, NEW n \in 1..MaxPackets
  PROVE  Places(n)' = In(n <= built)'
  <1>1. Places(n) = In(n <= built)
    BY DEF Placed
  <1>2. /\ UNCHANGED <<built, dropped, card, lost, sent>>
        /\ parsePc' = "receive" /\ cardPc' = "check" /\ OutQueue' = <<>> /\ storeQueue' = <<>>
        /\ dark' = dark \cup InRam
    BY DEF Restart
  <1>3. AtParse(n)' = 0 /\ AtCard(n)' = 0 /\ AtOut(n)' = 0 /\ AtStore(n)' = 0
    BY <1>2, CountEmpty DEF AtParse, AtCard, AtOut, AtStore, In
  <1>4. \A q \in Seq(Outbound) : n \in Ids(q) <=> Count(q, Carrying(n)) # 0
    <2> SUFFICES ASSUME NEW q \in Seq(Outbound)
                 PROVE  n \in Ids(q) <=> Count(q, Carrying(n)) # 0
      OBVIOUS
    <2>1. \A i \in DOMAIN q : q[i] \in Outbound
      BY LenProperties, ElementOfSeq
    <2>2. n \in Ids(q) <=> \E i \in DOMAIN q : q[i].id = n
      BY PlaceTypes DEF Ids
    <2>3. n \in Ids(q) <=> \E i \in DOMAIN q : q[i] \in Carrying(n)
      BY <2>1, <2>2, PlaceTypes
    <2> QED
      BY <2>3, CountType
  <1>5. n \in InRam <=> AtOut(n) # 0 \/ AtStore(n) # 0 \/ AtParse(n) # 0 \/ AtCard(n) # 0
    <2>1. AtParse(n) # 0 <=> n \in (IF parsePc \in {"out", "store"} THEN {built} ELSE {})
      BY DEF AtParse, In
    <2>2. AtCard(n) # 0
            <=> n \in (IF cardPc \in {"requeue", "push"} THEN {message.id} \ {0} ELSE {})
      BY PlaceTypes DEF AtCard, In
    <2>3. /\ n \in Ids(OutQueue) <=> AtOut(n) # 0
          /\ n \in Ids(storeQueue) <=> AtStore(n) # 0
      BY <1>4, PlaceTypes DEF AtOut, AtStore
    <2> QED
      BY <2>1, <2>2, <2>3 DEF InRam
  <1>6. CASE n \in InRam
    <2>1. Dark(n)' = 1
      BY <1>2, <1>6 DEF Dark, In
    <2>2. AtParse(n) + AtCard(n) + AtOut(n) + AtStore(n) >= 1
      BY <1>5, <1>6, PlaceNumbers
    <2>3. AtSd(n) + Sent(n) + Dropped(n) + Lost(n) = 0 /\ In(n <= built) = 1
      BY <1>1, <2>2, PlaceNumbers DEF Places
    <2> QED
      BY <1>2, <1>3, <2>1, <2>3, PlaceFrame, PlaceNumbers DEF Places
  <1>7. CASE n \notin InRam
    <2>1. Dark(n)' = Dark(n)
      BY <1>2, <1>7 DEF Dark, In
    <2>2. AtParse(n) = 0 /\ AtCard(n) = 0 /\ AtOut(n) = 0 /\ AtStore(n) = 0
      BY <1>5, <1>7
    <2> QED
      BY <1>1, <1>2, <1>3, <2>1, <2>2, PlaceFrame DEF Places
  <1> QED
    BY <1>6, <1>7

LEMMA NextPlaced ==
  ASSUME IInv, Placed, [Next]_vars
  PROVE  Placed'
  <1> SUFFICES ASSUME NEW n \in 1..MaxPackets
               PROVE  Places(n)' = In(n <= built)'
    BY DEF Placed
  <1>1. CASE Parse /\ UNCHANGED <<cardVars, netVars, bootVars>>
    BY <1>1, ParsePlaced
  <1>2. CASE (SendOut \/ SendStore) /\ UNCHANGED <<cardVars, netVars, bootVars>>
    BY <1>2, SendPlaced
  <1>3. CASE CardTask
    BY <1>3, CardPlaced
  <1>4. CASE Network
    BY <1>4, NetworkPlaced
  <1>5. CASE Restart
    BY <1>5, RestartPlaced
  <1>6. CASE Reset /\ UNCHANGED <<cardVars, netVars, bootVars>>
    <2>1. /\ UNCHANGED <<OutQueue, storeQueue, card, sent, dropped, lost, dark, built,
                         cardPc, message>>
          /\ parsePc = "reset" /\ parsePc' = "receive"
      BY <1>6 DEF Reset, cardVars, netVars, bootVars
    <2>2. AtParse(n)' = AtParse(n)
      BY <2>1 DEF AtParse, In
    <2> QED
      BY <2>1, <2>2, PlaceFrame DEF Places, Placed
  <1>7. CASE UNCHANGED <<parseVars, OutQueue, storeQueue, cardVars, netVars, bootVars>>
    <2>1. UNCHANGED <<OutQueue, storeQueue, card, sent, dropped, lost, dark, built,
                      parsePc, cardPc, message>>
      BY <1>7 DEF parseVars, cardVars, netVars, bootVars
    <2> QED
      BY <2>1, PlaceFrame DEF Places, Placed
  <1> QED
    BY <1>1, <1>2, <1>3, <1>4, <1>5, <1>6, <1>7
    DEF Next, ParseTask, QueryTask, ReceiveTask, vars

\* No packet is sent twice, or is sent and stored as well, and none vanishes but
\* by the three ways the code has (can_collector_utils.c:175-192, 205-221).
THEOREM PacketsHaveOnePlace == Spec => []OnePlace
  <1>1. Init => Placed
    <2> SUFFICES ASSUME Init, NEW n \in 1..MaxPackets
                 PROVE  Places(n) = In(n <= built)
      BY DEF Placed
    <2>1. AtOut(n) = 0 /\ AtStore(n) = 0 /\ AtSd(n) = 0
      BY CountEmpty DEF Init, AtOut, AtStore, AtSd
    <2>2. AtParse(n) = 0 /\ AtCard(n) = 0
      BY DEF Init, AtParse, AtCard, In
    <2>3. Sent(n) = 0 /\ Dropped(n) = 0 /\ Lost(n) = 0 /\ Dark(n) = 0
      BY DEF Init, Sent, Dropped, Lost, Dark, In
    <2>4. In(n <= built) = 0
      BY ParametersAssumption DEF Init, In
    <2> QED
      BY <2>1, <2>2, <2>3, <2>4 DEF Places
  <1>2. IInv /\ Placed /\ [Next]_vars => Placed'
    BY NextPlaced
  <1>3. IInv /\ Placed => OnePlace
    BY PlacedIsOnePlace
  <1> QED
    BY <1>1, <1>2, <1>3, Inductive, PTL DEF Spec

=============================================================================
