--------------------------- MODULE FileStackProofs ---------------------------
(***************************************************************************)
(* Theorems about FileStack, for records of any size and any number of     *)
(* power losses.                                                           *)
(***************************************************************************)
EXTENDS FileStack, SequenceTheorems, WellFoundedInduction, TLAPS

USE ParametersAssumption

\* Multiples of a positive number: the arithmetic of record boundaries.
LEMMA Multiples ==
  ASSUME NEW m \in Nat, m > 1, NEW k \in Nat
  PROVE  /\ k * m \in Nat
         /\ (k * m) % m = 0
         /\ (k * m) \div m = k
         /\ (k + 1) * m = k * m + m
         /\ k > 0 => (k - 1) * m = k * m - m
  OBVIOUS

LEMMA MultiplesOrder ==
  ASSUME NEW m \in Nat, m > 1, NEW k \in Nat, NEW n \in Nat
  PROVE  /\ k <= n => k * m <= n * m
         /\ k < n => k * m + m <= n * m
         /\ k * m < n * m => k < n
  OBVIOUS

\* A write inside or at the end of the file: its length and its bytes.
LEMMA OverwriteProperties ==
  ASSUME NEW S, NEW f \in Seq(S), NEW s \in Seq(S), NEW p \in 0..Len(f)
  PROVE  /\ Overwrite(f, p, s) \in Seq(S)
         /\ Len(Overwrite(f, p, s)) =
              IF p + Len(s) > Len(f) THEN p + Len(s) ELSE Len(f)
         /\ \A i \in 1..Len(Overwrite(f, p, s)) :
              Overwrite(f, p, s)[i] =
                IF p < i /\ i <= p + Len(s) THEN s[i - p] ELSE f[i]
  BY DEF Overwrite

\* fStackFindTop finds the last nonzero byte, if there is one.
LEMMA TopUnique ==
  ASSUME NEW S, NEW f \in Seq(S), NEW t \in 1..Len(f),
         f[t] # 0, \A j \in DOMAIN f : j > t => f[j] = 0
  PROVE  Top(f) = t
  BY DEF Top
-----------------------------------------------------------------------------
(* Bounded nonempty sets of positions have a greatest element, so the      *)
(* searches for the last nonzero byte and for the last '#' find one.       *)

LEMMA LeastNatural ==
  ASSUME NEW T, T \subseteq Nat, T # {}
  PROVE  \E x \in T : \A y \in T : x <= y
  <1>1. PICK R : R = OpToRel(<, Nat)
    OBVIOUS
  <1>2. IsWellFoundedOn(R, Nat)
    BY <1>1, NatLessThanWellFounded
  <1>3. \A x, y \in Nat : <<y, x>> \in R <=> y < x
    BY <1>1 DEF OpToRel
  <1>4. \E x \in T : \A y \in T : ~(<<y, x>> \in R)
    BY <1>2, WFMin
  <1>5. \A x, y \in T : ~(<<y, x>> \in R) => x <= y
    BY <1>3
  <1> QED
    BY <1>4, <1>5

LEMMA GreatestPosition ==
  ASSUME NEW n \in Nat, NEW T, T \subseteq 1..n, T # {}
  PROVE  \E x \in T : \A y \in 1..n : y > x => y \notin T
  <1> DEFINE U == {m \in Nat : \E i \in T : m = n - i}
  <1>1. U \subseteq Nat /\ U # {}
    <2>1. PICK i \in T : TRUE
      OBVIOUS
    <2>2. n - i \in Nat
      BY <2>1
    <2> QED
      BY <2>1, <2>2
  <1>2. PICK u \in U : \A v \in U : u <= v
    BY <1>1, LeastNatural
  <1>3. PICK x \in T : u = n - x
    OBVIOUS
  <1>4. \A y \in T : n - x <= n - y
    BY <1>2, <1>3
  <1> QED
    BY <1>3, <1>4

LEMMA TopExists ==
  ASSUME NEW S, NEW f \in Seq(S), ~AllZero(f)
  PROVE  /\ Top(f) \in 1..Len(f)
         /\ f[Top(f)] # 0
         /\ \A j \in DOMAIN f : j > Top(f) => f[j] = 0
  <1> DEFINE T == {i \in 1..Len(f) : f[i] # 0}
  <1>1. Len(f) \in Nat /\ T \subseteq 1..Len(f) /\ T # {}
    BY DEF AllZero
  <1> HIDE DEF T
  <1>2. PICK x \in T : \A y \in 1..Len(f) : y > x => y \notin T
    BY <1>1, GreatestPosition
  <1> QED
    BY <1>2 DEF T, Top

LEMMA MarkerExists ==
  ASSUME NEW S, NEW f \in Seq(S), NEW t \in 0..Len(f), HasMarkerBelow(f, t)
  PROVE  /\ MarkerBelow(f, t) \in 1..t
         /\ f[MarkerBelow(f, t)] = Hash
  <1> DEFINE T == {i \in 1..t : f[i] = Hash}
  <1>1. t \in Nat /\ T \subseteq 1..t /\ T # {}
    BY DEF HasMarkerBelow
  <1> HIDE DEF T
  <1>2. PICK x \in T : \A y \in 1..t : y > x => y \notin T
    BY <1>1, GreatestPosition
  <1>3. \E i \in 1..t : f[i] = Hash /\ \A j \in 1..t : j > i => f[j] # Hash
    BY <1>2 DEF T
  <1> QED
    BY <1>3 DEF MarkerBelow
-----------------------------------------------------------------------------
AllBytes == Byte \cup FieldsByte \cup {0, Hash}

LEMMA RecordIsSeq ==
  ASSUME NEW r \in Record
  PROVE  r \in Seq(AllBytes) /\ Len(r) = MSG_SIZE
  BY DEF AllBytes, Record

LEMMA BlankIsSeq == Blank \in Seq(AllBytes) /\ Len(Blank) = MSG_SIZE
  BY DEF AllBytes, Blank

\* What stack_init makes of a file whose count ends is a file again, and its
\* depth is a natural number.
LEMMA ScanType ==
  ASSUME NEW f \in Seq(AllBytes), HasMarkerBelow(f, Len(f))
  PROVE  /\ ScannedFile(f) \in Seq(AllBytes)
         /\ ScanEnds(f) => ScannedDepth(f) \in Nat
  <1>1. Hash # 0 /\ ~AllZero(f)
    BY DEF HasMarkerBelow, AllZero
  <1>2. Top(f) \in 1..Len(f)
    BY <1>1, TopExists
  <1>3. MarkerBelow(f, Len(f)) \in 1..Len(f)
    BY MarkerExists
  <1>4. CountedBytes(f) \in Nat /\ Remainder(f) \in Nat
    BY <1>3 DEF CountedBytes, Remainder
  <1>5. Repaired(f) \in Seq(AllBytes)
    <2> DEFINE n == IF Top(f) + 1 > Len(f) THEN Top(f) + 1 ELSE Len(f)
    <2>1. n \in Nat /\ Len(f) \in Nat /\ 0 \in AllBytes
      BY <1>2 DEF AllBytes
    <2>2. ASSUME NEW i \in 1..n
          PROVE  (IF ZeroedFrom(f) <= i /\ i <= Top(f) + 1 THEN 0 ELSE f[i])
                   \in AllBytes
      <3>1. CASE i <= Len(f)
        BY <2>1, <3>1, ElementOfSeq
      <3>2. CASE i > Len(f)
        BY <1>2, <1>4, <2>1, <3>2 DEF ZeroedFrom
      <3> QED
        BY <2>1, <3>1, <3>2
    <2> QED
      BY <2>1, <2>2 DEF Repaired
  <1>6. ASSUME Broken(f), ScanEnds(f)
        PROVE  RecountedBytes(Repaired(f)) \in Nat
    <2> DEFINE g == Repaired(f)
    <2>1. ~AllZero(g) /\ HasMarkerBelow(g, Top(g))
      BY <1>6 DEF ScanEnds
    <2> HIDE DEF g
    <2>2. g \in Seq(AllBytes)
      BY <1>5 DEF g
    <2>3. Top(g) \in 1..Len(g)
      BY <2>1, <2>2, TopExists
    <2>4. MarkerBelow(g, Top(g)) \in 1..Top(g)
      BY <2>1, <2>2, <2>3, MarkerExists
    <2> QED
      BY <2>3, <2>4 DEF g, RecountedBytes
  <1>7. \A n \in Nat : n \div MSG_SIZE \in Nat
    OBVIOUS
  <1> QED
    BY <1>4, <1>5, <1>6, <1>7 DEF ScannedFile, ScannedDepth
-----------------------------------------------------------------------------
(* Type correctness, whatever the bytes of the messages are.               *)

LEMMA PushType ==
  ASSUME TypeOK, NEW r \in Record, Push(r)
  PROVE  TypeOK'
  <1>1. file \in Seq(AllBytes) /\ ~AllZero(file)
    BY DEF TypeOK, Push, AllBytes
  <1>2. Top(file) \in 0..Len(file)
    BY <1>1, TopExists
  <1>3. Overwrite(file, Top(file), r) \in Seq(AllBytes)
    BY <1>1, <1>2, RecordIsSeq, OverwriteProperties
  <1> QED
    BY <1>3 DEF TypeOK, Push, AllBytes

LEMMA PopType ==
  ASSUME TypeOK, Pop
  PROVE  TypeOK'
  <1> DEFINE p == SeekBack(Top(file))
             got == ReadAt(file, p)
             q == SeekBack(p + Len(got))
  <1>1. file \in Seq(AllBytes) /\ ~AllZero(file) /\ Len(file) \in Nat
    BY DEF TypeOK, Pop, AllBytes
  <1>2. Top(file) \in 1..Len(file)
    BY <1>1, TopExists
  <1>3. p \in 0..Len(file)
    BY <1>1, <1>2 DEF SeekBack
  <1> DEFINE e == IF p + MSG_SIZE > Len(file) THEN Len(file) ELSE p + MSG_SIZE
  <1>4. e \in p..Len(file) /\ got = SubSeq(file, p + 1, e)
    BY <1>1, <1>3 DEF ReadAt
  <1> HIDE DEF p, got, e
  <1>5. got \in Seq(AllBytes) /\ Len(got) = e - p
    BY <1>1, <1>3, <1>4
  <1>6. q \in 0..Len(file)
    BY <1>1, <1>3, <1>4, <1>5 DEF SeekBack
  <1> HIDE DEF q
  <1>7. Overwrite(file, q, Blank) \in Seq(AllBytes)
    BY <1>1, <1>6, BlankIsSeq, OverwriteProperties
  <1>8. popped' = got /\ file' = Overwrite(file, q, Blank)
    BY DEF Pop, p, got, q
  <1> QED
    BY <1>5, <1>7, <1>8 DEF TypeOK, Pop, NotEmpty, AllBytes

LEMMA NextType == TypeOK /\ [Next]_vars => TypeOK'
  <1> SUFFICES ASSUME TypeOK, [Next]_vars PROVE TypeOK'
    OBVIOUS
  <1>1. CASE CreateFile
    BY <1>1 DEF TypeOK, CreateFile
  <1>2. CASE WriteMarker
    BY <1>2 DEF TypeOK, WriteMarker
  <1>3. CASE ScanFile
    <2>1. ScannedFile(file) \in Seq(AllBytes) /\ ScannedDepth(file) \in Nat
      BY <1>3, ScanType DEF TypeOK, ScanFile, ScanEnds, AllBytes
    <2> QED
      BY <1>3, <2>1 DEF TypeOK, ScanFile, AllBytes
  <1>4. CASE ScanHangs
    <2>1. file' \in Seq(AllBytes)
      BY <1>4, ScanType DEF TypeOK, ScanHangs, AllBytes
    <2> QED
      BY <1>4, <2>1 DEF TypeOK, ScanHangs, AllBytes
  <1>5. CASE \E r \in Record : Push(r)
    BY <1>5, PushType
  <1>6. CASE Pop
    BY <1>6, PopType
  <1>7. CASE PowerLoss
    BY <1>7 DEF TypeOK, PowerLoss
  <1>8. CASE UNCHANGED vars
    BY <1>8 DEF TypeOK, vars
  <1> QED
    BY <1>1, <1>2, <1>3, <1>4, <1>5, <1>6, <1>7, <1>8 DEF Next

\* Every reachable file, counter and popped buffer has its type: the cursor
\* arithmetic and the repair never read or write outside the file
\* (stack_utils.c:19-106).
THEOREM TypeCorrect == Spec => []TypeOK
  <1>1. Init => TypeOK
    <2>1. <<>> \in Seq(AllBytes)
      BY EmptySeq
    <2>2. 0 \in 0..MaxBoots /\ 0 \in Nat
      OBVIOUS
    <2> QED
      BY <2>1, <2>2 DEF Init, TypeOK, AllBytes
  <1> QED
    BY <1>1, NextType, PTL DEF Spec
-----------------------------------------------------------------------------
(* The inductive invariant.  Sound(f, k, n): the file has room for n       *)
(* records and holds k, each of them ending in a nonzero byte, and zeros   *)
(* above them.  The counter may exceed k, but never the room of the file   *)
(* when that is empty: then a pop reads zeros above the marker and writes  *)
(* them back.                                                              *)

HashFree == Hash \notin Byte \cup FieldsByte

Sound(f, k, n) ==
  /\ Len(f) = n * MSG_SIZE + 1
  /\ f[1] = Hash
  /\ HashFree => \A i \in 2..Len(f) : f[i] # Hash
  /\ \A j \in 0..k : f[j * MSG_SIZE + 1] # 0
  /\ \A i \in 1..Len(f) : i > k * MSG_SIZE + 1 => f[i] = 0

Counter(p, d, b, k, n) ==
  p = "up" => /\ k <= d
              /\ d > 0 => n > 0
              /\ b = 1 => d = k

SoundFile ==
  \E n \in Nat, k \in Nat : k \in 0..n /\ Sound(file, k, n) /\ Counter(pc, depth, boots, k, n)

\* Counting at start-up is only right without '#' bytes in the messages: the
\* first session, which never counts, does not need that.
IInv == /\ TypeOK
        /\ ~present => file = <<>>
        /\ present => boots > 0
        /\ pc = "create" => file = <<>>
        /\ pc # "off" => present
        /\ (HashFree \/ boots = 1) => /\ pc = "up" => file # <<>>
                                      /\ pc = "hung" => file = <<>>
                                      /\ file # <<>> => SoundFile

\* What the actions see of a sound file: its top, and how many records it holds.
LEMMA SoundTop ==
  ASSUME NEW f \in Seq(AllBytes), NEW n \in Nat, NEW k \in 0..n, Sound(f, k, n)
  PROVE  /\ Top(f) = k * MSG_SIZE + 1
         /\ ~AllZero(f)
         /\ (Top(f) - 1) \div MSG_SIZE = k
         /\ (Top(f) - 1) % MSG_SIZE = 0
         /\ (Len(f) - 1) % MSG_SIZE = 0
         /\ f # <<>>
  <1>1. k * MSG_SIZE \in Nat /\ k * MSG_SIZE <= n * MSG_SIZE
    BY Multiples, MultiplesOrder
  <1>2. k * MSG_SIZE + 1 \in 1..Len(f)
    BY <1>1 DEF Sound
  <1>3. f[k * MSG_SIZE + 1] # 0
    BY DEF Sound
  <1>4. \A j \in DOMAIN f : j > k * MSG_SIZE + 1 => f[j] = 0
    BY DEF Sound
  <1>5. Top(f) = k * MSG_SIZE + 1
    BY <1>2, <1>3, <1>4, TopUnique
  <1>6. ~AllZero(f) /\ f # <<>>
    BY <1>2, <1>3 DEF AllZero
  <1>7. Top(f) - 1 = k * MSG_SIZE /\ Len(f) - 1 = n * MSG_SIZE
    BY <1>1, <1>5, Multiples DEF Sound
  <1>8. /\ (k * MSG_SIZE) \div MSG_SIZE = k
        /\ (k * MSG_SIZE) % MSG_SIZE = 0
        /\ (n * MSG_SIZE) % MSG_SIZE = 0
    BY Multiples
  <1> QED
    BY <1>5, <1>6, <1>7, <1>8

LEMMA PushSound ==
  ASSUME NEW f \in Seq(AllBytes), NEW n \in Nat, NEW k \in 0..n, Sound(f, k, n),
         NEW r \in Record
  PROVE  LET g == Overwrite(f, Top(f), r)
             m == IF k = n THEN n + 1 ELSE n
         IN  Sound(g, k + 1, m)
  <1> DEFINE K == k * MSG_SIZE
             L == n * MSG_SIZE
             t == K + 1
             g == Overwrite(f, t, r)
             m == IF k = n THEN n + 1 ELSE n
  <1>1. Top(f) = t
    BY SoundTop
  <1>2. /\ K \in Nat /\ L \in Nat /\ K <= L
        /\ (k + 1) * MSG_SIZE = K + MSG_SIZE
        /\ (n + 1) * MSG_SIZE = L + MSG_SIZE
        /\ k < n => K + MSG_SIZE <= L
        /\ k = n => K = L
    BY Multiples, MultiplesOrder
  <1>3. /\ Len(f) = L + 1 /\ t \in 0..Len(f)
        /\ m * MSG_SIZE = IF k = n THEN L + MSG_SIZE ELSE L
        /\ \A i \in 1..Len(f) : i > t => f[i] = 0
    BY <1>2 DEF Sound
  <1> HIDE DEF K, L, m, t
  <1>4. r \in Seq(AllBytes) /\ Len(r) = MSG_SIZE
    BY RecordIsSeq
  <1>5. /\ g \in Seq(AllBytes)
        /\ Len(g) = IF t + MSG_SIZE > Len(f) THEN t + MSG_SIZE ELSE Len(f)
        /\ \A i \in 1..Len(g) :
             g[i] = IF t < i /\ i <= t + MSG_SIZE THEN r[i - t] ELSE f[i]
    <2>1. /\ g \in Seq(AllBytes)
          /\ Len(g) = IF t + Len(r) > Len(f) THEN t + Len(r) ELSE Len(f)
          /\ \A i \in 1..Len(g) :
               g[i] = IF t < i /\ i <= t + Len(r) THEN r[i - t] ELSE f[i]
      BY <1>3, <1>4, OverwriteProperties
    <2> QED
      BY <1>4, <2>1
  <1> HIDE DEF g
  <1>6. Len(g) = m * MSG_SIZE + 1
    <2>1. t = K + 1
      BY DEF t
    <2>2. CASE k = n
      BY <1>2, <1>3, <1>5, <2>1, <2>2
    <2>3. CASE k < n
      BY <1>2, <1>3, <1>5, <2>1, <2>3
    <2> QED
      BY <2>2, <2>3
  <1>7. g[1] = Hash
    BY <1>2, <1>3, <1>5, <1>6 DEF Sound, t
  <1>8. HashFree => \A i \in 2..Len(g) : g[i] # Hash
    <2> SUFFICES ASSUME HashFree, NEW i \in 2..Len(g) PROVE g[i] # Hash
      OBVIOUS
    <2>1. CASE t < i /\ i <= t + MSG_SIZE
      <3>1. i - t \in 1..MSG_SIZE
        BY <1>3, <2>1
      <3>2. r[i - t] \in Byte \cup FieldsByte
        BY <3>1 DEF Record
      <3> QED
        BY <1>3, <1>5, <2>1, <3>2 DEF HashFree
    <2>2. CASE ~(t < i /\ i <= t + MSG_SIZE)
      <3>1. i \in 2..Len(f)
        BY <1>3, <1>5, <2>2
      <3> QED
        BY <1>5, <2>2, <3>1 DEF Sound
    <2> QED
      BY <2>1, <2>2
  <1>9. \A j \in 0..(k + 1) : g[j * MSG_SIZE + 1] # 0
    <2> SUFFICES ASSUME NEW j \in 0..(k + 1) PROVE g[j * MSG_SIZE + 1] # 0
      OBVIOUS
    <2>1. CASE j = k + 1
      <3>1. j * MSG_SIZE + 1 = t + MSG_SIZE
        BY <1>2, <2>1 DEF t
      <3>2. g[t + MSG_SIZE] = r[MSG_SIZE]
        <4>1. t \in Nat /\ t + MSG_SIZE \in 1..Len(g)
          BY <1>2, <1>3, <1>5 DEF t
        <4>2. (t + MSG_SIZE) - t = MSG_SIZE
          BY <4>1
        <4> QED
          BY <1>5, <4>1, <4>2
      <3> QED
        BY <3>1, <3>2 DEF Record
    <2>2. CASE j <= k
      <3> DEFINE J == j * MSG_SIZE
      <3>1. J \in Nat /\ J <= K
        BY <2>2, Multiples, MultiplesOrder DEF K
      <3> HIDE DEF J
      <3>2. J + 1 \in 1..Len(g) /\ J + 1 <= t
        BY <1>2, <1>3, <1>5, <3>1 DEF t
      <3>3. g[J + 1] = f[J + 1]
        BY <1>3, <1>5, <3>2
      <3> QED
        BY <2>2, <3>3 DEF Sound, J
    <2> QED
      BY <2>1, <2>2
  <1>10. \A i \in 1..Len(g) : i > (k + 1) * MSG_SIZE + 1 => g[i] = 0
    BY <1>2, <1>3, <1>5 DEF t
  <1>11. Sound(g, k + 1, m)
    BY <1>6, <1>7, <1>8, <1>9, <1>10 DEF Sound
  <1> QED
    BY <1>1, <1>11 DEF g, m, t

\* Where a pop writes its zeros: below the top record or, if there is none,
\* above the marker.
PopPosition(f) ==
  LET p == SeekBack(Top(f)) IN SeekBack(p + Len(ReadAt(f, p)))

LEMMA PopPositionSound ==
  ASSUME NEW f \in Seq(AllBytes), NEW n \in Nat, NEW k \in 0..n, Sound(f, k, n),
         n > 0
  PROVE  PopPosition(f) = IF k > 0 THEN (k - 1) * MSG_SIZE + 1 ELSE 1
  <1> DEFINE t == Top(f)
             p == SeekBack(t)
             e == IF p + MSG_SIZE > Len(f) THEN Len(f) ELSE p + MSG_SIZE
  <1>1. t = k * MSG_SIZE + 1 /\ Len(f) = n * MSG_SIZE + 1
    <2>1. Len(f) = n * MSG_SIZE + 1
      BY DEF Sound
    <2> QED
      BY <2>1, SoundTop
  <1>2. /\ k * MSG_SIZE \in Nat /\ n * MSG_SIZE \in Nat
        /\ k * MSG_SIZE <= n * MSG_SIZE /\ MSG_SIZE <= n * MSG_SIZE
        /\ k > 0 => (k - 1) * MSG_SIZE = k * MSG_SIZE - MSG_SIZE
        /\ k > 0 => k * MSG_SIZE >= MSG_SIZE
        /\ k = 0 => k * MSG_SIZE = 0
    BY Multiples, MultiplesOrder
  <1>3. p = IF k > 0 THEN t - MSG_SIZE ELSE 1
    BY <1>1, <1>2 DEF SeekBack
  <1>4. p \in 0..Len(f) /\ p + MSG_SIZE <= Len(f) /\ Len(f) \in Nat
    BY <1>1, <1>2, <1>3
  <1> HIDE DEF p, t
  <1>5. ReadAt(f, p) = SubSeq(f, p + 1, p + MSG_SIZE)
    BY <1>4 DEF ReadAt
  <1>6. Len(ReadAt(f, p)) = MSG_SIZE
    BY <1>4, <1>5
  <1>7. SeekBack(p + MSG_SIZE) = p
    BY <1>4 DEF SeekBack
  <1>8. PopPosition(f) = p
    BY <1>6, <1>7 DEF PopPosition, p, t
  <1>9. t \in Nat /\ k > 0 => t - MSG_SIZE = (k - 1) * MSG_SIZE + 1
    BY <1>1, <1>2
  <1> QED
    BY <1>3, <1>8, <1>9, <1>1, <1>2

LEMMA PopSound ==
  ASSUME NEW f \in Seq(AllBytes), NEW n \in Nat, NEW k \in 0..n, Sound(f, k, n),
         n > 0
  PROVE  Sound(Overwrite(f, PopPosition(f), Blank), IF k > 0 THEN k - 1 ELSE 0, n)
  <1> DEFINE h == IF k > 0 THEN k - 1 ELSE 0
             H == h * MSG_SIZE
             K == k * MSG_SIZE
             L == n * MSG_SIZE
             q == PopPosition(f)
             g == Overwrite(f, q, Blank)
  <1>1. h \in 0..k /\ (k > 0 => k = h + 1) /\ (k = 0 => h = 0)
    OBVIOUS
  <1>2. /\ H \in Nat /\ L \in Nat /\ H + MSG_SIZE <= L
        /\ IF k > 0 THEN K = H + MSG_SIZE ELSE H = 0 /\ K = 0
    BY <1>1, Multiples, MultiplesOrder
  <1>3. q = H + 1
    BY <1>2, PopPositionSound
  <1>4. /\ Len(f) = L + 1 /\ f[1] = Hash
        /\ \A i \in 1..Len(f) : i > K + 1 => f[i] = 0
        /\ q \in 0..Len(f)
    BY <1>2, <1>3 DEF Sound
  <1> HIDE DEF h, H, K, L, q
  <1>5. /\ Len(g) = Len(f)
        /\ \A i \in 1..Len(g) :
             g[i] = IF q < i /\ i <= q + MSG_SIZE THEN 0 ELSE f[i]
    <2>1. /\ g \in Seq(AllBytes)
          /\ Len(g) = IF q + Len(Blank) > Len(f) THEN q + Len(Blank) ELSE Len(f)
          /\ \A i \in 1..Len(g) :
               g[i] = IF q < i /\ i <= q + Len(Blank) THEN Blank[i - q] ELSE f[i]
      BY <1>4, BlankIsSeq, OverwriteProperties
    <2>2. \A i \in 1..MSG_SIZE : Blank[i] = 0
      BY DEF Blank
    <2>3. \A i \in Nat : (q < i /\ i <= q + MSG_SIZE) => i - q \in 1..MSG_SIZE
      BY <1>4
    <2> HIDE DEF g
    <2>4. Len(g) = Len(f)
      BY <1>2, <1>3, <1>4, <2>1, BlankIsSeq
    <2>5. \A i \in 1..Len(g) :
            g[i] = IF q < i /\ i <= q + MSG_SIZE THEN 0 ELSE f[i]
      BY <2>1, <2>2, <2>3, BlankIsSeq
    <2> QED
      BY <2>4, <2>5
  <1> HIDE DEF g
  <1>6. g[1] = Hash
    BY <1>2, <1>3, <1>4, <1>5
  <1>7. HashFree => \A i \in 2..Len(g) : g[i] # Hash
    BY <1>4, <1>5 DEF Sound
  <1>8. \A j \in 0..h : g[j * MSG_SIZE + 1] # 0
    <2> SUFFICES ASSUME NEW j \in 0..h PROVE g[j * MSG_SIZE + 1] # 0
      OBVIOUS
    <2> DEFINE J == j * MSG_SIZE
    <2>1. J \in Nat /\ J <= H
      BY <1>1, Multiples, MultiplesOrder DEF H
    <2>2. f[J + 1] # 0
      BY <1>1 DEF Sound
    <2> HIDE DEF J
    <2>3. J + 1 \in 1..Len(g) /\ J + 1 <= q
      BY <1>2, <1>3, <1>4, <1>5, <2>1
    <2>4. g[J + 1] # 0
      BY <1>4, <1>5, <2>2, <2>3
    <2> QED
      BY <2>4 DEF J
  <1>9. \A i \in 1..Len(g) : i > H + 1 => g[i] = 0
    BY <1>2, <1>3, <1>4, <1>5
  <1>10. Sound(g, h, n)
    BY <1>4, <1>5, <1>6, <1>7, <1>8, <1>9 DEF Sound, H, L
  <1> QED
    BY <1>10 DEF g, q, h

\* Counting a sound file finds all its room and repairs nothing.
LEMMA ScanSound ==
  ASSUME HashFree, NEW f \in Seq(AllBytes), NEW n \in Nat, NEW k \in 0..n,
         Sound(f, k, n)
  PROVE  /\ ScanEnds(f)
         /\ ScannedFile(f) = f
         /\ ScannedDepth(f) = n
         /\ k <= n
  <1>1. Len(f) = n * MSG_SIZE + 1 /\ n * MSG_SIZE \in Nat
    BY Multiples DEF Sound
  <1>2. 1 \in 1..Len(f) /\ f[1] = Hash /\ \A i \in 1..Len(f) : i > 1 => f[i] # Hash
    BY <1>1 DEF Sound
  <1>3. MarkerBelow(f, Len(f)) = 1 /\ HasMarkerBelow(f, Len(f))
    BY <1>2 DEF MarkerBelow, HasMarkerBelow
  <1>4. CountedBytes(f) = n * MSG_SIZE
    BY <1>1, <1>3 DEF CountedBytes
  <1>5. ~Broken(f)
    BY <1>4, Multiples DEF Broken, Remainder
  <1> QED
    BY <1>3, <1>4, <1>5, Multiples DEF ScanEnds, ScannedFile, ScannedDepth
-----------------------------------------------------------------------------
(* IInv holds initially and every step preserves it.                       *)

LEMMA InitIInv == Init => IInv
  <1> SUFFICES ASSUME Init PROVE IInv
    OBVIOUS
  <1>1. TypeOK
    <2>1. <<>> \in Seq(AllBytes) /\ 0 \in 0..MaxBoots
      BY EmptySeq
    <2> QED
      BY <2>1 DEF Init, TypeOK, AllBytes
  <1> QED
    BY <1>1 DEF Init, IInv

LEMMA PushIInv ==
  ASSUME IInv, TypeOK', NEW r \in Record, Push(r)
  PROVE  IInv'
  <1>1. SUFFICES ASSUME HashFree \/ boots = 1
                 PROVE  file' # <<>> /\ SoundFile'
    BY DEF IInv, Push
  <1>2. file \in Seq(AllBytes) /\ file' \in Seq(AllBytes) /\ depth \in Nat
    BY DEF IInv, TypeOK, AllBytes
  <1>3. PICK n \in Nat, k \in Nat : k \in 0..n /\ Sound(file, k, n) /\ Counter(pc, depth, boots, k, n)
    BY <1>1 DEF IInv, Push, SoundFile
  <1> DEFINE m == IF k = n THEN n + 1 ELSE n
  <1>4. m \in Nat /\ m > 0 /\ k + 1 \in 0..m /\ k + 1 \in Nat
    BY <1>3
  <1>5. Sound(file', k + 1, m)
    BY <1>2, <1>3, PushSound DEF Push
  <1> HIDE DEF m
  <1>6. Counter(pc', depth', boots', k + 1, m)
    BY <1>2, <1>3, <1>4 DEF Push, Counter
  <1>7. file' # <<>>
    BY <1>2, <1>4, <1>5, SoundTop
  <1> QED
    BY <1>4, <1>5, <1>6, <1>7 DEF SoundFile

LEMMA PopIInv ==
  ASSUME IInv, TypeOK', Pop
  PROVE  IInv'
  <1>1. SUFFICES ASSUME HashFree \/ boots = 1
                 PROVE  file' # <<>> /\ SoundFile'
    BY DEF IInv, Pop
  <1>2. file \in Seq(AllBytes) /\ file' \in Seq(AllBytes) /\ depth \in Nat
    BY DEF IInv, TypeOK, AllBytes
  <1>3. PICK n \in Nat, k \in Nat : k \in 0..n /\ Sound(file, k, n) /\ Counter(pc, depth, boots, k, n)
    BY <1>1 DEF IInv, Pop, SoundFile
  <1>4. n > 0
    BY <1>3 DEF Pop, NotEmpty, Counter
  <1> DEFINE h == IF k > 0 THEN k - 1 ELSE 0
  <1>5. h \in 0..n /\ h \in Nat
    BY <1>3
  <1>6. Sound(file', h, n)
    BY <1>2, <1>3, <1>4, PopSound DEF Pop, PopPosition
  <1>7. Counter(pc', depth', boots', h, n)
    BY <1>2, <1>3, <1>4 DEF Pop, NotEmpty, Counter
  <1> HIDE DEF h
  <1>8. file' # <<>>
    BY <1>2, <1>5, <1>6, SoundTop
  <1> QED
    BY <1>5, <1>6, <1>7, <1>8 DEF SoundFile

LEMMA WriteMarkerIInv ==
  ASSUME IInv, TypeOK', WriteMarker
  PROVE  IInv'
  <1>1. SUFFICES SoundFile' /\ file' # <<>>
    BY DEF IInv, WriteMarker
  <1>2. 0 * MSG_SIZE = 0 /\ \A j \in 0..0 : j = 0
    OBVIOUS
  <1>3. Sound(<<Hash>>, 0, 0)
    BY <1>2 DEF Sound
  <1>4. Counter(pc', depth', boots', 0, 0)
    BY DEF WriteMarker, Counter
  <1>5. Sound(file', 0, 0)
    BY <1>3 DEF WriteMarker
  <1> QED
    <2>1. 0 \in 0..0 /\ 0 \in Nat
      OBVIOUS
    <2>2. file' # <<>>
      BY DEF WriteMarker
    <2> QED
      BY <1>4, <1>5, <2>1, <2>2 DEF SoundFile

LEMMA ScanIInv ==
  ASSUME IInv, TypeOK', ScanFile \/ ScanHangs
  PROVE  IInv'
  <1>1. /\ boots' > 0 /\ boots' # 1
        /\ present /\ present'
        /\ pc' # "off" /\ pc' # "create"
    BY DEF IInv, TypeOK, ScanFile, ScanHangs
  <1>2. CASE ~HashFree
    BY <1>1, <1>2 DEF IInv
  <1>3. CASE HashFree /\ file = <<>>
    <2>1. ~HasMarkerBelow(file, Len(file))
      BY <1>3 DEF HasMarkerBelow
    <2>2. ScanHangs /\ file' = file
      BY <2>1 DEF ScanFile, ScanHangs, ScanEnds
    <2> QED
      <3>1. pc' = "hung" /\ file' = <<>>
        BY <1>3, <2>2 DEF ScanHangs
      <3>2. pc' # "up"
        BY <3>1
      <3> QED
        BY <1>1, <3>1, <3>2 DEF IInv
  <1>4. CASE HashFree /\ file # <<>>
    <2>1. file \in Seq(AllBytes)
      BY DEF IInv, TypeOK, AllBytes
    <2>2. PICK n \in Nat, k \in Nat : k \in 0..n /\ Sound(file, k, n)
      BY <1>4 DEF IInv, SoundFile
    <2>3. ScanFile /\ file' = file /\ depth' = n
      BY <1>4, <2>1, <2>2, ScanSound DEF ScanFile, ScanHangs
    <2>4. k <= n
      BY <2>2
    <2>5. Sound(file', k, n) /\ Counter(pc', depth', boots', k, n)
      BY <1>1, <2>2, <2>3, <2>4 DEF Counter
    <2>6. SoundFile'
      BY <2>2, <2>5 DEF SoundFile
    <2> QED
      <3>1. pc' = "up" /\ file' # <<>>
        BY <1>4, <2>3 DEF ScanFile
      <3>2. pc' # "hung"
        BY <3>1
      <3> QED
        BY <1>1, <2>6, <3>1, <3>2 DEF IInv
  <1> QED
    BY <1>2, <1>3, <1>4

LEMMA NextIInv == IInv /\ [Next]_vars => IInv'
  <1> SUFFICES ASSUME IInv, [Next]_vars PROVE IInv'
    OBVIOUS
  <1>1. TypeOK /\ TypeOK'
    BY NextType DEF IInv
  <1>2. CASE CreateFile
    BY <1>1, <1>2 DEF IInv, TypeOK, CreateFile
  <1>3. CASE WriteMarker
    BY <1>1, <1>3, WriteMarkerIInv
  <1>4. CASE ScanFile \/ ScanHangs
    BY <1>1, <1>4, ScanIInv
  <1>5. CASE \E r \in Record : Push(r)
    BY <1>1, <1>5, PushIInv
  <1>6. CASE Pop
    BY <1>1, <1>6, PopIInv
  <1>7. CASE PowerLoss
    BY <1>1, <1>7 DEF IInv, PowerLoss, SoundFile, Counter
  <1>8. CASE UNCHANGED vars
    BY <1>1, <1>8 DEF IInv, vars, SoundFile, Counter
  <1> QED
    BY <1>2, <1>3, <1>4, <1>5, <1>6, <1>7, <1>8 DEF Next

THEOREM Inductive == Spec => []IInv
  BY InitIInv, NextIInv, PTL DEF Spec
-----------------------------------------------------------------------------
(* What IInv gives.                                                        *)

\* In the session that created the file the counter is the depth of the
\* stack, whatever bytes the messages hold (stack_utils.c:72-106).
THEOREM FirstSession == Spec => []ExactInFirstSession
  <1>1. IInv => ExactInFirstSession
    <2> SUFFICES ASSUME IInv, pc = "up", boots = 1 PROVE depth = StoredRecords
      BY DEF ExactInFirstSession
    <2>1. file \in Seq(AllBytes)
      BY DEF IInv, TypeOK, AllBytes
    <2>2. PICK n \in Nat, k \in Nat : k \in 0..n /\ Sound(file, k, n) /\ Counter(pc, depth, boots, k, n)
      BY DEF IInv, SoundFile
    <2> QED
      BY <2>1, <2>2, SoundTop DEF Counter, StoredRecords
  <1> QED
    BY <1>1, Inductive, PTL

\* If no message holds a '#' byte, the file is always the marker and whole
\* records.
THEOREM RecordsStayWhole == HashFree => (Spec => []WholeRecords)
  <1>1. HashFree /\ IInv => WholeRecords
    <2> SUFFICES ASSUME HashFree, IInv, file # <<>> PROVE WholeRecords
      BY DEF WholeRecords
    <2>1. file \in Seq(AllBytes)
      BY DEF IInv, TypeOK, AllBytes
    <2>2. PICK n \in Nat, k \in Nat : k \in 0..n /\ Sound(file, k, n)
      BY DEF IInv, SoundFile
    <2> QED
      BY <2>1, <2>2, SoundTop DEF WholeRecords, Sound
  <1>2. SUFFICES ASSUME HashFree PROVE Spec => []WholeRecords
    OBVIOUS
  <1>3. IInv => WholeRecords
    BY <1>1, <1>2
  <1> QED
    BY <1>3, Inductive, PTL

\* If no message holds a '#' byte, the counter reaches every stored record in
\* every session.
THEOREM NothingStranded == HashFree => (Spec => []NoneStranded)
  <1>1. HashFree /\ IInv => NoneStranded
    <2> SUFFICES ASSUME HashFree, IInv, pc = "up" PROVE depth >= StoredRecords
      BY DEF NoneStranded
    <2>1. file \in Seq(AllBytes) /\ depth \in Nat
      BY DEF IInv, TypeOK, AllBytes
    <2>2. PICK n \in Nat, k \in Nat : k \in 0..n /\ Sound(file, k, n) /\ Counter(pc, depth, boots, k, n)
      BY DEF IInv, SoundFile
    <2> QED
      BY <2>1, <2>2, SoundTop DEF Counter, StoredRecords
  <1>2. SUFFICES ASSUME HashFree PROVE Spec => []NoneStranded
    OBVIOUS
  <1>3. IInv => NoneStranded
    BY <1>1, <1>2
  <1> QED
    BY <1>3, Inductive, PTL

\* If no message holds a '#' byte, fStack_depth may be relied on: it reaches
\* every stored record in every session and is exact in the first.
THEOREM CounterIsReliable == HashFree => (Spec => []CountsRecords)
  <1>1. SUFFICES ASSUME HashFree PROVE Spec => []CountsRecords
    OBVIOUS
  <1>2. Spec => []NoneStranded
    BY <1>1, NothingStranded
  <1>3. NoneStranded /\ ExactInFirstSession => CountsRecords
    BY DEF CountsRecords
  <1> QED
    BY <1>2, <1>3, FirstSession, PTL

\* If no message holds a '#' byte, a boot hangs only on a file that lost
\* power before its marker was written.
THEOREM HangsUnmarked == HashFree => (Spec => []HangsOnlyWithoutMarker)
  <1>1. HashFree /\ IInv => HangsOnlyWithoutMarker
    BY DEF IInv, HangsOnlyWithoutMarker
  <1>2. SUFFICES ASSUME HashFree PROVE Spec => []HangsOnlyWithoutMarker
    OBVIOUS
  <1>3. IInv => HangsOnlyWithoutMarker
    BY <1>1, <1>2
  <1> QED
    BY <1>3, Inductive, PTL

\* If no message holds a '#' byte, counting never rewrites a file.
THEOREM BootsAreSafe == HashFree => (Spec => ScanLeavesFileAlone)
  <1>1. HashFree /\ IInv /\ [Next]_vars => [ScanFile => file' = file]_vars
    <2> SUFFICES ASSUME HashFree, IInv, ScanFile PROVE file' = file
      OBVIOUS
    <2>1. file \in Seq(AllBytes)
      BY DEF IInv, TypeOK, AllBytes
    <2>2. file # <<>>
      BY DEF ScanFile, ScanEnds, HasMarkerBelow
    <2>3. PICK n \in Nat, k \in Nat : k \in 0..n /\ Sound(file, k, n)
      BY <2>2 DEF IInv, SoundFile
    <2> QED
      BY <2>1, <2>3, ScanSound DEF ScanFile
  <1>2. SUFFICES ASSUME HashFree PROVE Spec => ScanLeavesFileAlone
    OBVIOUS
  <1>3. IInv /\ [Next]_vars => [ScanFile => file' = file]_vars
    BY <1>1, <1>2
  <1> QED
    BY <1>3, Inductive, PTL DEF Spec, ScanLeavesFileAlone
-----------------------------------------------------------------------------
(* The file implements the stack: the records are the slots between the    *)
(* marker and the top.                                                     *)

Slot(f, j) == SubSeq(f, (j - 1) * MSG_SIZE + 2, j * MSG_SIZE + 1)

Slots(f, k) == [j \in 1..k |-> Slot(f, j)]

LEMMA SlotBytes ==
  ASSUME NEW f \in Seq(AllBytes), NEW j \in Nat \ {0}, j * MSG_SIZE + 1 <= Len(f)
  PROVE  /\ Slot(f, j) \in Seq(AllBytes)
         /\ Len(Slot(f, j)) = MSG_SIZE
         /\ \A i \in 1..MSG_SIZE : Slot(f, j)[i] = f[(j - 1) * MSG_SIZE + 1 + i]
  <1> DEFINE a == (j - 1) * MSG_SIZE
             b == j * MSG_SIZE
  <1>1. a \in Nat /\ b = a + MSG_SIZE /\ b + 1 <= Len(f) /\ Len(f) \in Nat
    <2>1. j - 1 \in Nat /\ (j - 1) + 1 = j /\ j \in Nat
      OBVIOUS
    <2> QED
      BY <2>1, Multiples
  <1> HIDE DEF a, b
  <1>2. \A i \in (a + 2)..(b + 1) : f[i] \in AllBytes
    BY <1>1
  <1>3. /\ SubSeq(f, a + 2, b + 1) \in Seq(AllBytes)
        /\ Len(SubSeq(f, a + 2, b + 1)) = MSG_SIZE
        /\ \A i \in 1..MSG_SIZE : SubSeq(f, a + 2, b + 1)[i] = f[a + 1 + i]
    <2>1. /\ a + 2 \in Int /\ b + 1 \in Int
          /\ (b + 1) - (a + 2) + 1 = MSG_SIZE /\ a + 2 <= b + 1
          /\ \A i \in 1..MSG_SIZE : (a + 2) + i - 1 = a + 1 + i
      BY <1>1
    <2>2. /\ SubSeq(f, a + 2, b + 1) \in Seq(AllBytes)
          /\ Len(SubSeq(f, a + 2, b + 1)) =
               IF a + 2 <= b + 1 THEN (b + 1) - (a + 2) + 1 ELSE 0
          /\ \A i \in 1..((b + 1) - (a + 2) + 1) :
               SubSeq(f, a + 2, b + 1)[i] = f[(a + 2) + i - 1]
      <3> DEFINE lo == a + 2
                 hi == b + 1
      <3>1. lo \in Int /\ hi \in Int /\ \A i \in lo..hi : f[i] \in AllBytes
        BY <1>2, <2>1
      <3> HIDE DEF lo, hi
      <3>2. /\ SubSeq(f, lo, hi) \in Seq(AllBytes)
            /\ Len(SubSeq(f, lo, hi)) = IF lo <= hi THEN hi - lo + 1 ELSE 0
            /\ \A i \in 1..(hi - lo + 1) : SubSeq(f, lo, hi)[i] = f[lo + i - 1]
        BY <3>1, SubSeqProperties
      <3> QED
        BY <3>2 DEF lo, hi
    <2> QED
      BY <2>1, <2>2
  <1> QED
    BY <1>1, <1>3 DEF a, b, Slot

\* Files that agree on the bytes of a slot have the same record there.
LEMMA SlotUnchanged ==
  ASSUME NEW f \in Seq(AllBytes), NEW g \in Seq(AllBytes), NEW j \in Nat \ {0},
         j * MSG_SIZE + 1 <= Len(f), j * MSG_SIZE + 1 <= Len(g),
         \A i \in 1..MSG_SIZE :
           g[(j - 1) * MSG_SIZE + 1 + i] = f[(j - 1) * MSG_SIZE + 1 + i]
  PROVE  Slot(g, j) = Slot(f, j)
  <1>1. /\ Slot(f, j) \in Seq(AllBytes) /\ Len(Slot(f, j)) = MSG_SIZE
        /\ \A i \in 1..MSG_SIZE : Slot(f, j)[i] = f[(j - 1) * MSG_SIZE + 1 + i]
    BY SlotBytes
  <1>2. /\ Slot(g, j) \in Seq(AllBytes) /\ Len(Slot(g, j)) = MSG_SIZE
        /\ \A i \in 1..MSG_SIZE : Slot(g, j)[i] = g[(j - 1) * MSG_SIZE + 1 + i]
    BY SlotBytes
  <1>3. \A i \in 1..MSG_SIZE : Slot(g, j)[i] = Slot(f, j)[i]
    BY <1>1, <1>2
  <1> QED
    BY <1>1, <1>2, <1>3, SeqEqual

LEMMA SlotsType ==
  ASSUME NEW f \in Seq(AllBytes), NEW n \in Nat, NEW k \in 0..n, Len(f) = n * MSG_SIZE + 1
  PROVE  /\ Slots(f, k) \in Seq(Seq(AllBytes))
         /\ Len(Slots(f, k)) = k
         /\ \A j \in 1..k : Slots(f, k)[j] = Slot(f, j)
  <1>1. k \in Nat /\ \A j \in 1..k : j \in Nat \ {0} /\ j <= n
    OBVIOUS
  <1>2. \A j \in 1..k : Slot(f, j) \in Seq(AllBytes)
    <2> SUFFICES ASSUME NEW j \in 1..k
                 PROVE  Slot(f, j) \in Seq(AllBytes)
      OBVIOUS
    <2>1. j \in Nat \ {0} /\ j * MSG_SIZE + 1 <= Len(f)
      BY <1>1, Multiples, MultiplesOrder
    <2> QED
      BY <2>1, SlotBytes
  <1> QED
    BY <1>1, <1>2 DEF Slots

\* The records of a sound file are its lowest slots.
LEMMA RecordsAreSlots ==
  ASSUME file \in Seq(AllBytes), NEW n \in Nat, NEW k \in 0..n, Sound(file, k, n)
  PROVE  Records = Slots(file, k)
  <1>1. StoredRecords = k
    BY SoundTop DEF StoredRecords
  <1> QED
    BY <1>1 DEF Records, Slots, Slot

\* The same of the file a step leaves behind.
LEMMA RecordsAreSlotsNext ==
  ASSUME file' \in Seq(AllBytes), NEW n \in Nat, NEW k \in 0..n, Sound(file', k, n)
  PROVE  Records' = Slots(file', k)
  <1>1. StoredRecords' = k
    BY SoundTop DEF StoredRecords
  <1> QED
    BY <1>1 DEF Records, Slots, Slot

LEMMA PushSlots ==
  ASSUME NEW f \in Seq(AllBytes), NEW n \in Nat, NEW k \in 0..n, Sound(f, k, n),
         NEW r \in Record
  PROVE  Slots(Overwrite(f, Top(f), r), k + 1) = Append(Slots(f, k), r)
  <1> DEFINE t == k * MSG_SIZE + 1
             g == Overwrite(f, t, r)
             m == IF k = n THEN n + 1 ELSE n
  <1>1. Top(f) = t
    BY SoundTop
  <1>2. Sound(Overwrite(f, Top(f), r), k + 1, m)
    BY PushSound
  <1>3. Len(g) = m * MSG_SIZE + 1 /\ Len(f) = n * MSG_SIZE + 1
    BY <1>1, <1>2 DEF Sound
  <1>4. r \in Seq(AllBytes) /\ Len(r) = MSG_SIZE
    BY RecordIsSeq
  <1>5. m \in Nat /\ k + 1 \in 1..m /\ k \in Nat /\ \A j \in 1..k : j \in 1..n /\ j \in 1..m
    OBVIOUS
  <1>6. k * MSG_SIZE \in Nat /\ k * MSG_SIZE <= n * MSG_SIZE /\ n * MSG_SIZE \in Nat
    BY <1>5, Multiples, MultiplesOrder
  <1>7. /\ g \in Seq(AllBytes)
        /\ \A i \in 1..Len(g) :
             g[i] = IF t < i /\ i <= t + MSG_SIZE THEN r[i - t] ELSE f[i]
    <2>1. t \in 0..Len(f)
      BY <1>3, <1>6
    <2> HIDE DEF t
    <2>2. /\ g \in Seq(AllBytes)
          /\ \A i \in 1..Len(g) :
               g[i] = IF t < i /\ i <= t + Len(r) THEN r[i - t] ELSE f[i]
      BY <1>4, <2>1, OverwriteProperties
    <2> HIDE DEF g
    <2> QED
      BY <1>4, <2>2
  <1>8. \A j \in 1..k : Slot(g, j) = Slot(f, j)
    <2> SUFFICES ASSUME NEW j \in 1..k
                 PROVE  Slot(g, j) = Slot(f, j)
      OBVIOUS
    <2> DEFINE a == (j - 1) * MSG_SIZE
    <2>1. j \in Nat \ {0} /\ j <= k
      BY <1>5
    <2>2. /\ a \in Nat /\ j * MSG_SIZE = a + MSG_SIZE
          /\ a + MSG_SIZE <= k * MSG_SIZE
      <3>1. j * MSG_SIZE <= k * MSG_SIZE
        BY <1>5, <2>1, MultiplesOrder
      <3> QED
        BY <2>1, <3>1, Multiples
    <2>3. a + MSG_SIZE + 1 <= Len(f) /\ a + MSG_SIZE + 1 <= Len(g) /\ Len(g) \in Nat
      <3> HIDE DEF a, g
      <3> QED
        BY <1>3, <1>6, <1>7, <2>2
    <2>4. \A i \in 1..MSG_SIZE : g[a + 1 + i] = f[a + 1 + i]
      <3> SUFFICES ASSUME NEW i \in 1..MSG_SIZE
                   PROVE  g[a + 1 + i] = f[a + 1 + i]
        OBVIOUS
      <3> HIDE DEF a, g
      <3>1. a + 1 + i \in 1..Len(g) /\ a + 1 + i <= t
        BY <1>6, <2>2, <2>3
      <3>2. t \in Nat
        BY <1>6
      <3> HIDE DEF t
      <3> QED
        BY <1>7, <3>1, <3>2
    <2>5. j * MSG_SIZE + 1 <= Len(f) /\ j * MSG_SIZE + 1 <= Len(g)
      BY <2>2, <2>3
    <2> HIDE DEF g
    <2> QED
      BY <1>7, <2>1, <2>4, <2>5, SlotUnchanged DEF a
  <1>9. Slot(g, k + 1) = r
    <2>1. /\ (k + 1) - 1 = k /\ k + 1 \in Nat \ {0}
          /\ (k + 1) * MSG_SIZE = k * MSG_SIZE + MSG_SIZE
      BY <1>5, Multiples
    <2>2. k * MSG_SIZE + MSG_SIZE + 1 <= Len(g) /\ Len(g) \in Nat
      <3>1. (k + 1) * MSG_SIZE <= m * MSG_SIZE
        BY <1>5, MultiplesOrder
      <3> HIDE DEF g, m
      <3> QED
        BY <1>3, <1>5, <1>6, <1>7, <2>1, <3>1, Multiples
    <2>3. /\ Slot(g, k + 1) \in Seq(AllBytes) /\ Len(Slot(g, k + 1)) = MSG_SIZE
          /\ \A i \in 1..MSG_SIZE : Slot(g, k + 1)[i] = g[k * MSG_SIZE + 1 + i]
      <3> HIDE DEF g
      <3>1. (k + 1) * MSG_SIZE + 1 <= Len(g)
        BY <1>6, <2>1, <2>2
      <3>2. /\ Slot(g, k + 1) \in Seq(AllBytes) /\ Len(Slot(g, k + 1)) = MSG_SIZE
            /\ \A i \in 1..MSG_SIZE :
                 Slot(g, k + 1)[i] = g[((k + 1) - 1) * MSG_SIZE + 1 + i]
        BY <1>7, <2>1, <3>1, SlotBytes
      <3> QED
        BY <2>1, <3>2
    <2>4. \A i \in 1..MSG_SIZE : g[k * MSG_SIZE + 1 + i] = r[i]
      <3> SUFFICES ASSUME NEW i \in 1..MSG_SIZE
                   PROVE  g[t + i] = r[i]
        OBVIOUS
      <3>1. t + MSG_SIZE <= Len(g) /\ t \in Nat /\ t >= 1 /\ Len(g) \in Nat
        <4> HIDE DEF g
        <4> QED
          BY <1>6, <2>2
      <3> HIDE DEF t, g
      <3>2. t + i \in 1..Len(g) /\ t < t + i /\ t + i <= t + MSG_SIZE /\ (t + i) - t = i
        BY <3>1
      <3> QED
        BY <1>7, <3>2
    <2> HIDE DEF g
    <2>5. \A i \in 1..MSG_SIZE : Slot(g, k + 1)[i] = r[i]
      BY <2>3, <2>4
    <2> QED
      BY <1>4, <2>3, <2>5, SeqEqual
  <1>10. /\ Slots(f, k) \in Seq(Seq(AllBytes)) /\ Len(Slots(f, k)) = k
         /\ \A j \in 1..k : Slots(f, k)[j] = Slot(f, j)
    BY <1>3, SlotsType
  <1>11. /\ Slots(g, k + 1) \in Seq(Seq(AllBytes)) /\ Len(Slots(g, k + 1)) = k + 1
         /\ \A j \in 1..(k + 1) : Slots(g, k + 1)[j] = Slot(g, j)
    <2>1. k + 1 \in 0..m
      BY <1>5
    <2> HIDE DEF g, m
    <2> QED
      BY <1>3, <1>5, <1>7, <2>1, SlotsType
  <1>12. /\ Append(Slots(f, k), r) \in Seq(Seq(AllBytes))
         /\ Len(Append(Slots(f, k), r)) = k + 1
         /\ \A j \in 1..k : Append(Slots(f, k), r)[j] = Slots(f, k)[j]
         /\ Append(Slots(f, k), r)[k + 1] = r
    <2> DEFINE q == Slots(f, k)
    <2>1. q \in Seq(Seq(AllBytes)) /\ Len(q) = k
      BY <1>10
    <2> HIDE DEF q
    <2>2. /\ Append(q, r) \in Seq(Seq(AllBytes))
          /\ Len(Append(q, r)) = k + 1
          /\ \A j \in 1..k : Append(q, r)[j] = q[j]
          /\ Append(q, r)[k + 1] = r
      BY <1>4, <2>1, AppendProperties
    <2> QED
      BY <2>2 DEF q
  <1>13. \A j \in 1..(k + 1) : Slots(g, k + 1)[j] = Append(Slots(f, k), r)[j]
    <2> SUFFICES ASSUME NEW j \in 1..(k + 1)
                 PROVE  Slots(g, k + 1)[j] = Append(Slots(f, k), r)[j]
      OBVIOUS
    <2>1. j \in 1..k \/ j = k + 1
      BY <1>5
    <2> HIDE DEF g
    <2> QED
      BY <1>8, <1>9, <1>10, <1>11, <1>12, <2>1
  <1>14. Slots(g, k + 1) = Append(Slots(f, k), r)
    BY <1>11, <1>12, <1>13, SeqEqual
  <1> QED
    BY <1>1, <1>14

\* What a pop reads: the top record or, on an empty stack, zeros above the marker.
LEMMA PopReads ==
  ASSUME NEW f \in Seq(AllBytes), NEW n \in Nat, NEW k \in 0..n, Sound(f, k, n),
         n > 0
  PROVE  ReadAt(f, SeekBack(Top(f))) = IF k > 0 THEN Slot(f, k) ELSE Blank
  <1> DEFINE K == k * MSG_SIZE
             L == n * MSG_SIZE
             t == Top(f)
             p == SeekBack(t)
  <1>1. t = K + 1 /\ Len(f) = L + 1
    <2>1. Len(f) = L + 1
      BY DEF Sound
    <2> QED
      BY <2>1, SoundTop
  <1>2. /\ K \in Nat /\ L \in Nat /\ K <= L /\ MSG_SIZE <= L
        /\ k > 0 => (k - 1) * MSG_SIZE = K - MSG_SIZE /\ K >= MSG_SIZE
        /\ k = 0 => K = 0
    BY Multiples, MultiplesOrder
  <1> HIDE DEF K, L, t
  <1>3. p = IF k > 0 THEN K + 1 - MSG_SIZE ELSE 1
    BY <1>1, <1>2 DEF SeekBack
  <1>4. p \in Nat /\ p + MSG_SIZE <= Len(f) /\ Len(f) \in Nat
    BY <1>1, <1>2, <1>3
  <1> HIDE DEF p
  <1>5. ReadAt(f, p) = SubSeq(f, p + 1, p + MSG_SIZE)
    BY <1>4 DEF ReadAt
  <1>6. CASE k > 0
    <2>1. p + 1 = (k - 1) * MSG_SIZE + 2 /\ p + MSG_SIZE = K + 1
      BY <1>2, <1>3, <1>6
    <2>2. ReadAt(f, p) = Slot(f, k)
      BY <1>5, <2>1 DEF Slot, K
    <2> QED
      BY <1>6, <2>2 DEF p, t
  <1>7. CASE k = 0
    <2>1. p = 1
      BY <1>3, <1>7
    <2>2. 1 * MSG_SIZE = MSG_SIZE /\ (1 - 1) * MSG_SIZE = 0
      OBVIOUS
    <2>3. Slot(f, 1) = SubSeq(f, 2, MSG_SIZE + 1)
      BY <2>2 DEF Slot
    <2>4. ReadAt(f, p) = Slot(f, 1)
      BY <1>5, <2>1, <2>3
    <2>5. 1 * MSG_SIZE + 1 <= Len(f)
      BY <1>4, <2>1, <2>2
    <2>6. /\ Slot(f, 1) \in Seq(AllBytes) /\ Len(Slot(f, 1)) = MSG_SIZE
          /\ \A i \in 1..MSG_SIZE : Slot(f, 1)[i] = f[(1 - 1) * MSG_SIZE + 1 + i]
      BY <2>5, SlotBytes
    <2>7. \A i \in 1..MSG_SIZE : f[1 + i] = 0
      <3> SUFFICES ASSUME NEW i \in 1..MSG_SIZE
                   PROVE  f[1 + i] = 0
        OBVIOUS
      <3>1. 1 + i \in 1..Len(f) /\ 1 + i > K + 1
        BY <1>2, <1>4, <1>7, <2>1
      <3> QED
        BY <3>1 DEF Sound, K
    <2>8. \A i \in 1..MSG_SIZE : Slot(f, 1)[i] = Blank[i]
      BY <2>2, <2>6, <2>7 DEF Blank
    <2>9. Slot(f, 1) = Blank
      BY <2>6, <2>8, BlankIsSeq, SeqEqual
    <2> QED
      BY <1>7, <2>4, <2>9 DEF p, t
  <1> QED
    BY <1>6, <1>7

\* What a pop leaves: the slots below the one it zeroed.
LEMMA PopSlots ==
  ASSUME NEW f \in Seq(AllBytes), NEW n \in Nat, NEW k \in 0..n, Sound(f, k, n),
         n > 0, k > 0
  PROVE  Slots(Overwrite(f, PopPosition(f), Blank), k - 1) = SubSeq(Slots(f, k), 1, k - 1)
  <1> DEFINE h == k - 1
             q == h * MSG_SIZE + 1
             g == Overwrite(f, q, Blank)
  <1>1. PopPosition(f) = q
    BY PopPositionSound
  <1>2. Len(g) = n * MSG_SIZE + 1 /\ Len(f) = n * MSG_SIZE + 1
    BY <1>1, PopSound DEF Sound
  <1>3. h \in Nat /\ k = h + 1 /\ h \in 0..n /\ k \in Nat /\ h <= n
    OBVIOUS
  <1>4. /\ h * MSG_SIZE \in Nat /\ n * MSG_SIZE \in Nat
        /\ h * MSG_SIZE <= n * MSG_SIZE
    BY <1>3, Multiples, MultiplesOrder
  <1>5. /\ g \in Seq(AllBytes)
        /\ \A i \in 1..Len(g) : i <= q => g[i] = f[i]
    <2>1. q \in 0..Len(f)
      BY <1>2, <1>4
    <2> HIDE DEF q
    <2>2. /\ g \in Seq(AllBytes)
          /\ \A i \in 1..Len(g) :
               g[i] = IF q < i /\ i <= q + Len(Blank) THEN Blank[i - q] ELSE f[i]
      BY <2>1, BlankIsSeq, OverwriteProperties
    <2>3. q \in Nat
      BY <2>1
    <2> HIDE DEF g
    <2> QED
      BY <2>2, <2>3
  <1> HIDE DEF g, h
  <1>6. \A j \in 1..h : Slot(g, j) = Slot(f, j)
    <2> SUFFICES ASSUME NEW j \in 1..h
                 PROVE  Slot(g, j) = Slot(f, j)
      OBVIOUS
    <2> DEFINE a == (j - 1) * MSG_SIZE
    <2>1. j \in Nat \ {0} /\ j <= h
      BY <1>3
    <2>2. a \in Nat /\ j * MSG_SIZE = a + MSG_SIZE /\ a + MSG_SIZE <= h * MSG_SIZE
      <3>1. j * MSG_SIZE <= h * MSG_SIZE
        BY <1>3, <2>1, MultiplesOrder
      <3> QED
        BY <2>1, <3>1, Multiples
    <2> HIDE DEF a
    <2>3. a + MSG_SIZE + 1 <= Len(g) /\ a + MSG_SIZE + 1 <= Len(f) /\ Len(g) \in Nat
      BY <1>2, <1>4, <2>2
    <2>4. \A i \in 1..MSG_SIZE : g[a + 1 + i] = f[a + 1 + i]
      <3> SUFFICES ASSUME NEW i \in 1..MSG_SIZE
                   PROVE  g[a + 1 + i] = f[a + 1 + i]
        OBVIOUS
      <3>1. a + 1 + i \in 1..Len(g) /\ a + 1 + i <= q
        BY <1>4, <2>2, <2>3
      <3> QED
        BY <1>5, <3>1
    <2>5. j * MSG_SIZE + 1 <= Len(f) /\ j * MSG_SIZE + 1 <= Len(g)
      BY <2>2, <2>3
    <2> QED
      BY <1>5, <2>1, <2>4, <2>5, SlotUnchanged DEF a
  <1>7. /\ Slots(f, k) \in Seq(Seq(AllBytes)) /\ Len(Slots(f, k)) = k
        /\ \A j \in 1..k : Slots(f, k)[j] = Slot(f, j)
    BY <1>2, SlotsType
  <1>8. /\ Slots(g, h) \in Seq(Seq(AllBytes)) /\ Len(Slots(g, h)) = h
        /\ \A j \in 1..h : Slots(g, h)[j] = Slot(g, j)
    BY <1>2, <1>3, <1>5, SlotsType
  <1>9. /\ SubSeq(Slots(f, k), 1, h) \in Seq(Seq(AllBytes))
        /\ Len(SubSeq(Slots(f, k), 1, h)) = h
        /\ \A j \in 1..h : SubSeq(Slots(f, k), 1, h)[j] = Slots(f, k)[j]
    <2> DEFINE s == Slots(f, k)
    <2>1. s \in Seq(Seq(AllBytes)) /\ Len(s) = h + 1
      BY <1>3, <1>7
    <2> HIDE DEF s
    <2>2. \A i \in 1..h : s[i] \in Seq(AllBytes)
      BY <1>3, <2>1
    <2>3. /\ SubSeq(s, 1, h) \in Seq(Seq(AllBytes))
          /\ Len(SubSeq(s, 1, h)) = IF 1 <= h THEN h - 1 + 1 ELSE 0
          /\ \A j \in 1..(h - 1 + 1) : SubSeq(s, 1, h)[j] = s[1 + j - 1]
      BY <1>3, <2>2, SubSeqProperties
    <2>4. /\ SubSeq(s, 1, h) \in Seq(Seq(AllBytes))
          /\ Len(SubSeq(s, 1, h)) = h
          /\ \A j \in 1..h : SubSeq(s, 1, h)[j] = s[j]
      BY <1>3, <2>3
    <2> QED
      BY <2>4 DEF s
  <1>10. \A j \in 1..h : Slots(g, h)[j] = SubSeq(Slots(f, k), 1, h)[j]
    <2>1. \A j \in 1..h : j \in 1..k
      BY <1>3
    <2> QED
      BY <1>6, <1>7, <1>8, <1>9, <2>1
  <1>11. Slots(g, h) = SubSeq(Slots(f, k), 1, h)
    BY <1>8, <1>9, <1>10, SeqEqual
  <1> QED
    BY <1>1, <1>11 DEF g, h

-----------------------------------------------------------------------------
(* Every step of the store is one of MessageStack or leaves it alone.      *)

LEMMA NoRecords ==
  /\ file = <<>> => Records = <<>>
  /\ file' = <<>> => Records' = <<>>
  /\ file' = file => Records' = Records
  <1>1. file = <<>> => StoredRecords = 0
    BY DEF StoredRecords, AllZero
  <1>2. file' = <<>> => StoredRecords' = 0
    BY DEF StoredRecords, AllZero
  <1>3. StoredRecords = 0 => Records = <<>>
    BY DEF Records
  <1>4. StoredRecords' = 0 => Records' = <<>>
    BY DEF Records
  <1>5. file' = file => Records' = Records
    BY DEF Records, StoredRecords
  <1> QED
    BY <1>1, <1>2, <1>3, <1>4, <1>5

LEMMA PushImplements ==
  ASSUME HashFree, IInv, IInv', NEW r \in Record, Push(r)
  PROVE  Abstract!Push(r)
  <1>1. file \in Seq(AllBytes) /\ file' \in Seq(AllBytes)
    BY DEF IInv, TypeOK, AllBytes
  <1>2. PICK n \in Nat, k \in Nat : k \in 0..n /\ Sound(file, k, n)
    BY DEF IInv, Push, SoundFile
  <1> DEFINE m == IF k = n THEN n + 1 ELSE n
  <1>3. file' = Overwrite(file, Top(file), r) /\ popped' = popped
    BY DEF Push
  <1>4. Sound(file', k + 1, m) /\ m \in Nat /\ k + 1 \in 0..m
    BY <1>1, <1>2, <1>3, PushSound
  <1> HIDE DEF m
  <1>5. Records = Slots(file, k) /\ Records' = Slots(file', k + 1)
    BY <1>1, <1>2, <1>4, RecordsAreSlots, RecordsAreSlotsNext
  <1>6. Slots(file', k + 1) = Append(Slots(file, k), r)
    BY <1>1, <1>2, <1>3, PushSlots
  <1> QED
    BY <1>3, <1>5, <1>6 DEF Abstract!Push

LEMMA PopImplements ==
  ASSUME HashFree, IInv, IInv', Pop
  PROVE  Abstract!Pop \/ Abstract!PopBlank
  <1>1. file \in Seq(AllBytes) /\ file' \in Seq(AllBytes) /\ depth \in Nat
    BY DEF IInv, TypeOK, AllBytes
  <1>2. PICK n \in Nat, k \in Nat : k \in 0..n /\ Sound(file, k, n) /\ Counter(pc, depth, boots, k, n)
    BY DEF IInv, Pop, SoundFile
  <1>3. n > 0
    BY <1>2 DEF Pop, NotEmpty, Counter
  <1>4. /\ file' = Overwrite(file, PopPosition(file), Blank)
        /\ popped' = ReadAt(file, SeekBack(Top(file)))
    BY DEF Pop, PopPosition
  <1>5. popped' = IF k > 0 THEN Slot(file, k) ELSE Blank
    BY <1>1, <1>2, <1>3, <1>4, PopReads
  <1>6. Records = Slots(file, k)
    BY <1>1, <1>2, RecordsAreSlots
  <1>7. Sound(file', IF k > 0 THEN k - 1 ELSE 0, n)
    BY <1>1, <1>2, <1>3, <1>4, PopSound
  <1>8. CASE k > 0
    <2>1. Records' = Slots(file', k - 1)
      <3>1. k - 1 \in 0..n /\ Sound(file', k - 1, n)
        BY <1>2, <1>7, <1>8
      <3> QED
        BY <1>1, <3>1, RecordsAreSlotsNext
    <2>2. Slots(file', k - 1) = SubSeq(Slots(file, k), 1, k - 1)
      BY <1>1, <1>2, <1>3, <1>4, <1>8, PopSlots
    <2>3. Len(Slots(file, k)) = k /\ Slots(file, k)[k] = Slot(file, k)
      BY <1>8 DEF Slots
    <2>4. Slots(file, k) # <<>>
      BY <1>8, <2>3
    <2> QED
      BY <1>5, <1>6, <1>8, <2>1, <2>2, <2>3, <2>4 DEF Abstract!Pop
  <1>9. CASE k = 0
    <2>1. Records' = Slots(file', 0)
      <3>1. 0 \in 0..n /\ Sound(file', 0, n)
        BY <1>2, <1>7, <1>9
      <3> QED
        BY <1>1, <3>1, RecordsAreSlotsNext
    <2>2. \A f : Slots(f, 0) = <<>>
      BY DEF Slots
    <2> QED
      BY <1>5, <1>6, <1>9, <2>1, <2>2 DEF Abstract!PopBlank
  <1> QED
    BY <1>2, <1>8, <1>9

LEMMA StepImplements ==
  ASSUME HashFree, IInv, IInv', [Next]_vars
  PROVE  [Abstract!Next]_<<Records, popped>>
  <1>1. CASE CreateFile
    <2>1. file = <<>> /\ file' = <<>> /\ popped' = popped
      BY <1>1 DEF IInv, CreateFile
    <2> QED
      BY <2>1, NoRecords
  <1>2. CASE WriteMarker
    <2>1. file = <<>> /\ file' = <<Hash>> /\ popped' = popped
      BY <1>2 DEF IInv, WriteMarker
    <2>2. Records' = <<>>
      <3>1. Sound(<<Hash>>, 0, 0)
        <4>1. 0 * MSG_SIZE = 0 /\ \A j \in 0..0 : j = 0
          OBVIOUS
        <4> QED
          BY <4>1 DEF Sound
      <3>2. file' \in Seq(AllBytes) /\ Sound(file', 0, 0)
        BY <2>1, <3>1 DEF AllBytes
      <3>3. Records' = Slots(file', 0)
        <4>1. 0 \in Nat /\ 0 \in 0..0
          OBVIOUS
        <4> QED
          BY <3>2, <4>1, RecordsAreSlotsNext
      <3> QED
        BY <3>3 DEF Slots
    <2> QED
      BY <2>1, <2>2, NoRecords
  <1>3. CASE ScanFile \/ ScanHangs
    <2>1. file' = file
      <3>1. CASE file = <<>>
        <4>1. ~HasMarkerBelow(file, Len(file))
          BY <3>1 DEF HasMarkerBelow
        <4> QED
          BY <1>3, <4>1 DEF ScanFile, ScanHangs, ScanEnds
      <3>2. CASE file # <<>>
        <4>1. file \in Seq(AllBytes)
          BY DEF IInv, TypeOK, AllBytes
        <4>2. PICK n \in Nat, k \in Nat : k \in 0..n /\ Sound(file, k, n)
          BY <3>2 DEF IInv, SoundFile
        <4> QED
          BY <1>3, <4>1, <4>2, ScanSound DEF ScanFile, ScanHangs
      <3> QED
        BY <3>1, <3>2
    <2>2. popped' = popped
      BY <1>3 DEF ScanFile, ScanHangs
    <2> QED
      BY <2>1, <2>2, NoRecords
  <1>4. CASE \E r \in Record : Push(r)
    BY <1>4, PushImplements DEF Abstract!Next
  <1>5. CASE Pop
    BY <1>5, PopImplements DEF Abstract!Next
  <1>6. CASE PowerLoss \/ UNCHANGED vars
    <2>1. file' = file /\ popped' = popped
      BY <1>6 DEF PowerLoss, vars
    <2> QED
      BY <2>1, NoRecords
  <1> QED
    BY <1>1, <1>2, <1>3, <1>4, <1>5, <1>6 DEF Next

\* If no message holds a '#' byte, the file is a last-in first-out stack of
\* messages that survives every loss of power: each pop returns the message last
\* pushed and not yet popped, and zeros only when there is none
\* (stack_utils.c:72-106, stack_utils.h).
THEOREM FileImplementsStack == HashFree => (Spec => ImplementsStack)
  <1>1. SUFFICES ASSUME HashFree PROVE Spec => ImplementsStack
    OBVIOUS
  <1>2. Init => Abstract!Init
    BY NoRecords DEF Init, Abstract!Init
  <1>3. IInv /\ IInv' /\ [Next]_vars => [Abstract!Next]_<<Records, popped>>
    BY <1>1, StepImplements
  <1> QED
    BY <1>2, <1>3, Inductive, PTL DEF Spec, ImplementsStack, Abstract!Spec, Abstract!vars
=============================================================================
