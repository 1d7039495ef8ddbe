------------------------------ MODULE WireCodec ------------------------------
(***************************************************************************)
(* Lemmas about the codec of Wire.                                         *)
(***************************************************************************)
EXTENDS Wire, SequenceTheorems, TLAPS

\* The largest length that two bytes write.
Max14 == 16383

\* The two bounds are small enough for the arithmetic that follows.
LEMMA Max14Facts == Max14 \in Nat /\ Max16 \in Nat /\ Max14 + 3 < Max16
  BY SMT DEF Max14, Max16

\* What SizeAssumption says of the sizes, for the provers.
LEMMA SizeFacts ==
  /\ InLen \in Nat /\ InLen >= 4
  /\ OutLen \in Nat /\ OutLen <= Max14 + 3
  /\ Word \in Nat /\ MaxMessages \in Nat
  BY SizeAssumption, SMT DEF Max14

\* The two bytes of a 16-bit number, and the number from them.
LEMMA ShortFacts ==
  ASSUME NEW n \in Nat, n <= Max16
  PROVE  /\ Short(n) \in Seq(Byte)
         /\ Len(Short(n)) = 2
         /\ Short(n)[1] = n \div 256
         /\ Short(n)[2] = n % 256
         /\ (n \div 256) * 256 + (n % 256) = n
  <1>1. n \div 256 \in Byte /\ n % 256 \in Byte
    BY SMT DEF Byte, Max16
  <1>2. (n \div 256) * 256 + (n % 256) = n
    OBVIOUS
  <1> QED
    BY <1>1, <1>2 DEF Short

\* Two sequences of bytes, one behind the other.
LEMMA Joined ==
  ASSUME NEW a \in Seq(Byte), NEW b \in Seq(Byte)
  PROVE  /\ a \o b \in Seq(Byte)
         /\ Len(a) \in Nat /\ Len(b) \in Nat
         /\ Len(a \o b) = Len(a) + Len(b)
         /\ \A i \in 1..Len(a) : (a \o b)[i] = a[i]
         /\ \A i \in 1..Len(b) : (a \o b)[Len(a) + i] = b[i]
  <1>1. Len(a) \in Nat /\ Len(b) \in Nat
    BY LenProperties
  <1>2. /\ a \o b \in Seq(Byte)
        /\ Len(a \o b) = Len(a) + Len(b)
        /\ \A i \in 1..(Len(a) + Len(b)) :
             (a \o b)[i] = IF i <= Len(a) THEN a[i] ELSE b[i - Len(a)]
    BY ConcatProperties
  <1> DEFINE s == a \o b
  <1> HIDE DEF s
  <1>3. \A i \in 1..Len(a) : s[i] = a[i]
    BY <1>1, <1>2 DEF s
  <1>4. ASSUME NEW i \in 1..Len(b)
        PROVE  s[Len(a) + i] = b[i]
    <2>1. Len(a) + i \in 1..(Len(a) + Len(b)) /\ ~(Len(a) + i <= Len(a))
          /\ (Len(a) + i) - Len(a) = i
      BY <1>1
    <2>2. s[Len(a) + i] = b[(Len(a) + i) - Len(a)]
      BY <1>2, <2>1 DEF s
    <2> QED
      BY <2>1, <2>2
  <1> QED
    BY <1>1, <1>2, <1>3, <1>4 DEF s

\* Concatenation is associative.
LEMMA Regrouped ==
  ASSUME NEW a \in Seq(Byte), NEW b \in Seq(Byte), NEW c \in Seq(Byte)
  PROVE  (a \o b) \o c = a \o (b \o c)
  BY ConcatAssociative

\* A string of at most 65535 bytes with its length before it.
LEMMA StrFacts ==
  ASSUME NEW s \in Seq(Byte), Len(s) <= Max16
  PROVE  /\ Str(s) \in Seq(Byte)
         /\ Len(Str(s)) = 2 + Len(s)
         /\ Short(Len(s)) \in Seq(Byte)
         /\ Len(s) \in Nat
  <1>1. Len(s) \in Nat
    BY LenProperties
  <1>2. Short(Len(s)) \in Seq(Byte) /\ Len(Short(Len(s))) = 2
    BY <1>1, ShortFacts
  <1>3. /\ Short(Len(s)) \o s \in Seq(Byte)
        /\ Len(Short(Len(s)) \o s) = Len(Short(Len(s))) + Len(s)
    BY <1>2, Joined
  <1> QED
    BY <1>1, <1>2, <1>3 DEF Str

\* The same, where an empty string is left out.
LEMMA StrIfFacts ==
  ASSUME NEW s \in Seq(Byte), Len(s) <= Max16
  PROVE  /\ StrIf(s) \in Seq(Byte)
         /\ Len(StrIf(s)) = IF s # <<>> THEN 2 + Len(s) ELSE 0
  BY StrFacts, EmptySeq DEF StrIf

\* A part of a sequence, byte by byte.
LEMMA PartFacts ==
  ASSUME NEW s \in Seq(Byte), NEW m \in Nat, NEW n \in Nat, m >= 1, n <= Len(s), m <= n + 1
  PROVE  /\ SubSeq(s, m, n) \in Seq(Byte)
         /\ Len(SubSeq(s, m, n)) = n - m + 1
         /\ \A i \in 1..(n - m + 1) : SubSeq(s, m, n)[i] = s[m + i - 1]
  <1>1. m \in Int /\ n \in Int /\ Len(s) \in Nat
    BY LenProperties
  <1>2. \A i \in m..n : i \in 1..Len(s)
    BY <1>1
  <1>3. \A i \in m..n : s[i] \in Byte
    BY <1>2, ElementOfSeq
  <1>4. /\ SubSeq(s, m, n) \in Seq(Byte)
        /\ Len(SubSeq(s, m, n)) = IF m <= n THEN n - m + 1 ELSE 0
        /\ \A i \in 1..n-m+1 : SubSeq(s, m, n)[i] = s[m + i - 1]
    BY <1>1, <1>3, SubSeqProperties
  <1> QED
    BY <1>4

\* What stands between two others.
LEMMA PartRead ==
  ASSUME NEW pre \in Seq(Byte), NEW part \in Seq(Byte), NEW post \in Seq(Byte)
  PROVE  SubSeq(pre \o part \o post, Len(pre) + 1, Len(pre) + Len(part)) = part
  <1> DEFINE a == pre \o part
             s == a \o post
             m == Len(pre) + 1
             n == Len(pre) + Len(part)
             r == SubSeq(s, m, n)
  <1>1. /\ a \in Seq(Byte) /\ Len(a) = n
        /\ \A i \in 1..Len(part) : a[Len(pre) + i] = part[i]
        /\ Len(pre) \in Nat /\ Len(part) \in Nat
    BY Joined
  <1> HIDE DEF a
  <1>2. /\ s \in Seq(Byte) /\ Len(s) = Len(a) + Len(post) /\ Len(post) \in Nat
        /\ \A i \in 1..Len(a) : s[i] = a[i]
    BY <1>1, Joined
  <1> HIDE DEF s
  <1>3. m \in Nat /\ n \in Nat /\ m >= 1 /\ n <= Len(s) /\ m <= n + 1 /\ n - m + 1 = Len(part)
    BY <1>1, <1>2
  <1>4. \A i \in 1..Len(part) : Len(pre) + i \in 1..n /\ m + i - 1 = Len(pre) + i
    BY <1>1
  <1> HIDE DEF m, n
  <1>5. /\ r \in Seq(Byte)
        /\ Len(r) = n - m + 1
        /\ \A i \in 1..(n - m + 1) : r[i] = s[m + i - 1]
    BY <1>2, <1>3, PartFacts
  <1> HIDE DEF r
  <1>6. Len(r) = Len(part)
    BY <1>3, <1>5
  <1>7. ASSUME NEW i \in 1..Len(r)
        PROVE  r[i] = part[i]
    <2>1. r[i] = s[m + i - 1]
      BY <1>3, <1>5, <1>6
    <2>2. s[Len(pre) + i] = a[Len(pre) + i]
      BY <1>1, <1>2, <1>4, <1>6
    <2> QED
      BY <1>1, <1>4, <1>6, <2>1, <2>2
  <1>8. r = part
    BY <1>5, <1>6, <1>7, SeqEqual
  <1> QED
    BY <1>8 DEF r, s, a, m, n

\* What stands behind another sequence, to the end.
LEMMA RestRead ==
  ASSUME NEW pre \in Seq(Byte), NEW post \in Seq(Byte)
  PROVE  RestFrom(pre \o post, Len(pre) + 1) = post
  <1>1. pre \o post \in Seq(Byte) /\ Len(pre \o post) = Len(pre) + Len(post)
    BY Joined
  <1>2. <<>> \in Seq(Byte) /\ (pre \o post) \o <<>> = pre \o post
    BY <1>1, ConcatEmptySeq, EmptySeq
  <1>3. SubSeq(pre \o post \o <<>>, Len(pre) + 1, Len(pre) + Len(post)) = post
    BY <1>2, PartRead
  <1> QED
    BY <1>1, <1>2, <1>3 DEF RestFrom

\* A 16-bit number is read back wherever it stands.
LEMMA ShortRead ==
  ASSUME NEW pre \in Seq(Byte), NEW n \in Nat, n <= Max16, NEW post \in Seq(Byte)
  PROVE  ShortAt(pre \o Short(n) \o post, Len(pre) + 1) = n
  <1> DEFINE sh == Short(n)
             a == pre \o sh
             s == a \o post
  <1>1. /\ sh \in Seq(Byte) /\ Len(sh) = 2
        /\ sh[1] * 256 + sh[2] = n
    BY ShortFacts
  <1> HIDE DEF sh
  <1>2. /\ a \in Seq(Byte) /\ Len(pre) \in Nat /\ Len(a) = Len(pre) + Len(sh)
        /\ \A i \in 1..Len(sh) : a[Len(pre) + i] = sh[i]
    BY <1>1, Joined
  <1> HIDE DEF a
  <1>3. \A i \in 1..Len(a) : s[i] = a[i]
    BY <1>2, Joined
  <1> HIDE DEF s
  <1>4. s[Len(pre) + 1] = sh[1] /\ s[Len(pre) + 2] = sh[2]
    <2>1. a[Len(pre) + 1] = sh[1] /\ a[Len(pre) + 2] = sh[2]
      BY <1>1, <1>2
    <2>2. Len(pre) + 1 \in 1..Len(a) /\ Len(pre) + 2 \in 1..Len(a)
      BY <1>1, <1>2
    <2> QED
      BY <1>3, <2>1, <2>2
  <1>5. (Len(pre) + 1) + 1 = Len(pre) + 2
    BY <1>2
  <1>6. s[Len(pre) + 1] * 256 + s[(Len(pre) + 1) + 1] = n
    BY <1>1, <1>4, <1>5
  <1> QED
    BY <1>6 DEF s, a, sh, ShortAt

\* So is a string with its length.
LEMMA StringRead ==
  ASSUME NEW pre \in Seq(Byte), NEW t \in Seq(Byte), Len(t) <= Max16, NEW post \in Seq(Byte)
  PROVE  /\ ShortAt(pre \o Str(t) \o post, Len(pre) + 1) = Len(t)
         /\ StringAt(pre \o Str(t) \o post, Len(pre) + 1) = t
  <1> DEFINE s == pre \o Str(t) \o post
             l == Short(Len(t))
             p == pre \o l
  <1>1. Len(t) \in Nat /\ Len(pre) \in Nat
    BY LenProperties
  <1>2. l \in Seq(Byte) /\ Len(l) = 2 /\ Str(t) = l \o t
    BY <1>1, ShortFacts DEF Str
  <1> HIDE DEF l
  <1>3. p \in Seq(Byte) /\ Len(p) = Len(pre) + Len(l)
    BY <1>2, Joined
  <1>4. t \o post \in Seq(Byte)
    BY Joined
  <1>5. (pre \o l) \o t = pre \o (l \o t)
    BY <1>2, Regrouped
  <1>6. s = p \o t \o post
    BY <1>2, <1>5
  <1>7. ShortAt(p \o (t \o post), Len(pre) + 1) = Len(t)
    BY <1>1, <1>4, ShortRead DEF l
  <1> HIDE DEF p
  <1>8. (p \o t) \o post = p \o (t \o post)
    BY <1>3, Regrouped
  <1>9. ShortAt(s, Len(pre) + 1) = Len(t)
    BY <1>6, <1>7, <1>8
  <1>10. SubSeq(p \o t \o post, Len(p) + 1, Len(p) + Len(t)) = t
    BY <1>3, PartRead
  <1> HIDE DEF s
  <1>11. Len(p) + 1 = (Len(pre) + 1) + 2 /\ Len(p) + Len(t) = (Len(pre) + 1) + 1 + Len(t)
    BY <1>1, <1>2, <1>3
  <1>12. StringAt(s, Len(pre) + 1) = SubSeq(s, (Len(pre) + 1) + 2, (Len(pre) + 1) + 1 + Len(t))
    BY <1>9 DEF StringAt
  <1>13. StringAt(s, Len(pre) + 1) = t
    BY <1>6, <1>10, <1>11, <1>12
  <1> QED
    BY <1>9, <1>13 DEF s
-----------------------------------------------------------------------------
(* What the client writes.                                                 *)

\* The fixed header of n bytes.
Header(first, n) ==
    IF n > 127 THEN <<first, 128 + (n % 128), n \div 128>> ELSE <<first, n>>

\* The bytes of the fixed header that fini_message leaves.
LEMMA HeaderFacts ==
  ASSUME NEW first \in Byte, NEW n \in Nat, n <= Max14
  PROVE  /\ Header(first, n) \in Seq(Byte)
         /\ Len(Header(first, n)) = IF n > 127 THEN 3 ELSE 2
         /\ Header(first, n)[1] = first
         /\ n > 127 => /\ Header(first, n)[2] = 128 + (n % 128)
                       /\ Header(first, n)[3] = n \div 128
         /\ n <= 127 => Header(first, n)[2] = n
  <1>1. CASE n > 127
    <2>1. 128 + (n % 128) \in Byte /\ n \div 128 \in Byte
      BY <1>1, SMT DEF Byte, Max14
    <2>2. Header(first, n) = <<first, 128 + (n % 128), n \div 128>>
      BY <1>1 DEF Header
    <2> QED
      BY <1>1, <2>1, <2>2
  <1>2. CASE n <= 127
    <2>1. n \in Byte
      BY <1>2 DEF Byte
    <2>2. Header(first, n) = <<first, n>>
      BY <1>2 DEF Header
    <2> QED
      BY <1>2, <2>1, <2>2
  <1> QED
    BY <1>1, <1>2

\* Where a reader of the standard finds the body.
LEMMA BodyAtShort ==
  ASSUME NEW s, s[2] \in Nat, s[2] < 128
  PROVE  BodyAt(s) = 3
  <1> DEFINE Ends(i) == s[i - 1] < 128 /\ \A j \in 2..(i - 2) : s[j] >= 128
  <1>1. Ends(3)
    OBVIOUS
  <1>2. \A i \in 3..6 : Ends(i) => i = 3
    <2>1. ASSUME NEW i \in 4..6, Ends(i)
          PROVE  FALSE
      <3>1. 2 \in 2..(i - 2)
        OBVIOUS
      <3> QED
        BY <2>1, <3>1
    <2> QED
      BY <2>1
  <1> HIDE DEF Ends
  <1>3. (CHOOSE i \in 3..6 : Ends(i)) = 3
    BY <1>1, <1>2
  <1> QED
    BY <1>3 DEF BodyAt, Ends

\* A length of two bytes ends before the fourth byte.
LEMMA BodyAtLong ==
  ASSUME NEW s, s[2] \in Nat, s[2] >= 128, s[3] \in Nat, s[3] < 128
  PROVE  BodyAt(s) = 4
  <1> DEFINE Ends(i) == s[i - 1] < 128 /\ \A j \in 2..(i - 2) : s[j] >= 128
  <1>1. Ends(4)
    OBVIOUS
  <1>2. ~Ends(3)
    OBVIOUS
  <1>3. \A i \in 3..6 : Ends(i) => i = 4
    <2>1. ASSUME NEW i \in 5..6, Ends(i)
          PROVE  FALSE
      <3>1. 3 \in 2..(i - 2)
        OBVIOUS
      <3> QED
        BY <2>1, <3>1
    <2> QED
      BY <1>2, <2>1
  <1> HIDE DEF Ends
  <1>4. (CHOOSE i \in 3..6 : Ends(i)) = 4
    BY <1>1, <1>3
  <1> QED
    BY <1>4 DEF BodyAt, Ends

\* fini_message: a reader of the standard finds the body behind the header.
LEMMA FiniRead ==
  ASSUME NEW first \in Byte, NEW body \in Seq(Byte), Len(body) <= Max14
  PROVE  /\ fini_message(first, body) = Header(first, Len(body)) \o body
         /\ Header(first, Len(body)) \in Seq(Byte)
         /\ fini_message(first, body) \in Seq(Byte)
         /\ fini_message(first, body)[1] = first
         /\ BodyAt(fini_message(first, body)) = Len(Header(first, Len(body))) + 1
         /\ Announced(fini_message(first, body)) = Len(body)
         /\ Len(fini_message(first, body)) = Len(Header(first, Len(body))) + Len(body)
         /\ Len(Header(first, Len(body))) \in Nat
         /\ Len(Header(first, Len(body))) >= 2 /\ Len(Header(first, Len(body))) <= 3
  <1> DEFINE s == fini_message(first, body)
             h == Header(first, Len(body))
  <1>1. Len(body) \in Nat
    BY LenProperties
  <1>2. s = h \o body
    BY DEF fini_message, Header
  <1>3. /\ h \in Seq(Byte)
        /\ Len(h) = IF Len(body) > 127 THEN 3 ELSE 2
        /\ h[1] = first
        /\ Len(body) > 127 => h[2] = 128 + (Len(body) % 128) /\ h[3] = Len(body) \div 128
        /\ Len(body) <= 127 => h[2] = Len(body)
    BY <1>1, HeaderFacts
  <1> HIDE DEF s, h
  <1>4. /\ s \in Seq(Byte)
        /\ Len(s) = Len(h) + Len(body)
        /\ \A i \in 1..Len(h) : s[i] = h[i]
    <2>1. /\ h \o body \in Seq(Byte)
          /\ Len(h \o body) = Len(h) + Len(body)
          /\ \A i \in 1..Len(h) : (h \o body)[i] = h[i]
      BY <1>3, Joined
    <2> QED
      BY <1>2, <2>1
  <1>6. s[1] = first
    BY <1>1, <1>3, <1>4
  <1>7. BodyAt(s) = Len(h) + 1 /\ Announced(s) = Len(body)
    <2>1. CASE Len(body) > 127
      <3>1. s[2] = 128 + (Len(body) % 128) /\ s[3] = Len(body) \div 128
        BY <1>1, <1>3, <1>4, <2>1
      <3>2. s[2] \in Nat /\ s[2] >= 128 /\ s[3] \in Nat /\ s[3] < 128
        BY <1>1, <3>1, SMT DEF Max14
      <3>3. BodyAt(s) = 4
        BY <3>2, BodyAtLong
      <3>4. s[2] - 128 + 128 * s[3] = Len(body)
        BY <1>1, <3>1
      <3> QED
        BY <1>3, <2>1, <3>3, <3>4 DEF Announced
    <2>2. CASE Len(body) <= 127
      <3>1. s[2] = Len(body)
        BY <1>1, <1>3, <1>4, <2>2
      <3>2. BodyAt(s) = 3
        BY <1>1, <2>2, <3>1, BodyAtShort
      <3> QED
        BY <1>1, <1>3, <2>2, <3>1, <3>2 DEF Announced
    <2> QED
      BY <1>1, <2>1, <2>2
  <1> QED
    BY <1>1, <1>2, <1>3, <1>4, <1>6, <1>7 DEF s, h

-----------------------------------------------------------------------------
(* A message the client writes is read by the broker as it was meant.      *)

\* What Finish makes of a body that is not too long for the out buffer.
LEMMA FinishFacts ==
  ASSUME NEW first \in Byte, NEW body \in Seq(Byte)
  PROVE  /\ Finish(first, body) \in Seq(Byte)
         /\ Finish(first, body) = <<>> => 3 + Len(body) > OutLen
         /\ 3 + Len(body) > OutLen => Finish(first, body) = <<>>
         /\ Finish(first, body) # <<>> =>
              /\ Finish(first, body) = Header(first, Len(body)) \o body
              /\ Header(first, Len(body)) \in Seq(Byte)
              /\ Len(Header(first, Len(body))) \in Nat
              /\ Len(Header(first, Len(body))) >= 2 /\ Len(Header(first, Len(body))) <= 3
              /\ Finish(first, body)[1] = first
              /\ BodyAt(Finish(first, body)) = Len(Header(first, Len(body))) + 1
              /\ Announced(Finish(first, body)) + BodyAt(Finish(first, body)) - 1
                   = Len(Finish(first, body))
              /\ Len(Finish(first, body)) <= OutLen
  <1> DEFINE b == Finish(first, body)
             h == Header(first, Len(body))
  <1>1. Len(body) \in Nat /\ OutLen \in Nat
    BY LenProperties, SizeFacts
  <1>a. b = IF 3 + Len(body) > OutLen THEN <<>> ELSE fini_message(first, body)
    BY Zenon DEF Finish, FixedHeader
  <1>2. CASE 3 + Len(body) > OutLen
    <2>1. b = <<>>
      <3> HIDE DEF b
      <3> QED
        BY <1>2, <1>a, Zenon
    <2>2. b \in Seq(Byte)
      BY <2>1, EmptySeq
    <2>3. /\ Finish(first, body) = <<>> /\ ~(Finish(first, body) # <<>>)
          /\ Finish(first, body) \in Seq(Byte)
          /\ 3 + Len(body) > OutLen
      BY <1>2, <2>1, <2>2
    <2> QED
      BY <2>3, Zenon
  <1>3. CASE ~(3 + Len(body) > OutLen)
    <2>1. b = fini_message(first, body)
      <3> HIDE DEF b
      <3> QED
        BY <1>3, <1>a, Zenon
    <2>2. Len(body) <= Max14
      BY <1>1, <1>3, SizeFacts, Max14Facts
    <2>3. /\ fini_message(first, body) = h \o body
          /\ h \in Seq(Byte)
          /\ fini_message(first, body) \in Seq(Byte)
          /\ fini_message(first, body)[1] = first
          /\ BodyAt(fini_message(first, body)) = Len(h) + 1
          /\ Announced(fini_message(first, body)) = Len(body)
          /\ Len(fini_message(first, body)) = Len(h) + Len(body)
          /\ Len(h) \in Nat /\ Len(h) >= 2 /\ Len(h) <= 3
      BY <2>2, FiniRead
    <2> HIDE DEF b, h
    <2>a. /\ BodyAt(b) = Len(h) + 1
          /\ Announced(b) = Len(body)
          /\ Len(b) = Len(h) + Len(body)
          /\ Len(h) \in Nat /\ Len(h) >= 2 /\ Len(h) <= 3
      BY <2>1, <2>3
    <2>b. /\ Len(body) + (Len(h) + 1) - 1 = Len(h) + Len(body)
          /\ Len(h) + Len(body) <= OutLen /\ Len(h) + Len(body) > 0
      BY <1>1, <1>3, <2>a
    <2>4. Announced(b) + BodyAt(b) - 1 = Len(b) /\ Len(b) <= OutLen /\ Len(b) > 0
      BY <2>a, <2>b
    <2>5. b # <<>>
      BY <2>4, EmptySeq
    <2> QED
      BY <1>3, <2>1, <2>3, <2>4, <2>5 DEF b, h
  <1> QED
    BY <1>2, <1>3

\* How four sequences of bytes are joined.  (The conclusions of lemmas that are
\* used for long terms are operators, for the provers to find the instances.)
Joins(a, b, c, d) ==
    /\ b \o c \o d \in Seq(Byte)
    /\ Len(b \o c \o d) = Len(b) + Len(c) + Len(d)
    /\ a \o (b \o c \o d) = a \o b \o (c \o d)
    /\ a \o (b \o c \o d) = a \o b \o c \o d
    /\ a \o b \in Seq(Byte) /\ Len(a \o b) = Len(a) + Len(b)
    /\ c \o d \in Seq(Byte)
    /\ a \o b \o c \in Seq(Byte) /\ Len(a \o b \o c) = Len(a) + Len(b) + Len(c)
    /\ Len(a) \in Nat /\ Len(b) \in Nat /\ Len(c) \in Nat /\ Len(d) \in Nat

\* Four sequences in a row, grouped in every way the proofs need.
LEMMA FourJoined ==
  ASSUME NEW a \in Seq(Byte), NEW b \in Seq(Byte), NEW c \in Seq(Byte), NEW d \in Seq(Byte)
  PROVE  Joins(a, b, c, d)
  <1>1. Len(a) \in Nat /\ Len(b) \in Nat /\ Len(c) \in Nat /\ Len(d) \in Nat
    BY LenProperties
  <1>2. /\ b \o c \in Seq(Byte) /\ Len(b \o c) = Len(b) + Len(c)
        /\ c \o d \in Seq(Byte)
        /\ a \o b \in Seq(Byte) /\ Len(a \o b) = Len(a) + Len(b)
    BY Joined
  <1>3. /\ (b \o c) \o d \in Seq(Byte) /\ Len((b \o c) \o d) = Len(b \o c) + Len(d)
        /\ (a \o b) \o c \in Seq(Byte) /\ Len((a \o b) \o c) = Len(a \o b) + Len(c)
    BY <1>2, Joined
  <1>4. (b \o c) \o d = b \o (c \o d)
    BY Regrouped
  <1>5. (a \o b) \o (c \o d) = a \o (b \o (c \o d))
    <2> DEFINE cd == c \o d
    <2>1. cd \in Seq(Byte)
      BY <1>2
    <2> HIDE DEF cd
    <2>2. (a \o b) \o cd = a \o (b \o cd)
      BY <2>1, Regrouped
    <2> QED
      BY <2>2 DEF cd
  <1>6. ((a \o b) \o c) \o d = (a \o b) \o (c \o d)
    <2> DEFINE ab == a \o b
    <2>1. ab \in Seq(Byte)
      BY <1>2
    <2> HIDE DEF ab
    <2>2. (ab \o c) \o d = ab \o (c \o d)
      BY <2>1, Regrouped
    <2> QED
      BY <2>2 DEF ab
  <1> QED
    BY <1>1, <1>2, <1>3, <1>4, <1>5, <1>6 DEF Joins

\* The messages the client may write: its own, and its answers.
CanWrite(m) ==
    /\ m \in Message
    /\ Regular(m)
    /\ m.type \in {PUBLISH, SUBSCRIBE, PUBACK, PUBREC, PUBREL, PUBCOMP, PINGREQ, PINGRESP}
    /\ m.type = SUBSCRIBE => m.qos = 0
    /\ m.type = PUBLISH /\ m.qos = 0 => m.id = 0
    /\ m.type \in {PINGREQ, PINGRESP} => m.id = 0

\* What OutboundDecodes asks of bytes and their meaning.
Decodes(b, m) ==
    /\ b \in Seq(Byte)
    /\ b = <<>> => m \in Message /\ 3 + BodySize(m) > OutLen
    /\ b # <<>> => /\ Announced(b) + BodyAt(b) - 1 = Len(b)
                   /\ Len(b) <= OutLen
                   /\ ReadByBroker(b) = m

USE DEF CONNECT, CONNACK, PUBLISH, PUBACK, PUBREC, PUBREL, PUBCOMP, SUBSCRIBE, SUBACK,
        UNSUBACK, PINGREQ, PINGRESP

\* The fields of a message, without their numbers.
LEMMA FieldFacts ==
  ASSUME NEW m \in Message
  PROVE  /\ m.id \in Nat /\ m.id <= Max16 /\ m.qos \in Nat /\ m.qos <= 2
         /\ m.topic \in Seq(Byte) /\ m.data \in Seq(Byte)
         /\ m = [type |-> m.type, qos |-> m.qos, id |-> m.id, topic |-> m.topic, data |-> m.data]
  <1>1. /\ m.id \in Nat /\ m.id <= Max16 /\ m.qos \in Nat /\ m.qos <= 2
        /\ m.topic \in Seq(Byte) /\ m.data \in Seq(Byte)
    BY Max14Facts DEF Message
  <1>2. m = [type |-> m.type, qos |-> m.qos, id |-> m.id, topic |-> m.topic, data |-> m.data]
    BY DEF Message
  <1> QED
    BY <1>1, <1>2

\* Where the parts of a PUBLISH stand behind a header h.
PublishLaid(h, t, i, d) ==
    /\ Str(t) \o i \o d \in Seq(Byte)
    /\ Len(Str(t) \o i \o d) = 2 + Len(t) + Len(i) + Len(d)
    /\ StringAt(h \o (Str(t) \o i \o d), Len(h) + 1) = t
    /\ \A n \in Nat : n <= Max16 /\ i = Short(n) =>
         ShortAt(h \o (Str(t) \o i \o d), Len(h) + 3 + Len(t)) = n
    /\ RestFrom(h \o (Str(t) \o i \o d), Len(h) + 3 + Len(t) + Len(i)) = d

\* Behind any header h, the parts of a PUBLISH are where a reader looks for them.
LEMMA PublishParts ==
  ASSUME NEW h \in Seq(Byte), NEW t \in Seq(Byte), NEW i \in Seq(Byte), NEW d \in Seq(Byte),
         Len(t) <= Max16
  PROVE  PublishLaid(h, t, i, d)
  <1> DEFINE s == Str(t)
             b == h \o (s \o i \o d)
             hs == h \o s
             hsi == hs \o i
  <1>1. s \in Seq(Byte) /\ Len(s) = 2 + Len(t) /\ Len(t) \in Nat
    BY StrFacts
  <1> HIDE DEF s
  <1>a. Joins(h, s, i, d)
    BY <1>1, FourJoined
  <1>2. /\ s \o i \o d \in Seq(Byte)
        /\ Len(s \o i \o d) = Len(s) + Len(i) + Len(d)
        /\ b = hs \o (i \o d)
        /\ b = hsi \o d
        /\ hs \in Seq(Byte) /\ Len(hs) = Len(h) + Len(s)
        /\ i \o d \in Seq(Byte)
        /\ hsi \in Seq(Byte) /\ Len(hsi) = Len(h) + Len(s) + Len(i)
        /\ Len(h) \in Nat /\ Len(s) \in Nat /\ Len(i) \in Nat /\ Len(d) \in Nat
    BY <1>a DEF Joins
  <1>3. StringAt(h \o s \o (i \o d), Len(h) + 1) = t
    BY <1>2, StringRead DEF s
  <1>4. ASSUME NEW n \in Nat, n <= Max16, i = Short(n)
        PROVE  ShortAt(b, Len(h) + 3 + Len(t)) = n
    <2> HIDE DEF b, hs
    <2>0. hs \in Seq(Byte)
      BY <1>2
    <2>1. ShortAt(hs \o Short(n) \o d, Len(hs) + 1) = n
      BY <2>0, <1>4, ShortRead
    <2>2. Len(hs) + 1 = Len(h) + 3 + Len(t)
      BY <1>1, <1>2
    <2> QED
      BY <1>2, <1>4, <2>1, <2>2
  <1>5. RestFrom(b, Len(h) + 3 + Len(t) + Len(i)) = d
    <2> HIDE DEF b, hsi
    <2>1. RestFrom(hsi \o d, Len(hsi) + 1) = d
      BY <1>2, RestRead
    <2>2. Len(hsi) + 1 = Len(h) + 3 + Len(t) + Len(i)
      BY <1>1, <1>2
    <2> QED
      BY <1>2, <2>1, <2>2
  <1> HIDE DEF hs, hsi, b
  <1>6. b = h \o s \o (i \o d)
    BY <1>2 DEF hs
  <1>7. StringAt(b, Len(h) + 1) = t
    BY <1>3, <1>6
  <1> QED
    BY <1>1, <1>2, <1>4, <1>5, <1>7 DEF s, b, PublishLaid

\* A PUBLISH the client writes is read as it was meant (mqtt_msg_publish).
LEMMA PublishDecodes ==
  ASSUME NEW m, CanWrite(m), m.type = PUBLISH
  PROVE  Decodes(Encoded(m), m)
  <1> DEFINE first == 48 + m.qos * 2
             body == Str(m.topic) \o IdIf(m) \o m.data
             b == Finish(first, body)
             h == Header(first, Len(body))
  <1>1. /\ m.id \in Nat /\ m.id <= Max16 /\ m.qos \in Nat /\ m.qos <= 2
        /\ m.topic \in Seq(Byte) /\ m.data \in Seq(Byte)
        /\ Len(m.topic) \in Nat /\ Len(m.data) \in Nat
    BY FieldFacts, LenProperties DEF CanWrite
  <1>2. m = [type |-> PUBLISH, qos |-> m.qos, id |-> m.id, topic |-> m.topic, data |-> m.data]
    BY FieldFacts DEF CanWrite
  <1>3. Len(m.topic) <= Max16 /\ m.topic # <<>> /\ (m.qos = 0 => m.id = 0)
    BY <1>1, Max14Facts, EmptySeq DEF CanWrite, Regular
  <1>4. /\ IdIf(m) \in Seq(Byte)
        /\ Len(IdIf(m)) = IF m.qos > 0 THEN 2 ELSE 0
        /\ m.qos > 0 => IdIf(m) = Short(m.id)
    <2>1. Short(m.id) \in Seq(Byte) /\ Len(Short(m.id)) = 2
      BY <1>1, ShortFacts
    <2>2. <<>> \in Seq(Byte) /\ Len(<<>>) = 0
      BY EmptySeq
    <2>3. IdIf(m) = IF m.qos > 0 THEN Short(m.id) ELSE <<>>
      BY DEF IdIf
    <2> QED
      BY <2>1, <2>2, <2>3
  <1>4a. Len(m.topic) \in Nat /\ Len(m.data) \in Nat /\ Len(IdIf(m)) \in Nat
    BY <1>1, <1>4
  <1>5. first \in Byte /\ first \div 16 = 3 /\ (first \div 2) % 4 = m.qos
    <2>1. m.qos = 0 \/ m.qos = 1 \/ m.qos = 2
      BY <1>1
    <2> QED
      BY <2>1 DEF Byte
  <1>6. Encoded(m) = b
    BY <1>3 DEF Encoded, mqtt_msg_publish
  <1>7. /\ body \in Seq(Byte)
        /\ Len(body) = 2 + Len(m.topic) + Len(IdIf(m)) + Len(m.data)
    <2>1. PublishLaid(<<>>, m.topic, IdIf(m), m.data)
      BY <1>1, <1>3, <1>4, EmptySeq, PublishParts
    <2> QED
      BY <2>1 DEF PublishLaid
  <1> HIDE DEF first
  <1>8. h \in Seq(Byte) =>
         /\ StringAt(h \o body, Len(h) + 1) = m.topic
         /\ \A n \in Nat : n <= Max16 /\ IdIf(m) = Short(n) =>
              ShortAt(h \o body, Len(h) + 3 + Len(m.topic)) = n
         /\ RestFrom(h \o body, Len(h) + 3 + Len(m.topic) + Len(IdIf(m))) = m.data
    <2> HIDE DEF h
    <2>1. h \in Seq(Byte) => PublishLaid(h, m.topic, IdIf(m), m.data)
      BY <1>1, <1>3, <1>4, PublishParts
    <2> QED
      BY <2>1 DEF PublishLaid
  <1> HIDE DEF body
  <1>9. /\ b \in Seq(Byte)
        /\ b = <<>> => 3 + Len(body) > OutLen
        /\ 3 + Len(body) > OutLen => b = <<>>
        /\ b # <<>> => /\ b = h \o body
                       /\ h \in Seq(Byte) /\ Len(h) \in Nat /\ Len(h) >= 2 /\ Len(h) <= 3
                       /\ b[1] = first
                       /\ BodyAt(b) = Len(h) + 1
                       /\ Announced(b) + BodyAt(b) - 1 = Len(b)
                       /\ Len(b) <= OutLen
    BY <1>5, <1>7, FinishFacts
  <1> HIDE DEF b, h
  <1>10. Len(body) = BodySize(m)
    <2>1. BodySize(m) = 2 + Len(m.topic) + Len(IdIf(m)) + Len(m.data)
      BY <1>3, <1>4 DEF BodySize
    <2> QED
      BY <1>7, <2>1
  <1>11. ASSUME b # <<>>
         PROVE  ReadByBroker(b) = m
    <2>1. /\ b = h \o body /\ h \in Seq(Byte)
          /\ b[1] = first /\ BodyAt(b) = Len(h) + 1 /\ Len(h) \in Nat
      BY <1>9, <1>11
    <2>2. StringAt(b, BodyAt(b)) = m.topic
      BY <1>8, <2>1
    <2>3. b[1] \div 16 = PUBLISH /\ (b[1] \div 2) % 4 = m.qos
      BY <1>5, <2>1
    <2>4. ReadByBroker(b) = ReadPublish(b)
      BY <2>3 DEF ReadByBroker
    <2>5. m.qos > 0 => ShortAt(b, BodyAt(b) + 2 + Len(m.topic)) = m.id
      <3>1. BodyAt(b) + 2 + Len(m.topic) = Len(h) + 3 + Len(m.topic)
        BY <1>1, <2>1
      <3> QED
        BY <1>1, <1>4, <1>8, <2>1, <3>1
    <2>6. RestFrom(b, IF m.qos > 0 THEN BodyAt(b) + 2 + Len(m.topic) + 2
                                   ELSE BodyAt(b) + 2 + Len(m.topic)) = m.data
      <3>1. (IF m.qos > 0 THEN BodyAt(b) + 2 + Len(m.topic) + 2
                          ELSE BodyAt(b) + 2 + Len(m.topic))
              = Len(h) + 3 + Len(m.topic) + Len(IdIf(m))
        <4>0. Len(h) + 1 + 2 + Len(m.topic) + 2 = Len(h) + 3 + Len(m.topic) + 2
              /\ Len(h) + 1 + 2 + Len(m.topic) = Len(h) + 3 + Len(m.topic) + 0
          BY <1>1, <2>1
        <4>1. CASE m.qos > 0
          BY <1>4, <2>1, <4>0, <4>1
        <4>2. CASE ~(m.qos > 0)
          BY <1>4, <2>1, <4>0, <4>2
        <4> QED
          BY <4>1, <4>2
      <3> QED
        BY <1>8, <2>1, <3>1
    <2>7. ReadPublish(b) =
            [type |-> PUBLISH, qos |-> m.qos, topic |-> m.topic,
             id |-> IF m.qos > 0 THEN m.id ELSE 0, data |-> m.data]
      BY <2>2, <2>3, <2>5, <2>6 DEF ReadPublish
    <2>8. (IF m.qos > 0 THEN m.id ELSE 0) = m.id
      BY <1>1, <1>3
    <2> QED
      BY <1>2, <2>4, <2>7, <2>8
  <1> QED
    BY <1>6, <1>9, <1>10, <1>11 DEF Decodes, CanWrite

\* Where the parts of a SUBSCRIBE stand behind a header h.
SubscribeLaid(h, n, t, d) ==
    /\ Short(n) \o Str(t) \o d \in Seq(Byte)
    /\ Len(Short(n) \o Str(t) \o d) = 2 + Len(t) + 2 + Len(d)
    /\ ShortAt(h \o (Short(n) \o Str(t) \o d), Len(h) + 1) = n
    /\ ShortAt(h \o (Short(n) \o Str(t) \o d), Len(h) + 3) = Len(t)
    /\ StringAt(h \o (Short(n) \o Str(t) \o d), Len(h) + 3) = t
    /\ RestFrom(h \o (Short(n) \o Str(t) \o d), Len(h) + 5 + Len(t)) = d

\* Behind any header h, so are the parts of a SUBSCRIBE.
LEMMA SubscribeParts ==
  ASSUME NEW h \in Seq(Byte), NEW n \in Nat, n <= Max16,
         NEW t \in Seq(Byte), Len(t) <= Max16, NEW d \in Seq(Byte)
  PROVE  SubscribeLaid(h, n, t, d)
  <1> DEFINE i == Short(n)
             s == Str(t)
             b == h \o (i \o s \o d)
             hi == h \o i
             his == hi \o s
  <1>1. /\ i \in Seq(Byte) /\ Len(i) = 2
        /\ s \in Seq(Byte) /\ Len(s) = 2 + Len(t) /\ Len(t) \in Nat
    BY ShortFacts, StrFacts
  <1> HIDE DEF i, s
  <1>2. Joins(h, i, s, d)
    BY <1>1, FourJoined
  <1>3. /\ i \o s \o d \in Seq(Byte)
        /\ Len(i \o s \o d) = Len(i) + Len(s) + Len(d)
        /\ b = hi \o (s \o d)
        /\ b = his \o d
        /\ hi \in Seq(Byte) /\ Len(hi) = Len(h) + Len(i)
        /\ s \o d \in Seq(Byte)
        /\ his \in Seq(Byte) /\ Len(his) = Len(h) + Len(i) + Len(s)
        /\ Len(h) \in Nat /\ Len(i) \in Nat /\ Len(s) \in Nat /\ Len(d) \in Nat
    BY <1>2 DEF Joins
  <1>4. ShortAt(h \o i \o (s \o d), Len(h) + 1) = n
    BY <1>3, ShortRead DEF i
  <1>5. b = h \o i \o (s \o d)
    BY <1>3
  <1> HIDE DEF hi, his, b
  <1>6. ShortAt(hi \o s \o d, Len(hi) + 1) = Len(t) /\ StringAt(hi \o s \o d, Len(hi) + 1) = t
    BY <1>3, StringRead DEF s
  <1>7. hi \o s \o d = b
    BY <1>3 DEF his
  <1>8. RestFrom(his \o d, Len(his) + 1) = d
    BY <1>3, RestRead
  <1>9. /\ Len(hi) + 1 = Len(h) + 3
        /\ Len(his) + 1 = Len(h) + 5 + Len(t)
        /\ Len(i) + Len(s) + Len(d) = 2 + Len(t) + 2 + Len(d)
    BY <1>1, <1>3
  <1>10. /\ i \o s \o d \in Seq(Byte)
         /\ Len(i \o s \o d) = 2 + Len(t) + 2 + Len(d)
         /\ ShortAt(b, Len(h) + 1) = n
         /\ ShortAt(b, Len(h) + 3) = Len(t)
         /\ StringAt(b, Len(h) + 3) = t
         /\ RestFrom(b, Len(h) + 5 + Len(t)) = d
    BY <1>3, <1>4, <1>5, <1>6, <1>7, <1>8, <1>9
  <1> QED
    BY <1>10 DEF i, s, b, SubscribeLaid

\* A SUBSCRIBE the client writes is read as it was meant (mqtt_msg_subscribe).
LEMMA SubscribeDecodes ==
  ASSUME NEW m, CanWrite(m), m.type = SUBSCRIBE
  PROVE  Decodes(Encoded(m), m)
  <1> DEFINE first == 130
             body == Short(m.id) \o Str(m.topic) \o m.data
             b == Finish(first, body)
             h == Header(first, Len(body))
  <1>1. /\ m.id \in Nat /\ m.id <= Max16 /\ m.qos = 0
        /\ m.topic \in Seq(Byte) /\ m.data \in Seq(Byte)
        /\ Len(m.topic) \in Nat /\ Len(m.data) \in Nat
    BY FieldFacts, LenProperties DEF CanWrite
  <1>2. m = [type |-> SUBSCRIBE, qos |-> 0, id |-> m.id, topic |-> m.topic, data |-> m.data]
    BY <1>1, FieldFacts DEF CanWrite
  <1>3. Len(m.topic) <= Max16 /\ m.topic # <<>>
    BY <1>1, Max14Facts, EmptySeq DEF CanWrite, Regular
  <1>4. Encoded(m) = b
    BY <1>3 DEF Encoded, mqtt_msg_subscribe
  <1>5. /\ body \in Seq(Byte)
        /\ Len(body) = 2 + Len(m.topic) + 2 + Len(m.data)
    <2>1. SubscribeLaid(<<>>, m.id, m.topic, m.data)
      BY <1>1, <1>3, EmptySeq, SubscribeParts
    <2> QED
      BY <2>1 DEF SubscribeLaid
  <1>6. h \in Seq(Byte) =>
         /\ ShortAt(h \o body, Len(h) + 1) = m.id
         /\ ShortAt(h \o body, Len(h) + 3) = Len(m.topic)
         /\ StringAt(h \o body, Len(h) + 3) = m.topic
         /\ RestFrom(h \o body, Len(h) + 5 + Len(m.topic)) = m.data
    <2> HIDE DEF h
    <2>1. h \in Seq(Byte) => SubscribeLaid(h, m.id, m.topic, m.data)
      BY <1>1, <1>3, SubscribeParts
    <2> QED
      BY <2>1 DEF SubscribeLaid
  <1>7. first \in Byte /\ first \div 16 = SUBSCRIBE
    BY DEF Byte
  <1> HIDE DEF body, first
  <1>8. /\ b \in Seq(Byte)
        /\ b = <<>> => 3 + Len(body) > OutLen
        /\ 3 + Len(body) > OutLen => b = <<>>
        /\ b # <<>> => /\ b = h \o body
                       /\ h \in Seq(Byte) /\ Len(h) \in Nat /\ Len(h) >= 2 /\ Len(h) <= 3
                       /\ b[1] = first
                       /\ BodyAt(b) = Len(h) + 1
                       /\ Announced(b) + BodyAt(b) - 1 = Len(b)
                       /\ Len(b) <= OutLen
    BY <1>5, <1>7, FinishFacts
  <1> HIDE DEF b, h
  <1>9. Len(body) = BodySize(m)
    <2>1. BodySize(m) = 2 + Len(m.topic) + 2 + Len(m.data)
      BY <1>3 DEF BodySize, CanWrite
    <2> QED
      BY <1>5, <2>1
  <1>10. ASSUME b # <<>>
         PROVE  ReadByBroker(b) = m
    <2>1. /\ b = h \o body /\ h \in Seq(Byte)
          /\ b[1] = first /\ BodyAt(b) = Len(h) + 1 /\ Len(h) \in Nat
      BY <1>8, <1>10
    <2>2. b[1] \div 16 = SUBSCRIBE
      BY <1>7, <2>1
    <2>3. ReadByBroker(b) = ReadSubscribe(b)
      BY <2>2 DEF ReadByBroker
    <2>4. /\ BodyAt(b) + 2 = Len(h) + 3
          /\ BodyAt(b) + 4 + Len(m.topic) = Len(h) + 5 + Len(m.topic)
      BY <1>1, <2>1
    <2>5. /\ ShortAt(b, BodyAt(b)) = m.id
          /\ StringAt(b, BodyAt(b) + 2) = m.topic
          /\ RestFrom(b, BodyAt(b) + 4 + ShortAt(b, BodyAt(b) + 2)) = m.data
      BY <1>6, <2>1, <2>4
    <2> QED
      BY <1>2, <2>3, <2>5 DEF ReadSubscribe
  <1> QED
    BY <1>4, <1>8, <1>9, <1>10 DEF Decodes, CanWrite

\* So are the four acknowledgements (mqtt_msg_puback to mqtt_msg_pubcomp).
LEMMA AckDecodes ==
  ASSUME NEW m, CanWrite(m), m.type \in {PUBACK, PUBREC, PUBREL, PUBCOMP}
  PROVE  Decodes(Encoded(m), m)
  <1> DEFINE first == m.type * 16 + (IF m.type = PUBREL THEN 2 ELSE 0)
             body == Short(m.id)
             b == Finish(first, body)
             h == Header(first, Len(body))
  <1>1. m.id \in Nat /\ m.id <= Max16
    BY FieldFacts DEF CanWrite
  <1>2. m = Plain(m.type, m.id)
    BY DEF CanWrite, Regular
  <1>3. Encoded(m) = b
    BY DEF Encoded, mqtt_msg_ack
  <1>4. body \in Seq(Byte) /\ Len(body) = 2
    BY <1>1, ShortFacts
  <1>5. first \in Byte /\ first \div 16 = m.type
    BY DEF Byte
  <1>6. h \in Seq(Byte) => ShortAt(h \o body, Len(h) + 1) = m.id
    <2> HIDE DEF h
    <2>1. ASSUME h \in Seq(Byte)
          PROVE  ShortAt(h \o body \o <<>>, Len(h) + 1) = m.id
      BY <1>1, <2>1, ShortRead, EmptySeq
    <2>2. ASSUME h \in Seq(Byte)
          PROVE  h \o body \o <<>> = h \o body
      BY <1>4, <2>2, Joined, ConcatEmptySeq
    <2> QED
      BY <2>1, <2>2
  <1> HIDE DEF body, first
  <1>7. /\ b \in Seq(Byte)
        /\ b = <<>> => 3 + Len(body) > OutLen
        /\ b # <<>> => /\ b = h \o body
                       /\ h \in Seq(Byte)
                       /\ b[1] = first
                       /\ BodyAt(b) = Len(h) + 1
                       /\ Announced(b) + BodyAt(b) - 1 = Len(b)
                       /\ Len(b) <= OutLen
    BY <1>4, <1>5, FinishFacts
  <1> HIDE DEF b, h
  <1>8. Len(body) = BodySize(m)
    <2>1. m.topic = <<>> /\ m.data = <<>> /\ m.qos = 0
      BY <1>2 DEF Plain
    <2>2. Len(m.data) = 0
      BY <2>1, EmptySeq
    <2> QED
      BY <1>4, <2>1, <2>2 DEF BodySize
  <1>9. ASSUME b # <<>>
        PROVE  ReadByBroker(b) = m
    <2>1. b[1] \div 16 = m.type /\ ShortAt(b, BodyAt(b)) = m.id
      BY <1>5, <1>6, <1>7, <1>9
    <2>2. ReadByBroker(b) = Plain(m.type, m.id)
      BY <2>1 DEF ReadByBroker
    <2> QED
      BY <1>2, <2>2
  <1> QED
    BY <1>3, <1>7, <1>8, <1>9 DEF Decodes, CanWrite

\* So are PINGREQ and PINGRESP.
LEMMA PingDecodes ==
  ASSUME NEW m, CanWrite(m), m.type \in {PINGREQ, PINGRESP}
  PROVE  Decodes(Encoded(m), m)
  <1> DEFINE first == m.type * 16
             b == Finish(first, <<>>)
  <1>1. m = Plain(m.type, 0)
    BY DEF CanWrite, Regular
  <1>2. Encoded(m) = b
    BY DEF Encoded, mqtt_msg_ping
  <1>3. first \in Byte /\ first \div 16 = m.type
    BY DEF Byte
  <1>4. <<>> \in Seq(Byte) /\ Len(<<>>) = 0
    BY EmptySeq
  <1> HIDE DEF first
  <1>5. /\ b \in Seq(Byte)
        /\ b = <<>> => 3 + Len(<<>>) > OutLen
        /\ b # <<>> => /\ b[1] = first
                       /\ Announced(b) + BodyAt(b) - 1 = Len(b)
                       /\ Len(b) <= OutLen
    BY <1>3, <1>4, FinishFacts
  <1> HIDE DEF b
  <1>6. 0 = BodySize(m)
    <2>1. m.topic = <<>> /\ m.data = <<>> /\ m.qos = 0
      BY <1>1 DEF Plain
    <2>2. Len(m.data) = 0
      BY <1>4, <2>1
    <2> QED
      BY <2>1, <2>2 DEF BodySize
  <1>7. ASSUME b # <<>>
        PROVE  ReadByBroker(b) = m
    <2>1. b[1] \div 16 = m.type
      BY <1>3, <1>5, <1>7
    <2>2. ReadByBroker(b) = Plain(m.type, 0)
      BY <2>1 DEF ReadByBroker
    <2> QED
      BY <1>1, <2>2
  <1> QED
    BY <1>2, <1>4, <1>5, <1>6, <1>7 DEF Decodes, CanWrite

\* Three sequences of bytes, one behind the other.
Grows(a, b, c) ==
    /\ (a \o b) \o c = a \o (b \o c)
    /\ a \o b \in Seq(Byte) /\ Len(a \o b) = Len(a) + Len(b)

\* Grows holds of any three sequences of bytes.
LEMMA Grown ==
  ASSUME NEW a \in Seq(Byte), NEW b \in Seq(Byte), NEW c \in Seq(Byte)
  PROVE  Grows(a, b, c)
  BY Regrouped, Joined DEF Grows

\* Where the parts of a CONNECT stand behind a header h: the protocol p, the
\* keepalive k, the client c, the user u and the password w.
ConnectBody(p, k, c, u, w) == p \o Short(k) \o Str(c) \o StrIf(u) \o StrIf(w)

ConnectLaid(h, p, k, c, u, w) ==
    /\ ConnectBody(p, k, c, u, w) \in Seq(Byte)
    /\ Len(ConnectBody(p, k, c, u, w))
         = Len(p) + 2 + (2 + Len(c)) + Len(StrIf(u)) + Len(StrIf(w))
    /\ \A i \in 1..Len(p) : (h \o ConnectBody(p, k, c, u, w))[Len(h) + i] = p[i]
    /\ ShortAt(h \o ConnectBody(p, k, c, u, w), Len(h) + Len(p) + 1) = k
    /\ StringAt(h \o ConnectBody(p, k, c, u, w), Len(h) + Len(p) + 3) = c
    /\ u # <<>> =>
         StringAt(h \o ConnectBody(p, k, c, u, w), Len(h) + Len(p) + 5 + Len(c)) = u
    /\ w # <<>> =>
         StringAt(h \o ConnectBody(p, k, c, u, w),
                  Len(h) + Len(p) + 5 + Len(c) + Len(StrIf(u))) = w

\* Behind any header h, the strings of a CONNECT are where a reader looks for them.
LEMMA ConnectParts ==
  ASSUME NEW h \in Seq(Byte), NEW p \in Seq(Byte), NEW k \in Nat, k <= Max16,
         NEW c \in Seq(Byte), Len(c) <= Max16, NEW u \in Seq(Byte), Len(u) <= Max16,
         NEW w \in Seq(Byte), Len(w) <= Max16
  PROVE  ConnectLaid(h, p, k, c, u, w)
  <1> DEFINE K == Short(k)
             C == Str(c)
             U == StrIf(u)
             W == StrIf(w)
             q1 == p \o K
             q2 == q1 \o C
             q3 == q2 \o U
             q4 == q3 \o W
             p0 == h \o p
             p1 == p0 \o K
             p2 == p1 \o C
             p3 == p2 \o U
             b == h \o q4
  <1>1. /\ K \in Seq(Byte) /\ Len(K) = 2
        /\ C \in Seq(Byte) /\ Len(C) = 2 + Len(c) /\ Len(c) \in Nat
        /\ U \in Seq(Byte) /\ W \in Seq(Byte)
        /\ u # <<>> => U = Str(u)
        /\ w # <<>> => W = Str(w)
    BY ShortFacts, StrFacts, StrIfFacts DEF StrIf
  <1> HIDE DEF K, C, U, W
  <1>2. /\ Len(h) \in Nat /\ Len(p) \in Nat /\ Len(U) \in Nat /\ Len(W) \in Nat
        /\ q1 \in Seq(Byte) /\ Len(q1) = Len(p) + Len(K)
        /\ p0 \in Seq(Byte) /\ Len(p0) = Len(h) + Len(p)
        /\ \A i \in 1..Len(p) : p0[Len(h) + i] = p[i]
    BY <1>1, Joined
  <1>3. h \o q1 = p1
    <2>1. Grows(h, p, K)
      BY <1>1, Grown
    <2> QED
      BY <2>1 DEF Grows
  <1> HIDE DEF q1, p0
  <1>4. /\ q2 \in Seq(Byte) /\ Len(q2) = Len(q1) + Len(C)
        /\ p1 \in Seq(Byte) /\ Len(p1) = Len(p0) + Len(K)
    BY <1>1, <1>2, Joined
  <1>5. h \o q2 = p2
    <2>1. Grows(h, q1, C)
      BY <1>1, <1>2, Grown
    <2> QED
      BY <1>3, <2>1 DEF Grows
  <1> HIDE DEF q2, p1
  <1>6. /\ q3 \in Seq(Byte) /\ Len(q3) = Len(q2) + Len(U)
        /\ p2 \in Seq(Byte) /\ Len(p2) = Len(p1) + Len(C)
    BY <1>1, <1>4, Joined
  <1>7. h \o q3 = p3
    <2>1. Grows(h, q2, U)
      BY <1>1, <1>4, Grown
    <2> QED
      BY <1>5, <2>1 DEF Grows
  <1> HIDE DEF q3, p2
  <1>8. /\ q4 \in Seq(Byte) /\ Len(q4) = Len(q3) + Len(W)
        /\ p3 \in Seq(Byte) /\ Len(p3) = Len(p2) + Len(U)
    <2>1. Grows(q3, W, W) /\ Grows(p2, U, U)
      BY <1>1, <1>6, Grown
    <2> QED
      BY <2>1 DEF Grows
  <1>9. b = p3 \o W
    <2>1. Grows(h, q3, W)
      BY <1>1, <1>6, Grown
    <2> QED
      BY <1>7, <2>1 DEF Grows
  <1> HIDE DEF q4, p3, b
  <1> DEFINE UW == U \o W
             CUW == C \o UW
             KCUW == K \o CUW
  <1>10. UW \in Seq(Byte)
    BY <1>1, Joined
  <1>11. b = p2 \o UW
    <2>1. Grows(p2, U, W)
      BY <1>1, <1>6, Grown
    <2> QED
      BY <1>9, <2>1 DEF p3, Grows
  <1> HIDE DEF UW
  <1>12. CUW \in Seq(Byte)
    BY <1>1, <1>10, Joined
  <1>13. b = p1 \o CUW
    <2>1. Grows(p1, C, UW)
      BY <1>1, <1>4, <1>10, Grown
    <2> QED
      BY <1>11, <2>1 DEF p2, Grows
  <1> HIDE DEF CUW
  <1>14. KCUW \in Seq(Byte)
    BY <1>1, <1>12, Joined
  <1>15. b = p0 \o KCUW
    <2>1. Grows(p0, K, CUW)
      BY <1>1, <1>2, <1>12, Grown
    <2> QED
      BY <1>13, <2>1 DEF p1, Grows
  <1> HIDE DEF KCUW
  <1>16. ASSUME NEW i \in 1..Len(p)
         PROVE  b[Len(h) + i] = p[i]
    <2>1. Len(h) + i \in 1..Len(p0)
      BY <1>2
    <2>2. \A j \in 1..Len(p0) : (p0 \o KCUW)[j] = p0[j]
      BY <1>2, <1>14, Joined
    <2> QED
      BY <1>2, <1>15, <2>1, <2>2
  <1>17. ShortAt(b, Len(h) + Len(p) + 1) = k
    <2>1. ShortAt(p0 \o Short(k) \o CUW, Len(p0) + 1) = k
      BY <1>2, <1>12, ShortRead
    <2>2. b = p0 \o Short(k) \o CUW
      BY <1>13 DEF p1, K
    <2> QED
      BY <1>2, <2>1, <2>2
  <1>18. StringAt(b, Len(h) + Len(p) + 3) = c
    <2>1. StringAt(p1 \o Str(c) \o UW, Len(p1) + 1) = c
      BY <1>4, <1>10, StringRead
    <2>2. b = p1 \o Str(c) \o UW
      BY <1>11 DEF p2, C
    <2>3. Len(p1) + 1 = Len(h) + Len(p) + 3
      BY <1>1, <1>2, <1>4
    <2> QED
      BY <2>1, <2>2, <2>3
  <1>19. ASSUME u # <<>>
         PROVE  StringAt(b, Len(h) + Len(p) + 5 + Len(c)) = u
    <2>1. StringAt(p2 \o Str(u) \o W, Len(p2) + 1) = u
      BY <1>1, <1>6, StringRead
    <2>2. b = p2 \o Str(u) \o W
      BY <1>1, <1>9, <1>19 DEF p3
    <2>3. Len(p2) + 1 = Len(h) + Len(p) + 5 + Len(c)
      BY <1>1, <1>2, <1>4, <1>6
    <2> QED
      BY <2>1, <2>2, <2>3
  <1>20. ASSUME w # <<>>
         PROVE  StringAt(b, Len(h) + Len(p) + 5 + Len(c) + Len(U)) = w
    <2>1. StringAt(p3 \o Str(w) \o <<>>, Len(p3) + 1) = w
      BY <1>8, StringRead, EmptySeq
    <2>2. b = p3 \o Str(w) /\ b \in Seq(Byte)
      BY <1>1, <1>8, <1>9, <1>20, Joined
    <2>3. b = p3 \o Str(w) \o <<>>
      BY <2>2, ConcatEmptySeq
    <2>4. Len(p3) + 1 = Len(h) + Len(p) + 5 + Len(c) + Len(U)
      BY <1>1, <1>2, <1>4, <1>6, <1>8
    <2> QED
      BY <2>1, <2>3, <2>4
  <1>21. Len(q4) = Len(p) + 2 + (2 + Len(c)) + Len(U) + Len(W)
    BY <1>1, <1>2, <1>4, <1>6, <1>8
  <1>22. q4 = ConnectBody(p, k, c, u, w)
    BY DEF q4, q3, q2, q1, K, C, U, W, ConnectBody
  <1>23. /\ q4 \in Seq(Byte)
         /\ Len(q4) = Len(p) + 2 + (2 + Len(c)) + Len(U) + Len(W)
         /\ \A i \in 1..Len(p) : b[Len(h) + i] = p[i]
         /\ ShortAt(b, Len(h) + Len(p) + 1) = k
         /\ StringAt(b, Len(h) + Len(p) + 3) = c
         /\ u # <<>> => StringAt(b, Len(h) + Len(p) + 5 + Len(c)) = u
         /\ w # <<>> => StringAt(b, Len(h) + Len(p) + 5 + Len(c) + Len(U)) = w
    BY <1>8, <1>16, <1>17, <1>18, <1>19, <1>20, <1>21
  <1> QED
    BY <1>22, <1>23 DEF b, U, W, ConnectLaid

\* What the flags of a CONNECT tell.
LEMMA FlagsFacts ==
  ASSUME NEW info, info.clean \in BOOLEAN
  PROVE  /\ ConnectFlags(info) \in Byte
         /\ ConnectFlags(info) >= 128 <=> info.username # <<>>
         /\ (ConnectFlags(info) \div 64) % 2 = 1 <=> info.password # <<>>
         /\ ((ConnectFlags(info) \div 2) % 2 = 1) = info.clean
  <1> DEFINE F(c, u, w) == 2 * c + u + w
  <1>1. \A c \in {0, 1} : \A u \in {0, 128} : \A w \in {0, 64} :
          /\ F(c, u, w) \in Byte
          /\ F(c, u, w) >= 128 <=> u = 128
          /\ (F(c, u, w) \div 64) % 2 = 1 <=> w = 64
          /\ (F(c, u, w) \div 2) % 2 = 1 <=> c = 1
    <2> TAKE c \in {0, 1}, u \in {0, 128}, w \in {0, 64}
    <2> QED
      BY DEF Byte
  <1> HIDE DEF F
  <1> DEFINE c == IF info.clean THEN 1 ELSE 0
             u == IF info.username # <<>> THEN 128 ELSE 0
             w == IF info.password # <<>> THEN 64 ELSE 0
  <1>2. /\ c \in {0, 1} /\ u \in {0, 128} /\ w \in {0, 64}
        /\ u = 128 <=> info.username # <<>>
        /\ w = 64 <=> info.password # <<>>
        /\ c = 1 <=> info.clean
    OBVIOUS
  <1>3. ConnectFlags(info) = F(c, u, w)
    BY DEF ConnectFlags, F
  <1> HIDE DEF c, u, w
  <1> QED
    BY <1>1, <1>2, <1>3

\* A CONNECT of any configuration fits, and is read as it was meant (mqtt_msg_connect).
LEMMA ConnectDecodes ==
  ASSUME NEW info \in Infos
  PROVE  /\ Decodes(mqtt_msg_connect(info), info)
         /\ mqtt_msg_connect(info) # <<>>
         /\ Len(mqtt_msg_connect(info)) >= 4
  <1> DEFINE flags == ConnectFlags(info)
             p == <<0, 4, 77, 81, 84, 84, 4, flags>>
             u == info.username
             w == info.password
             body == ConnectBody(p, info.keepalive, info.client, u, w)
             first == 16
             b == Finish(first, body)
             h == Header(first, Len(body))
  <1>1. /\ info.client \in Seq(Byte) /\ info.client # <<>>
        /\ info.clean \in BOOLEAN
        /\ info.keepalive \in Nat /\ info.keepalive <= Max16
        /\ u \in Seq(Byte) /\ w \in Seq(Byte)
        /\ 3 + ConnectSize(info) <= OutLen
    BY MessageAssumption, Max14Facts DEF ConnectInfo
  <1>2. info = [client |-> info.client, clean |-> info.clean, keepalive |-> info.keepalive,
                username |-> u, password |-> w]
    BY MessageAssumption DEF ConnectInfo
  <1>3. /\ Len(info.client) \in Nat /\ Len(u) \in Nat /\ Len(w) \in Nat
        /\ Len(info.client) <= Max16 /\ Len(u) <= Max16 /\ Len(w) <= Max16
    <2>1. Len(info.client) \in Nat /\ Len(u) \in Nat /\ Len(w) \in Nat
      BY <1>1, LenProperties
    <2>2. Len(<<>>) = 0
      BY EmptySeq
    <2> DEFINE us == IF u # <<>> THEN 2 + Len(u) ELSE 0
               ws == IF w # <<>> THEN 2 + Len(w) ELSE 0
    <2>3. ConnectSize(info) = 10 + 2 + Len(info.client) + us + ws
      BY DEF ConnectSize
    <2>4. us \in Nat /\ us >= Len(u) /\ ws \in Nat /\ ws >= Len(w)
      BY <2>1, <2>2
    <2> DEFINE cs == Len(info.client)
    <2> HIDE DEF us, ws, cs
    <2>5. 3 + (10 + 2 + cs + us + ws) <= OutLen
      BY <1>1, <2>3 DEF cs
    <2>6. cs \in Nat
      BY <2>1 DEF cs
    <2>7. cs <= Max16 /\ us <= Max16 /\ ws <= Max16
      BY <2>4, <2>5, <2>6, SizeFacts, Max14Facts
    <2> QED
      BY <2>1, <2>4, <2>7, Max14Facts DEF cs
  <1>4. /\ flags \in Byte
        /\ flags >= 128 <=> u # <<>>
        /\ (flags \div 64) % 2 = 1 <=> w # <<>>
        /\ ((flags \div 2) % 2 = 1) = info.clean
    BY <1>1, FlagsFacts
  <1> HIDE DEF flags
  <1>5. p \in Seq(Byte) /\ Len(p) = 8 /\ p[8] = flags
    <2>1. 0 \in Byte /\ 4 \in Byte /\ 77 \in Byte /\ 81 \in Byte /\ 84 \in Byte
      BY DEF Byte
    <2> QED
      BY <1>4, <2>1
  <1>6. mqtt_msg_connect(info) = b
    BY <1>1 DEF mqtt_msg_connect, ConnectBody, flags
  <1> HIDE DEF p
  <1>7. /\ Len(StrIf(u)) = IF u # <<>> THEN 2 + Len(u) ELSE 0
        /\ Len(StrIf(w)) = IF w # <<>> THEN 2 + Len(w) ELSE 0
    BY <1>1, <1>3, StrIfFacts
  <1>8. /\ body \in Seq(Byte)
        /\ Len(body) = 8 + 2 + (2 + Len(info.client)) + Len(StrIf(u)) + Len(StrIf(w))
    <2>1. ConnectLaid(<<>>, p, info.keepalive, info.client, u, w)
      BY <1>1, <1>3, <1>5, EmptySeq, ConnectParts
    <2> QED
      BY <1>5, <2>1 DEF ConnectLaid
  <1>9. h \in Seq(Byte) =>
         /\ (h \o body)[Len(h) + 8] = flags
         /\ ShortAt(h \o body, Len(h) + 8 + 1) = info.keepalive
         /\ StringAt(h \o body, Len(h) + 8 + 3) = info.client
         /\ u # <<>> => StringAt(h \o body, Len(h) + 8 + 5 + Len(info.client)) = u
         /\ w # <<>> =>
              StringAt(h \o body, Len(h) + 8 + 5 + Len(info.client) + Len(StrIf(u))) = w
    <2> HIDE DEF h
    <2>1. h \in Seq(Byte) => ConnectLaid(h, p, info.keepalive, info.client, u, w)
      BY <1>1, <1>3, <1>5, ConnectParts
    <2>2. 8 \in 1..Len(p)
      BY <1>5
    <2> QED
      BY <1>5, <2>1, <2>2 DEF ConnectLaid
  <1>10. first \in Byte /\ first \div 16 = CONNECT
    BY DEF Byte
  <1> HIDE DEF body, first
  <1>11. /\ b \in Seq(Byte)
         /\ b = <<>> => 3 + Len(body) > OutLen
         /\ b # <<>> => /\ b = h \o body
                        /\ h \in Seq(Byte) /\ Len(h) \in Nat /\ Len(h) >= 2 /\ Len(h) <= 3
                        /\ b[1] = first
                        /\ BodyAt(b) = Len(h) + 1
                        /\ Announced(b) + BodyAt(b) - 1 = Len(b)
                        /\ Len(b) <= OutLen
    BY <1>8, <1>10, FinishFacts
  <1> HIDE DEF b, h
  <1>12. Len(body) \in Nat /\ Len(body) >= 12 /\ 3 + Len(body) <= OutLen
    <2> DEFINE us == Len(StrIf(u))
               ws == Len(StrIf(w))
    <2>1. ConnectSize(info) = 10 + 2 + Len(info.client) + us + ws
      BY <1>7 DEF ConnectSize
    <2>2. us \in Nat /\ ws \in Nat
      BY <1>3, <1>7
    <2> HIDE DEF us, ws
    <2>3. Len(body) = 8 + 2 + (2 + Len(info.client)) + us + ws
      BY <1>8 DEF us, ws
    <2>4. 3 + (10 + 2 + Len(info.client) + us + ws) <= OutLen
      BY <1>1, <2>1
    <2> QED
      BY <1>3, <2>2, <2>3, <2>4, SizeFacts
  <1>13. b # <<>>
    BY <1>11, <1>12, SizeFacts
  <1>14. Len(b) >= 4
    <2>1. b = h \o body /\ h \in Seq(Byte)
      BY <1>11, <1>13
    <2>2. Len(h \o body) = Len(h) + Len(body)
      BY <1>8, <2>1, Joined
    <2> QED
      BY <1>11, <1>12, <1>13, <2>1, <2>2
  <1>15. ReadByBroker(b) = info
    <2>1. /\ b = h \o body /\ h \in Seq(Byte) /\ Len(h) \in Nat
          /\ b[1] = first /\ BodyAt(b) = Len(h) + 1
      BY <1>11, <1>13
    <2>2. ReadByBroker(b) = ReadConnect(b)
      BY <1>10, <2>1 DEF ReadByBroker
    <2> DEFINE n == Len(h)
               cs == Len(info.client)
               us == Len(u)
    <2>a. n \in Nat /\ cs \in Nat /\ us \in Nat
      BY <1>3, <2>1
    <2> HIDE DEF n, cs, us
    <2>b. /\ (n + 1) + 7 = n + 8
          /\ (n + 1) + 8 = n + 8 + 1
          /\ (n + 1) + 10 = n + 8 + 3
          /\ (n + 1) + 12 + cs = n + 8 + 5 + cs
          /\ (n + 1) + 12 + cs + 2 + us = n + 8 + 5 + cs + (2 + us)
          /\ (n + 1) + 12 + cs = n + 8 + 5 + cs + 0
      BY <2>a
    <2>3. /\ BodyAt(b) + 7 = Len(h) + 8
          /\ BodyAt(b) + 8 = Len(h) + 8 + 1
          /\ BodyAt(b) + 10 = Len(h) + 8 + 3
          /\ BodyAt(b) + 12 + Len(info.client) = Len(h) + 8 + 5 + Len(info.client)
          /\ BodyAt(b) + 12 + Len(info.client) + 2 + Len(u)
               = Len(h) + 8 + 5 + Len(info.client) + (2 + Len(u))
          /\ BodyAt(b) + 12 + Len(info.client) = Len(h) + 8 + 5 + Len(info.client) + 0
      BY <2>1, <2>b DEF n, cs, us
    <2>4. /\ b[BodyAt(b) + 7] = flags
          /\ ShortAt(b, BodyAt(b) + 8) = info.keepalive
          /\ StringAt(b, BodyAt(b) + 10) = info.client
      BY <1>9, <2>1, <2>3
    <2> DEFINE userAt == BodyAt(b) + 12 + Len(info.client)
               user == IF flags >= 128 THEN StringAt(b, userAt) ELSE <<>>
               passAt == IF flags >= 128 THEN userAt + 2 + Len(user) ELSE userAt
               pass == IF (flags \div 64) % 2 = 1 THEN StringAt(b, passAt) ELSE <<>>
    <2>5. u # <<>> => StringAt(b, userAt) = u
      BY <1>9, <2>1, <2>3
    <2>6. user = u
      BY <1>4, <2>5
    <2> HIDE DEF user
    <2>7. passAt = Len(h) + 8 + 5 + Len(info.client) + Len(StrIf(u))
      BY <1>4, <1>7, <2>3, <2>6
    <2> HIDE DEF passAt
    <2>8. pass = w
      BY <1>4, <1>9, <2>1, <2>7
    <2>9. ReadConnect(b) = [client |-> StringAt(b, BodyAt(b) + 10),
                            clean |-> (flags \div 2) % 2 = 1,
                            keepalive |-> ShortAt(b, BodyAt(b) + 8),
                            username |-> user, password |-> pass]
      BY <2>4 DEF ReadConnect, user, passAt
    <2> HIDE DEF pass
    <2> QED
      BY <1>2, <1>4, <2>2, <2>4, <2>6, <2>8, <2>9
  <1> QED
    BY <1>6, <1>11, <1>13, <1>14, <1>15 DEF Decodes
-----------------------------------------------------------------------------
(* What the client reads of a message of the broker.                       *)

\* The powers of 128 up to the fourth.
Power(i) == 128^i

\* The powers of 128 that a remaining length of four bytes uses.
LEMMA Powers ==
  /\ Power(0) = 1 /\ Power(1) = 128 /\ Power(2) = 16384 /\ Power(3) = 2097152
  /\ Power(4) = 268435456
  BY SMT DEF Power

\* The digits of a number that four bytes write.
LEMMA Digits ==
  ASSUME NEW n \in Nat
  PROVE  /\ n < Power(1) => n % 128 = n
         /\ n < Power(2) => /\ (n % 128) + (n \div 128) * 128 = n
                            /\ (n \div 128) % 128 = n \div 128
         /\ n < Power(3) => /\ (n % 128) + ((n \div 128) % 128) * 128 + (n \div 16384) * 16384 = n
                            /\ (n \div 16384) % 128 = n \div 16384
         /\ n < Power(4) => /\ (n % 128) + ((n \div 128) % 128) * 128
                               + ((n \div 16384) % 128) * 16384 + (n \div 2097152) * 2097152 = n
                            /\ (n \div 2097152) % 128 = n \div 2097152
  BY Powers, SMT

\* What the bytes l of a remaining length of k bytes announce.
Digit(l, k, i) == IF i <= k THEN (l[i] % 128) * Power(i - 1) ELSE 0

LengthLaid(n, l, k) ==
    /\ k \in Nat /\ k >= 1 /\ k <= 4
    /\ n < 128 => k = 1
    /\ l \in Seq(Byte) /\ Len(l) = k
    /\ \A i \in 1..(k - 1) : l[i] >= 128
    /\ l[k] < 128
    /\ Digit(l, k, 1) + Digit(l, k, 2) + Digit(l, k, 3) + Digit(l, k, 4) = n

\* What the broker writes as a remaining length has the digits of the number.
LEMMA LengthFacts ==
  ASSUME NEW n \in Nat, n < 128^4
  PROVE  \E k : LengthLaid(n, StandardLength(n), k)
  <1> DEFINE Takes(k) == n < Power(k) /\ (k = 1 \/ n >= Power(k - 1))
             k == CHOOSE j \in 1..4 : Takes(j)
             l == StandardLength(n)
             d(i) == (n \div Power(i - 1)) % 128
  <1>1. Takes(k) /\ k \in 1..4
    <2>1. n < Power(4)
      BY DEF Power
    <2>2. Power(1) \in Nat /\ Power(2) \in Nat /\ Power(3) \in Nat /\ Power(4) \in Nat
      BY Powers, SMT
    <2>3. Takes(1) \/ Takes(2) \/ Takes(3) \/ Takes(4)
      BY <2>1, <2>2
    <2>4. \E j \in 1..4 : Takes(j)
      BY <2>3
    <2> HIDE DEF Takes
    <2> QED
      BY <2>4
  <1>2. l = [i \in 1..k |-> d(i) + IF i < k THEN 128 ELSE 0]
    BY DEF StandardLength, Power
  <1>2a. n < 128 => k = 1
    <2>1. k = 1 \/ k - 1 = 1 \/ k - 1 = 2 \/ k - 1 = 3
      BY <1>1
    <2>2. Power(1) >= 128 /\ Power(2) >= 128 /\ Power(3) >= 128
      BY Powers, SMT
    <2>3. Power(1) \in Nat /\ Power(2) \in Nat /\ Power(3) \in Nat
      BY Powers, SMT
    <2> HIDE DEF k
    <2>4. k = 1 \/ n >= Power(k - 1)
      BY <1>1
    <2> QED
      BY <2>1, <2>2, <2>3, <2>4
  <1> HIDE DEF k, l
  <1>3. \A i \in 1..4 : d(i) \in Nat /\ d(i) < 128
    <2>1. \A i \in 1..4 : Power(i - 1) \in Nat /\ Power(i - 1) > 0
      <3>1. \A i \in 1..4 : i - 1 = 0 \/ i - 1 = 1 \/ i - 1 = 2 \/ i - 1 = 3
        OBVIOUS
      <3> QED
        BY <3>1, Powers, SMT
    <2>2. \A p \in Nat : p > 0 => n \div p \in Nat
      OBVIOUS
    <2>3. \A q \in Nat : q % 128 \in Nat /\ q % 128 < 128
      OBVIOUS
    <2> QED
      BY <2>1, <2>2, <2>3
  <1>4. /\ d(1) = n % 128 /\ d(2) = (n \div 128) % 128
        /\ d(3) = (n \div 16384) % 128 /\ d(4) = (n \div 2097152) % 128
    <2>1. 1 - 1 = 0 /\ 2 - 1 = 1 /\ 3 - 1 = 2 /\ 4 - 1 = 3 /\ n \div 1 = n
      OBVIOUS
    <2> QED
      BY <2>1, Powers, SMT
  <1> HIDE DEF d
  <1>5. /\ l \in Seq(Byte) /\ Len(l) = k
        /\ \A i \in 1..(k - 1) : l[i] >= 128
        /\ l[k] < 128
        /\ \A i \in 1..k : l[i] % 128 = d(i)
    <2>1. \A x \in Nat : x < 128 =>
            /\ x + 0 \in Byte /\ (x + 0) % 128 = x /\ x + 0 < 128
            /\ x + 128 \in Byte /\ (x + 128) % 128 = x /\ x + 128 >= 128
      BY DEF Byte
    <2>2. ASSUME NEW i \in 1..k
          PROVE  /\ l[i] \in Byte /\ l[i] % 128 = d(i)
                 /\ i < k => l[i] >= 128
                 /\ i = k => l[i] < 128
      <3>1. l[i] = d(i) + IF i < k THEN 128 ELSE 0
        BY <1>2
      <3>2. i \in 1..4 /\ k \in Nat
        BY <1>1
      <3>3. d(i) \in Nat /\ d(i) < 128
        BY <1>3, <3>2
      <3>4. CASE i < k
        <4>1. l[i] = d(i) + 128 /\ i # k
          BY <3>1, <3>2, <3>4
        <4> QED
          BY <2>1, <3>3, <4>1
      <3>5. CASE ~(i < k)
        <4>1. l[i] = d(i) + 0
          BY <3>1, <3>5
        <4> QED
          BY <2>1, <3>3, <3>5, <4>1
      <3> QED
        BY <3>4, <3>5
    <2>3. l \in Seq(Byte) /\ Len(l) = k
      <3>1. k \in Nat /\ l = [i \in 1..k |-> l[i]]
        BY <1>1, <1>2
      <3> QED
        BY <2>2, <3>1
    <2>4. k \in 1..k /\ \A i \in 1..(k - 1) : i \in 1..k /\ i < k
      BY <1>1
    <2> QED
      BY <2>2, <2>3, <2>4
  <1>6. Digit(l, k, 1) + Digit(l, k, 2) + Digit(l, k, 3) + Digit(l, k, 4) = n
    <2>1. \A i \in 1..4 : Digit(l, k, i) = IF i <= k THEN d(i) * Power(i - 1) ELSE 0
      BY <1>1, <1>5 DEF Digit
    <2>2. 1 - 1 = 0 /\ 2 - 1 = 1 /\ 3 - 1 = 2 /\ 4 - 1 = 3
      OBVIOUS
    <2>3. /\ Digit(l, k, 1) = IF 1 <= k THEN d(1) * 1 ELSE 0
          /\ Digit(l, k, 2) = IF 2 <= k THEN d(2) * 128 ELSE 0
          /\ Digit(l, k, 3) = IF 3 <= k THEN d(3) * 16384 ELSE 0
          /\ Digit(l, k, 4) = IF 4 <= k THEN d(4) * 2097152 ELSE 0
      BY <2>1, <2>2, Powers, SMT
    <2>4. CASE k = 1
      BY <1>1, <1>4, <2>3, <2>4, Digits, SMT
    <2>5. CASE k = 2
      BY <1>1, <1>4, <2>3, <2>5, Digits, SMT
    <2>6. CASE k = 3
      BY <1>1, <1>4, <2>3, <2>6, Digits, SMT
    <2>7. CASE k = 4
      BY <1>1, <1>4, <2>3, <2>7, Digits, SMT
    <2> QED
      BY <1>1, <2>4, <2>5, <2>6, <2>7
  <1> QED
    BY <1>1, <1>2a, <1>5, <1>6 DEF l, LengthLaid

\* Reading it from a buffer that holds it all.
LEMMA LengthRead ==
  ASSUME NEW n \in Nat, NEW l, NEW k, LengthLaid(n, l, k),
         NEW buf, NEW len \in Nat, len >= 1 + k, \A i \in 1..k : buf[i] = l[i]
  PROVE  /\ AfterLength(buf, len) = 1 + k
         /\ mqtt_get_total_length(buf, len) = {n + (1 + k)}
  <1>1. /\ k \in Nat /\ k >= 1 /\ k <= 4
        /\ \A i \in 1..k : l[i] \in Nat
        /\ \A i \in 1..(k - 1) : buf[i] >= 128
        /\ buf[k] < 128
    <2>1. /\ k \in Nat /\ k >= 1 /\ k <= 4 /\ l \in Seq(Byte) /\ Len(l) = k
          /\ \A i \in 1..(k - 1) : l[i] >= 128
          /\ l[k] < 128
      BY DEF LengthLaid
    <2>2. \A i \in 1..k : l[i] \in Byte
      BY <2>1, ElementOfSeq
    <2>3. k \in 1..k /\ \A i \in 1..(k - 1) : i \in 1..k
      BY <2>1
    <2>4. \A i \in 1..k : l[i] \in Nat
      <3>1. Byte \subseteq Nat
        BY DEF Byte
      <3> QED
        BY <2>2, <3>1
    <2> QED
      BY <2>1, <2>3, <2>4
  <1>2. AfterLength(buf, len) = 1 + k
    <2> DEFINE E(i) == EndsLength(buf, len, i)
    <2>1. k \in 1..(len - 1) /\ E(k)
      BY <1>1 DEF EndsLength
    <2>2. ASSUME NEW i \in 1..(len - 1), E(i)
          PROVE  i = k
      <3>1. CASE i < k
        <4>1. i \in 1..(k - 1) /\ i \in 1..k
          BY <1>1, <3>1
        <4>2. buf[i] >= 128 /\ buf[i] < 128 /\ buf[i] \in Nat
          BY <1>1, <2>2, <4>1 DEF EndsLength
        <4> QED
          BY <4>2
      <3>2. CASE i > k
        <4>1. k \in 1..(i - 1) /\ k \in 1..k
          BY <1>1, <3>2
        <4>2. buf[k] >= 128 /\ buf[k] < 128 /\ buf[k] \in Nat
          BY <1>1, <2>2, <4>1 DEF EndsLength
        <4> QED
          BY <4>2
      <3> QED
        BY <1>1, <3>1, <3>2
    <2> HIDE DEF E
    <2>3. (CHOOSE i \in 1..(len - 1) : E(i)) = k
      BY <2>1, <2>2
    <2>4. \E i \in 1..(len - 1) : E(i)
      BY <2>1
    <2>5. AfterLength(buf, len) = 1 + CHOOSE i \in 1..(len - 1) : E(i)
      BY <2>4 DEF AfterLength, E
    <2> QED
      BY <2>3, <2>5
  <1>3. \A i \in 1..4 : LengthPart(buf, len, i) = Digit(l, k, i)
    <2> TAKE i \in 1..4
    <2>1. i < 1 + k <=> i <= k
      BY <1>1
    <2>2. i <= k => buf[i] = l[i]
      BY <1>1
    <2> QED
      BY <1>2, <2>1, <2>2 DEF LengthPart, Digit, Power
  <1>4. RemainingLength(buf, len) = n
    <2>1. /\ LengthPart(buf, len, 1) = Digit(l, k, 1) /\ LengthPart(buf, len, 2) = Digit(l, k, 2)
          /\ LengthPart(buf, len, 3) = Digit(l, k, 3) /\ LengthPart(buf, len, 4) = Digit(l, k, 4)
      BY <1>3
    <2> QED
      BY <2>1 DEF RemainingLength, LengthLaid
  <1>5. AfterLength(buf, len) <= 5
    BY <1>1, <1>2
  <1> QED
    BY <1>2, <1>4, <1>5 DEF mqtt_get_total_length

Beside(a, b) ==
    /\ a \o b \in Seq(Byte)
    /\ Len(a) \in Nat /\ Len(b) \in Nat
    /\ Len(a \o b) = Len(a) + Len(b)
    /\ \A i \in 1..Len(a) : (a \o b)[i] = a[i]
    /\ \A i \in 1..Len(b) : (a \o b)[Len(a) + i] = b[i]

\* Beside holds of any two sequences of bytes.
LEMMA Besides ==
  ASSUME NEW a \in Seq(Byte), NEW b \in Seq(Byte)
  PROVE  Beside(a, b)
  BY Joined DEF Beside

\* The bytes of a message of the broker: the first, the k of the length l, the body.
StandardLaid(m, l, k) ==
    /\ LengthLaid(Len(StandardBody(m)), l, k)
    /\ Standard(m) \in Seq(Byte)
    /\ Len(Standard(m)) = 1 + k + Len(StandardBody(m))
    /\ Standard(m)[1] = m.type * 16 + m.qos * 2
    /\ \A i \in 1..k : Standard(m)[1 + i] = l[i]
    /\ \A i \in 1..Len(StandardBody(m)) : Standard(m)[1 + k + i] = StandardBody(m)[i]

\* Any message of the broker is its first byte, its length and its body.
LEMMA StandardParts ==
  ASSUME NEW m, m.type * 16 + m.qos * 2 \in Byte, StandardBody(m) \in Seq(Byte),
         Len(StandardBody(m)) < 128^4
  PROVE  \E k : StandardLaid(m, StandardLength(Len(StandardBody(m))), k)
  <1> DEFINE body == StandardBody(m)
             l == StandardLength(Len(body))
             first == <<m.type * 16 + m.qos * 2>>
             head == first \o l
             s == head \o body
  <1>1. Len(body) \in Nat
    BY LenProperties
  <1>2. PICK k : LengthLaid(Len(body), l, k)
    BY <1>1, LengthFacts
  <1>3. /\ k \in Nat /\ k >= 1 /\ l \in Seq(Byte) /\ Len(l) = k
        /\ first \in Seq(Byte) /\ Len(first) = 1 /\ first[1] = m.type * 16 + m.qos * 2
    BY <1>2 DEF LengthLaid
  <1>4. s = Standard(m)
    BY DEF Standard
  <1> HIDE DEF body, l, first
  <1>5. /\ head \in Seq(Byte) /\ Len(head) = 1 + k
        /\ head[1] = first[1]
        /\ \A i \in 1..k : head[1 + i] = l[i]
    <2>1. Beside(first, l)
      BY <1>3, Besides
    <2>2. 1 \in 1..Len(first)
      BY <1>3
    <2> QED
      BY <1>3, <2>1, <2>2 DEF Beside
  <1> HIDE DEF head
  <1>6. /\ s \in Seq(Byte) /\ Len(s) = 1 + k + Len(body)
        /\ \A i \in 1..(1 + k) : s[i] = head[i]
        /\ \A i \in 1..Len(body) : s[1 + k + i] = body[i]
    <2>1. Beside(head, body)
      BY <1>5, Besides DEF body
    <2> QED
      BY <1>5, <2>1 DEF Beside
  <1> HIDE DEF s
  <1>7. s[1] = first[1]
    <2>1. 1 \in 1..(1 + k)
      BY <1>3
    <2> QED
      BY <1>5, <1>6, <2>1
  <1>8. \A i \in 1..k : s[1 + i] = l[i]
    <2>1. \A i \in 1..k : 1 + i \in 1..(1 + k)
      BY <1>3
    <2> QED
      BY <1>5, <1>6, <2>1
  <1>9. StandardLaid(m, l, k)
    <2>1. s[1] = m.type * 16 + m.qos * 2
      BY <1>3, <1>7
    <2> QED
      BY <1>2, <1>4, <1>6, <1>8, <2>1 DEF StandardLaid, body
  <1> QED
    BY <1>9 DEF body, l

\* Where the parts of a PUBLISH stand in its body.
BodyLaid(m) ==
    /\ StandardBody(m) \in Seq(Byte)
    /\ Len(StandardBody(m)) = 2 + Len(m.topic) + Len(IdIf(m)) + Len(m.data)
    /\ ShortAt(StandardBody(m), 1) = Len(m.topic)
    /\ \A i \in 1..Len(m.topic) : StandardBody(m)[2 + i] = m.topic[i]
    /\ m.qos > 0 => ShortAt(StandardBody(m), 3 + Len(m.topic)) = m.id
    /\ \A i \in 1..Len(m.data) :
         StandardBody(m)[2 + Len(m.topic) + Len(IdIf(m)) + i] = m.data[i]

\* The id stands in a PUBLISH just where it is to be acknowledged.
LEMMA IdIfFacts ==
  ASSUME NEW m \in Message
  PROVE  /\ IdIf(m) \in Seq(Byte)
         /\ m.qos > 0 => IdIf(m) = Short(m.id) /\ Len(IdIf(m)) = 2
         /\ ~(m.qos > 0) => IdIf(m) = <<>> /\ Len(IdIf(m)) = 0
  <1>1. Short(m.id) \in Seq(Byte) /\ Len(Short(m.id)) = 2
    BY FieldFacts, ShortFacts
  <1>2. <<>> \in Seq(Byte) /\ Len(<<>>) = 0
    BY EmptySeq
  <1> QED
    BY <1>1, <1>2 DEF IdIf

\* The body of each kind of message.
LEMMA Bodies ==
  ASSUME NEW m
  PROVE  /\ m.type = PUBLISH => StandardBody(m) = Str(m.topic) \o IdIf(m) \o m.data
         /\ m.type = CONNACK => StandardBody(m) = <<0, m.id>>
         /\ m.type = SUBACK => StandardBody(m) = Short(m.id) \o <<1>>
         /\ m.type = PINGRESP => StandardBody(m) = <<>>
  <1> DEFINE t == m.type
             p == Str(m.topic) \o IdIf(m) \o m.data
             c == <<0, m.id>>
             s == Short(m.id) \o <<1>>
  <1>1. StandardBody(m) = CASE t = 3 -> p [] t = 2 -> c [] t = 9 -> s [] t = 13 -> <<>>
    BY Zenon DEF StandardBody
  <1>2. /\ t = 3 => t # 2 /\ t # 9 /\ t # 13
        /\ t = 2 => t # 3 /\ t # 9 /\ t # 13
        /\ t = 9 => t # 2 /\ t # 3 /\ t # 13
        /\ t = 13 => t # 2 /\ t # 3 /\ t # 9
    OBVIOUS
  <1> HIDE DEF t, p, c, s
  <1>3. t = 3 => StandardBody(m) = p
    BY <1>1, <1>2, Zenon
  <1>4. t = 2 => StandardBody(m) = c
    BY <1>1, <1>2, Zenon
  <1>5. t = 9 => StandardBody(m) = s
    BY <1>1, <1>2, Zenon
  <1>6. t = 13 => StandardBody(m) = <<>>
    BY <1>1, <1>2, Zenon
  <1> QED
    BY <1>3, <1>4, <1>5, <1>6 DEF t, p, c, s

\* Where the parts of a PUBLISH stand in its body.
LEMMA BodyParts ==
  ASSUME NEW m \in Message, m.type = PUBLISH, Len(m.topic) <= Max16
  PROVE  BodyLaid(m)
  <1> DEFINE t == Len(m.topic)
             s == Short(t)
             i == IdIf(m)
             st == s \o m.topic
             sti == st \o i
             b == sti \o m.data
  <1>1. /\ m.id \in Nat /\ m.id <= Max16 /\ m.qos \in Nat /\ t \in Nat
        /\ m.topic \in Seq(Byte) /\ m.data \in Seq(Byte) /\ Len(m.data) \in Nat
    BY FieldFacts, LenProperties
  <1>2. /\ i \in Seq(Byte) /\ Len(i) \in Nat
        /\ m.qos > 0 => i = Short(m.id) /\ Len(i) = 2
    BY IdIfFacts, LenProperties
  <1>3. /\ s \in Seq(Byte) /\ Len(s) = 2
        /\ s[1] * 256 + s[2] = t
    BY <1>1, ShortFacts
  <1>4. StandardBody(m) = b
    <2>1. StandardBody(m) = Str(m.topic) \o IdIf(m) \o m.data
      BY Bodies
    <2> QED
      BY <2>1 DEF Str
  <1> HIDE DEF i, s
  <1>5. /\ st \in Seq(Byte) /\ Len(st) = 2 + t
        /\ st[1] = s[1] /\ st[2] = s[2]
        /\ \A j \in 1..t : st[2 + j] = m.topic[j]
    <2>1. Beside(s, m.topic)
      BY <1>1, <1>3, Besides
    <2>2. 1 \in 1..2 /\ 2 \in 1..2
      OBVIOUS
    <2> QED
      BY <1>3, <2>1, <2>2 DEF Beside
  <1> HIDE DEF st
  <1>6. /\ sti \in Seq(Byte) /\ Len(sti) = 2 + t + Len(i)
        /\ \A j \in 1..(2 + t) : sti[j] = st[j]
        /\ \A j \in 1..Len(i) : sti[2 + t + j] = i[j]
    <2>1. Beside(st, i)
      BY <1>2, <1>5, Besides
    <2> QED
      BY <1>5, <2>1 DEF Beside
  <1> HIDE DEF sti
  <1>7. /\ b \in Seq(Byte) /\ Len(b) = 2 + t + Len(i) + Len(m.data)
        /\ \A j \in 1..(2 + t + Len(i)) : b[j] = sti[j]
        /\ \A j \in 1..Len(m.data) : b[2 + t + Len(i) + j] = m.data[j]
    <2>1. Beside(sti, m.data)
      BY <1>1, <1>6, Besides
    <2> QED
      BY <1>6, <2>1 DEF Beside
  <1> HIDE DEF b
  <1> DEFINE tn == t
             in == Len(i)
  <1>8. tn \in Nat /\ in \in Nat
    BY <1>1, <1>2
  <1> HIDE DEF t, tn, in
  <1>9. \A j \in 1..(2 + tn) : j \in 1..(2 + tn + in)
    BY <1>8
  <1>10. \A j \in 1..(2 + t) : b[j] = st[j]
    BY <1>6, <1>7, <1>9 DEF tn, in
  <1>11. ShortAt(b, 1) = t
    <2>1. 1 \in 1..(2 + t) /\ 2 \in 1..(2 + t) /\ 1 + 1 = 2
      BY <1>1
    <2>2. b[1] = s[1] /\ b[1 + 1] = s[2]
      BY <1>5, <1>10, <2>1
    <2> QED
      BY <1>3, <2>2 DEF ShortAt
  <1>12. \A j \in 1..t : b[2 + j] = m.topic[j]
    <2>1. \A j \in 1..t : 2 + j \in 1..(2 + t)
      BY <1>1
    <2> QED
      BY <1>5, <1>10, <2>1
  <1>13. ASSUME m.qos > 0
         PROVE  ShortAt(b, 3 + t) = m.id
    <2> DEFINE x == Short(m.id)
    <2>1. x[1] * 256 + x[2] = m.id
      BY <1>1, ShortFacts
    <2>2. i = x /\ Len(i) = 2
      BY <1>2, <1>13
    <2> HIDE DEF x
    <2>3. /\ 1 \in 1..2 /\ 2 \in 1..2
          /\ 3 + t = 2 + t + 1 /\ (3 + t) + 1 = 2 + t + 2
          /\ 3 + t \in 1..(2 + t + 2) /\ (3 + t) + 1 \in 1..(2 + t + 2)
      BY <1>1
    <2>4. b[3 + t] = sti[2 + t + 1] /\ b[(3 + t) + 1] = sti[2 + t + 2]
      BY <1>7, <2>2, <2>3
    <2>5. sti[2 + t + 1] = i[1] /\ sti[2 + t + 2] = i[2]
      BY <1>6, <2>2, <2>3
    <2>6. b[3 + t] = x[1] /\ b[(3 + t) + 1] = x[2]
      BY <2>2, <2>4, <2>5
    <2> QED
      BY <2>1, <2>6 DEF ShortAt
  <1> QED
    BY <1>4, <1>7, <1>11, <1>12, <1>13 DEF BodyLaid, t, i

\* What the broker sends, the answer to a CONNECT included.
Arrivals == Messages \cup {Plain(CONNACK, 0), Plain(CONNACK, 5)}

\* What the client relies on of each of these.
Arrives(m) ==
    /\ m \in Message
    /\ m.type * 16 + m.qos * 2 \in Byte
    /\ (m.type * 16 + m.qos * 2) \div 16 = m.type
    /\ ((m.type * 16 + m.qos * 2) \div 2) % 4 = m.qos
    /\ StandardBody(m) \in Seq(Byte) /\ Len(StandardBody(m)) < 128^4
    /\ \/ /\ m.type = PUBLISH
          /\ Len(m.topic) >= 1 /\ Len(m.topic) <= Max16 /\ (m.id = 0 <=> m.qos = 0)
          /\ 5 + Len(StandardBody(m)) < Word \div 2
       \/ /\ m.type \in {CONNACK, SUBACK, PINGRESP}
          /\ m = Plain(m.type, m.id)
          /\ m.type = PINGRESP => m.id = 0

\* The bodies of the other messages have two, three and no bytes.
LEMMA PlainBody ==
  ASSUME NEW m, m.id \in Nat, m.id <= Max16, m.type = CONNACK => m.id \in Byte
  PROVE  /\ m.type = CONNACK => StandardBody(m) \in Seq(Byte) /\ Len(StandardBody(m)) = 2
         /\ m.type = SUBACK => StandardBody(m) \in Seq(Byte) /\ Len(StandardBody(m)) = 3
         /\ m.type = PINGRESP => StandardBody(m) \in Seq(Byte) /\ Len(StandardBody(m)) = 0
  <1>1. 0 \in Byte /\ 1 \in Byte
    BY DEF Byte
  <1>2. m.type = CONNACK => <<0, m.id>> \in Seq(Byte) /\ Len(<<0, m.id>>) = 2
    BY <1>1
  <1>3. Short(m.id) \o <<1>> \in Seq(Byte) /\ Len(Short(m.id) \o <<1>>) = 3
    <2>1. <<1>> \in Seq(Byte) /\ Len(<<1>>) = 1
      BY <1>1
    <2>2. Short(m.id) \in Seq(Byte) /\ Len(Short(m.id)) = 2
      BY ShortFacts
    <2>3. Beside(Short(m.id), <<1>>)
      BY <2>1, <2>2, Besides
    <2> QED
      BY <2>1, <2>2, <2>3 DEF Beside
  <1> QED
    BY <1>2, <1>3, EmptySeq, Bodies

\* The fields of a message with nothing but an id.
LEMMA PlainFacts ==
  ASSUME NEW type \in Nat, type >= 1, type <= 14, NEW id \in Nat, id <= Max16
  PROVE  /\ Plain(type, id) \in Message
         /\ Plain(type, id).type = type /\ Plain(type, id).id = id
         /\ Plain(type, id).qos = 0 /\ Plain(type, id).topic = <<>>
         /\ Plain(type, id).data = <<>>
  <1>1. <<>> \in Seq(Byte) /\ type \in 1..14 /\ 0 \in 0..2 /\ id \in 0..Max16
    BY EmptySeq, Max14Facts
  <1> QED
    BY <1>1 DEF Plain, Message

\* What reading a message relies on holds of every message that may arrive.
LEMMA ArrivalFacts ==
  ASSUME NEW m \in Arrivals
  PROVE  Arrives(m)
  <1>0. \A t \in Nat, q \in Nat : t <= 14 /\ q <= 2 =>
          /\ t * 16 + q * 2 \in Byte
          /\ (t * 16 + q * 2) \div 16 = t
          /\ ((t * 16 + q * 2) \div 2) % 4 = q
    BY DEF Byte
  <1>1. CASE m \in Messages
    <2>1. m \in Message /\ Sendable(m)
      BY <1>1, MessageAssumption
    <2>2. /\ m.id \in Nat /\ m.id <= Max16 /\ m.qos \in Nat /\ m.qos <= 2
          /\ m.topic \in Seq(Byte) /\ m.data \in Seq(Byte)
          /\ Len(m.topic) \in Nat
      BY <2>1, FieldFacts, LenProperties
    <2>3. m.type \in {PUBLISH, SUBACK, PINGRESP}
      BY <2>1 DEF Sendable
    <2>4. m.type \in Nat /\ m.type <= 14
      BY <2>3
    <2>5. Len(StandardBody(m)) < 128^4
      BY <2>1 DEF Sendable
    <2>6. CASE m.type = PUBLISH
      <3>1. Len(m.topic) >= 1 /\ Len(m.topic) <= Max16
        BY <2>1, <2>2, <2>6, Max14Facts DEF Sendable, Regular
      <3>2. (m.id = 0 <=> m.qos = 0) /\ 5 + Len(StandardBody(m)) < Word \div 2
        BY <2>1, <2>6 DEF Sendable
      <3>3. StandardBody(m) \in Seq(Byte)
        BY <2>1, <2>6, <3>1, BodyParts DEF BodyLaid
      <3> QED
        BY <1>0, <2>1, <2>2, <2>4, <2>5, <2>6, <3>1, <3>2, <3>3 DEF Arrives
    <2>7. CASE m.type \in {SUBACK, PINGRESP}
      <3>1. m = Plain(m.type, m.id) /\ (m.type = PINGRESP => m.id = 0)
        BY <2>1, <2>7 DEF Sendable, Regular
      <3>2. StandardBody(m) \in Seq(Byte)
        BY <2>2, <2>7, PlainBody
      <3> QED
        BY <1>0, <2>1, <2>2, <2>4, <2>5, <2>7, <3>1, <3>2 DEF Arrives
    <2> QED
      BY <2>3, <2>6, <2>7
  <1>2. CASE \E code \in {0, 5} : m = Plain(CONNACK, code)
    <2>1. PICK code \in {0, 5} : m = Plain(CONNACK, code)
      BY <1>2
    <2>2. code \in Byte /\ code \in Nat /\ code <= Max16
      BY <2>1, Max14Facts, SMT DEF Byte, Max14
    <2>3. m \in Message /\ m.type = CONNACK /\ m.id = code /\ m.qos = 0
      BY <2>1, <2>2, PlainFacts
    <2>4. StandardBody(m) \in Seq(Byte) /\ Len(StandardBody(m)) = 2
      BY <2>2, <2>3, PlainBody
    <2>5. Len(StandardBody(m)) < 128^4
      <3>1. 2 < 128^4
        BY SMT
      <3> QED
        BY <2>4, <3>1
    <2>6. /\ m.type * 16 + m.qos * 2 \in Byte
          /\ (m.type * 16 + m.qos * 2) \div 16 = m.type
          /\ ((m.type * 16 + m.qos * 2) \div 2) % 4 = m.qos
      BY <2>3 DEF Byte
    <2>7. m = Plain(m.type, m.id) /\ m.type \in {CONNACK, SUBACK, PINGRESP}
      BY <2>1, <2>3
    <2> QED
      BY <2>3, <2>4, <2>5, <2>6, <2>7 DEF Arrives
  <1> QED
    BY <1>1, <1>2 DEF Arrivals

\* The buffer begins with the first n bytes of the message.
Holds(buf, n, m) == \A i \in 0..(n - 1) : buf[i] = Standard(m)[i + 1]

\* The remaining length ends before place a, where the body begins.
Opened(buf, n, m, a) ==
    /\ a \in Nat /\ a >= 2 /\ a <= 5
    /\ AfterLength(buf, n) = a
    /\ Len(StandardBody(m)) < 128 => a = 2 /\ buf[1] < 128
    /\ mqtt_get_total_length(buf, n) = {Len(Standard(m))}
    /\ Len(Standard(m)) = a + Len(StandardBody(m))
    /\ mqtt_get_type(buf) = m.type
    /\ mqtt_get_qos(buf) = m.qos
    /\ \A i \in 1..Len(StandardBody(m)) : a + i <= n => buf[a + i - 1] = StandardBody(m)[i]

\* A buffer that holds the header of m opens it: type, QoS, length and body are found.
LEMMA Opens ==
  ASSUME NEW m, Arrives(m), NEW n \in Nat, NEW buf, Holds(buf, n, m),
         n >= Len(Standard(m)) - Len(StandardBody(m))
  PROVE  \E a : Opened(buf, n, m, a)
  <1> DEFINE s == Standard(m)
             b == StandardBody(m)
             l == StandardLength(Len(b))
  <1>1. PICK k : StandardLaid(m, l, k)
    BY StandardParts DEF Arrives
  <1>2. /\ LengthLaid(Len(b), l, k)
        /\ Len(s) = 1 + k + Len(b)
        /\ s[1] = m.type * 16 + m.qos * 2
        /\ \A i \in 1..k : s[1 + i] = l[i]
        /\ \A i \in 1..Len(b) : s[1 + k + i] = b[i]
    BY <1>1 DEF StandardLaid
  <1>3. Len(b) \in Nat
    BY LenProperties DEF Arrives
  <1>4. k \in Nat /\ k >= 1 /\ k <= 4
    BY <1>2 DEF LengthLaid
  <1> HIDE DEF s, b, l
  <1>5. \A i \in 0..(n - 1) : buf[i] = s[i + 1]
    BY DEF Holds, s
  <1>6. n >= 1 + k
    <2>1. n >= Len(s) - Len(b)
      BY DEF s, b
    <2> QED
      BY <1>2, <1>3, <1>4, <2>1
  <1>7. \A i \in 1..k : buf[i] = l[i]
    <2> TAKE i \in 1..k
    <2>1. i \in 0..(n - 1) /\ i + 1 = 1 + i
      BY <1>4, <1>6
    <2>2. buf[i] = s[1 + i]
      BY <1>5, <2>1
    <2> QED
      BY <1>2, <2>2
  <1>8. AfterLength(buf, n) = 1 + k /\ mqtt_get_total_length(buf, n) = {Len(b) + (1 + k)}
    BY <1>2, <1>3, <1>6, <1>7, LengthRead
  <1>9. mqtt_get_type(buf) = m.type /\ mqtt_get_qos(buf) = m.qos
    <2>1. 0 \in 0..(n - 1) /\ 0 + 1 = 1
      BY <1>4, <1>6
    <2>2. buf[0] = m.type * 16 + m.qos * 2
      BY <1>2, <1>5, <2>1
    <2> QED
      BY <2>2 DEF Arrives, mqtt_get_type, mqtt_get_qos
  <1> DEFINE a == 1 + k
  <1>9a. Len(b) < 128 => a = 2 /\ buf[1] < 128
    <2> SUFFICES ASSUME Len(b) < 128
                 PROVE  a = 2 /\ buf[1] < 128
      OBVIOUS
    <2>1. k = 1 /\ l[k] < 128
      BY <1>2 DEF LengthLaid
    <2>2. 1 \in 1..k
      BY <1>4
    <2> QED
      BY <1>7, <2>1, <2>2
  <1>10. \A i \in 1..Len(b) : a + i <= n => buf[a + i - 1] = b[i]
    <2> SUFFICES ASSUME NEW i \in 1..Len(b), a + i <= n
                 PROVE  buf[a + i - 1] = b[i]
      OBVIOUS
    <2>1. a + i - 1 \in 0..(n - 1) /\ (a + i - 1) + 1 = 1 + k + i
      BY <1>3, <1>4
    <2>2. buf[a + i - 1] = s[1 + k + i]
      BY <1>5, <2>1
    <2> QED
      BY <1>2, <2>2
  <1>11. a \in Nat /\ a >= 2 /\ a <= 5 /\ Len(b) + a = a + Len(b)
    BY <1>3, <1>4
  <1>12. Opened(buf, n, m, a)
    <2>1. mqtt_get_total_length(buf, n) = {Len(s)} /\ Len(s) = a + Len(b)
      BY <1>2, <1>8, <1>11
    <2> HIDE DEF a
    <2>2. AfterLength(buf, n) = a
      BY <1>8 DEF a
    <2> QED
      BY <1>9, <1>9a, <1>10, <1>11, <2>1, <2>2 DEF Opened, s, b
  <1> QED
    BY <1>12

\* A message without a topic and data is understood from all of its bytes.
LEMMA PlainRead ==
  ASSUME NEW m, Arrives(m), m.type # PUBLISH, NEW buf, Holds(buf, Len(Standard(m)), m)
  PROVE  /\ mqtt_get_type(buf) = m.type
         /\ \A id \in mqtt_get_id(buf, Len(Standard(m))) : \A e : Understood(buf, id, e) = m
  <1> DEFINE n == Len(Standard(m))
             b == StandardBody(m)
  <1>1. /\ m \in Message /\ m.type \in {CONNACK, SUBACK, PINGRESP}
        /\ m = Plain(m.type, m.id)
        /\ m.type = PINGRESP => m.id = 0
        /\ b \in Seq(Byte) /\ Len(b) \in Nat
    BY LenProperties DEF Arrives
  <1>2. m.id \in Nat /\ m.id <= Max16
    BY <1>1, FieldFacts
  <1>3. n \in Nat /\ n >= n - Len(b)
    <2>1. PICK k : StandardLaid(m, StandardLength(Len(b)), k)
      BY StandardParts DEF Arrives
    <2>2. Standard(m) \in Seq(Byte)
      BY <2>1 DEF StandardLaid
    <2>3. n \in Nat
      BY <2>2, LenProperties
    <2> QED
      BY <1>1, <2>3
  <1> HIDE DEF n, b
  <1>4. PICK a : Opened(buf, n, m, a)
    <2>1. Holds(buf, n, m) /\ n >= Len(Standard(m)) - Len(StandardBody(m))
      BY <1>3 DEF n, b
    <2> QED
      BY <1>3, <2>1, Opens
  <1>5. /\ a \in Nat /\ n = a + Len(b)
        /\ Len(b) < 128 => a = 2 /\ buf[1] < 128
        /\ mqtt_get_type(buf) = m.type
        /\ \A i \in 1..Len(b) : a + i <= n => buf[a + i - 1] = b[i]
    BY <1>4 DEF Opened, n, b
  <1>6. m.type = CONNACK => m.id \in Byte
    <2>1. ASSUME m.type = CONNACK
          PROVE  m.id \in Byte
      <3>1. b = <<0, m.id>>
        BY <2>1, Bodies DEF b
      <3>2. 2 \in 1..Len(b) /\ b[2] = m.id
        BY <3>1
      <3>3. b[2] \in Byte
        BY <1>1, <3>2, ElementOfSeq
      <3> QED
        BY <3>2, <3>3
    <2> QED
      BY <2>1
  <1>7. CASE m.type = CONNACK
    <2>0. b = <<0, m.id>>
      BY <1>7, Bodies DEF b
    <2>1. b = <<0, m.id>> /\ Len(b) = 2
      BY <2>0
    <2>2. a = 2 /\ n = 4
      BY <1>5, <2>1
    <2>3. buf[3] = m.id
      <3>1. 2 \in 1..Len(b) /\ a + 2 <= n /\ a + 2 - 1 = 3
        BY <2>1, <2>2
      <3>2. buf[a + 2 - 1] = b[2]
        BY <1>5, <3>1
      <3> QED
        BY <2>1, <3>1, <3>2
    <2>4. \A id, e : Understood(buf, id, e) = Plain(CONNACK, m.id)
      BY <1>5, <1>7, <2>3 DEF Understood
    <2> QED
      BY <1>1, <1>5, <1>7, <2>4
  <1>8. CASE m.type = SUBACK
    <2> DEFINE s == Short(m.id)
    <2>0. /\ s \in Seq(Byte) /\ Len(s) = 2 /\ s[1] * 256 + s[2] = m.id
      BY <1>2, ShortFacts
    <2>a. b = s \o <<1>>
      BY <1>8, Bodies DEF b
    <2>b. Len(b) = 3
      <3>1. m.type = CONNACK => m.id \in Byte
        BY <1>8
      <3> QED
        BY <1>2, <1>8, <3>1, PlainBody DEF b
    <2> HIDE DEF s
    <2>1. b = s \o <<1>> /\ Len(b) = 3
      BY <2>a, <2>b
    <2>2. a = 2 /\ n = 5 /\ buf[1] < 128
      BY <1>5, <2>1
    <2>3. b[1] = s[1] /\ b[2] = s[2]
      <3>1. <<1>> \in Seq(Byte)
        BY DEF Byte
      <3>2. Beside(s, <<1>>)
        BY <2>0, <3>1, Besides
      <3>3. 1 \in 1..Len(s) /\ 2 \in 1..Len(s)
        BY <2>0
      <3> QED
        BY <2>1, <3>2, <3>3 DEF Beside
    <2>4. buf[2] * 256 + buf[3] = m.id
      <3>1. /\ 1 \in 1..Len(b) /\ a + 1 <= n /\ a + 1 - 1 = 2
            /\ 2 \in 1..Len(b) /\ a + 2 <= n /\ a + 2 - 1 = 3
        BY <2>1, <2>2
      <3>2. buf[2] = s[1] /\ buf[3] = s[2]
        BY <1>5, <2>3, <3>1
      <3> QED
        BY <2>0, <3>2
    <2>5. mqtt_get_id(buf, n) = {m.id}
      BY <1>5, <1>8, <2>2, <2>4 DEF mqtt_get_id
    <2>6. \A id \in mqtt_get_id(buf, n) : \A e : Understood(buf, id, e) = Plain(SUBACK, m.id)
      BY <1>5, <1>8, <2>5 DEF Understood
    <2> QED
      BY <1>1, <1>5, <1>8, <2>6 DEF n
  <1>9. CASE m.type = PINGRESP
    <2>1. mqtt_get_id(buf, n) = {0}
      BY <1>5, <1>9 DEF mqtt_get_id
    <2>2. \A id \in mqtt_get_id(buf, n) : \A e : Understood(buf, id, e) = Plain(PINGRESP, m.id)
      BY <1>1, <1>5, <1>9, <2>1 DEF Understood
    <2> QED
      BY <1>1, <1>5, <1>9, <2>2 DEF n
  <1> QED
    BY <1>1, <1>7, <1>8, <1>9

\* What the client makes of the first n bytes of a PUBLISH.
PublishSeen(buf, n, m) ==
    /\ mqtt_get_type(buf) = PUBLISH
    /\ mqtt_get_qos(buf) = m.qos
    /\ mqtt_get_total_length(buf, n) = {Len(Standard(m))}
    /\ mqtt_get_id(buf, n) = {m.id}
    /\ FirstEvent(buf, n, Len(Standard(m))).offset = 0
    /\ FirstEvent(buf, n, Len(Standard(m))).data_len = n - HeaderLen(m)
    /\ FirstEvent(buf, n, Len(Standard(m))).total = Len(m.data)
    /\ \A id : Understood(buf, id, FirstEvent(buf, n, Len(Standard(m)))) =
               [type |-> PUBLISH, qos |-> m.qos, id |-> id, topic |-> m.topic,
                data |-> SubSeq(m.data, 1, n - HeaderLen(m))]

\* Bytes taken one by one from a buffer are a part of the sequence they came from.
LEMMA BytesRead ==
  ASSUME NEW s \in Seq(Byte), NEW len \in Nat, len <= Len(s), NEW at \in Nat, NEW buf,
         \A i \in 1..len : buf[at + i - 1] = s[i]
  PROVE  Bytes(buf, at, len) = SubSeq(s, 1, len)
  <1> DEFINE b == Bytes(buf, at, len)
             r == SubSeq(s, 1, len)
  <1>1. b = [i \in 1..len |-> s[i]]
    BY DEF Bytes
  <1>2. /\ r \in Seq(Byte) /\ Len(r) = len - 1 + 1
        /\ \A i \in 1..(len - 1 + 1) : r[i] = s[1 + i - 1]
    BY PartFacts
  <1>3. Len(s) \in Nat
    BY LenProperties
  <1>4. \A i \in 1..len : s[i] \in Byte /\ 1 + i - 1 = i
    BY <1>3, ElementOfSeq
  <1>5. b \in Seq(Byte) /\ Len(b) = len /\ \A i \in 1..len : b[i] = s[i]
    BY <1>1, <1>4
  <1>6. len - 1 + 1 = len
    OBVIOUS
  <1> HIDE DEF b, r
  <1>7. Len(b) = Len(r) /\ \A i \in 1..Len(b) : b[i] = r[i]
    BY <1>2, <1>4, <1>5, <1>6
  <1>8. b = r
    BY <1>2, <1>5, <1>7, SeqEqual
  <1> QED
    BY <1>8 DEF b, r

\* A number below the modulus stays what it is.
LEMMA BelowModulus ==
  ASSUME NEW x \in Nat, NEW w \in Nat, x < w
  PROVE  x % w = x
  <1>1. x \div w \in Nat /\ x % w \in Nat /\ x = w * (x \div w) + (x % w)
    BY SMT
  <1>2. x \div w = 0
    <2>1. \A y \in Nat : y >= 1 => w * y >= w
      BY SMT
    <2> QED
      BY <1>1, <2>1, SMT
  <1> QED
    BY <1>1, <1>2, SMT

\* So does a number below half of it, taken for an int.
LEMMA SignedBelow ==
  ASSUME NEW x \in Nat, x < Word \div 2
  PROVE  Signed(x) = x
  <1>1. Word \in Nat /\ Word > 0
    BY SizeAssumption
  <1>2. \A w \in Nat : w \div 2 <= w
    OBVIOUS
  <1>3. \A w \in Nat : w \div 2 \in Nat
    OBVIOUS
  <1>4. x < Word
    BY <1>1, <1>2, <1>3
  <1>5. x % Word = x
    BY <1>1, <1>4, BelowModulus
  <1> QED
    BY <1>5, Zenon DEF Signed

\* mqtt_get_id reads the id of a PUBLISH behind its topic.
LEMMA IdOfPublish ==
  ASSUME NEW buf, NEW n, mqtt_get_type(buf) = PUBLISH
  PROVE  mqtt_get_id(buf, n) = PublishIds(buf, n)
  <1> DEFINE t == mqtt_get_type(buf)
             p == PublishIds(buf, n)
             a == IF n < 4 THEN StaleIds
                  ELSE {IF buf[1] < 128 THEN buf[2] * 256 + buf[3] ELSE 0}
             acks == {4, 5, 6, 7, 9, 11, 8}
  <1>1. mqtt_get_id(buf, n) = CASE t = 3 -> p [] t \in acks -> a [] OTHER -> {0}
    BY Zenon DEF mqtt_get_id
  <1>2. t = 3 /\ t \notin acks
    OBVIOUS
  <1> HIDE DEF t, p, a, acks
  <1> QED
    <2>1. mqtt_get_id(buf, n) = p
      BY <1>1, <1>2, Zenon
    <2> QED
      BY <2>1 DEF p

\* A read that ends in the data of a PUBLISH gives its topic, id and first data.
LEMMA PublishRead ==
  ASSUME NEW m, Arrives(m), m.type = PUBLISH, NEW n \in Nat, NEW buf, Holds(buf, n, m),
         n >= HeaderLen(m), n <= Len(Standard(m))
  PROVE  PublishSeen(buf, n, m)
  <1> DEFINE t == Len(m.topic)
             q == Len(IdIf(m))
             d == Len(m.data)
             b == StandardBody(m)
             N == Len(Standard(m))
             h == HeaderLen(m)
  <1>1. /\ m \in Message /\ m.id \in Nat /\ m.id <= Max16 /\ m.qos \in Nat
        /\ m.topic \in Seq(Byte) /\ m.data \in Seq(Byte)
        /\ t \in Nat /\ t >= 1 /\ t <= Max16 /\ d \in Nat
        /\ (m.id = 0 <=> m.qos = 0) /\ 5 + Len(b) < Word \div 2
    BY FieldFacts, LenProperties DEF Arrives
  <1>2. q \in Nat /\ (m.qos > 0 => q = 2) /\ (~(m.qos > 0) => q = 0)
    BY <1>1, IdIfFacts
  <1>3. /\ Len(b) = 2 + t + q + d
        /\ ShortAt(b, 1) = t
        /\ \A i \in 1..t : b[2 + i] = m.topic[i]
        /\ m.qos > 0 => ShortAt(b, 3 + t) = m.id
        /\ \A i \in 1..d : b[2 + t + q + i] = m.data[i]
    BY <1>1, BodyParts DEF BodyLaid
  <1>4. N \in Nat
    <2>1. PICK k : StandardLaid(m, StandardLength(Len(b)), k)
      BY StandardParts DEF Arrives
    <2>2. Standard(m) \in Seq(Byte)
      BY <2>1 DEF StandardLaid
    <2> QED
      BY <2>2, LenProperties
  <1>5. h = N - d /\ n >= h /\ n <= N
    BY DEF HeaderLen
  <1> HIDE DEF t, q, d, b, N, h
  <1>6. PICK a : Opened(buf, n, m, a)
    <2>1. n >= N - Len(b)
      BY <1>1, <1>2, <1>3, <1>4, <1>5
    <2> QED
      BY <2>1, Opens DEF N, b
  <1>7. /\ a \in Nat /\ a >= 2 /\ a <= 5
        /\ AfterLength(buf, n) = a
        /\ mqtt_get_total_length(buf, n) = {N}
        /\ N = a + Len(b)
        /\ mqtt_get_type(buf) = PUBLISH
        /\ mqtt_get_qos(buf) = m.qos
        /\ \A i \in 1..Len(b) : a + i <= n => buf[a + i - 1] = b[i]
    BY <1>6 DEF Opened, N, b
  <1>8. h = a + 2 + t + q /\ N = h + d
    BY <1>1, <1>2, <1>3, <1>4, <1>5, <1>7
  <1>9. \A i \in Nat : i >= 1 /\ i <= 2 + t + q + d /\ a + i <= n => buf[a + i - 1] = b[i]
    <2> SUFFICES ASSUME NEW i \in Nat, i >= 1, i <= 2 + t + q + d, a + i <= n
                 PROVE  buf[a + i - 1] = b[i]
      OBVIOUS
    <2>1. 2 + t + q + d \in Nat
      BY <1>1, <1>2
    <2>2. i \in 1..Len(b)
      BY <1>3, <2>1
    <2> QED
      BY <1>7, <2>2
  <1>10. TopicLen(buf, n) = t
    <2>a. t \in Nat /\ q \in Nat /\ d \in Nat /\ a \in Nat /\ h = a + 2 + t + q /\ n >= h
      BY <1>1, <1>2, <1>5, <1>7, <1>8
    <2>1. /\ a + 1 - 1 = a /\ a + 2 - 1 = a + 1 /\ 1 + 1 = 2 /\ a + 1 <= n /\ a + 2 <= n
          /\ 2 <= 2 + t + q + d /\ 1 <= 2 + t + q + d
      BY <2>a
    <2>2. buf[a] = b[1] /\ buf[a + 1] = b[2]
      BY <1>9, <2>1
    <2> QED
      BY <1>3, <1>7, <2>2 DEF TopicLen, ShortAt
  <1>11. /\ TopicAt(buf, n) = a + 2
         /\ AfterTopic(buf, n) = a + 2 + t
         /\ DataAt(buf, n) = h
    BY <1>1, <1>2, <1>7, <1>8, <1>10 DEF TopicAt, AfterTopic, DataAt
  <1>12. /\ ~(a + 2 >= n) /\ ~(a + 2 + t > n) /\ ~(a + 2 > n) /\ ~(h > n)
         /\ N - n + (n - h) = d /\ n - h \in Nat /\ n - h <= d /\ h \in Nat
         /\ ~(N < h)
         /\ (a + 2 + t >= n) \/ (m.qos > 0 /\ h >= n) <=> n = h
         /\ n = h => n - h = 0
    <2> DEFINE g == m.qos
    <2>1. /\ a \in Nat /\ a >= 2 /\ t \in Nat /\ t >= 1 /\ q \in Nat /\ d \in Nat
          /\ n \in Nat /\ N \in Nat /\ g \in Nat /\ h = a + 2 + t + q /\ N = h + d
          /\ n >= h /\ n <= N /\ (g > 0 => q = 2) /\ (~(g > 0) => q = 0)
      BY <1>1, <1>2, <1>4, <1>5, <1>7, <1>8
    <2> HIDE DEF g
    <2>2. (a + 2 + t >= n) \/ (g > 0 /\ h >= n) <=> n = h
      BY <2>1
    <2>3. /\ ~(a + 2 >= n) /\ ~(a + 2 + t > n) /\ ~(a + 2 > n) /\ ~(h > n)
          /\ N - n + (n - h) = d /\ n - h \in Nat /\ n - h <= d /\ h \in Nat
          /\ ~(N < h) /\ (n = h => n - h = 0)
      BY <2>1
    <2> QED
      BY <2>2, <2>3 DEF g
  <1>13. mqtt_get_publish_topic(buf, n) = [at |-> a + 2, len |-> t]
    BY <1>10, <1>11, <1>12 DEF mqtt_get_publish_topic
  <1>13a. Signed(N) = N /\ Signed(d) = d
    <2>1. Word \div 2 \in Nat
      <3>1. \A w \in Nat : w \div 2 \in Nat
        OBVIOUS
      <3> QED
        BY <3>1, SizeFacts
    <2> DEFINE w == Word \div 2
    <2> HIDE DEF w
    <2> DEFINE l == Len(b)
    <2>2. w \in Nat /\ 5 + l < w
      BY <1>1, <2>1 DEF w
    <2>a. l = 2 + t + q + d /\ N = a + l
      BY <1>3, <1>7
    <2>b. a \in Nat /\ a <= 5 /\ t \in Nat /\ q \in Nat /\ d \in Nat
      BY <1>1, <1>2, <1>7
    <2> HIDE DEF l
    <2>3. N < w /\ d < w
      BY <2>2, <2>a, <2>b
    <2> QED
      BY <1>1, <1>4, <2>3, SignedBelow DEF w
  <1> DEFINE data == mqtt_get_publish_data(buf, n, N)
  <1>14. data = IF n = h THEN [at |-> NULL, len |-> 0] ELSE [at |-> h, len |-> n - h]
    <2>1. mqtt_get_publish_data(buf, n, N) =
            IF (a + 2 >= n \/ a + 2 + t >= n) \/ (m.qos > 0 /\ h >= n) \/ N < h
            THEN [at |-> NULL, len |-> 0] ELSE [at |-> h, len |-> Least(N, n) - h]
      BY <1>7, <1>11, <1>13a DEF mqtt_get_publish_data, NoTopicFits
    <2>2. Least(N, n) = n
      BY <1>4, <1>5 DEF Least
    <2> QED
      BY <1>12, <2>1, <2>2
  <1>15. data.len = n - h /\ (n # h => data.at = h)
    BY <1>12, <1>14
  <1> HIDE DEF data
  <1>16. FirstEvent(buf, n, N) = [topic |-> a + 2, topic_len |-> t, data |-> data.at,
                               data_len |-> n - h, offset |-> 0, total |-> d]
    <2>1. FirstEvent(buf, n, N) = [topic |-> a + 2, topic_len |-> t, data |-> data.at,
                                data_len |-> data.len, offset |-> 0,
                                total |-> Signed(N - n + data.len)]
      BY <1>13 DEF FirstEvent, data
    <2> QED
      BY <1>12, <1>13a, <1>15, <2>1
  <1>17. mqtt_get_id(buf, n) = {m.id}
    <2>1. mqtt_get_id(buf, n) = PublishIds(buf, n)
      BY <1>7, IdOfPublish
    <2>2. CASE m.qos = 0
      BY <1>1, <1>7, <2>1, <2>2 DEF PublishIds
    <2>3. CASE m.qos > 0
      <3>1. q = 2 /\ ShortAt(b, 3 + t) = m.id
        BY <1>2, <1>3, <2>3
      <3>2. /\ a + (3 + t) - 1 = a + 2 + t /\ a + (3 + t + 1) - 1 = a + 2 + t + 1
            /\ 3 + t \in Nat /\ 3 + t >= 1 /\ 3 + t <= 2 + t + q + d /\ a + (3 + t) <= n
            /\ 3 + t + 1 \in Nat /\ 3 + t + 1 >= 1 /\ 3 + t + 1 <= 2 + t + q + d
            /\ a + (3 + t + 1) <= n
        BY <1>1, <1>5, <1>7, <1>8, <3>1
      <3>3. buf[a + 2 + t] = b[3 + t] /\ buf[a + 2 + t + 1] = b[3 + t + 1]
        BY <1>9, <3>2
      <3>4. buf[a + 2 + t] * 256 + buf[a + 2 + t + 1] = m.id
        BY <3>1, <3>3 DEF ShortAt
      <3>5. /\ mqtt_get_qos(buf) # 0
            /\ ~(TopicAt(buf, n) > n \/ DataAt(buf, n) > n)
            /\ buf[AfterTopic(buf, n)] * 256 + buf[AfterTopic(buf, n) + 1] = m.id
        BY <1>1, <1>7, <1>11, <1>12, <2>3, <3>4
      <3>6. PublishIds(buf, n) = {m.id}
        BY <3>5, Zenon DEF PublishIds
      <3> QED
        BY <2>1, <3>6
    <2>4. m.qos = 0 \/ m.qos > 0
      BY <1>1
    <2> QED
      BY <2>2, <2>3, <2>4
  <1>18. Bytes(buf, a + 2, t) = m.topic
    <2>1. \A i \in 1..t : buf[(a + 2) + i - 1] = m.topic[i]
      <3> TAKE i \in 1..t
      <3>1. /\ (a + 2) + i - 1 = a + (2 + i) - 1 /\ 2 + i \in Nat /\ 2 + i >= 1
            /\ 2 + i <= 2 + t + q + d /\ a + (2 + i) <= n
        <4>1. /\ t \in Nat /\ q \in Nat /\ d \in Nat /\ a \in Nat
              /\ h = a + 2 + t + q /\ n >= h
          BY <1>1, <1>2, <1>5, <1>7, <1>8
        <4> QED
          BY <4>1
      <3>2. buf[a + (2 + i) - 1] = b[2 + i]
        BY <1>9, <3>1
      <3> QED
        BY <1>3, <3>1, <3>2
    <2> DEFINE at == a + 2
    <2>a. at \in Nat /\ t \in Nat /\ t <= Len(m.topic) /\ m.topic \in Seq(Byte)
      BY <1>1, <1>7 DEF t
    <2>b. \A i \in 1..t : buf[at + i - 1] = m.topic[i]
      BY <2>1
    <2> HIDE DEF at
    <2>c. Bytes(buf, at, t) = SubSeq(m.topic, 1, t)
      BY <2>a, <2>b, BytesRead
    <2>2. Bytes(buf, a + 2, t) = SubSeq(m.topic, 1, t)
      BY <2>c DEF at
    <2>3. SubSeq(m.topic, 1, Len(m.topic)) = m.topic
      BY <1>1, SubSeqFull
    <2> QED
      BY <2>2, <2>3 DEF t
  <1>19. Bytes(buf, data.at, n - h) = SubSeq(m.data, 1, n - h)
    <2>1. \A i \in 1..(n - h) : buf[data.at + i - 1] = m.data[i]
      <3> TAKE i \in 1..(n - h)
      <3>1. /\ n # h /\ h + i - 1 = a + (2 + t + q + i) - 1
            /\ 2 + t + q + i \in Nat /\ 2 + t + q + i >= 1
            /\ 2 + t + q + i <= 2 + t + q + d /\ a + (2 + t + q + i) <= n /\ i \in 1..d
        BY <1>1, <1>2, <1>7, <1>8, <1>12
      <3>2. buf[a + (2 + t + q + i) - 1] = b[2 + t + q + i]
        BY <1>9, <3>1
      <3> QED
        BY <1>3, <1>15, <3>1, <3>2
    <2>0. CASE n = h
      <3>1. n - h = 0
        BY <1>12, <2>0
      <3>2. Bytes(buf, data.at, 0) = <<>>
        BY DEF Bytes
      <3>3. SubSeq(m.data, 1, 0) = <<>>
        BY <1>1, SubSeqEmpty
      <3> QED
        BY <3>1, <3>2, <3>3
    <2>2. CASE n # h
      <3>a. data.at \in Nat
        BY <1>12, <1>15, <2>2
      <3> DEFINE at == data.at
                 len == n - h
      <3>3. /\ at \in Nat /\ len \in Nat /\ len <= Len(m.data) /\ m.data \in Seq(Byte)
            /\ \A i \in 1..len : buf[at + i - 1] = m.data[i]
        BY <1>1, <1>12, <2>1, <3>a DEF d
      <3> HIDE DEF at, len
      <3>4. Bytes(buf, at, len) = SubSeq(m.data, 1, len)
        BY <3>3, BytesRead
      <3> QED
        BY <3>4 DEF at, len
    <2> QED
      BY <2>0, <2>2
  <1> DEFINE e == FirstEvent(buf, n, N)
  <1>20. /\ e.topic = a + 2 /\ e.topic_len = t /\ e.data = data.at /\ e.data_len = n - h
         /\ e.offset = 0 /\ e.total = d
    BY <1>16
  <1> HIDE DEF e
  <1>21. ASSUME NEW id
         PROVE  Understood(buf, id, e) =
                  [type |-> PUBLISH, qos |-> m.qos, id |-> id, topic |-> m.topic,
                   data |-> SubSeq(m.data, 1, n - h)]
    BY <1>7, <1>18, <1>19, <1>20 DEF Understood
  <1> QED
    BY <1>7, <1>17, <1>20, <1>21 DEF PublishSeen, e, N, h, d
=============================================================================
