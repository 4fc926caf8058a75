------------------------------- MODULE Link_proofs ------------------------------
(* What the operations on the line preserve, for every depth of the FIFOs,  *)
(* and what the loops that read it return.                                 *)
EXTENDS Framing, SequenceTheorems, TLAPS

(* Appending bytes to what p has put keeps the types of the line. *)
LEMMA PutType ==
  ASSUME LinkTypeOK, NEW p \in Side, NEW bytes \in Seq(Byte), Put(p, bytes)
  PROVE  /\ tx' \in [Side -> Seq(Byte)]
         /\ tx'[p] = tx[p] \o bytes
         /\ \A q \in Side : q # p => tx'[q] = tx[q]
<1>1. tx[p] \o bytes \in Seq(Byte)
  BY ConcatProperties DEF LinkTypeOK
<1> QED
  BY <1>1 DEF LinkTypeOK, Put

(* Reading a byte removes the head of the FIFO, which is a byte. *)
LEMMA TakeByteType ==
  ASSUME LinkTypeOK, NEW p \in Side, Readable(p), TakeByte(p)
  PROVE  /\ rx' \in [Side -> Seq(Byte)]
         /\ Head(rx[p]) \in Byte
         /\ rx'[p] = Tail(rx[p])
         /\ \A q \in Side : q # p => rx'[q] = rx[q]
<1>1. rx[p] \in Seq(Byte) /\ rx[p] # <<>>
  BY DEF LinkTypeOK, Readable
<1>2. Head(rx[p]) \in Byte /\ Tail(rx[p]) \in Seq(Byte)
  BY <1>1, HeadTailProperties
<1> QED
  BY <1>2 DEF LinkTypeOK, TakeByte

(* Initialising the UART keeps the FIFO or empties it. *)
LEMMA ReinitType ==
  ASSUME LinkTypeOK, NEW p \in Side, Reinit(p)
  PROVE  /\ rx' \in [Side -> Seq(Byte)]
         /\ rx'[p] = rx[p] \/ rx'[p] = <<>>
         /\ \A q \in Side : q # p => rx'[q] = rx[q]
<1>1. <<>> \in Seq(Byte)
  BY EmptySeq
<1> QED
  BY <1>1 DEF LinkTypeOK, Reinit

(* The other side of a side is a side. *)
LEMMA OtherSide ==
  ASSUME NEW p \in Side
  PROVE  Other(p) \in Side /\ Other(p) # p
BY DEF Side, Other

(* A delivered byte leaves the transmitter; it is appended to the FIFO of   *)
(* the other side, or the FIFO was full and stays as it is.                *)
LEMMA TransmitType ==
  ASSUME LinkTypeOK, NEW p \in Side, NEW polled, Transmit(p, polled)
  PROVE  /\ tx' \in [Side -> Seq(Byte)]
         /\ rx' \in [Side -> Seq(Byte)]
         /\ Head(tx[p]) \in Byte
         /\ tx[p] # <<>>
         /\ tx'[p] = Tail(tx[p])
         /\ \A q \in Side : q # p => tx'[q] = tx[q]
         /\ rx'[p] = rx[p]
         /\ \/ rx'[Other(p)] = Append(rx[Other(p)], Head(tx[p]))
            \/ Len(rx[Other(p)]) >= Depth[Other(p)] /\ rx' = rx
<1> DEFINE q == Other(p)
<1>1. tx[p] \in Seq(Byte) /\ tx[p] # <<>> /\ q \in Side /\ q # p
  BY OtherSide DEF LinkTypeOK, Transmit
<1>2. Head(tx[p]) \in Byte /\ Tail(tx[p]) \in Seq(Byte)
  BY <1>1, HeadTailProperties
<1>3. Append(rx[q], Head(tx[p])) \in Seq(Byte)
  BY <1>1, <1>2, AppendProperties DEF LinkTypeOK
<1>4. tx' = [tx EXCEPT ![p] = Tail(@)]
  BY DEF Transmit
<1>5. CASE rx' = [rx EXCEPT ![q] = Append(@, Head(tx[p]))]
  BY <1>1, <1>2, <1>3, <1>4, <1>5 DEF LinkTypeOK
<1>6. CASE Len(rx[q]) >= Depth[q] /\ rx' = rx
  BY <1>1, <1>2, <1>4, <1>6 DEF LinkTypeOK
<1> QED
  BY <1>5, <1>6 DEF Transmit
---------------------------------------------------------------------------------
(* The bytes on their way, in order: what was read, what is in the FIFO and *)
(* what is in the transmitter.                                             *)

(* A nonempty sequence is its head followed by its tail. *)
LEMMA HeadThenTail ==
  ASSUME NEW S, NEW s \in Seq(S), s # <<>>
  PROVE  s = <<Head(s)>> \o Tail(s)
<1> DEFINE t == <<Head(s)>> \o Tail(s)
<1>1. /\ Head(s) \in S /\ Head(s) = s[1]
      /\ Tail(s) \in Seq(S)
      /\ Len(Tail(s)) = Len(s) - 1
      /\ \A i \in 1 .. Len(Tail(s)) : Tail(s)[i] = s[i + 1]
  BY HeadTailProperties
<1>2. <<Head(s)>> \in Seq(S) /\ Len(<<Head(s)>>) = 1 /\ <<Head(s)>>[1] = s[1]
  BY <1>1
<1>3. /\ t \in Seq(S)
      /\ Len(t) = 1 + Len(Tail(s))
      /\ \A i \in 1 .. 1 + Len(Tail(s)) :
           t[i] = IF i <= 1 THEN <<Head(s)>>[i] ELSE Tail(s)[i - 1]
  BY <1>1, <1>2, ConcatProperties
<1>4. Len(s) \in Nat \ {0}
  BY EmptySeq
<1>5. ASSUME NEW i \in 1 .. Len(s) PROVE s[i] = t[i]
  <2>1. CASE i = 1
    BY <2>1, <1>1, <1>2, <1>3, <1>4
  <2>2. CASE i # 1
    BY <2>2, <1>1, <1>3, <1>4
  <2> QED
    BY <2>1, <2>2
<1>6. Len(s) = Len(t)
  BY <1>1, <1>3, <1>4
<1> HIDE DEF t
<1>7. s = t
  BY <1>3, <1>5, <1>6, SeqEqual
<1> QED
  BY <1>7 DEF t

(* Concatenation of bytes is associative. *)
LEMMA BytesAssociate ==
  \A a, b, c \in Seq(Byte) : (a \o b) \o c = a \o (b \o c)
BY ConcatAssociative

(* The concatenation of bytes, and the empty sequence in it. *)
LEMMA BytesConcat ==
  \A a, b \in Seq(Byte) :
    /\ a \o <<>> = a
    /\ a \o b \in Seq(Byte)
    /\ Len(a) \in Nat
    /\ Len(a \o b) = Len(a) + Len(b)
    /\ \A i \in 1 .. Len(a) + Len(b) :
         (a \o b)[i] = IF i <= Len(a) THEN a[i] ELSE b[i - Len(a)]
<1> SUFFICES ASSUME NEW a \in Seq(Byte), NEW b \in Seq(Byte)
             PROVE  /\ a \o <<>> = a
                    /\ a \o b \in Seq(Byte)
                    /\ Len(a) \in Nat
                    /\ Len(a \o b) = Len(a) + Len(b)
                    /\ \A i \in 1 .. Len(a) + Len(b) :
                         (a \o b)[i] = IF i <= Len(a) THEN a[i] ELSE b[i - Len(a)]
  OBVIOUS
<1>1. a \o <<>> = a
  BY ConcatEmptySeq
<1>2. Len(a) \in Nat
  BY LenProperties
<1> QED
  BY <1>1, <1>2, ConcatProperties

(* A byte that is read moves from the FIFO to what was read. *)
LEMMA ReadKeepsOrder ==
  ASSUME NEW S, NEW h \in Seq(S), NEW r \in Seq(S), r # <<>>
  PROVE  Append(h, Head(r)) \o Tail(r) = h \o r
<1>1. Head(r) \in S /\ Tail(r) \in Seq(S) /\ <<Head(r)>> \in Seq(S)
  BY HeadTailProperties
<1>2. Append(h, Head(r)) = h \o <<Head(r)>>
  BY <1>1, AppendIsConcat
<1>3. (h \o <<Head(r)>>) \o Tail(r) = h \o (<<Head(r)>> \o Tail(r))
  BY <1>1, ConcatAssociative
<1>4. r = <<Head(r)>> \o Tail(r)
  BY HeadThenTail
<1> QED
  BY <1>2, <1>3, <1>4

(* A byte that is delivered moves from the transmitter to the FIFO. *)
LEMMA ByteDelivered ==
  \A h, r, t \in Seq(Byte) :
    t # <<>> => (h \o Append(r, Head(t))) \o Tail(t) = (h \o r) \o t
<1> TAKE h, r, t \in Seq(Byte)
<1> HAVE t # <<>>
<1>1. Head(t) \in Byte /\ Tail(t) \in Seq(Byte) /\ Append(r, Head(t)) \in Seq(Byte)
  BY HeadTailProperties, AppendProperties
<1>2. (h \o Append(r, Head(t))) \o Tail(t) = h \o (Append(r, Head(t)) \o Tail(t))
  BY <1>1, BytesAssociate, ZenonT(30)
<1>3. Append(r, Head(t)) \o Tail(t) = r \o t
  BY ReadKeepsOrder
<1>4. h \o (r \o t) = (h \o r) \o t
  BY BytesAssociate
<1> QED
  BY <1>2, <1>3, <1>4

(* The next byte to be read is the one at the position after what was read. *)
LEMMA NextByte ==
  ASSUME NEW S, NEW h \in Seq(S), NEW r \in Seq(S), NEW t \in Seq(S), r # <<>>
  PROVE  /\ Len(h) + 1 <= Len((h \o r) \o t)
         /\ ((h \o r) \o t)[Len(h) + 1] = Head(r)
<1>1. /\ h \o r \in Seq(S) /\ Len(h \o r) = Len(h) + Len(r)
      /\ \A i \in 1 .. Len(h) + Len(r) :
           (h \o r)[i] = IF i <= Len(h) THEN h[i] ELSE r[i - Len(h)]
  BY ConcatProperties
<1>2. /\ Len((h \o r) \o t) = Len(h) + Len(r) + Len(t)
      /\ \A i \in 1 .. Len(h) + Len(r) + Len(t) :
           ((h \o r) \o t)[i] = IF i <= Len(h) + Len(r) THEN (h \o r)[i]
                                                      ELSE t[i - (Len(h) + Len(r))]
  BY <1>1, ConcatProperties
<1>3. Len(r) \in Nat \ {0} /\ Len(h) \in Nat /\ Len(t) \in Nat /\ Head(r) = r[1]
  BY EmptySeq, LenProperties
<1>4. (h \o r)[Len(h) + 1] = r[1]
  <2>1. Len(h) + 1 \in 1 .. Len(h) + Len(r) /\ ~(Len(h) + 1 <= Len(h))
    BY <1>3
  <2>2. (Len(h) + 1) - Len(h) = 1
    BY <1>3
  <2> QED
    BY <1>1, <2>1, <2>2
<1> QED
  <2>1. Len(h) + 1 \in 1 .. Len(h) + Len(r) + Len(t) /\ Len(h) + 1 <= Len(h) + Len(r)
    BY <1>3
  <2> QED
    BY <1>2, <1>3, <1>4, <2>1

---------------------------------------------------------------------------------
(* Streams of bytes *)

(* The bytes that the Tester, and the SUT, have yet to read. *)
Ahead == rx["tst"] \o tx["sut"]
Back  == rx["sut"] \o tx["tst"]

(* c is not in s *)
Free(s, c) == \A i \in 1 .. Len(s) : s[i] # c

(* the rest of a message of which n bytes are read *)
Rest(s, n) == SubSeq(s, n + 1, Len(s))

(* The next byte of two parts of a stream is that of the first part. *)
LEMMA HeadOfStream ==
  ASSUME NEW r \in Seq(Byte), NEW t \in Seq(Byte), r # <<>>
  PROVE  /\ r \o t # <<>>
         /\ Head(r \o t) = Head(r)
         /\ Tail(r) \o t = Tail(r \o t)
<1> DEFINE s == r \o t
           u == Tail(r) \o t
<1>1. /\ Tail(r) \in Seq(Byte) /\ Len(Tail(r)) = Len(r) - 1 /\ Head(r) = r[1]
      /\ \A i \in 1 .. Len(Tail(r)) : Tail(r)[i] = r[i + 1]
  BY HeadTailProperties
<1>2. /\ s \in Seq(Byte) /\ Len(s) = Len(r) + Len(t)
      /\ \A i \in 1 .. Len(r) + Len(t) : s[i] = IF i <= Len(r) THEN r[i] ELSE t[i - Len(r)]
  BY ConcatProperties
<1>3. /\ u \in Seq(Byte) /\ Len(u) = Len(Tail(r)) + Len(t)
      /\ \A i \in 1 .. Len(Tail(r)) + Len(t) :
           u[i] = IF i <= Len(Tail(r)) THEN Tail(r)[i] ELSE t[i - Len(Tail(r))]
  BY <1>1, ConcatProperties
<1>4. Len(r) \in Nat \ {0} /\ Len(t) \in Nat
  BY EmptySeq, LenProperties
<1> HIDE DEF s, u
<1>5. s # <<>>
  BY <1>2, <1>4, EmptySeq
<1>6. /\ Tail(s) \in Seq(Byte) /\ Len(Tail(s)) = Len(s) - 1 /\ Head(s) = s[1]
      /\ \A i \in 1 .. Len(Tail(s)) : Tail(s)[i] = s[i + 1]
  BY <1>2, <1>5, HeadTailProperties
<1>7. s[1] = r[1]
  BY <1>2, <1>4
<1>8. Len(u) = Len(Tail(s))
  BY <1>1, <1>2, <1>3, <1>4, <1>6
<1>9. ASSUME NEW i \in 1 .. Len(u) PROVE u[i] = Tail(s)[i]
  <2>1. i \in 1 .. Len(Tail(r)) + Len(t) /\ i + 1 \in 1 .. Len(r) + Len(t)
        /\ i \in 1 .. Len(Tail(s)) /\ i \in Nat
    BY <1>1, <1>3, <1>4, <1>8
  <2>2. CASE i <= Len(Tail(r))
    BY <2>1, <2>2, <1>1, <1>2, <1>3, <1>4, <1>6
  <2>3. CASE ~(i <= Len(Tail(r)))
    <3>1. u[i] = t[i - (Len(r) - 1)] /\ s[i + 1] = t[(i + 1) - Len(r)]
      BY <2>1, <2>3, <1>1, <1>2, <1>3, <1>4
    <3>2. i - (Len(r) - 1) = (i + 1) - Len(r)
      BY <2>1, <1>4
    <3> QED
      BY <2>1, <3>1, <3>2, <1>6
  <2> QED
    BY <2>2, <2>3
<1>10. u = Tail(s)
  BY <1>3, <1>6, <1>8, <1>9, SeqEqual
<1> QED
  BY <1>1, <1>5, <1>6, <1>7, <1>10 DEF s, u

(* A byte that is lost between two parts of a stream. *)
LEMMA LostByte ==
  ASSUME NEW r \in Seq(Byte), NEW t \in Seq(Byte), t # <<>>
  PROVE  /\ r \o Tail(t) \in Seq(Byte)
         /\ Len(r \o Tail(t)) = Len(r \o t) - 1
         /\ Len(r) < Len(r \o t)
         /\ \A i \in 1 .. Len(r \o t) - 1 :
              (r \o Tail(t))[i] = IF i <= Len(r) THEN (r \o t)[i] ELSE (r \o t)[i + 1]
<1> DEFINE s == r \o t
           u == r \o Tail(t)
<1>1. /\ Tail(t) \in Seq(Byte) /\ Len(Tail(t)) = Len(t) - 1
      /\ \A i \in 1 .. Len(Tail(t)) : Tail(t)[i] = t[i + 1]
  BY HeadTailProperties
<1>2. /\ Len(s) = Len(r) + Len(t)
      /\ \A i \in 1 .. Len(r) + Len(t) : s[i] = IF i <= Len(r) THEN r[i] ELSE t[i - Len(r)]
  BY ConcatProperties
<1>3. /\ u \in Seq(Byte) /\ Len(u) = Len(r) + Len(Tail(t))
      /\ \A i \in 1 .. Len(r) + Len(Tail(t)) :
           u[i] = IF i <= Len(r) THEN r[i] ELSE Tail(t)[i - Len(r)]
  BY <1>1, ConcatProperties
<1>4. Len(t) \in Nat \ {0} /\ Len(r) \in Nat
  BY EmptySeq, LenProperties
<1> HIDE DEF s, u
<1>5. ASSUME NEW i \in 1 .. Len(s) - 1
      PROVE  u[i] = IF i <= Len(r) THEN s[i] ELSE s[i + 1]
  <2>1. i \in Nat /\ i \in 1 .. Len(r) + Len(Tail(t)) /\ i \in 1 .. Len(r) + Len(t)
        /\ i + 1 \in 1 .. Len(r) + Len(t)
    BY <1>1, <1>2, <1>4
  <2>2. CASE i <= Len(r)
    BY <2>1, <2>2, <1>2, <1>3
  <2>3. CASE ~(i <= Len(r))
    <3>1. u[i] = t[(i - Len(r)) + 1] /\ s[i + 1] = t[(i + 1) - Len(r)]
      BY <2>1, <2>3, <1>1, <1>2, <1>3, <1>4
    <3>2. (i - Len(r)) + 1 = (i + 1) - Len(r)
      BY <2>1, <1>4
    <3> QED
      BY <2>3, <3>1, <3>2
  <2> QED
    BY <2>2, <2>3
<1> QED
  BY <1>1, <1>2, <1>3, <1>4, <1>5 DEF s, u

(* A stream without a byte stays so when bytes are read, lost or appended. *)
LEMMA FreeStays ==
  ASSUME NEW c
  PROVE
  /\ \A s \in Seq(Byte) : s # <<>> /\ Free(s, c) => Free(Tail(s), c)
  /\ \A r, t \in Seq(Byte) : t # <<>> /\ Free(r \o t, c) => Free(r \o Tail(t), c)
  /\ \A s, t \in Seq(Byte) : Free(s \o t, c) <=> Free(s, c) /\ Free(t, c)
<1>1. ASSUME NEW s \in Seq(Byte), s # <<>>, Free(s, c) PROVE Free(Tail(s), c)
  <2>1. /\ Len(Tail(s)) = Len(s) - 1 /\ Len(s) \in Nat
        /\ \A i \in 1 .. Len(Tail(s)) : Tail(s)[i] = s[i + 1]
    BY <1>1, HeadTailProperties
  <2> QED
    BY <1>1, <2>1 DEF Free
<1>2. ASSUME NEW r \in Seq(Byte), NEW t \in Seq(Byte), t # <<>>, Free(r \o t, c)
      PROVE  Free(r \o Tail(t), c)
  <2>1. Len(r \o t) \in Nat
    BY BytesConcat
  <2> QED
    BY <1>2, <2>1, LostByte DEF Free
<1>3. ASSUME NEW s \in Seq(Byte), NEW t \in Seq(Byte)
      PROVE  Free(s \o t, c) <=> Free(s, c) /\ Free(t, c)
  <2>1. /\ Len(s) \in Nat /\ Len(t) \in Nat
        /\ Len(s \o t) = Len(s) + Len(t)
        /\ \A i \in 1 .. Len(s) + Len(t) :
             (s \o t)[i] = IF i <= Len(s) THEN s[i] ELSE t[i - Len(s)]
    BY BytesConcat, LenProperties
  <2>2. ASSUME Free(s \o t, c) PROVE Free(s, c)
    BY <2>1, <2>2 DEF Free
  <2>3. ASSUME Free(s \o t, c) PROVE Free(t, c)
    <3> SUFFICES ASSUME NEW i \in 1 .. Len(t) PROVE t[i] # c
      BY DEF Free
    <3>1. Len(s) + i \in 1 .. Len(s) + Len(t) /\ ~(Len(s) + i <= Len(s))
          /\ (Len(s) + i) - Len(s) = i
      BY <2>1
    <3>2. (s \o t)[Len(s) + i] = t[i]
      BY <2>1, <3>1
    <3> QED
      BY <2>1, <2>3, <3>1, <3>2 DEF Free
  <2>4. ASSUME Free(s, c), Free(t, c) PROVE Free(s \o t, c)
    <3> SUFFICES ASSUME NEW i \in 1 .. Len(s) + Len(t) PROVE (s \o t)[i] # c
      BY <2>1 DEF Free
    <3>1. CASE i <= Len(s)
      BY <2>1, <2>4, <3>1 DEF Free
    <3>2. CASE ~(i <= Len(s))
      <4>1. i - Len(s) \in 1 .. Len(t)
        BY <2>1, <3>2
      <4> QED
        BY <2>1, <2>4, <3>2, <4>1 DEF Free
    <3> QED
      BY <3>1, <3>2
  <2> QED
    BY <2>2, <2>3, <2>4
<1> QED
  BY <1>1, <1>2, <1>3

(* The bytes of a size: each byte that is read adds to the size received,   *)
(* and four of them are the size again.                                     *)
LEMMA SizeDecodes ==
  ASSUME NEW n \in Nat
  PROVE  /\ SizeBytes(n) \in Seq(Byte) /\ Len(SizeBytes(n)) = 4
         /\ n % 256 ^ 0 = 0
         /\ \A k \in 0 .. 3 :
              (n % 256 ^ k) + SizeBytes(n)[k + 1] * 256 ^ k = n % 256 ^ (k + 1)
         /\ n <= 2 ^ 30 => n % 256 ^ 4 = n
<1>1. \A k \in 1 .. 4 : (n \div 256 ^ (k - 1)) % 256 \in Byte
  <2> SUFFICES ASSUME NEW k \in 1 .. 4 PROVE (n \div 256 ^ (k - 1)) % 256 \in Byte
    OBVIOUS
  <2>1. k - 1 = 0 \/ k - 1 = 1 \/ k - 1 = 2 \/ k - 1 = 3
    OBVIOUS
  <2>2. n \div 256 ^ 0 \in Nat /\ n \div 256 ^ 1 \in Nat /\ n \div 256 ^ 2 \in Nat
        /\ n \div 256 ^ 3 \in Nat
    OBVIOUS
  <2> QED
    BY <2>1, <2>2 DEF Byte
<1>2. SizeBytes(n) \in Seq(Byte) /\ Len(SizeBytes(n)) = 4
  BY <1>1, IsASeq DEF SizeBytes
<1>3. /\ SizeBytes(n)[1] = n % 256 /\ SizeBytes(n)[2] = (n \div 256) % 256
      /\ SizeBytes(n)[3] = (n \div 65536) % 256 /\ SizeBytes(n)[4] = (n \div 16777216) % 256
  BY DEF SizeBytes
<1>4. /\ (n % 256 ^ 0) + SizeBytes(n)[1] * 256 ^ 0 = n % 256 ^ 1
      /\ (n % 256 ^ 1) + SizeBytes(n)[2] * 256 ^ 1 = n % 256 ^ 2
      /\ (n % 256 ^ 2) + SizeBytes(n)[3] * 256 ^ 2 = n % 256 ^ 3
      /\ (n % 256 ^ 3) + SizeBytes(n)[4] * 256 ^ 3 = n % 256 ^ 4
  BY <1>3
<1>5. \A k \in 0 .. 3 : (n % 256 ^ k) + SizeBytes(n)[k + 1] * 256 ^ k = n % 256 ^ (k + 1)
  <2> SUFFICES ASSUME NEW k \in 0 .. 3
               PROVE  (n % 256 ^ k) + SizeBytes(n)[k + 1] * 256 ^ k = n % 256 ^ (k + 1)
    OBVIOUS
  <2>1. CASE k = 0
    <3>1. (n % 256 ^ 0) + SizeBytes(n)[0 + 1] * 256 ^ 0 = n % 256 ^ (0 + 1)
      BY <1>4
    <3> QED
      BY <2>1, <3>1, Zenon
  <2>2. CASE k = 1
    <3>1. (n % 256 ^ 1) + SizeBytes(n)[1 + 1] * 256 ^ 1 = n % 256 ^ (1 + 1)
      BY <1>4
    <3> QED
      BY <2>2, <3>1, Zenon
  <2>3. CASE k = 2
    <3>1. (n % 256 ^ 2) + SizeBytes(n)[2 + 1] * 256 ^ 2 = n % 256 ^ (2 + 1)
      BY <1>4
    <3> QED
      BY <2>3, <3>1, Zenon
  <2>4. CASE k = 3
    <3>1. (n % 256 ^ 3) + SizeBytes(n)[3 + 1] * 256 ^ 3 = n % 256 ^ (3 + 1)
      BY <1>4
    <3> QED
      BY <2>4, <3>1, Zenon
  <2> QED
    BY <2>1, <2>2, <2>3, <2>4
<1>6. n <= 2 ^ 30 => n < 4294967296
  OBVIOUS
<1>7. n < 4294967296 => n % 256 ^ 4 = n
  OBVIOUS
<1>8. n % 256 ^ 0 = 0
  OBVIOUS
<1> QED
  BY <1>2, <1>5, <1>6, <1>7, <1>8

(* Reading the rest of a message. *)
LEMMA RestOfMessage ==
  ASSUME NEW s \in Seq(Byte)
  PROVE  /\ Rest(s, 0) = s
         /\ Rest(s, Len(s)) = <<>>
         /\ \A k \in 0 .. Len(s) : Rest(s, k) \in Seq(Byte) /\ Len(Rest(s, k)) = Len(s) - k
         /\ \A k \in 0 .. Len(s) :
              Rest(s, k) # <<>> =>
                k < Len(s) /\ Head(Rest(s, k)) = s[k + 1] /\ Tail(Rest(s, k)) = Rest(s, k + 1)
<1>1. Len(s) \in Nat
  BY LenProperties
<1>2. \A k \in 0 .. Len(s) :
        /\ Rest(s, k) \in Seq(Byte) /\ Len(Rest(s, k)) = Len(s) - k
        /\ \A i \in 1 .. Len(s) - k : Rest(s, k)[i] = s[k + i]
  <2> SUFFICES ASSUME NEW k \in 0 .. Len(s)
               PROVE  /\ Rest(s, k) \in Seq(Byte) /\ Len(Rest(s, k)) = Len(s) - k
                      /\ \A i \in 1 .. Len(s) - k : Rest(s, k)[i] = s[k + i]
    OBVIOUS
  <2>1. \A i \in k + 1 .. Len(s) : s[i] \in Byte
    BY <1>1, ElementOfSeq
  <2>2. /\ k + 1 \in 1 .. Len(s) + 1 /\ Len(s) \in k .. Len(s)
        /\ (k + 1 <= Len(s) => Len(s) - (k + 1) + 1 = Len(s) - k)
        /\ (~(k + 1 <= Len(s)) => Len(s) - k = 0)
    BY <1>1
  <2>3. CASE k + 1 <= Len(s)
    <3>1. /\ SubSeq(s, k + 1, Len(s)) \in Seq(Byte)
          /\ Len(SubSeq(s, k + 1, Len(s))) = Len(s) - (k + 1) + 1
          /\ \A i \in 1 .. Len(s) - (k + 1) + 1 :
               SubSeq(s, k + 1, Len(s))[i] = s[(k + 1) + i - 1]
      BY <1>1, <2>1, <2>2, <2>3, SubSeqProperties
    <3>2. \A i \in 1 .. Len(s) - k : (k + 1) + i - 1 = k + i
      BY <1>1
    <3> QED
      BY <2>2, <2>3, <3>1, <3>2 DEF Rest
  <2>4. CASE ~(k + 1 <= Len(s))
    <3>1. SubSeq(s, k + 1, Len(s)) = <<>>
      BY <1>1, <2>4, EmptySeq
    <3> QED
      BY <2>2, <2>4, <3>1 DEF Rest
  <2> QED
    BY <2>3, <2>4
<1>3. Rest(s, 0) = s
  BY <1>1, <1>2, SeqEqual
<1>4. Rest(s, Len(s)) = <<>>
  BY <1>1, <1>2, EmptySeq
<1>5. ASSUME NEW k \in 0 .. Len(s), Rest(s, k) # <<>>
      PROVE  k < Len(s) /\ Head(Rest(s, k)) = s[k + 1] /\ Tail(Rest(s, k)) = Rest(s, k + 1)
  <2>1. k < Len(s)
    BY <1>1, <1>4, <1>5
  <2>2. /\ Tail(Rest(s, k)) \in Seq(Byte)
        /\ Len(Tail(Rest(s, k))) = Len(Rest(s, k)) - 1 /\ Head(Rest(s, k)) = Rest(s, k)[1]
        /\ \A i \in 1 .. Len(Tail(Rest(s, k))) : Tail(Rest(s, k))[i] = Rest(s, k)[i + 1]
    BY <1>2, <1>5, HeadTailProperties
  <2>3. /\ k + 1 \in 0 .. Len(s) /\ 1 \in 1 .. Len(s) - k
        /\ Len(s) - k - 1 = Len(s) - (k + 1)
        /\ \A i \in 1 .. Len(s) - (k + 1) : i + 1 \in 1 .. Len(s) - k /\ k + (i + 1) = (k + 1) + i
    BY <1>1, <2>1
  <2>4. Len(Tail(Rest(s, k))) = Len(Rest(s, k + 1))
    BY <1>2, <2>2, <2>3
  <2>5. \A i \in 1 .. Len(Rest(s, k + 1)) : Tail(Rest(s, k))[i] = Rest(s, k + 1)[i]
    <3> SUFFICES ASSUME NEW i \in 1 .. Len(s) - (k + 1)
                 PROVE  Tail(Rest(s, k))[i] = Rest(s, k + 1)[i]
      BY <1>2, <2>3
    <3>1. Rest(s, k + 1)[i] = s[(k + 1) + i]
      BY <1>2, <2>3
    <3>2. Tail(Rest(s, k))[i] = Rest(s, k)[i + 1]
      BY <1>2, <2>2, <2>3
    <3>3. Rest(s, k)[i + 1] = s[k + (i + 1)]
      BY <1>2, <2>3
    <3> QED
      BY <2>3, <3>1, <3>2, <3>3
  <2>6. Rest(s, k + 1) \in Seq(Byte)
    BY <1>2, <2>3
  <2>7. Tail(Rest(s, k)) = Rest(s, k + 1)
    BY <2>2, <2>4, <2>5, <2>6, SeqEqual
  <2> QED
    BY <1>2, <2>1, <2>2, <2>3, <2>7
<1> QED
  BY <1>2, <1>3, <1>4, <1>5

---------------------------------------------------------------------------------
(* The two directions of the line *)

(* The parts of the streams are sequences of bytes. *)
LEMMA StreamTypes ==
  ASSUME LinkTypeOK
  PROVE  /\ "sut" \in Side /\ "tst" \in Side
         /\ rx["sut"] \in Seq(Byte) /\ rx["tst"] \in Seq(Byte)
         /\ tx["sut"] \in Seq(Byte) /\ tx["tst"] \in Seq(Byte)
         /\ Ahead \in Seq(Byte) /\ Back \in Seq(Byte)
         /\ Ahead = <<>> => rx["tst"] = <<>> /\ tx["sut"] = <<>>
         /\ Back = <<>> => rx["sut"] = <<>> /\ tx["tst"] = <<>>
<1>1. /\ "sut" \in Side /\ "tst" \in Side
      /\ rx["sut"] \in Seq(Byte) /\ rx["tst"] \in Seq(Byte)
      /\ tx["sut"] \in Seq(Byte) /\ tx["tst"] \in Seq(Byte)
  BY DEF LinkTypeOK, Side
<1>2. \A a, b \in Seq(Byte) : a \o b = <<>> => a = <<>> /\ b = <<>>
  <2> SUFFICES ASSUME NEW a \in Seq(Byte), NEW b \in Seq(Byte), a \o b = <<>>
               PROVE  a = <<>> /\ b = <<>>
    OBVIOUS
  <2>1. Len(a) + Len(b) = 0 /\ Len(a) \in Nat /\ Len(b) \in Nat
    BY ConcatProperties, EmptySeq, LenProperties
  <2>2. Len(a) = 0 /\ Len(b) = 0
    BY <2>1
  <2> QED
    BY <2>2, EmptySeq
<1> QED
  BY <1>1, <1>2, BytesConcat DEF Ahead, Back

(* The Tester reads a byte. *)
LEMMA TesterReads ==
  ASSUME LinkTypeOK, Readable("tst"), TakeByte("tst")
  PROVE  /\ rx' \in [Side -> Seq(Byte)] /\ rx'["sut"] = rx["sut"]
         /\ rx'["tst"] = Tail(rx["tst"])
         /\ Ahead # <<>> /\ Head(Ahead) = Head(rx["tst"]) /\ Head(Ahead) \in Byte
         /\ tx'["sut"] = tx["sut"] => Ahead' = Tail(Ahead)
<1>1. /\ rx' \in [Side -> Seq(Byte)] /\ rx'["sut"] = rx["sut"]
      /\ rx'["tst"] = Tail(rx["tst"]) /\ Head(rx["tst"]) \in Byte
  BY StreamTypes, TakeByteType
<1>2. rx["tst"] # <<>>
  BY DEF Readable
<1>3. /\ Ahead # <<>> /\ Head(Ahead) = Head(rx["tst"])
      /\ Tail(rx["tst"]) \o tx["sut"] = Tail(Ahead)
  BY <1>2, StreamTypes, HeadOfStream DEF Ahead
<1>4. tx'["sut"] = tx["sut"] => Ahead' = Tail(rx["tst"]) \o tx["sut"]
  BY <1>1 DEF Ahead
<1> QED
  BY <1>1, <1>3, <1>4

(* The SUT reads a byte. *)
LEMMA SutReads ==
  ASSUME LinkTypeOK, Readable("sut"), TakeByte("sut")
  PROVE  /\ rx' \in [Side -> Seq(Byte)] /\ rx'["tst"] = rx["tst"]
         /\ Back # <<>> /\ Head(Back) = Head(rx["sut"]) /\ Head(Back) \in Byte
         /\ tx'["tst"] = tx["tst"] => Back' = Tail(Back)
<1>1. /\ rx' \in [Side -> Seq(Byte)] /\ rx'["tst"] = rx["tst"]
      /\ rx'["sut"] = Tail(rx["sut"]) /\ Head(rx["sut"]) \in Byte
  BY StreamTypes, TakeByteType
<1>2. rx["sut"] # <<>>
  BY DEF Readable
<1>3. /\ Back # <<>> /\ Head(Back) = Head(rx["sut"])
      /\ Tail(rx["sut"]) \o tx["tst"] = Tail(Back)
  BY <1>2, StreamTypes, HeadOfStream DEF Back
<1>4. tx'["tst"] = tx["tst"] => Back' = Tail(rx["sut"]) \o tx["tst"]
  BY <1>1 DEF Back
<1> QED
  BY <1>1, <1>3, <1>4

(* The SUT puts bytes. *)
LEMMA SutPuts ==
  ASSUME LinkTypeOK, NEW bytes \in Seq(Byte), Put("sut", bytes), rx'["tst"] = rx["tst"]
  PROVE  /\ tx' \in [Side -> Seq(Byte)] /\ tx'["tst"] = tx["tst"]
         /\ Ahead' = Ahead \o bytes
         /\ rx'["sut"] = rx["sut"] => Back' = Back
<1>1. /\ tx' \in [Side -> Seq(Byte)] /\ tx'["tst"] = tx["tst"]
      /\ tx'["sut"] = tx["sut"] \o bytes
  BY StreamTypes, PutType
<1>2. (rx["tst"] \o tx["sut"]) \o bytes = rx["tst"] \o (tx["sut"] \o bytes)
  <2>1. rx["tst"] \in Seq(Byte) /\ tx["sut"] \in Seq(Byte)
    BY StreamTypes
  <2> QED
    BY <2>1, BytesAssociate
<1> QED
  BY <1>1, <1>2 DEF Ahead, Back

(* The Tester puts bytes. *)
LEMMA TesterPuts ==
  ASSUME LinkTypeOK, NEW bytes \in Seq(Byte), Put("tst", bytes), rx'["sut"] = rx["sut"]
  PROVE  /\ tx' \in [Side -> Seq(Byte)] /\ tx'["sut"] = tx["sut"]
         /\ Back' = Back \o bytes
         /\ rx'["tst"] = rx["tst"] => Ahead' = Ahead
<1>1. /\ tx' \in [Side -> Seq(Byte)] /\ tx'["sut"] = tx["sut"]
      /\ tx'["tst"] = tx["tst"] \o bytes
  BY StreamTypes, PutType
<1>2. (rx["sut"] \o tx["tst"]) \o bytes = rx["sut"] \o (tx["tst"] \o bytes)
  <2>1. rx["sut"] \in Seq(Byte) /\ tx["tst"] \in Seq(Byte)
    BY StreamTypes
  <2> QED
    BY <2>1, BytesAssociate
<1> QED
  BY <1>1, <1>2 DEF Ahead, Back

(* The line delivers a byte to the Tester, or it is lost. *)
LEMMA LineToTester ==
  ASSUME LinkTypeOK, NEW polled, Transmit("sut", polled)
  PROVE  /\ LinkTypeOK' /\ Back' = Back
         /\ tx'["tst"] = tx["tst"] /\ rx'["sut"] = rx["sut"]
         /\ \/ /\ Ahead' = Ahead /\ Ahead # <<>>
               /\ Len(rx["tst"]) < Depth["tst"]
               /\ rx'["tst"] = Append(rx["tst"], Head(tx["sut"]))
            \/ /\ ~polled
               /\ Len(rx["tst"]) >= Depth["tst"]
               /\ rx'["tst"] = rx["tst"] /\ tx["sut"] # <<>>
               /\ Ahead' = rx["tst"] \o Tail(tx["sut"])
<1>1. /\ LinkTypeOK' /\ tx["sut"] # <<>> /\ tx'["sut"] = Tail(tx["sut"])
      /\ tx'["tst"] = tx["tst"] /\ rx'["sut"] = rx["sut"] /\ Other("sut") = "tst"
  BY StreamTypes, TransmitType DEF LinkTypeOK, Other
<1>2. Back' = Back
  BY <1>1 DEF Back
<1>3. CASE Len(rx["tst"]) < Depth["tst"] /\ rx' = [rx EXCEPT !["tst"] = Append(@, Head(tx["sut"]))]
  <2>1. rx'["tst"] = Append(rx["tst"], Head(tx["sut"]))
    BY <1>3, StreamTypes DEF LinkTypeOK
  <2>2. Append(rx["tst"], Head(tx["sut"])) \o Tail(tx["sut"]) = Ahead
    BY <1>1, StreamTypes, ReadKeepsOrder DEF Ahead
  <2>3. Ahead # <<>>
    BY <1>1, StreamTypes
  <2> QED
    BY <1>1, <1>2, <1>3, <2>1, <2>2, <2>3 DEF Ahead
<1>4. CASE Len(rx["tst"]) >= Depth["tst"] /\ ~polled /\ rx' = rx
  BY <1>1, <1>2, <1>4 DEF Ahead
<1> QED
  BY <1>1, <1>3, <1>4 DEF Transmit

(* The line delivers a byte to the SUT; it is not lost while the SUT reads. *)
LEMMA LineToSut ==
  ASSUME LinkTypeOK, NEW polled, Transmit("tst", polled), polled
  PROVE  /\ LinkTypeOK' /\ Back' = Back /\ Ahead' = Ahead /\ Back # <<>>
         /\ tx'["sut"] = tx["sut"] /\ rx'["tst"] = rx["tst"]
         /\ Len(rx'["sut"]) = Len(rx["sut"]) + 1
<1>1. /\ LinkTypeOK' /\ tx["tst"] # <<>> /\ tx'["tst"] = Tail(tx["tst"])
      /\ Head(tx["tst"]) \in Byte
      /\ tx'["sut"] = tx["sut"] /\ rx'["tst"] = rx["tst"] /\ Other("tst") = "sut"
  BY StreamTypes, TransmitType DEF LinkTypeOK, Other
<1>2. rx' = [rx EXCEPT !["sut"] = Append(@, Head(tx["tst"]))]
  BY <1>1 DEF Transmit
<1>3. rx'["sut"] = Append(rx["sut"], Head(tx["tst"]))
  BY <1>2, StreamTypes DEF LinkTypeOK
<1>4. Append(rx["sut"], Head(tx["tst"])) \o Tail(tx["tst"]) = Back
  BY <1>1, StreamTypes, ReadKeepsOrder DEF Back
<1>5. Back # <<>>
  BY <1>1, StreamTypes
<1>6. Len(rx'["sut"]) = Len(rx["sut"]) + 1
  BY <1>1, <1>3, StreamTypes, AppendProperties
<1> QED
  BY <1>1, <1>3, <1>4, <1>5, <1>6 DEF Ahead, Back

---------------------------------------------------------------------------------
(* The loops that read a message *)

(* Two ways to split a stream at the same place are the same. *)
LEMMA SplitUnique ==
  ASSUME NEW a \in Seq(Byte), NEW b \in Seq(Byte), NEW c \in Seq(Byte), NEW d \in Seq(Byte),
         a \o b = c \o d, Len(a) = Len(c)
  PROVE  a = c /\ b = d
<1>1. /\ Len(a) \in Nat /\ Len(b) \in Nat /\ Len(d) \in Nat
      /\ Len(a \o b) = Len(a) + Len(b) /\ Len(c \o d) = Len(c) + Len(d)
      /\ \A i \in 1 .. Len(a) + Len(b) : (a \o b)[i] = IF i <= Len(a) THEN a[i] ELSE b[i - Len(a)]
      /\ \A i \in 1 .. Len(c) + Len(d) : (c \o d)[i] = IF i <= Len(c) THEN c[i] ELSE d[i - Len(c)]
  BY BytesConcat
<1>2. Len(b) = Len(d)
  BY <1>1
<1>3. ASSUME NEW i \in 1 .. Len(a) PROVE a[i] = c[i]
  <2>1. i \in 1 .. Len(a) + Len(b) /\ i \in 1 .. Len(c) + Len(d) /\ i <= Len(a)
    BY <1>1, <1>2
  <2> QED
    BY <1>1, <2>1
<1>4. ASSUME NEW i \in 1 .. Len(b) PROVE b[i] = d[i]
  <2>1. /\ Len(a) + i \in 1 .. Len(a) + Len(b) /\ Len(a) + i \in 1 .. Len(c) + Len(d)
        /\ ~(Len(a) + i <= Len(a)) /\ (Len(a) + i) - Len(a) = i
    BY <1>1, <1>2
  <2>2. (a \o b)[Len(a) + i] = b[i] /\ (c \o d)[Len(a) + i] = d[i]
    BY <1>1, <2>1
  <2> QED
    BY <2>2
<1> QED
  BY <1>2, <1>3, <1>4, SeqEqual

(* A stream that starts with a byte. *)
LEMMA FirstByte ==
  ASSUME NEW c \in Byte, NEW t \in Seq(Byte)
  PROVE  /\ <<c>> \in Seq(Byte) /\ <<c>> \o t \in Seq(Byte) /\ <<c>> \o t # <<>>
         /\ Head(<<c>> \o t) = c /\ Tail(<<c>> \o t) = t
<1>1. <<c>> \in Seq(Byte) /\ <<c>> # <<>> /\ Head(<<c>>) = c /\ Tail(<<c>>) = <<>>
  OBVIOUS
<1>2. /\ <<c>> \o t # <<>> /\ Head(<<c>> \o t) = Head(<<c>>)
      /\ Tail(<<c>>) \o t = Tail(<<c>> \o t)
  BY <1>1, HeadOfStream
<1>3. <<>> \o t = t
  BY ConcatEmptySeq
<1> QED
  BY <1>1, <1>2, <1>3, BytesConcat

(* A loop that reads the size and the content of d, which rest follows: what *)
(* it has read and the stream s that it has yet to read are those of d.      *)
Framed(r, d, rest, s) ==
  /\ r \in Reader
  /\ \/ /\ r.at = "size" /\ r.count \in 0 .. 3 /\ r.data = <<>>
        /\ r.size = Len(d) % 256 ^ r.count
        /\ s = Rest(SizeBytes(Len(d)), r.count) \o (d \o rest)
     \/ /\ r.at = "data" /\ r.count = 4 /\ r.size = Len(d)
        /\ Len(r.data) < Len(d)
        /\ r.data \o s = d \o rest

(* The step of a loop that is in the size or in the content. *)
FramedStep(r, c, next) ==
  IF r.at = "size" THEN SizeStep(r, c, next) ELSE DataStep(r, c, next)

(* a byte of the size *)
LEMMA SizeReads ==
  ASSUME NEW d \in Seq(Byte), NEW rest \in Seq(Byte), NEW r, NEW s \in Seq(Byte),
         NEW next \in {"end", "got"},
         Len(d) <= 2 ^ 30, Framed(r, d, rest, s), s # <<>>, r.at = "size"
  PROVE  LET q == SizeStep(r, Head(s), next) IN
         /\ q \in Reader
         /\ \/ q.at = next /\ q.data = d /\ q.size = Len(d) /\ Tail(s) = rest
            \/ q.at \in {"size", "data"} /\ Framed(q, d, rest, Tail(s))
<1> DEFINE z == SizeBytes(Len(d))
           k == r.count
           n == r.size + Head(s) * 256 ^ r.count
           q == SizeStep(r, Head(s), next)
           w == Rest(z, k)
           v == d \o rest
<1>1. /\ r \in Reader /\ k \in 0 .. 3 /\ r.data = <<>> /\ r.size = Len(d) % 256 ^ k
      /\ s = w \o v
  BY DEF Framed
<1>2. Len(d) \in Nat /\ v \in Seq(Byte)
  BY BytesConcat, LenProperties
<1>3. /\ z \in Seq(Byte) /\ Len(z) = 4
      /\ (Len(d) % 256 ^ k) + z[k + 1] * 256 ^ k = Len(d) % 256 ^ (k + 1)
      /\ Len(d) % 256 ^ 4 = Len(d)
  <2>1. /\ z \in Seq(Byte) /\ Len(z) = 4
        /\ \A j \in 0 .. 3 : (Len(d) % 256 ^ j) + z[j + 1] * 256 ^ j = Len(d) % 256 ^ (j + 1)
        /\ Len(d) % 256 ^ 4 = Len(d)
    BY <1>2, SizeDecodes, ZenonT(30)
  <2> QED
    BY <1>1, <2>1
<1>4. /\ k < 4 /\ k \in 0 .. Len(z) /\ Rest(z, 4) = <<>>
      /\ w # <<>> /\ Head(w) = z[k + 1] /\ Tail(w) = Rest(z, k + 1) /\ w \in Seq(Byte)
  <2>1. k < 4 /\ k \in 0 .. 4 /\ 4 \in 0 .. 4
    BY <1>1
  <2>2. Rest(z, k) \in Seq(Byte) /\ Len(Rest(z, k)) = 4 - k /\ Rest(z, 4) = <<>>
    <3>1. z \in Seq(Byte) /\ Len(z) = 4
      BY <1>3
    <3> HIDE DEF z, k
    <3> QED
      BY <2>1, <3>1, RestOfMessage
  <2>3. Rest(z, k) # <<>>
    <3>1. 4 - k # 0
      BY <2>1
    <3> QED
      BY <2>2, <3>1, EmptySeq
  <2>4. Head(Rest(z, k)) = z[k + 1] /\ Tail(Rest(z, k)) = Rest(z, k + 1)
    BY <1>3, <2>1, <2>3, RestOfMessage, ZenonT(30)
  <2> QED
    BY <1>3, <2>1, <2>2, <2>3, <2>4
<1>5. Head(s) = z[k + 1] /\ Tail(s) = Rest(z, k + 1) \o v
  <2>1. w \in Seq(Byte) /\ v \in Seq(Byte) /\ w # <<>> /\ s = w \o v
    BY <1>1, <1>2, <1>4
  <2> HIDE DEF w, v, z
  <2>2. Head(s) = Head(w) /\ Tail(s) = Tail(w) \o v
    BY <2>1, HeadOfStream
  <2> QED
    BY <2>2, <1>4
<1>6. n = Len(d) % 256 ^ (k + 1)
  BY <1>1, <1>3, <1>5
<1>7. q = [r EXCEPT !.size = n, !.count = k + 1,
             !.at = IF k < 3 THEN "size" ELSE IF n = 0 THEN next ELSE "data"]
  BY DEF SizeStep
<1>8. n \in Nat
  <2>1. 256 ^ 1 \in Nat \ {0} /\ 256 ^ 2 \in Nat \ {0} /\ 256 ^ 3 \in Nat \ {0}
        /\ 256 ^ 4 \in Nat \ {0}
    OBVIOUS
  <2>2. k + 1 = 1 \/ k + 1 = 2 \/ k + 1 = 3 \/ k + 1 = 4
    BY <1>1
  <2>3. 256 ^ (k + 1) \in Nat \ {0}
    <3>1. CASE k + 1 = 1
      BY <2>1, <3>1, Zenon
    <3>2. CASE k + 1 = 2
      BY <2>1, <3>2, Zenon
    <3>3. CASE k + 1 = 3
      BY <2>1, <3>3, Zenon
    <3>4. CASE k + 1 = 4
      BY <2>1, <3>4, Zenon
    <3> QED
      BY <2>2, <3>1, <3>2, <3>3, <3>4, Zenon
  <2> QED
    BY <1>2, <1>6, <2>3
<1> HIDE DEF n, q, w, v, z
<1>9. /\ q \in Reader /\ q.size = n /\ q.count = k + 1 /\ q.data = <<>>
      /\ q.at = IF k < 3 THEN "size" ELSE IF n = 0 THEN next ELSE "data"
  <2> DEFINE a == IF k < 3 THEN "size" ELSE IF n = 0 THEN next ELSE "data"
  <2>1. a \in {"mark", "name", "size", "data", "end", "got"} /\ k + 1 \in 0 .. 4
        /\ r.data \in Seq(Byte)
    BY <1>1, SMTT(30) DEF Reader
  <2>2. q = [r EXCEPT !.size = n, !.count = k + 1, !.at = a]
    BY <1>7
  <2> HIDE DEF a, k
  <2>3. q \in Reader /\ q.size = n /\ q.count = k + 1 /\ q.data = r.data /\ q.at = a
    BY <1>1, <1>8, <2>1, <2>2 DEF Reader
  <2> QED
    BY <1>1, <2>3 DEF a
<1>10. CASE k < 3
  <2>1. q.at = "size" /\ q.count \in 0 .. 3
    BY <1>1, <1>9, <1>10
  <2>2. Tail(s) = Rest(SizeBytes(Len(d)), q.count) \o (d \o rest)
    BY <1>5, <1>9 DEF z, v
  <2>3. q.size = Len(d) % 256 ^ q.count
    BY <1>6, <1>9
  <2>4. Framed(q, d, rest, Tail(s))
    BY <1>9, <2>1, <2>2, <2>3 DEF Framed
  <2> QED
    BY <1>9, <2>1, <2>4 DEF q
<1>11. CASE ~(k < 3)
  <2>1. k = 3 /\ k + 1 = 4
    BY <1>1, <1>11
  <2>2. n = Len(d)
    BY <1>3, <1>6, <2>1, Zenon
  <2>3. Tail(s) = v
    BY <1>2, <1>4, <1>5, <2>1, ConcatEmptySeq
  <2>4. CASE n = 0
    <3>1. d = <<>>
      BY <2>2, <2>4, EmptySeq
    <3>2. v = rest
      BY <3>1, ConcatEmptySeq DEF v
    <3> QED
      BY <1>9, <1>11, <2>2, <2>3, <2>4, <3>1, <3>2 DEF q
  <2>5. CASE n # 0
    <3>1. q.data \o Tail(s) = d \o rest /\ Len(q.data) = 0
      BY <1>9, <1>2, <2>3, ConcatEmptySeq, EmptySeq DEF v
    <3>2. Len(q.data) < Len(d)
      BY <1>2, <2>2, <2>5, <3>1
    <3> QED
      BY <1>9, <1>11, <2>1, <2>2, <2>5, <3>1, <3>2 DEF Framed, q
  <2> QED
    BY <2>4, <2>5
<1> QED
  BY <1>10, <1>11 DEF q

(* a byte of the content *)
LEMMA ContentReads ==
  ASSUME NEW d \in Seq(Byte), NEW rest \in Seq(Byte), NEW r, NEW s \in Seq(Byte),
         NEW next \in {"end", "got"},
         Framed(r, d, rest, s), s # <<>>, r.at = "data"
  PROVE  LET q == DataStep(r, Head(s), next) IN
         /\ q \in Reader
         /\ \/ q.at = next /\ q.data = d /\ q.size = Len(d) /\ Tail(s) = rest
            \/ q.at \in {"size", "data"} /\ Framed(q, d, rest, Tail(s))
<1> DEFINE q == DataStep(r, Head(s), next)
           e == Append(r.data, Head(s))
<1>1. /\ r \in Reader /\ r.count = 4 /\ r.size = Len(d) /\ r.data \in Seq(Byte)
      /\ Len(r.data) < Len(d) /\ r.data \o s = d \o rest
  BY DEF Framed, Reader
<1>2. Head(s) \in Byte /\ Tail(s) \in Seq(Byte)
  BY HeadTailProperties
<1>3. /\ e \in Seq(Byte) /\ Len(e) = Len(r.data) + 1 /\ Len(r.data) \in Nat /\ Len(d) \in Nat
  BY <1>1, <1>2, AppendProperties, LenProperties
<1>4. e \o Tail(s) = d \o rest
  BY <1>1, ReadKeepsOrder
<1>5. q = [r EXCEPT !.data = e, !.at = IF Len(r.data) + 1 = r.size THEN next ELSE "data"]
  BY DEF DataStep
<1> HIDE DEF q, e
<1>6. /\ q \in Reader /\ q.size = Len(d) /\ q.count = 4 /\ q.data = e
      /\ q.at = IF Len(e) = Len(d) THEN next ELSE "data"
  BY <1>1, <1>3, <1>5 DEF Reader
<1>7. CASE Len(e) = Len(d)
  <2>1. e = d /\ Tail(s) = rest
    BY <1>2, <1>3, <1>4, <1>7, SplitUnique
  <2> QED
    BY <1>6, <1>7, <2>1 DEF q
<1>8. CASE Len(e) # Len(d)
  <2>1. Len(e) < Len(d)
    BY <1>1, <1>3, <1>8
  <2> QED
    BY <1>4, <1>6, <1>8, <2>1 DEF Framed, q
<1> QED
  BY <1>7, <1>8

(* a byte of the size or of the content: the loop comes to what is next with *)
(* the content complete, or goes on                                          *)
LEMMA FramedReads ==
  ASSUME NEW d \in Seq(Byte), NEW rest \in Seq(Byte), NEW r, NEW s \in Seq(Byte),
         NEW next \in {"end", "got"},
         Len(d) <= 2 ^ 30, Framed(r, d, rest, s), s # <<>>
  PROVE  LET q == FramedStep(r, Head(s), next) IN
         /\ r.at \in {"size", "data"}
         /\ q \in Reader
         /\ \/ q.at = next /\ q.data = d /\ q.size = Len(d) /\ Tail(s) = rest
            \/ q.at \in {"size", "data"} /\ Framed(q, d, rest, Tail(s))
<1>1. CASE r.at = "size"
  BY <1>1, SizeReads DEF FramedStep
<1>2. CASE r.at = "data"
  BY <1>2, ContentReads DEF FramedStep
<1> QED
  BY <1>1, <1>2 DEF Framed

(* bytes before the rest of a stream, which starts with the first c *)
Preceded(s, c, rest) == \E junk \in Seq(Byte) : Free(junk, c) /\ s = junk \o rest

(* A loop that waits for c ends exactly where the rest starts. *)
LEMMA PrecededReads ==
  ASSUME NEW c \in Byte, NEW t \in Seq(Byte), NEW s, Preceded(s, c, <<c>> \o t)
  PROVE  /\ s \in Seq(Byte) /\ s # <<>>
         /\ Head(s) = c => Tail(s) = t
         /\ Head(s) # c => Preceded(Tail(s), c, <<c>> \o t)
<1> DEFINE u == <<c>> \o t
<1>1. PICK junk \in Seq(Byte) : Free(junk, c) /\ s = junk \o u
  BY DEF Preceded
<1>2. u \in Seq(Byte) /\ u # <<>> /\ Head(u) = c /\ Tail(u) = t
  BY FirstByte
<1> HIDE DEF u
<1>3. CASE junk = <<>>
  <2>1. s = u
    BY <1>1, <1>2, <1>3, ConcatEmptySeq
  <2> QED
    BY <1>2, <2>1
<1>4. CASE junk # <<>>
  <2>1. /\ s # <<>> /\ Head(s) = Head(junk) /\ Tail(s) = Tail(junk) \o u
        /\ s \in Seq(Byte)
    BY <1>1, <1>2, <1>4, HeadOfStream, BytesConcat
  <2>2. Head(junk) = junk[1] /\ Tail(junk) \in Seq(Byte) /\ Len(junk) \in Nat /\ Len(junk) # 0
    BY <1>4, HeadTailProperties, LenProperties, EmptySeq
  <2>3. Head(junk) # c
    <3>1. 1 \in 1 .. Len(junk)
      BY <2>2
    <3> QED
      BY <1>1, <2>2, <3>1 DEF Free
  <2>4. Free(Tail(junk), c)
    BY <1>1, <1>4, FreeStays
  <2> QED
    BY <2>1, <2>2, <2>3, <2>4 DEF Preceded, u
<1> QED
  BY <1>3, <1>4

(* Concatenation, by a name: the provers compute with a \o b. *)
Cat(a, b) == a \o b

(* The concatenation of bytes as an operation on Seq(Byte). *)
LEMMA CatFacts ==
  /\ \A a, b \in Seq(Byte) : Cat(a, b) \in Seq(Byte)
  /\ \A a, b, c \in Seq(Byte) : Cat(Cat(a, b), c) = Cat(a, Cat(b, c))
<1>1. \A a, b \in Seq(Byte) : Cat(a, b) \in Seq(Byte)
  BY BytesConcat DEF Cat
<1>2. \A a, b, c \in Seq(Byte) : Cat(Cat(a, b), c) = Cat(a, Cat(b, c))
  BY BytesAssociate DEF Cat
<1> QED
  BY <1>1, <1>2

(* The concatenation of five parts. *)
LEMMA FiveParts ==
  ASSUME NEW a \in Seq(Byte), NEW b \in Seq(Byte), NEW c \in Seq(Byte), NEW d \in Seq(Byte),
         NEW e \in Seq(Byte)
  PROVE  /\ Cat(Cat(Cat(Cat(a, b), c), d), e) = Cat(a, Cat(b, Cat(c, Cat(d, e))))
         /\ Cat(a, Cat(b, Cat(c, Cat(d, e)))) \in Seq(Byte)
<1>1. /\ Cat(a, b) \in Seq(Byte) /\ Cat(Cat(a, b), c) \in Seq(Byte)
      /\ Cat(d, e) \in Seq(Byte) /\ Cat(c, Cat(d, e)) \in Seq(Byte)
      /\ Cat(b, Cat(c, Cat(d, e))) \in Seq(Byte)
  BY CatFacts
<1>2. Cat(Cat(Cat(Cat(a, b), c), d), e) = Cat(Cat(Cat(a, b), c), Cat(d, e))
  BY <1>1, CatFacts
<1>3. Cat(Cat(Cat(a, b), c), Cat(d, e)) = Cat(Cat(a, b), Cat(c, Cat(d, e)))
  BY <1>1, CatFacts
<1>4. Cat(Cat(a, b), Cat(c, Cat(d, e))) = Cat(a, Cat(b, Cat(c, Cat(d, e))))
  BY <1>1, CatFacts
<1> QED
  BY <1>1, <1>2, <1>3, <1>4, CatFacts

(* The concatenation of six parts. *)
LEMMA SixParts ==
  ASSUME NEW a \in Seq(Byte), NEW b \in Seq(Byte), NEW c \in Seq(Byte), NEW d \in Seq(Byte),
         NEW e \in Seq(Byte), NEW f \in Seq(Byte)
  PROVE  Cat(Cat(Cat(Cat(Cat(a, b), c), d), e), f)
           = Cat(a, Cat(b, Cat(c, Cat(d, Cat(e, f)))))
<1>1. Cat(a, b) \in Seq(Byte) /\ Cat(c, Cat(d, Cat(e, f))) \in Seq(Byte)
  BY CatFacts
<1>2. Cat(Cat(Cat(Cat(Cat(a, b), c), d), e), f) = Cat(Cat(a, b), Cat(c, Cat(d, Cat(e, f))))
  BY <1>1, FiveParts
<1>3. Cat(Cat(a, b), Cat(c, Cat(d, Cat(e, f)))) = Cat(a, Cat(b, Cat(c, Cat(d, Cat(e, f)))))
  BY <1>1, CatFacts
<1> QED
  BY <1>2, <1>3

(* receive_large_data, of d, which more follows *)
LargeReading(r, d, more, s) ==
  \/ r = NewReader /\ s = LargeFrame(d) \o more
  \/ Framed(r, d, <<ETX>> \o more, s)
  \/ r \in Reader /\ r.at = "end" /\ r.data = d /\ r.size = Len(d) /\ s = <<ETX>> \o more

(* A loop that has not begun is a loop. *)
LEMMA NewReaderType ==
  /\ NewReader \in Reader /\ NewReader.at = "mark" /\ NewReader.data = <<>>
  /\ NewReader.size = 0 /\ NewReader.count = 0 /\ ~Finished(NewReader)
BY EmptySeq DEF NewReader, Reader, Finished

(* The parts of a large message. *)
LEMMA LargeParts ==
  ASSUME NEW d \in Seq(Byte), NEW more \in Seq(Byte), Len(d) <= 2 ^ 30
  PROVE  LET body == SizeBytes(Len(d)) \o (d \o (<<ETX>> \o more)) IN
         /\ LargeFrame(d) \in Seq(Byte)
         /\ body \in Seq(Byte)
         /\ LargeFrame(d) \o more = <<STX>> \o body
         /\ Rest(SizeBytes(Len(d)), 0) = SizeBytes(Len(d))
         /\ Len(d) \in Nat /\ Len(d) % 256 ^ 0 = 0
<1> DEFINE z == SizeBytes(Len(d))
<1>1. Len(d) \in Nat
  BY LenProperties
<1>2. z \in Seq(Byte) /\ Len(d) % 256 ^ 0 = 0
  BY <1>1, SizeDecodes
<1>3. Rest(z, 0) = z
  BY <1>2, RestOfMessage
<1>4. <<STX>> \in Seq(Byte) /\ <<ETX>> \in Seq(Byte)
  BY DEF STX, ETX, Byte
<1> HIDE DEF z
<1>5. /\ <<ETX>> \o more \in Seq(Byte) /\ d \o (<<ETX>> \o more) \in Seq(Byte)
      /\ z \o (d \o (<<ETX>> \o more)) \in Seq(Byte) /\ <<STX>> \o z \in Seq(Byte)
      /\ (<<STX>> \o z) \o d \in Seq(Byte) /\ ((<<STX>> \o z) \o d) \o <<ETX>> \in Seq(Byte)
  BY <1>2, <1>4, BytesConcat
<1>6. (((<<STX>> \o z) \o d) \o <<ETX>>) \o more = <<STX>> \o (z \o (d \o (<<ETX>> \o more)))
  <2> DEFINE f == <<STX>>
             g == <<ETX>>
  <2>1. f \in Seq(Byte) /\ g \in Seq(Byte)
    BY <1>4
  <2> HIDE DEF f, g
  <2>2. Cat(Cat(Cat(Cat(f, z), d), g), more) = Cat(f, Cat(z, Cat(d, Cat(g, more))))
    BY <1>2, <2>1, FiveParts
  <2> QED
    BY <2>2, Zenon DEF f, g, Cat
<1>9. LargeFrame(d) = ((<<STX>> \o z) \o d) \o <<ETX>>
  BY DEF LargeFrame, z
<1> QED
  BY <1>1, <1>2, <1>3, <1>5, <1>6, <1>9 DEF z

(* receive_large_data returns d, and leaves what follows. *)
LEMMA LargeReads ==
  ASSUME NEW d \in Seq(Byte), NEW more \in Seq(Byte), NEW r, NEW s \in Seq(Byte),
         Len(d) <= 2 ^ 30, LargeReading(r, d, more, s), s # <<>>
  PROVE  LET q == LargeStep(r, Head(s)) IN
         /\ q \in Reader
         /\ \/ Finished(q) /\ q.data = d /\ q.size = Len(d) /\ Tail(s) = more
            \/ ~Finished(q) /\ LargeReading(q, d, more, Tail(s))
<1> DEFINE c == Head(s)
           q == LargeStep(r, c)
           rest == <<ETX>> \o more
           body == SizeBytes(Len(d)) \o (d \o rest)
<1>1. ETX \in Byte /\ STX \in Byte
  BY DEF ETX, STX, Byte
<1>2. rest \in Seq(Byte) /\ Head(rest) = ETX /\ Tail(rest) = more
  BY <1>1, FirstByte
<1>3. CASE r = NewReader /\ s = LargeFrame(d) \o more
  <2>1. /\ body \in Seq(Byte) /\ s = <<STX>> \o body
        /\ Rest(SizeBytes(Len(d)), 0) = SizeBytes(Len(d))
        /\ Len(d) \in Nat /\ Len(d) % 256 ^ 0 = 0
    BY <1>3, LargeParts
  <2>2. c = STX /\ Tail(s) = body
    BY <1>1, <2>1, FirstByte
  <2>3. q = [NewReader EXCEPT !.at = "size"]
    BY <1>3, <2>2, NewReaderType DEF LargeStep
  <2> HIDE DEF q, c
  <2>4. q \in Reader /\ q.at = "size" /\ q.count = 0 /\ q.data = <<>> /\ q.size = 0
    BY <2>3, NewReaderType DEF Reader
  <2>5. Framed(q, d, rest, Tail(s))
    <3>1. q.count \in 0 .. 3 /\ q.size = Len(d) % 256 ^ q.count
      BY <2>1, <2>4
    <3>2. Tail(s) = Rest(SizeBytes(Len(d)), q.count) \o (d \o rest)
      BY <2>1, <2>2, <2>4
    <3> QED
      BY <2>4, <3>1, <3>2 DEF Framed
  <2> QED
    BY <2>4, <2>5 DEF LargeReading, Finished, q, c, rest
<1>4. CASE Framed(r, d, rest, s)
  <2> HIDE DEF rest
  <2>1. /\ r.at \in {"size", "data"}
        /\ FramedStep(r, c, "end") \in Reader
        /\ LET p == FramedStep(r, c, "end") IN
           \/ p.at = "end" /\ p.data = d /\ p.size = Len(d) /\ Tail(s) = rest
           \/ p.at \in {"size", "data"} /\ Framed(p, d, rest, Tail(s))
    BY <1>2, <1>4, FramedReads
  <2>2. q = FramedStep(r, c, "end")
    BY <2>1 DEF FramedStep, LargeStep
  <2> HIDE DEF q, c
  <2>3. ~Finished(q)
    BY <2>1, <2>2 DEF Finished
  <2> QED
    BY <2>1, <2>2, <2>3 DEF LargeReading, q, c, rest
<1>5. CASE r \in Reader /\ r.at = "end" /\ r.data = d /\ r.size = Len(d) /\ s = rest
  <2>1. c = ETX /\ Tail(s) = more
    BY <1>2, <1>5
  <2>2. q = [r EXCEPT !.at = "got"]
    BY <1>5, <2>1 DEF LargeStep
  <2> HIDE DEF q, c
  <2>3. q \in Reader /\ q.at = "got" /\ q.data = d /\ q.size = Len(d)
    BY <1>5, <2>2 DEF Reader
  <2> QED
    BY <2>1, <2>3 DEF Finished, q, c
<1> QED
  BY <1>3, <1>4, <1>5 DEF LargeReading

(* receive_small_string, of d *)
SmallReading(r, d, s) ==
  \/ r = NewReader /\ s = <<STX>> \o (d \o <<ETX>>)
  \/ r \in Reader /\ r.at = "data" /\ Len(r.data) <= Len(d) /\ r.data \o s = d \o <<ETX>>

(* A short string without ETX is sent whole. *)
LEMMA SmallParts ==
  ASSUME NEW d \in Seq(Byte), Len(d) <= 255
  PROVE  /\ SmallFrame(d, 255) = <<STX>> \o (d \o <<ETX>>)
         /\ SmallFrame(d, 255) \in Seq(Byte)
<1>1. Len(d) \in Nat
  BY LenProperties
<1>2. SubSeq(d, 1, IF Len(d) < 255 THEN Len(d) ELSE 255) = d
  <2>1. (IF Len(d) < 255 THEN Len(d) ELSE 255) = Len(d)
    <3>0. \A n \in Nat : n <= 255 => n < 255 \/ n = 255
      OBVIOUS
    <3>1. CASE Len(d) < 255
      BY <3>1
    <3>2. CASE Len(d) = 255
      BY <3>2
    <3> QED
      BY <1>1, <3>0, <3>1, <3>2, Zenon
  <2>2. SubSeq(d, 1, Len(d)) = d
    BY RestOfMessage DEF Rest
  <2> QED
    BY <2>1, <2>2
<1>3. <<STX>> \in Seq(Byte) /\ <<ETX>> \in Seq(Byte)
  BY DEF STX, ETX, Byte
<1>4. SmallFrame(d, 255) = (<<STX>> \o d) \o <<ETX>>
  BY <1>2 DEF SmallFrame
<1>5. (<<STX>> \o d) \o <<ETX>> = <<STX>> \o (d \o <<ETX>>)
  BY <1>3, BytesAssociate
<1>6. d \o <<ETX>> \in Seq(Byte)
  BY <1>3, BytesConcat
<1>7. <<STX>> \o (d \o <<ETX>>) \in Seq(Byte)
  BY <1>3, <1>6, BytesConcat
<1> QED
  BY <1>4, <1>5, <1>7

(* receive_small_string returns d, with nothing left. *)
LEMMA SmallReads ==
  ASSUME NEW d \in Seq(Byte), NEW r, NEW s \in Seq(Byte),
         Free(d, ETX), SmallReading(r, d, s), s # <<>>
  PROVE  LET q == SmallStep(r, Head(s)) IN
         /\ q \in Reader
         /\ \/ Finished(q) /\ q.data = d /\ Tail(s) = <<>>
            \/ ~Finished(q) /\ SmallReading(q, d, Tail(s))
<1> DEFINE c == Head(s)
           q == SmallStep(r, c)
           u == d \o <<ETX>>
<1>1. ETX \in Byte /\ STX \in Byte /\ <<ETX>> \in Seq(Byte) /\ <<>> \in Seq(Byte)
  BY DEF ETX, STX, Byte
<1>2. /\ u \in Seq(Byte) /\ Len(d) \in Nat /\ Len(u) = Len(d) + 1
      /\ \A i \in 1 .. Len(d) + 1 : u[i] = IF i <= Len(d) THEN d[i] ELSE <<ETX>>[i - Len(d)]
  <2>1. Len(<<ETX>>) = 1
    OBVIOUS
  <2> QED
    BY <1>1, <2>1, BytesConcat
<1>3. c \in Byte /\ Tail(s) \in Seq(Byte)
  BY HeadTailProperties
<1>4. CASE r = NewReader /\ s = <<STX>> \o u
  <2> HIDE DEF u
  <2>1. c = STX /\ Tail(s) = u
    BY <1>1, <1>2, <1>4, FirstByte
  <2>2. q = [NewReader EXCEPT !.at = "data"]
    BY <1>4, <2>1, NewReaderType DEF SmallStep
  <2> HIDE DEF q, c
  <2>3. q \in Reader /\ q.at = "data" /\ q.data = <<>> /\ Len(<<>>) <= Len(d)
    <3>1. q \in Reader /\ q.at = "data"
      BY <2>2, NewReaderType DEF Reader
    <3>2. q.data = NewReader.data
      BY <2>2, NewReaderType DEF Reader
    <3>3. Len(<<>>) = 0
      OBVIOUS
    <3> QED
      BY <1>2, <3>1, <3>2, <3>3, NewReaderType
  <2>4. <<>> \o u = u
    BY <1>2, ConcatEmptySeq
  <2> QED
    BY <2>1, <2>3, <2>4 DEF SmallReading, Finished, q, c, u
<1>5. CASE r \in Reader /\ r.at = "data" /\ Len(r.data) <= Len(d) /\ r.data \o s = u
  <2>1. r.data \in Seq(Byte) /\ Len(r.data) \in Nat
    BY <1>5, LenProperties DEF Reader
  <2>2. u[Len(r.data) + 1] = c
    <3>1. (r.data \o s) \o <<>> = r.data \o s
      BY <2>1, BytesConcat
    <3>2. ((r.data \o s) \o <<>>)[Len(r.data) + 1] = Head(s)
      BY <1>1, <2>1, NextByte
    <3> QED
      BY <1>5, <3>1, <3>2
  <2>3. Append(r.data, c) \o Tail(s) = u
    BY <1>5, <2>1, ReadKeepsOrder
  <2>4. CASE c = ETX
    <3>1. Len(r.data) = Len(d)
      <4> SUFFICES ASSUME Len(r.data) < Len(d) PROVE FALSE
        BY <1>2, <1>5, <2>1
      <4>1. Len(r.data) + 1 \in 1 .. Len(d) /\ Len(r.data) + 1 \in 1 .. Len(d) + 1
            /\ Len(r.data) + 1 <= Len(d)
        BY <1>2, <2>1
      <4> QED
        BY <1>2, <2>2, <2>4, <4>1 DEF Free
    <3>2. r.data = d /\ s = <<ETX>>
      BY <1>1, <1>5, <2>1, <3>1, SplitUnique
    <3>3. q = [r EXCEPT !.at = "got"]
      BY <1>5, <2>4 DEF SmallStep
    <3> HIDE DEF q, c
    <3>4. q.at = "got" /\ q.data = r.data /\ q \in Reader
      BY <1>5, <3>3 DEF Reader
    <3> QED
      BY <3>2, <3>4 DEF Finished, q, c
  <2>5. CASE c # ETX
    <3> DEFINE e == Append(r.data, c)
    <3>1. e \in Seq(Byte) /\ Len(e) = Len(r.data) + 1
      BY <1>3, <2>1, AppendProperties
    <3>2. Len(r.data) < Len(d)
      <4> SUFFICES ASSUME Len(r.data) = Len(d) PROVE FALSE
        BY <1>2, <1>5, <2>1
      <4>1. r.data = d /\ s = <<ETX>>
        BY <1>1, <1>5, <2>1, SplitUnique
      <4> QED
        BY <2>5, <4>1
    <3>3. q = [r EXCEPT !.data = e]
      BY <1>5, <2>5 DEF SmallStep
    <3> HIDE DEF q, c, e
    <3>4. q.at = "data" /\ q.data = e /\ q \in Reader
      BY <1>5, <3>1, <3>3 DEF Reader
    <3>5. Len(e) <= Len(d)
      BY <1>2, <2>1, <3>1, <3>2
    <3> QED
      BY <2>3, <3>4, <3>5 DEF Finished, SmallReading, q, c, e, u
  <2> QED
    BY <2>4, <2>5
<1> QED
  BY <1>4, <1>5 DEF SmallReading

(* The Tester's loop that receives the file of this name and content. *)
FileReading(r, name, d, more, s) ==
  \/ r = NewReader /\ Preceded(s, FTX, FileFrame(name, d) \o more)
  \/ /\ r \in Reader /\ r = [NewReader EXCEPT !.at = "name"]
     /\ Preceded(s, NUL, <<NUL>> \o (SizeBytes(Len(d)) \o (d \o more)))
  \/ Framed(r, d, more, s)

(* The parts of a file. *)
LEMMA FileParts ==
  ASSUME NEW name \in Seq(Byte), NEW d \in Seq(Byte), NEW more \in Seq(Byte)
  PROVE  LET body == SizeBytes(Len(d)) \o (d \o more) IN
         /\ FileFrame(name, d) \in Seq(Byte)
         /\ body \in Seq(Byte) /\ name \o (<<NUL>> \o body) \in Seq(Byte)
         /\ FileFrame(name, d) \o more = <<FTX>> \o (name \o (<<NUL>> \o body))
         /\ Rest(SizeBytes(Len(d)), 0) = SizeBytes(Len(d))
         /\ Len(d) \in Nat /\ Len(d) % 256 ^ 0 = 0
<1> DEFINE z == SizeBytes(Len(d))
           f == <<FTX>>
           o == <<NUL>>
<1>1. Len(d) \in Nat
  BY LenProperties
<1>2. z \in Seq(Byte) /\ Len(d) % 256 ^ 0 = 0
  BY <1>1, SizeDecodes
<1>3. Rest(z, 0) = z
  BY <1>2, RestOfMessage
<1>4. f \in Seq(Byte) /\ o \in Seq(Byte)
  BY DEF FTX, NUL, Byte
<1>9. FileFrame(name, d) = (((f \o name) \o o) \o z) \o d
  BY DEF FileFrame
<1> HIDE DEF z, f, o
<1>5. /\ d \o more \in Seq(Byte) /\ z \o (d \o more) \in Seq(Byte)
      /\ o \o (z \o (d \o more)) \in Seq(Byte) /\ f \o name \in Seq(Byte)
      /\ (f \o name) \o o \in Seq(Byte) /\ ((f \o name) \o o) \o z \in Seq(Byte)
      /\ (((f \o name) \o o) \o z) \o d \in Seq(Byte)
      /\ name \o (o \o (z \o (d \o more))) \in Seq(Byte)
  BY <1>2, <1>4, BytesConcat
<1>6. ((((f \o name) \o o) \o z) \o d) \o more = f \o (name \o (o \o (z \o (d \o more))))
  <2>1. z \in Seq(Byte)
    BY <1>2
  <2>2. Cat(Cat(Cat(Cat(Cat(f, name), o), z), d), more)
          = Cat(f, Cat(name, Cat(o, Cat(z, Cat(d, more)))))
    BY <1>4, <2>1, SixParts
  <2> QED
    BY <2>2, Zenon DEF Cat
<1> QED
  BY <1>1, <1>2, <1>3, <1>5, <1>6, <1>9 DEF z, f, o

(* The Tester returns from the loop when the content is complete, and leaves *)
(* what follows.                                                            *)
LEMMA FileReads ==
  ASSUME NEW name \in Seq(Byte), NEW d \in Seq(Byte), NEW more \in Seq(Byte), NEW r,
         NEW s \in Seq(Byte),
         Free(name, NUL), Len(d) <= 2 ^ 30, FileReading(r, name, d, more, s), s # <<>>
  PROVE  LET q == FileStep(r, Head(s)) IN
         /\ q \in Reader
         /\ \/ Finished(q) /\ Tail(s) = more
            \/ ~Finished(q) /\ FileReading(q, name, d, more, Tail(s))
<1> DEFINE c == Head(s)
           q == FileStep(r, c)
           body == SizeBytes(Len(d)) \o (d \o more)
           tail == name \o (<<NUL>> \o body)
<1>1. FTX \in Byte /\ NUL \in Byte
  BY DEF FTX, NUL, Byte
<1>2. /\ body \in Seq(Byte) /\ tail \in Seq(Byte)
      /\ FileFrame(name, d) \o more = <<FTX>> \o tail
      /\ Rest(SizeBytes(Len(d)), 0) = SizeBytes(Len(d))
      /\ Len(d) \in Nat /\ Len(d) % 256 ^ 0 = 0
  <2>1. LET b == SizeBytes(Len(d)) \o (d \o more) IN
        /\ FileFrame(name, d) \in Seq(Byte)
        /\ b \in Seq(Byte) /\ name \o (<<NUL>> \o b) \in Seq(Byte)
        /\ FileFrame(name, d) \o more = <<FTX>> \o (name \o (<<NUL>> \o b))
        /\ Rest(SizeBytes(Len(d)), 0) = SizeBytes(Len(d))
        /\ Len(d) \in Nat /\ Len(d) % 256 ^ 0 = 0
    BY FileParts, ZenonT(30)
  <2> QED
    BY <2>1
<1> HIDE DEF tail
<1>3. CASE r = NewReader /\ Preceded(s, FTX, FileFrame(name, d) \o more)
  <2>1. /\ c = FTX => Tail(s) = tail
        /\ c # FTX => Preceded(Tail(s), FTX, <<FTX>> \o tail)
    BY <1>1, <1>2, <1>3, PrecededReads
  <2>2. CASE c = FTX
    <3>1. q = [NewReader EXCEPT !.at = "name"]
      BY <1>3, <2>2, NewReaderType DEF FileStep
    <3>2. Preceded(Tail(s), NUL, <<NUL>> \o body)
      BY <2>1, <2>2 DEF Preceded, tail
    <3> HIDE DEF q, c
    <3>3. q \in Reader /\ q.at = "name"
      BY <3>1, NewReaderType DEF Reader
    <3> QED
      BY <3>1, <3>2, <3>3 DEF Finished, FileReading, q, c
  <2>3. CASE c # FTX
    <3>1. q = NewReader
      BY <1>3, <2>3, NewReaderType DEF FileStep
    <3> HIDE DEF q, c
    <3> QED
      BY <1>2, <2>1, <2>3, <3>1, NewReaderType DEF FileReading, q, c
  <2> QED
    BY <2>2, <2>3
<1>4. CASE r \in Reader /\ r = [NewReader EXCEPT !.at = "name"] /\ Preceded(s, NUL, <<NUL>> \o body)
  <2>1. /\ c = NUL => Tail(s) = body
        /\ c # NUL => Preceded(Tail(s), NUL, <<NUL>> \o body)
    <3>1. body \in Seq(Byte)
      BY <1>2
    <3> HIDE DEF body
    <3> QED
      BY <1>1, <1>4, <3>1, PrecededReads
  <2>2. r.at = "name" /\ r.count = 0 /\ r.data = <<>> /\ r.size = 0
    BY <1>4, NewReaderType DEF NewReader
  <2>3. CASE c = NUL
    <3>1. q = [r EXCEPT !.at = "size"]
      BY <2>2, <2>3 DEF FileStep
    <3> HIDE DEF q, c
    <3>2. q \in Reader /\ q.at = "size" /\ q.count = 0 /\ q.data = <<>> /\ q.size = 0
      BY <1>4, <2>2, <3>1 DEF Reader
    <3>3. Framed(q, d, more, Tail(s))
      <4>1. q.count \in 0 .. 3 /\ q.size = Len(d) % 256 ^ q.count
        BY <1>2, <3>2
      <4>2. Tail(s) = Rest(SizeBytes(Len(d)), q.count) \o (d \o more)
        BY <1>2, <2>1, <2>3, <3>2
      <4> QED
        BY <3>2, <4>1, <4>2 DEF Framed
    <3> QED
      BY <3>2, <3>3 DEF Finished, FileReading, q, c
  <2>4. CASE c # NUL
    <3>1. q = r
      BY <2>2, <2>4 DEF FileStep
    <3> HIDE DEF q, c
    <3> QED
      BY <1>4, <2>1, <2>2, <2>4, <3>1 DEF FileReading, Finished, q, c
  <2> QED
    BY <2>3, <2>4
<1>5. CASE Framed(r, d, more, s)
  <2>1. /\ r.at \in {"size", "data"}
        /\ FramedStep(r, c, "got") \in Reader
        /\ LET p == FramedStep(r, c, "got") IN
           \/ p.at = "got" /\ p.data = d /\ p.size = Len(d) /\ Tail(s) = more
           \/ p.at \in {"size", "data"} /\ Framed(p, d, more, Tail(s))
    BY <1>5, FramedReads
  <2>2. q = FramedStep(r, c, "got")
    BY <2>1 DEF FramedStep, FileStep
  <2> HIDE DEF q, c
  <2> QED
    BY <2>1, <2>2 DEF FileReading, Finished, q, c
<1> QED
  BY <1>3, <1>4, <1>5 DEF FileReading
=================================================================================
