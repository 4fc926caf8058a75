------------------------------ MODULE Relay_proofs ------------------------------
(* Loading, for every console, FIFO and program: types, the right file, no  *)
(* byte lost on the way to the SUT, and the steps of FileService.          *)
EXTENDS Relay, Link_proofs

Clean(s) == Free(s, FRX)

(* s ends with the request of a file named name, whose FRX is at n and the  *)
(* first one of s                                                          *)
AskedAt(s, n, name) ==
  /\ Len(s) = n + Len(name) + 1
  /\ \A i \in 1 .. n - 1 : s[i] # FRX
  /\ s[n] = FRX
  /\ \A i \in 1 .. Len(name) : s[n + i] = name[i]
  /\ s[Len(s)] = NUL

(* the request of the file is whole, behind at least d other bytes *)
Whole(s, d, name) == \E n \in 1 .. Len(s) : n > d /\ AskedAt(s, n, name)

Want     == JobName(job)
Asking   == sut = "size" /\ count = 0 /\ size = 0 /\ got = 0
Stopped  == sut \in {"request", "done"}
Fetched  == tname = Want /\ tname \in DOMAIN Files /\ tbuf = Received(Files[tname])

---------------------------------------------------------------------------------
(* Where every byte is, by the phase that the transfer is in. *)

(* no request is under way *)
Waiting ==
  /\ Stopped
  /\ tst \in {"print", "frx", "done"}
  /\ Back = <<>>
  /\ tst # "done" => Clean(Ahead)

(* the request is: what the Tester has not lost of it is whole *)
Requested ==
  /\ Asking
  /\ tst \in {"print", "frx", "done"}
  /\ Back = <<>>
  /\ tst = "print" => Clean(rx["tst"]) /\ (Clean(Ahead) \/ Whole(Ahead, Depth["tst"], Want))
  /\ tst = "frx" => Clean(Ahead) \/ Whole(Ahead, 0, Want)

Naming ==
  /\ Asking
  /\ tst = "name"
  /\ Back = <<>>
  /\ tname \o Ahead = Want \o <<NUL>>

Fetching ==
  /\ Asking
  /\ tst = "fetch"
  /\ Back = <<>> /\ Ahead = <<>>
  /\ tname = Want

Sizing ==
  /\ sut = "size" /\ count \in 0 .. 3 /\ got = 0
  /\ tst = "ack"
  /\ Ahead = <<>>
  /\ Fetched
  /\ Back = Rest(SizeBytes(Len(tbuf)), count)
  /\ size = Len(tbuf) % (256 ^ count)

Acked ==
  /\ sut = "data" /\ got = 0
  /\ tst = "ack"
  /\ Ahead = <<ACK>> /\ Back = <<>>
  /\ Fetched
  /\ size = Len(tbuf)

Storing ==
  /\ sut = "data"
  /\ tst \in {"print", "frx", "done"}
  /\ Ahead = <<>>
  /\ Fetched
  /\ Back = Rest(tbuf, got)
  /\ size = Len(tbuf)

(* an empty file is stored before the Tester has read the ACK *)
Early ==
  /\ Stopped \/ Asking
  /\ tst = "ack"
  /\ tbuf = <<>>
  /\ Back = <<>>
  /\ Len(rx["tst"]) <= Depth["tst"]
  /\ Ahead # <<>> /\ Head(Ahead) = ACK
  /\ Stopped => Clean(Ahead)
  /\ Asking => Whole(Ahead, Depth["tst"] + 1, Want)

Phase ==
  Waiting \/ Requested \/ Naming \/ Fetching \/ Sizing \/ Acked \/ Storing \/ Early

(* Which files are loaded and which one is next. *)
Books ==
  /\ job <= Len(console.entries)
  /\ Len(loaded) = IF sut = "done" THEN job + 1 ELSE job
  /\ listed = IF job = 0 /\ sut # "done" THEN NoFiles ELSE Listing(console)
  /\ sut = "done" => job = Len(console.entries)
  /\ tst # "done" => relays < 2

(* The configuration, as far as it is received, is in memory. *)
ConfigStored ==
  sut = "data" /\ job = 0 =>
    \A k \in 1 .. got : mem[k - 1] = Files[ConfigName][k]

Inv == TypeOK /\ Books /\ Phase /\ ConfigStored

---------------------------------------------------------------------------------
(* Sequences of bytes *)

(* A stream without FRX stays so when bytes are read, lost or appended. *)
LEMMA CleanStays ==
  /\ \A s \in Seq(Byte) : s # <<>> /\ Clean(s) => Clean(Tail(s))
  /\ \A r, t \in Seq(Byte) : t # <<>> /\ Clean(r \o t) => Clean(r \o Tail(t))
  /\ \A s, t \in Seq(Byte) : Clean(s \o t) <=> Clean(s) /\ Clean(t)
BY FreeStays DEF Clean

(* The messages are clean, and so is the empty stream. *)
LEMMA TextIsClean ==
  /\ Text \in Seq(Byte) /\ Len(Text) = TextLen /\ Clean(Text)
  /\ Clean(<<>>) /\ Clean(<<EOT>>) /\ Clean(<<255, ENQ>>)
<1>1. Text \in Seq(Byte) /\ Len(Text) = TextLen
  BY TextAssumption, IsASeq DEF Text, TXT, Byte
<1>2. Clean(Text)
  BY <1>1, TextAssumption DEF Clean, Free, Text, TXT, FRX
<1> QED
  BY <1>1, <1>2 DEF Clean, Free, FRX, EOT, ENQ

(* A request that is put comes behind everything else, with a message of    *)
(* its own in front.                                                       *)
LEMMA RequestIsAsked ==
  ASSUME NEW s \in Seq(Byte), NEW name \in Seq(Byte), Clean(s)
  PROVE  /\ Request(name) \in Seq(Byte)
         /\ s \o Request(name) \in Seq(Byte)
         /\ Len(s) + TextLen + 1 \in 1 .. Len(s \o Request(name))
         /\ AskedAt(s \o Request(name), Len(s) + TextLen + 1, name)
<1> DEFINE u == Text \o <<FRX>>
           v == u \o name
           w == v \o <<NUL>>
           z == s \o w
           n == Len(s) + TextLen + 1
<1>1. <<FRX>> \in Seq(Byte) /\ <<NUL>> \in Seq(Byte) /\ Len(<<FRX>>) = 1 /\ Len(<<NUL>>) = 1
      /\ <<FRX>>[1] = FRX /\ <<NUL>>[1] = NUL
  BY DEF Byte, FRX, NUL
<1>2. Text \in Seq(Byte) /\ Len(Text) = TextLen /\ Clean(Text) /\ TextLen \in Nat
      /\ Len(s) \in Nat /\ Len(name) \in Nat
  BY TextIsClean, TextAssumption, LenProperties
<1>3. /\ u \in Seq(Byte) /\ Len(u) = TextLen + 1
      /\ \A i \in 1 .. TextLen + 1 : u[i] = IF i <= TextLen THEN Text[i] ELSE <<FRX>>[i - TextLen]
  BY <1>1, <1>2, BytesConcat
<1>4. u[TextLen + 1] = FRX /\ \A i \in 1 .. TextLen : u[i] # FRX
  <2>1. (TextLen + 1) - TextLen = 1 /\ ~(TextLen + 1 <= TextLen) /\ TextLen + 1 \in 1 .. TextLen + 1
    BY <1>2
  <2>2. u[TextLen + 1] = FRX
    BY <1>1, <1>3, <2>1
  <2>3. \A i \in 1 .. TextLen : u[i] # FRX
    BY <1>2, <1>3 DEF Clean, Free
  <2> QED
    BY <2>2, <2>3
<1> HIDE DEF u
<1>5. /\ v \in Seq(Byte) /\ Len(v) = Len(u) + Len(name)
      /\ \A i \in 1 .. Len(u) + Len(name) :
           v[i] = IF i <= Len(u) THEN u[i] ELSE name[i - Len(u)]
  BY <1>3, ConcatProperties
<1> HIDE DEF v
<1>6. /\ w \in Seq(Byte) /\ Len(w) = Len(v) + 1
      /\ \A i \in 1 .. Len(v) + 1 :
           w[i] = IF i <= Len(v) THEN v[i] ELSE <<NUL>>[i - Len(v)]
  BY <1>1, <1>5, ConcatProperties
<1> HIDE DEF w
<1>7. /\ z \in Seq(Byte) /\ Len(z) = Len(s) + Len(w)
      /\ \A i \in 1 .. Len(s) + Len(w) : z[i] = IF i <= Len(s) THEN s[i] ELSE w[i - Len(s)]
  <2>1. w \in Seq(Byte)
    BY <1>6
  <2> QED
    BY <2>1, ConcatProperties
<1> HIDE DEF z
<1>a. /\ Len(v) = TextLen + 1 + Len(name)
      /\ Len(w) = TextLen + 1 + Len(name) + 1
      /\ Len(z) = n + Len(name) + 1
  <2>1. Len(v) = TextLen + 1 + Len(name)
    BY <1>2, <1>3, <1>5
  <2>2. Len(w) = TextLen + 1 + Len(name) + 1
    BY <1>6, <2>1
  <2>3. Len(z) = n + Len(name) + 1
    BY <1>2, <1>7, <2>2
  <2> QED
    BY <2>1, <2>2, <2>3
<1>8. \A i \in 1 .. n - 1 : z[i] # FRX
  <2> SUFFICES ASSUME NEW i \in 1 .. n - 1 PROVE z[i] # FRX
    OBVIOUS
  <2>1. CASE i <= Len(s)
    <3>1. i \in 1 .. Len(s) /\ i \in 1 .. Len(s) + Len(w)
      BY <1>2, <1>a, <2>1
    <3>2. z[i] = s[i]
      BY <1>7, <2>1, <3>1
    <3> QED
      BY <3>1, <3>2 DEF Clean, Free
  <2>2. CASE ~(i <= Len(s))
    <3>1. i - Len(s) \in 1 .. TextLen /\ i \in 1 .. Len(s) + Len(w)
      BY <1>2, <1>7, <1>a, <2>2
    <3>2. z[i] = u[i - Len(s)]
      <4>1. z[i] = w[i - Len(s)]
        BY <1>7, <2>2, <3>1
      <4>2. w[i - Len(s)] = v[i - Len(s)]
        <5>1. i - Len(s) \in 1 .. Len(v) + 1 /\ i - Len(s) <= Len(v)
          BY <1>2, <1>a, <3>1
        <5> QED
          BY <1>6, <5>1
      <4>3. v[i - Len(s)] = u[i - Len(s)]
        BY <1>2, <1>3, <1>5, <3>1
      <4> QED
        BY <4>1, <4>2, <4>3
    <3> QED
      BY <1>4, <3>1, <3>2
  <2> QED
    BY <2>1, <2>2
<1>9. z[n] = FRX
  <2>1. n \in 1 .. Len(s) + Len(w) /\ ~(n <= Len(s)) /\ n - Len(s) = TextLen + 1
    BY <1>2, <1>7, <1>a
  <2>2. z[n] = w[TextLen + 1]
    <3>1. z[n] = w[n - Len(s)]
      BY <1>7, <2>1
    <3> QED
      BY <2>1, <3>1
  <2> QED
    <3>1. w[TextLen + 1] = v[TextLen + 1]
      BY <1>2, <1>6, <1>a
    <3>2. v[TextLen + 1] = u[TextLen + 1]
      BY <1>2, <1>3, <1>5
    <3> QED
      BY <1>4, <2>2, <3>1, <3>2
<1>10. \A i \in 1 .. Len(name) : z[n + i] = name[i]
  <2> SUFFICES ASSUME NEW i \in 1 .. Len(name) PROVE z[n + i] = name[i]
    OBVIOUS
  <2>1. /\ n + i \in 1 .. Len(s) + Len(w) /\ ~(n + i <= Len(s))
        /\ (n + i) - Len(s) = TextLen + 1 + i
    BY <1>2, <1>7, <1>a
  <2>2. z[n + i] = w[TextLen + 1 + i]
    BY <1>7, <1>a, <2>1
  <2>3. w[TextLen + 1 + i] = v[TextLen + 1 + i]
    BY <1>2, <1>6, <1>a
  <2>4. (TextLen + 1 + i) - (TextLen + 1) = i /\ ~(TextLen + 1 + i <= TextLen + 1)
        /\ TextLen + 1 + i \in 1 .. TextLen + 1 + Len(name)
    BY <1>2
  <2> QED
    BY <1>3, <1>5, <2>2, <2>3, <2>4
<1>11. z[Len(z)] = NUL
  <2>1. /\ Len(z) \in 1 .. Len(s) + Len(w) /\ ~(Len(z) <= Len(s))
        /\ Len(z) - Len(s) = TextLen + 1 + Len(name) + 1
    BY <1>2, <1>6, <1>7, <1>a
  <2>2. z[Len(z)] = w[TextLen + 1 + Len(name) + 1]
    BY <1>7, <1>a, <2>1
  <2>3. /\ (TextLen + 1 + Len(name) + 1) - (TextLen + 1 + Len(name)) = 1
        /\ ~(TextLen + 1 + Len(name) + 1 <= TextLen + 1 + Len(name))
        /\ TextLen + 1 + Len(name) + 1 \in 1 .. TextLen + 1 + Len(name) + 1
    BY <1>2
  <2> QED
    BY <1>1, <1>6, <1>a, <2>2, <2>3
<1>12. Request(name) = w
  BY DEF Request, u, v, w
<1>13. n \in 1 .. Len(z)
  BY <1>2, <1>7, <1>a
<1> QED
  BY <1>6, <1>7, <1>a, <1>8, <1>9, <1>10, <1>11, <1>12, <1>13 DEF AskedAt, z

(* Reading, or losing, a byte in front of a request that is whole.  *)
LEMMA AskedStays ==
  ASSUME NEW s \in Seq(Byte), NEW name \in Seq(Byte), NEW n \in 1 .. Len(s),
         AskedAt(s, n, name), Printable(name)
  PROVE  /\ n > 1 => /\ n - 1 \in 1 .. Len(Tail(s))
                     /\ AskedAt(Tail(s), n - 1, name)
         /\ n > 1 => Head(s) # FRX
         /\ n = 1 => Head(s) = FRX /\ Tail(s) = name \o <<NUL>>
<1>1. Len(s) \in Nat \ {0} /\ s # <<>> /\ n \in Nat /\ Len(name) \in Nat
  BY EmptySeq, LenProperties
<1>2. /\ Tail(s) \in Seq(Byte) /\ Len(Tail(s)) = Len(s) - 1 /\ Head(s) = s[1]
      /\ \A i \in 1 .. Len(Tail(s)) : Tail(s)[i] = s[i + 1]
  BY <1>1, HeadTailProperties
<1>3. ASSUME n > 1
      PROVE  n - 1 \in 1 .. Len(Tail(s)) /\ AskedAt(Tail(s), n - 1, name) /\ Head(s) # FRX
  <2>1. Len(s) = n + Len(name) + 1
    BY DEF AskedAt
  <2>2. n - 1 \in 1 .. Len(Tail(s)) /\ Len(Tail(s)) = (n - 1) + Len(name) + 1
    BY <1>1, <1>2, <1>3, <2>1
  <2>3. \A i \in 1 .. (n - 1) - 1 : Tail(s)[i] # FRX
    <3> SUFFICES ASSUME NEW i \in 1 .. (n - 1) - 1 PROVE Tail(s)[i] # FRX
      OBVIOUS
    <3>1. i \in 1 .. Len(Tail(s)) /\ i + 1 \in 1 .. n - 1
      BY <1>1, <2>2
    <3> QED
      BY <1>2, <3>1 DEF AskedAt
  <2>4. Tail(s)[n - 1] = FRX
    BY <1>1, <1>2, <2>2 DEF AskedAt
  <2>5. \A i \in 1 .. Len(name) : Tail(s)[(n - 1) + i] = name[i]
    <3> SUFFICES ASSUME NEW i \in 1 .. Len(name) PROVE Tail(s)[(n - 1) + i] = name[i]
      OBVIOUS
    <3>1. (n - 1) + i \in 1 .. Len(Tail(s)) /\ ((n - 1) + i) + 1 = n + i
      BY <1>1, <2>2
    <3>2. s[n + i] = name[i]
      BY DEF AskedAt
    <3> QED
      BY <1>2, <3>1, <3>2
  <2>6. Tail(s)[Len(Tail(s))] = NUL
    <3>1. Len(Tail(s)) \in 1 .. Len(Tail(s)) /\ Len(Tail(s)) + 1 = Len(s)
      BY <1>1, <1>2, <2>2
    <3> QED
      BY <1>2, <3>1 DEF AskedAt
  <2>7. Head(s) # FRX
    BY <1>1, <1>2, <1>3 DEF AskedAt
  <2> QED
    BY <2>2, <2>3, <2>4, <2>5, <2>6, <2>7 DEF AskedAt
<1>4. ASSUME n = 1
      PROVE  Head(s) = FRX /\ Tail(s) = name \o <<NUL>>
  <2>1. Len(s) = 1 + Len(name) + 1 /\ s[1] = FRX /\ s[Len(s)] = NUL
        /\ \A i \in 1 .. Len(name) : s[1 + i] = name[i]
    BY <1>4 DEF AskedAt
  <2>2. <<NUL>> \in Seq(Byte) /\ Len(<<NUL>>) = 1 /\ <<NUL>>[1] = NUL
    BY DEF Byte, NUL
  <2> DEFINE w == name \o <<NUL>>
  <2>3. /\ w \in Seq(Byte) /\ Len(w) = Len(name) + 1
        /\ \A i \in 1 .. Len(name) + 1 :
             w[i] = IF i <= Len(name) THEN name[i] ELSE <<NUL>>[i - Len(name)]
    BY <2>2, ConcatProperties
  <2> HIDE DEF w
  <2>4. Len(Tail(s)) = Len(w)
    BY <1>1, <1>2, <2>1, <2>3
  <2>5. ASSUME NEW i \in 1 .. Len(w) PROVE Tail(s)[i] = w[i]
    <3>1. Tail(s)[i] = s[i + 1] /\ i \in 1 .. Len(name) + 1
      BY <1>2, <2>3, <2>4
    <3>2. CASE i <= Len(name)
      <4>1. i \in 1 .. Len(name) /\ 1 + i = i + 1
        BY <1>1, <3>1, <3>2
      <4> QED
        BY <2>1, <2>3, <3>1, <3>2, <4>1
    <3>3. CASE ~(i <= Len(name))
      <4>1. i = Len(name) + 1 /\ i - Len(name) = 1 /\ i + 1 = Len(s)
        BY <1>1, <2>1, <3>1, <3>3
      <4> QED
        BY <2>1, <2>2, <2>3, <3>1, <3>3, <4>1
    <3> QED
      BY <3>2, <3>3
  <2>6. Tail(s) = w
    BY <1>2, <2>3, <2>4, <2>5, SeqEqual
  <2> QED
    BY <1>2, <2>1, <2>6 DEF w
<1> QED
  BY <1>3, <1>4

(* When the FIFO r is full of messages a byte t[1] is lost: it is one of    *)
(* the messages, or the FRX, after which nothing is left of the request.   *)
LEMMA AskedOrCut ==
  ASSUME NEW r \in Seq(Byte), NEW t \in Seq(Byte), NEW name \in Seq(Byte),
         NEW n \in 1 .. Len(r \o t), t # <<>>, Clean(r), Printable(name),
         AskedAt(r \o t, n, name)
  PROVE  \/ Clean(r \o Tail(t))
         \/ n - 1 > Len(r) /\ n - 1 \in 1 .. Len(r \o Tail(t))
            /\ AskedAt(r \o Tail(t), n - 1, name)
<1> DEFINE s == r \o t
           u == r \o Tail(t)
<1>1. /\ u \in Seq(Byte)
      /\ Len(u) = Len(s) - 1
      /\ Len(r) < Len(s)
      /\ \A i \in 1 .. Len(s) - 1 : u[i] = IF i <= Len(r) THEN s[i] ELSE s[i + 1]
  BY LostByte
<1>2. /\ s \in Seq(Byte) /\ Len(s) \in Nat /\ Len(r) \in Nat /\ Len(name) \in Nat
      /\ \A i \in 1 .. Len(r) : s[i] = r[i]
  <2>1. Len(s) \in Nat /\ Len(r) \in Nat /\ Len(name) \in Nat /\ Len(t) \in Nat /\ s \in Seq(Byte)
    BY BytesConcat, LenProperties
  <2>2. \A i \in 1 .. Len(r) : s[i] = r[i]
    BY <2>1, BytesConcat
  <2> QED
    BY <2>1, <2>2
<1>3. /\ Len(s) = n + Len(name) + 1
      /\ \A i \in 1 .. n - 1 : s[i] # FRX
      /\ s[n] = FRX
      /\ \A i \in 1 .. Len(name) : s[n + i] = name[i]
      /\ s[Len(s)] = NUL
  BY DEF AskedAt
<1> HIDE DEF s, u
<1>4. n > Len(r) /\ n \in Nat
  BY <1>2, <1>3 DEF Clean, Free, s
<1>5. CASE n > Len(r) + 1
  <2>1. n - 1 > Len(r) /\ n - 1 \in 1 .. Len(u) /\ Len(u) = (n - 1) + Len(name) + 1
    BY <1>1, <1>2, <1>3, <1>4, <1>5
  <2>2. ASSUME NEW i \in 1 .. (n - 1) - 1 PROVE u[i] # FRX
    <3>1. i \in 1 .. Len(s) - 1 /\ i \in 1 .. n - 1 /\ i + 1 \in 1 .. n - 1
      BY <1>1, <1>2, <2>1
    <3> QED
      BY <1>1, <1>3, <3>1
  <2>3. u[n - 1] = FRX
    <3>1. n - 1 \in 1 .. Len(s) - 1 /\ ~(n - 1 <= Len(r)) /\ (n - 1) + 1 = n
      BY <1>1, <1>2, <2>1
    <3> QED
      BY <1>1, <1>3, <3>1
  <2>4. ASSUME NEW i \in 1 .. Len(name) PROVE u[(n - 1) + i] = name[i]
    <3>1. (n - 1) + i \in 1 .. Len(s) - 1 /\ ~((n - 1) + i <= Len(r)) /\ ((n - 1) + i) + 1 = n + i
      BY <1>1, <1>2, <2>1
    <3> QED
      BY <1>1, <1>3, <3>1
  <2>5. u[Len(u)] = NUL
    <3>1. Len(u) \in 1 .. Len(s) - 1 /\ ~(Len(u) <= Len(r)) /\ Len(u) + 1 = Len(s)
      BY <1>1, <1>2, <2>1
    <3> QED
      BY <1>1, <1>3, <3>1
  <2> QED
    BY <2>1, <2>2, <2>3, <2>4, <2>5 DEF AskedAt, u
<1>6. CASE n = Len(r) + 1
  <2>1. ASSUME NEW i \in 1 .. Len(u) PROVE u[i] # FRX
    <3>1. CASE i <= Len(r)
      BY <1>1, <1>2, <1>3, <1>6, <3>1
    <3>2. CASE i > Len(r) /\ i < Len(u)
      <4>1. i - Len(r) \in 1 .. Len(name) /\ i + 1 = n + (i - Len(r)) /\ i \in 1 .. Len(s) - 1
            /\ ~(i <= Len(r))
        <5>1. Len(u) = Len(r) + 1 + Len(name) /\ Len(s) - 1 = Len(u) /\ n = Len(r) + 1
          BY <1>1, <1>2, <1>3, <1>6
        <5>2. Len(u) \in Nat /\ i \in 1 .. Len(u) /\ i < Len(u) /\ i > Len(r)
          BY <1>1, <1>2, <3>2
        <5>3. i \in Int /\ Len(r) \in Int /\ Len(name) \in Int
          BY <1>2, <5>2
        <5>4. i - Len(r) \in 1 .. Len(name)
          <6>1. i < Len(r) + 1 + Len(name)
            BY <5>1, <5>2, <5>3
          <6>2. i - Len(r) >= 1 /\ i - Len(r) <= Len(name) /\ i - Len(r) \in Int
            BY <5>2, <5>3, <6>1
          <6> QED
            BY <5>3, <6>2
        <5>5. i + 1 = n + (i - Len(r))
          BY <5>1, <5>3
        <5>6. i \in 1 .. Len(s) - 1 /\ ~(i <= Len(r))
          BY <5>1, <5>2, <5>3
        <5> QED
          BY <5>4, <5>5, <5>6
      <4>2. u[i] = name[i - Len(r)]
        BY <1>1, <1>3, <4>1
      <4>3. name[i - Len(r)] >= 32 /\ name[i - Len(r)] \in Byte
        BY <4>1, ElementOfSeq DEF Printable
      <4> QED
        BY <4>2, <4>3 DEF FRX, Byte
    <3>3. CASE i > Len(r) /\ i = Len(u)
      <4>1. i + 1 = Len(s) /\ i \in 1 .. Len(s) - 1 /\ ~(i <= Len(r))
        BY <1>1, <1>2, <3>3
      <4> QED
        BY <1>1, <1>3, <4>1 DEF FRX, NUL
    <3> QED
      BY <1>1, <1>2, <3>1, <3>2, <3>3
  <2> QED
    BY <2>1 DEF Clean, Free, u
<1> QED
  <2>1. n > Len(r) + 1 \/ n = Len(r) + 1
    BY <1>2, <1>4
  <2> QED
    BY <1>5, <1>6, <2>1

---------------------------------------------------------------------------------
(* The files *)

(* The files of a console, its configuration among them, are sequences of   *)
(* bytes with printable names, and what it lists is an array of entries.   *)
LEMMA ConsoleTypes ==
  ASSUME NEW c \in Consoles
  PROVE  /\ c.files[ConfigName] \in Seq(Byte) /\ ConfigName \in DOMAIN c.files
         /\ ConfigName \in Seq(Byte) /\ Printable(ConfigName)
         /\ \A n \in DOMAIN c.files : n \in Seq(Byte) /\ c.files[n] \in Seq(Byte)
         /\ Len(c.entries) \in 0 .. MaxFiles
         /\ Listing(c) \in [files : Seq(Seq(Byte)), addrs : Seq(0 .. AddrMod - 1)]
         /\ Len(Listing(c).files) = Len(c.entries)
         /\ \A k \in 1 .. Len(c.entries) :
              /\ c.entries[k].name \in Seq(Byte) /\ Printable(c.entries[k].name)
              /\ c.entries[k].addr \in Nat
              /\ Listing(c).files[k] = c.entries[k].name
              /\ Listing(c).addrs[k] = c.entries[k].addr
<1>1. /\ ConfigName \in DOMAIN c.files
      /\ \A n \in DOMAIN c.files : n \in Seq(Byte) /\ c.files[n] \in Seq(Byte)
      /\ Printable(ConfigName)
  BY RelayAssumption, PrintableAssumption
<1>2. /\ c.entries \in Seq([name : Seq(Byte), addr : 0 .. AddrMod - 1])
      /\ Len(c.entries) <= MaxFiles
  BY ConfigAssumption
<1>3. Len(c.entries) \in Nat
  BY <1>2, LenProperties
<1>4. Len(c.entries) \in 0 .. MaxFiles
  BY <1>2, <1>3, RelayAssumption
<1>5. ASSUME NEW k \in 1 .. Len(c.entries)
      PROVE  /\ c.entries[k].name \in Seq(Byte) /\ Printable(c.entries[k].name)
             /\ c.entries[k].addr \in 0 .. AddrMod - 1
  <2>1. c.entries[k] \in [name : Seq(Byte), addr : 0 .. AddrMod - 1]
    BY <1>2, ElementOfSeq
  <2> QED
    BY <2>1, PrintableAssumption
<1> DEFINE f == [k \in 1 .. Len(c.entries) |-> c.entries[k].name]
           a == [k \in 1 .. Len(c.entries) |-> c.entries[k].addr]
<1>6. f \in Seq(Seq(Byte)) /\ Len(f) = Len(c.entries)
  BY <1>3, <1>5, IsASeq
<1>7. a \in Seq(0 .. AddrMod - 1)
  BY <1>3, <1>5, IsASeq
<1>8. Listing(c) = [files |-> f, addrs |-> a]
  BY DEF Listing
<1>9. \A k \in 1 .. Len(c.entries) : f[k] = c.entries[k].name /\ a[k] = c.entries[k].addr
  OBVIOUS
<1> HIDE DEF f, a
<1>10. \A k \in 1 .. Len(c.entries) : c.entries[k].addr \in Nat
  BY <1>5, RelayAssumption
<1>11. /\ Listing(c) \in [files : Seq(Seq(Byte)), addrs : Seq(0 .. AddrMod - 1)]
       /\ Len(Listing(c).files) = Len(c.entries)
  BY <1>6, <1>7, <1>8
<1>12. \A k \in 1 .. Len(c.entries) :
         Listing(c).files[k] = c.entries[k].name /\ Listing(c).addrs[k] = c.entries[k].addr
  BY <1>8, <1>9
<1>13. c.files[ConfigName] \in Seq(Byte) /\ ConfigName \in Seq(Byte)
  BY <1>1
<1>14. \A k \in 1 .. Len(c.entries) :
         /\ c.entries[k].name \in Seq(Byte) /\ Printable(c.entries[k].name)
         /\ c.entries[k].addr \in Nat
         /\ Listing(c).files[k] = c.entries[k].name
         /\ Listing(c).addrs[k] = c.entries[k].addr
  BY <1>5, <1>10, <1>12
<1> QED
  BY <1>1, <1>4, <1>11, <1>13, <1>14

(* The file that the SUT asks for has a printable name and an address. *)
LEMMA JobIsNamed ==
  ASSUME TypeOK, Books
  PROVE  /\ Want \in Seq(Byte) /\ Printable(Want)
         /\ JobAddr(job) \in Nat
         /\ job # 0 => Want = console.entries[job].name /\ JobAddr(job) = console.entries[job].addr
         /\ job = 0 => Want = ConfigName /\ JobAddr(job) = 0
<1>1. console \in Consoles /\ job \in Nat
  BY DEF TypeOK
<1>2. CASE job = 0
  BY <1>1, <1>2, ConsoleTypes DEF Want, JobName, JobAddr
<1>3. CASE job # 0
  <2>1. listed = Listing(console) /\ job \in 1 .. Len(console.entries)
    <3>1. Len(console.entries) \in Nat
      BY <1>1, ConsoleTypes
    <3> QED
      BY <1>1, <1>3, <3>1 DEF Books
  <2> QED
    BY <1>1, <1>3, <2>1, ConsoleTypes DEF Want, JobName, JobAddr
<1> QED
  BY <1>2, <1>3

(* What the Tester has of a file: all of it, unless it is the Linux program *)
(* and the file is too large for its buffer.                               *)
LEMMA ReceivedType ==
  ASSUME NEW c \in Consoles, NEW n \in DOMAIN c.files
  PROVE  /\ Received(c.files[n]) \in Seq(Byte)
         /\ Len(Received(c.files[n])) <= FirmwareMax
         /\ Len(c.files[n]) <= FirmwareMax => Received(c.files[n]) = c.files[n]
<1> DEFINE d == c.files[n]
<1>1. d \in Seq(Byte) /\ Len(d) \in Nat /\ FirmwareMax \in Nat
  BY RelayAssumption, ConsoleTypes, LenProperties
<1>2. CASE TesterLinux /\ Len(d) > FirmwareMax
  <2>1. FirmwareMax <= Len(d) /\ ~(Len(d) <= FirmwareMax)
    BY <1>1, <1>2
  <2>2. SubSeq(d, 1, FirmwareMax) \in Seq(Byte) /\ Len(SubSeq(d, 1, FirmwareMax)) = FirmwareMax
    BY <1>1, <2>1, SubSeqProperties
  <2> QED
    BY <1>1, <1>2, <2>1, <2>2 DEF Received
<1>3. CASE ~(TesterLinux /\ Len(d) > FirmwareMax)
  <2>1. Len(d) <= FirmwareMax
    BY <1>1, <1>3, BufferAssumption
  <2> QED
    BY <1>1, <1>3, <2>1 DEF Received
<1> QED
  BY <1>2, <1>3

---------------------------------------------------------------------------------
(* The boot loader keeps the invariant. *)

(* A request is appended to what the Tester has yet to read. *)
LEMMA SutRequestKeeps ==
  ASSUME Inv, SutRequest
  PROVE  Inv'
<1>1. TypeOK /\ LinkTypeOK /\ Books
  BY DEF Inv, TypeOK
<1>2. Want \in Seq(Byte) /\ Printable(Want) /\ Want' = Want
  BY <1>1, JobIsNamed DEF Want, JobName, SutRequest
<1>3. /\ Ahead \in Seq(Byte) /\ rx["tst"] \in Seq(Byte) /\ tx["sut"] \in Seq(Byte)
      /\ Depth["tst"] \in Nat /\ TextLen \in Nat /\ TextLen >= Depth["tst"]
      /\ Len(Ahead) \in Nat
  BY <1>1, StreamTypes, LinkAssumption, TextAssumption, LenProperties
<1>4. Request(Want) \in Seq(Byte)
  BY <1>2, TextIsClean, EmptySeq, RequestIsAsked
<1>5. /\ tx' \in [Side -> Seq(Byte)] /\ rx' = rx
      /\ Ahead' = Ahead \o Request(Want) /\ Back' = Back
  BY <1>1, <1>4, SutPuts DEF SutRequest, Want
<1>6. Clean(Ahead) =>
        \A d \in Nat : d <= Len(Ahead) + TextLen => Whole(Ahead', d, Want)
  <2> SUFFICES ASSUME Clean(Ahead), NEW d \in Nat, d <= Len(Ahead) + TextLen
               PROVE  Whole(Ahead', d, Want)
    OBVIOUS
  <2>1. /\ Len(Ahead) + TextLen + 1 \in 1 .. Len(Ahead')
        /\ AskedAt(Ahead', Len(Ahead) + TextLen + 1, Want)
    BY <1>2, <1>3, <1>5, RequestIsAsked
  <2>2. Len(Ahead) + TextLen + 1 > d
    BY <1>3
  <2> QED
    BY <2>1, <2>2 DEF Whole
<1>7. Waiting \/ (Early /\ Stopped)
  BY DEF Inv, Phase, Waiting, Requested, Naming, Fetching, Sizing, Acked, Storing, Early,
         Asking, Stopped, SutRequest
<1>8. Asking' /\ tst' = tst /\ tbuf' = tbuf
  BY DEF SutRequest, Asking, tstVars
<1>9. ASSUME Waiting PROVE Phase'
  <2>1. tst \in {"print", "frx", "done"} /\ Back' = <<>> /\ (tst # "done" => Clean(Ahead))
    BY <1>5, <1>9 DEF Waiting
  <2>2. ASSUME tst = "print" PROVE Clean(rx'["tst"]) /\ Whole(Ahead', Depth["tst"], Want)
    <3>1. Clean(rx["tst"])
      BY <1>3, <2>1, <2>2, CleanStays DEF Ahead
    <3> QED
      BY <1>3, <1>5, <1>6, <2>1, <2>2, <3>1
  <2>3. ASSUME tst = "frx" PROVE Whole(Ahead', 0, Want)
    BY <1>3, <1>6, <2>1, <2>3
  <2>4. Requested'
    BY <1>2, <1>8, <2>1, <2>2, <2>3 DEF Requested
  <2> QED
    BY <2>4 DEF Phase
<1>10. ASSUME Early, Stopped PROVE Phase'
  <2>1. /\ tst = "ack" /\ tbuf = <<>> /\ Back' = <<>>
        /\ Len(rx'["tst"]) <= Depth["tst"]
        /\ Ahead # <<>> /\ Head(Ahead) = ACK /\ Clean(Ahead)
    BY <1>5, <1>10 DEF Early
  <2>2. Ahead' # <<>> /\ Head(Ahead') = ACK
    BY <1>3, <1>4, <1>5, <2>1, HeadOfStream
  <2>3. Len(Ahead) \in Nat \ {0}
    BY <1>3, <2>1, EmptySeq
  <2>4. Whole(Ahead', Depth["tst"] + 1, Want)
    BY <1>3, <1>6, <2>1, <2>3
  <2>5. ~Stopped'
    BY <1>8 DEF Stopped, Asking
  <2>6. Early'
    BY <1>2, <1>8, <2>1, <2>2, <2>4, <2>5 DEF Early
  <2> QED
    BY <2>6 DEF Phase
<1>11. Phase'
  BY <1>7, <1>9, <1>10
<1>12. TypeOK'
  BY <1>1, <1>5 DEF TypeOK, LinkTypeOK, SutRequest, tstVars, SutStates
<1>13. Books' /\ ConfigStored'
  BY <1>1 DEF Books, ConfigStored, SutRequest, tstVars
<1> QED
  BY <1>11, <1>12, <1>13 DEF Inv

(* A byte of the size is added; the fourth one is acknowledged. *)
LEMMA SutSizeKeeps ==
  ASSUME Inv, SutSize
  PROVE  Inv'
<1>1. TypeOK /\ LinkTypeOK /\ Books
  BY DEF Inv, TypeOK
<1>2. /\ rx' \in [Side -> Seq(Byte)] /\ rx'["tst"] = rx["tst"]
      /\ Back # <<>> /\ Head(Back) = Head(rx["sut"]) /\ Head(Back) \in Byte
      /\ tx'["tst"] = tx["tst"] => Back' = Tail(Back)
  BY <1>1, SutReads DEF SutSize
<1>3. Sizing
  BY <1>2 DEF Inv, Phase, Waiting, Requested, Naming, Fetching, Sizing, Acked, Storing, Early,
              Asking, Stopped, SutSize
<1>4. /\ sut = "size" /\ count \in 0 .. 3 /\ got = 0 /\ tst = "ack" /\ Ahead = <<>> /\ Fetched
      /\ Back = Rest(SizeBytes(Len(tbuf)), count)
      /\ size = Len(tbuf) % (256 ^ count)
  BY <1>3 DEF Sizing
<1>5. Len(tbuf) \in Nat /\ Len(tbuf) <= FirmwareMax
  BY <1>1, <1>4, ReceivedType, LenProperties DEF TypeOK, Fetched, Files
<1>6. /\ SizeBytes(Len(tbuf)) \in Seq(Byte) /\ Len(SizeBytes(Len(tbuf))) = 4
      /\ (Len(tbuf) % 256 ^ count) + SizeBytes(Len(tbuf))[count + 1] * 256 ^ count
           = Len(tbuf) % 256 ^ (count + 1)
      /\ Len(tbuf) % 256 ^ 4 = Len(tbuf)
  <2>0. Len(tbuf) <= 2 ^ 30
    BY <1>5, RelayAssumption
  <2>1. /\ \A k \in 0 .. 3 :
             (Len(tbuf) % 256 ^ k) + SizeBytes(Len(tbuf))[k + 1] * 256 ^ k
               = Len(tbuf) % 256 ^ (k + 1)
        /\ SizeBytes(Len(tbuf)) \in Seq(Byte) /\ Len(SizeBytes(Len(tbuf))) = 4
        /\ Len(tbuf) % 256 ^ 4 = Len(tbuf)
    BY <1>5, <2>0, SizeDecodes, ZenonT(30)
  <2> QED
    BY <1>4, <2>1, ZenonT(30)
<1>7. /\ Head(Back) = SizeBytes(Len(tbuf))[count + 1]
      /\ Tail(Back) = Rest(SizeBytes(Len(tbuf)), count + 1)
      /\ Rest(SizeBytes(Len(tbuf)), 4) = <<>>
  <2>1. count \in 0 .. Len(SizeBytes(Len(tbuf)))
    BY <1>4, <1>6
  <2>2. Rest(SizeBytes(Len(tbuf)), count) # <<>>
    BY <1>2, <1>4
  <2> QED
    BY <1>4, <1>6, <2>1, <2>2, RestOfMessage, ZenonT(30)
<1>8. count' = count + 1 /\ size' = Len(tbuf) % 256 ^ (count + 1)
  BY <1>2, <1>4, <1>6, <1>7 DEF SutSize
<1>9. /\ got' = 0 /\ tst' = "ack" /\ tbuf' = tbuf /\ Fetched' /\ job' = job /\ listed' = listed
      /\ mem' = mem /\ loaded' = loaded /\ console' = console /\ relays' = relays
      /\ tname' = tname
  BY <1>4 DEF SutSize, tstVars, Fetched, Files, Want, JobName
<1>10. CASE count' = 4
  <2>1. sut' = "data" /\ Put("sut", <<ACK>>) /\ count = 3
    BY <1>4, <1>8, <1>10 DEF SutSize
  <2>2. /\ tx' \in [Side -> Seq(Byte)] /\ tx'["tst"] = tx["tst"]
        /\ Ahead' = Ahead \o <<ACK>>
    <3>1. <<ACK>> \in Seq(Byte)
      BY DEF ACK, Byte
    <3> QED
      BY <1>1, <1>2, <2>1, <3>1, SutPuts
  <2>3. Ahead' = <<ACK>> /\ Back' = <<>>
    <3>1. <<ACK>> \in Seq(Byte) /\ count + 1 = 4
      BY <2>1 DEF ACK, Byte
    <3>2. <<>> \o <<ACK>> = <<ACK>>
      BY <3>1, ConcatEmptySeq
    <3> QED
      BY <1>2, <1>4, <1>7, <2>2, <3>1, <3>2
  <2>4. size' = Len(tbuf)
    <3>1. count + 1 = 4
      BY <2>1
    <3> QED
      BY <1>6, <1>8, <3>1
  <2>5. Acked'
    BY <1>9, <2>1, <2>3, <2>4 DEF Acked
  <2>6. TypeOK'
    BY <1>1, <1>2, <1>5, <1>9, <1>10, <2>1, <2>2, <2>4, SMTT(30) DEF TypeOK, LinkTypeOK, SutStates, TstStates
  <2>7. Books' /\ ConfigStored'
    BY <1>1, <1>4, <1>9, <2>1 DEF Books, ConfigStored
  <2> QED
    BY <2>5, <2>6, <2>7 DEF Inv, Phase
<1>11. CASE count' # 4
  <2>1. sut' = "size" /\ tx' = tx /\ count' \in 0 .. 3
    BY <1>4, <1>8, <1>11 DEF SutSize
  <2>2. Ahead' = <<>> /\ Back' = Rest(SizeBytes(Len(tbuf)), count')
    BY <1>2, <1>4, <1>7, <1>8, <2>1 DEF Ahead
  <2>3. Sizing'
    BY <1>8, <1>9, <2>1, <2>2 DEF Sizing
  <2>4. size' \in Nat
    <3>1. count + 1 = 1 \/ count + 1 = 2 \/ count + 1 = 3
      BY <1>4, <1>8, <2>1
    <3>2. Len(tbuf) % 256 ^ 1 \in Nat /\ Len(tbuf) % 256 ^ 2 \in Nat /\ Len(tbuf) % 256 ^ 3 \in Nat
      BY <1>5
    <3> QED
      BY <1>8, <3>1, <3>2, ZenonT(30)
  <2>5. TypeOK'
    BY <1>1, <1>2, <1>9, <2>1, <2>4, SMTT(30) DEF TypeOK, LinkTypeOK, SutStates, TstStates
  <2>6. Books' /\ ConfigStored'
    BY <1>1, <1>4, <1>9, <2>1 DEF Books, ConfigStored
  <2> QED
    BY <2>3, <2>5, <2>6 DEF Inv, Phase
<1> QED
  BY <1>10, <1>11

(* The file that is passed on: the Tester holds the configuration whole. *)
LEMMA FetchedFile ==
  ASSUME TypeOK, Books, Fetched
  PROVE  /\ tbuf \in Seq(Byte) /\ Len(tbuf) \in Nat /\ Len(tbuf) <= FirmwareMax
         /\ Want \in DOMAIN Files /\ tbuf = Received(Files[Want])
         /\ job = 0 => tbuf = Files[ConfigName] /\ Len(tbuf) <= MemSize
<1>1. console \in Consoles /\ tbuf \in Seq(Byte)
  BY DEF TypeOK
<1>2. Want \in DOMAIN Files /\ tbuf = Received(Files[Want])
  BY DEF Fetched
<1>3. Len(tbuf) \in Nat /\ Len(tbuf) <= FirmwareMax
  BY <1>1, <1>2, ReceivedType, LenProperties DEF Files
<1>4. ASSUME job = 0 PROVE tbuf = Files[ConfigName] /\ Len(tbuf) <= MemSize
  <2>1. Len(Files[ConfigName]) <= MemSize /\ Len(Files[ConfigName]) <= FirmwareMax
    BY <1>1, ConfigAssumption DEF Files
  <2>2. Want = ConfigName
    BY <1>4, JobIsNamed
  <2> QED
    BY <1>1, <1>2, <2>1, <2>2, ReceivedType DEF Files
<1> QED
  BY <1>1, <1>2, <1>3, <1>4

(* A byte of the content goes to memory. *)
LEMMA SutDataKeeps ==
  ASSUME Inv, SutData
  PROVE  Inv'
<1>1. TypeOK /\ LinkTypeOK /\ Books /\ ConfigStored
  BY DEF Inv, TypeOK
<1>2. /\ rx' \in [Side -> Seq(Byte)] /\ rx'["tst"] = rx["tst"] /\ tx' = tx
      /\ Back # <<>> /\ Head(Back) = Head(rx["sut"]) /\ Head(Back) \in Byte
      /\ Back' = Tail(Back)
  BY <1>1, SutReads DEF SutData
<1>3. Storing
  BY <1>2 DEF Inv, Phase, Waiting, Requested, Naming, Fetching, Sizing, Acked, Storing, Early,
              Asking, Stopped, SutData
<1>4. /\ sut = "data" /\ tst \in {"print", "frx", "done"} /\ Ahead = <<>> /\ Fetched
      /\ Back = Rest(tbuf, got) /\ size = Len(tbuf) /\ got < size
  BY <1>3 DEF Storing, SutData
<1>5. /\ tbuf \in Seq(Byte) /\ Len(tbuf) \in Nat
      /\ job = 0 => tbuf = Files[ConfigName] /\ Len(tbuf) <= MemSize
  BY <1>1, <1>4, FetchedFile
<1>6. got \in 0 .. Len(tbuf) /\ got' = got + 1 /\ got' \in 0 .. size
  BY <1>1, <1>4, <1>5 DEF TypeOK, SutData
<1>7. Head(Back) = tbuf[got + 1] /\ Tail(Back) = Rest(tbuf, got + 1)
  BY <1>2, <1>4, <1>5, <1>6, RestOfMessage
<1>8. UNCHANGED <<tx, sut, job, listed, count, size, loaded, tst, relays, tname, tbuf, console>>
  BY DEF SutData, tstVars
<1>9. Storing'
  BY <1>2, <1>4, <1>6, <1>7, <1>8 DEF Storing, Fetched, Files, Want, JobName, Ahead
<1>10. mem' \in [0 .. MemSize - 1 -> Byte]
  BY <1>1, <1>2 DEF TypeOK, SutData
<1>11. TypeOK'
  BY <1>1, <1>2, <1>6, <1>8, <1>10 DEF TypeOK, LinkTypeOK
<1>12. Books'
  BY <1>1, <1>8 DEF Books
<1>13. ConfigStored'
  <2> SUFFICES ASSUME job = 0, NEW k \in 1 .. got + 1
               PROVE  mem'[k - 1] = Files[ConfigName][k]
    BY <1>6, <1>8 DEF ConfigStored, Files
  <2>1. JobAddr(job) + got = got /\ got \in 0 .. MemSize - 1
    BY <1>1, <1>4, <1>5, <1>6, JobIsNamed, RelayAssumption
  <2>2. /\ mem'[got] = tbuf[got + 1]
        /\ \A a \in 0 .. MemSize - 1 : a # got => mem'[a] = mem[a]
    BY <1>1, <1>2, <1>7, <2>1 DEF SutData, TypeOK
  <2>3. CASE k = got + 1
    <3>1. k - 1 = got
      BY <1>6, <2>3
    <3> QED
      BY <1>5, <2>2, <2>3, <3>1
  <2>4. CASE k # got + 1
    <3>1. k \in 1 .. got /\ k - 1 \in 0 .. MemSize - 1 /\ k - 1 # got
      BY <1>6, <2>1, <2>4, RelayAssumption
    <3> QED
      BY <1>1, <1>4, <2>2, <3>1 DEF ConfigStored
  <2> QED
    BY <2>3, <2>4
<1> QED
  BY <1>9, <1>11, <1>12, <1>13 DEF Inv, Phase

(* When the configuration is received, it is read for what it is. *)
LEMMA ConfigIsRead ==
  ASSUME TypeOK, Books, ConfigStored, Fetched, sut = "data", got = size, size = Len(tbuf),
         job = 0
  PROVE  ReadConfig([k \in 1 .. size |-> mem[k - 1]]) = Listing(console)
<1>1. /\ tbuf = Files[ConfigName] /\ tbuf \in Seq(Byte) /\ Len(tbuf) \in Nat
      /\ Len(tbuf) <= MemSize
  BY FetchedFile
<1>2. \A k \in 1 .. size : mem[k - 1] = tbuf[k] /\ mem[k - 1] \in Byte
  BY <1>1, RelayAssumption DEF ConfigStored, TypeOK
<1> DEFINE s == [k \in 1 .. size |-> mem[k - 1]]
<1>3. s \in Seq(Byte) /\ Len(s) = Len(tbuf) /\ \A k \in 1 .. Len(s) : s[k] = tbuf[k]
  BY <1>1, <1>2, IsASeq
<1>4. s = tbuf
  <2> HIDE DEF s
  <2> QED
    BY <1>1, <1>3, SeqEqual
<1>5. ReadConfig(Files[ConfigName]) = Listing(console)
  BY ConfigAssumption DEF TypeOK, Files
<1> QED
  BY <1>1, <1>4, <1>5

(* A file is complete: the next one follows, or the program is started. *)
LEMMA SutReceivedKeeps ==
  ASSUME Inv, SutReceived
  PROVE  Inv'
<1>1. TypeOK /\ LinkTypeOK /\ Books /\ ConfigStored /\ console \in Consoles
  BY DEF Inv, TypeOK
<1>2. Storing \/ Acked
  BY DEF Inv, Phase, Waiting, Requested, Naming, Fetching, Sizing, Acked, Storing, Early,
         Asking, Stopped, SutReceived
<1>3. Fetched /\ size = Len(tbuf) /\ sut = "data" /\ got = size
  BY <1>2 DEF Storing, Acked, SutReceived
<1>4. /\ tbuf \in Seq(Byte) /\ Len(tbuf) \in Nat
      /\ Want \in Seq(Byte) /\ JobAddr(job) \in Nat /\ job \in Nat
      /\ Len(console.entries) \in 0 .. MaxFiles
      /\ Listing(console) \in [files : Seq(Seq(Byte)), addrs : Seq(0 .. AddrMod - 1)]
      /\ Len(Listing(console).files) = Len(console.entries)
  BY <1>1, <1>3, FetchedFile, JobIsNamed, ConsoleTypes DEF TypeOK
<1>5. listed' = Listing(console)
  <2>1. CASE job = 0
    BY <1>1, <1>3, <2>1, ConfigIsRead DEF SutReceived
  <2>2. CASE job # 0
    BY <1>1, <2>2 DEF SutReceived, Books
  <2> QED
    BY <2>1, <2>2
<1> DEFINE m == Text \o IF HasRootFs(listed') THEN <<EOT>> ELSE <<>>
<1>6. /\ Text \in Seq(Byte) /\ Clean(Text) /\ m \in Seq(Byte) /\ Clean(m)
      /\ <<EOT>> \in Seq(Byte) /\ <<>> \in Seq(Byte)
  <2>1. /\ Text \in Seq(Byte) /\ Clean(Text) /\ Clean(<<EOT>>) /\ Clean(<<>>)
        /\ <<EOT>> \in Seq(Byte) /\ <<>> \in Seq(Byte)
    BY TextIsClean, EmptySeq DEF EOT, Byte
  <2>2. \A t \in {<<EOT>>, <<>>} : Text \o t \in Seq(Byte) /\ Clean(Text \o t)
    BY <2>1, CleanStays, BytesConcat
  <2> QED
    BY <2>1, <2>2
<1> HIDE DEF m
<1>7. PICK t \in Seq(Byte) : Clean(t) /\ Put("sut", t)
  BY <1>6 DEF SutReceived, m
<1>8. /\ tx' \in [Side -> Seq(Byte)] /\ rx' = rx
      /\ Ahead' = Ahead \o t /\ Back' = Back
  BY <1>1, <1>7, SutPuts DEF SutReceived
<1>9. /\ UNCHANGED <<rx, count, size, got, mem, tst, relays, tname, tbuf, console>>
      /\ loaded' = Append(loaded, [name |-> Want, addr |-> JobAddr(job), size |-> size])
      /\ Len(listed'.files) = Len(console.entries)
  BY <1>4, <1>5 DEF SutReceived, tstVars, Want
<1>10. \/ sut' = "request" /\ job < Len(console.entries) /\ job' = job + 1
       \/ sut' = "done" /\ ~(job < Len(console.entries)) /\ job' = job
  BY <1>9 DEF SutReceived
<1>11. Stopped' /\ ~Asking'
  BY <1>10 DEF Stopped, Asking
<1>12. ASSUME Storing PROVE Phase'
  <2>1. Ahead = <<>> /\ Back = Rest(tbuf, Len(tbuf)) /\ tst \in {"print", "frx", "done"}
    BY <1>3, <1>12 DEF Storing
  <2>2. Ahead' = t /\ Back' = <<>>
    BY <1>4, <1>7, <1>8, <2>1, ConcatEmptySeq, RestOfMessage
  <2>3. Waiting'
    BY <1>7, <1>9, <1>11, <2>1, <2>2 DEF Waiting
  <2> QED
    BY <2>3 DEF Phase
<1>13. ASSUME Acked PROVE Phase'
  <2>1. Ahead = <<ACK>> /\ Back = <<>> /\ tst = "ack" /\ Len(tbuf) = 0
    BY <1>3, <1>13 DEF Acked
  <2>2. tbuf = <<>>
    BY <1>4, <2>1, EmptySeq
  <2>3. <<ACK>> \in Seq(Byte) /\ <<ACK>> # <<>> /\ Head(<<ACK>>) = ACK /\ Clean(<<ACK>>)
    BY DEF ACK, Byte, Clean, Free, FRX
  <2>4. Ahead' # <<>> /\ Head(Ahead') = ACK
    BY <1>7, <1>8, <2>1, <2>3, HeadOfStream
  <2>5. Clean(Ahead')
    BY <1>7, <1>8, <2>1, <2>3, CleanStays
  <2>6. Len(rx'["tst"]) <= Depth["tst"]
    <3>1. /\ rx["tst"] \in Seq(Byte) /\ tx["sut"] \in Seq(Byte)
          /\ rx["tst"] \o tx["sut"] = <<ACK>> /\ Depth["tst"] \in Nat \ {0}
      BY <1>1, <2>1, StreamTypes, LinkAssumption DEF Ahead
    <3>2. /\ Len(rx["tst"] \o tx["sut"]) = Len(rx["tst"]) + Len(tx["sut"])
          /\ Len(rx["tst"]) \in Nat /\ Len(tx["sut"]) \in Nat
      BY <3>1, BytesConcat
    <3>3. Len(rx["tst"]) + Len(tx["sut"]) = 1
      <4>1. Len(<<ACK>>) = 1
        OBVIOUS
      <4> QED
        BY <3>1, <3>2, <4>1, Zenon
    <3>4. Len(rx["tst"]) <= 1
      <4>1. \A a, b \in Nat : a + b = 1 => a <= 1
        OBVIOUS
      <4> QED
        BY <3>2, <3>3, <4>1, Zenon
    <3> QED
      BY <1>8, <3>1, <3>2, <3>4
  <2>7. Early'
    BY <1>8, <1>9, <1>11, <2>1, <2>2, <2>4, <2>5, <2>6 DEF Early
  <2> QED
    BY <2>7 DEF Phase
<1>14. Phase'
  BY <1>2, <1>12, <1>13
<1>15. loaded' \in Seq([name : Seq(Byte), addr : Nat, size : Nat]) /\ Len(loaded') = Len(loaded) + 1
  BY <1>1, <1>3, <1>4, <1>9, AppendProperties DEF TypeOK
<1>16. job' \in 0 .. MaxFiles
  <2>1. job \in 0 .. MaxFiles
    BY <1>1 DEF TypeOK
  <2>2. job < Len(console.entries) => job + 1 \in 0 .. MaxFiles
    BY <1>4, RelayAssumption
  <2> QED
    BY <1>10, <2>1, <2>2
<1>17. TypeOK'
  BY <1>1, <1>4, <1>5, <1>8, <1>9, <1>10, <1>15, <1>16 DEF TypeOK, LinkTypeOK, SutStates
<1>18. Books'
  BY <1>1, <1>3, <1>4, <1>5, <1>9, <1>10, <1>15, SMTT(30) DEF Books
<1>19. ConfigStored'
  BY <1>10 DEF ConfigStored
<1> QED
  BY <1>14, <1>17, <1>18, <1>19 DEF Inv

---------------------------------------------------------------------------------
(* The Tester keeps the invariant. *)

(* The Tester goes on to await a request. *)
LEMMA TstPrintKeeps ==
  ASSUME Inv, TstPrint
  PROVE  Inv'
<1>1. TypeOK /\ Books /\ ConfigStored
  BY DEF Inv
<1>2. /\ tst = "print" /\ tst' = "frx"
      /\ UNCHANGED <<rx, tx, console, sut, job, listed, count, size, got, mem, loaded,
                     relays, tname, tbuf>>
  BY DEF TstPrint, sutVars
<1>3. Ahead' = Ahead /\ Back' = Back /\ Want' = Want
  BY <1>2 DEF Ahead, Back, Want, JobName
<1>4. Waiting \/ Requested \/ Storing
  BY <1>2 DEF Inv, Phase, Waiting, Requested, Naming, Fetching, Sizing, Acked, Storing, Early
<1>5. Waiting => Waiting'
  BY <1>2, <1>3 DEF Waiting, Stopped
<1>6. Whole(Ahead, Depth["tst"], Want) => Whole(Ahead, 0, Want)
  <2> SUFFICES ASSUME NEW n \in 1 .. Len(Ahead), AskedAt(Ahead, n, Want)
               PROVE  Whole(Ahead, 0, Want)
    BY DEF Whole
  <2>1. n > 0
    OBVIOUS
  <2> QED
    BY <2>1 DEF Whole
<1>7. Requested => Requested'
  BY <1>2, <1>3, <1>6 DEF Requested, Asking
<1>8. Storing => Storing'
  BY <1>2, <1>3 DEF Storing, Fetched, Files
<1>9. Phase'
  BY <1>4, <1>5, <1>7, <1>8 DEF Phase
<1>10. TypeOK' /\ Books' /\ ConfigStored'
  BY <1>1, <1>2 DEF TypeOK, LinkTypeOK, TstStates, Books, ConfigStored, Files
<1> QED
  BY <1>9, <1>10 DEF Inv

(* A byte before the FRX is dropped; the FRX is that of the current request. *)
LEMMA TstFrxKeeps ==
  ASSUME Inv, TstFrx
  PROVE  Inv'
<1>1. TypeOK /\ LinkTypeOK /\ Books /\ ConfigStored
  BY DEF Inv, TypeOK
<1>2. /\ tst = "frx" /\ Readable("tst") /\ TakeByte("tst")
      /\ UNCHANGED <<tx, console, sut, job, listed, count, size, got, mem, loaded,
                     relays, tbuf>>
  BY DEF TstFrx, sutVars
<1>3. /\ rx' \in [Side -> Seq(Byte)] /\ rx'["sut"] = rx["sut"]
      /\ Ahead # <<>> /\ Head(Ahead) = Head(rx["tst"])
      /\ Ahead' = Tail(Ahead) /\ Back' = Back /\ Want' = Want
  BY <1>1, <1>2, TesterReads DEF Want, JobName, Back
<1>4. Waiting \/ Requested
  BY <1>2, <1>3 DEF Inv, Phase, Waiting, Requested, Naming, Fetching, Sizing, Acked, Storing, Early
<1>5. Ahead \in Seq(Byte) /\ Len(Ahead) \in Nat \ {0}
  BY <1>1, <1>3, StreamTypes, EmptySeq
<1>6. Clean(Ahead) => /\ Clean(Ahead') /\ tst' = tst /\ tname' = tname
  <2> SUFFICES ASSUME Clean(Ahead) PROVE Clean(Ahead') /\ tst' = tst /\ tname' = tname
    OBVIOUS
  <2>1. Head(Ahead) # FRX
    BY <1>5 DEF Clean, Free
  <2> QED
    BY <1>3, <1>5, <2>1, CleanStays DEF TstFrx
<1>7. ASSUME Waiting PROVE Phase' /\ TypeOK'
  <2>1. Waiting'
    BY <1>2, <1>3, <1>6, <1>7 DEF Waiting, Stopped
  <2> QED
    BY <1>1, <1>2, <1>3, <1>6, <1>7, <2>1 DEF Phase, Waiting, TypeOK, LinkTypeOK, TstStates
<1>8. ASSUME Requested, Clean(Ahead) PROVE Phase' /\ TypeOK'
  <2>1. Requested'
    BY <1>2, <1>3, <1>6, <1>8 DEF Requested, Asking
  <2> QED
    BY <1>1, <1>2, <1>3, <1>6, <1>8, <2>1 DEF Phase, TypeOK, LinkTypeOK, TstStates
<1>9. ASSUME Requested, Whole(Ahead, 0, Want) PROVE Phase' /\ TypeOK'
  <2>1. PICK n \in 1 .. Len(Ahead) : AskedAt(Ahead, n, Want)
    BY <1>9 DEF Whole
  <2>2. Want \in Seq(Byte) /\ Printable(Want)
    BY <1>1, JobIsNamed
  <2>3. /\ n > 1 => /\ n - 1 \in 1 .. Len(Tail(Ahead))
                    /\ AskedAt(Tail(Ahead), n - 1, Want)
        /\ n > 1 => Head(Ahead) # FRX
        /\ n = 1 => Head(Ahead) = FRX /\ Tail(Ahead) = Want \o <<NUL>>
    BY <1>5, <2>1, <2>2, AskedStays
  <2>4. CASE n = 1
    <3>1. tst' = "name" /\ tname' = <<>> /\ Ahead' = Want \o <<NUL>>
      BY <1>3, <2>3, <2>4 DEF TstFrx
    <3>2. <<>> \o Ahead' = Ahead' /\ <<>> \in Seq(Byte)
      <4>1. Tail(Ahead) \in Seq(Byte)
        BY <1>3, <1>5, HeadTailProperties
      <4> QED
        BY <1>3, <4>1, ConcatEmptySeq, EmptySeq
    <3>3. Naming'
      BY <1>2, <1>3, <1>9, <3>1, <3>2 DEF Naming, Requested, Asking
    <3> QED
      BY <1>1, <1>2, <1>3, <3>1, <3>2, <3>3 DEF Phase, TypeOK, LinkTypeOK, TstStates
  <2>5. CASE n > 1
    <3>1. tst' = tst /\ tname' = tname
      BY <1>3, <2>3, <2>5 DEF TstFrx
    <3>2. Whole(Ahead', 0, Want)
      <4>1. n - 1 > 0
        BY <2>5
      <4> QED
        BY <1>3, <2>3, <2>5, <4>1 DEF Whole
    <3>3. Requested'
      BY <1>2, <1>3, <1>9, <3>1, <3>2 DEF Requested, Asking
    <3> QED
      BY <1>1, <1>2, <1>3, <3>1, <3>3 DEF Phase, TypeOK, LinkTypeOK, TstStates
  <2> QED
    BY <2>4, <2>5
<1>10. Requested => Clean(Ahead) \/ Whole(Ahead, 0, Want)
  BY <1>2 DEF Requested
<1>11. tst' # "done"
  BY <1>2 DEF TstFrx
<1>12. Books' /\ ConfigStored'
  BY <1>1, <1>2, <1>11 DEF Books, ConfigStored, Files
<1> QED
  BY <1>4, <1>7, <1>8, <1>9, <1>10, <1>12 DEF Inv

(* Reading a name up to its terminator. *)
LEMMA NameRead ==
  ASSUME NEW a \in Seq(Byte), NEW b \in Seq(Byte), NEW name \in Seq(Byte),
         Printable(name), b # <<>>, a \o b = name \o <<NUL>>
  PROVE  /\ Head(b) = NUL => a = name /\ Tail(b) = <<>>
         /\ Head(b) # NUL => Append(a, Head(b)) \o Tail(b) = name \o <<NUL>>
<1> DEFINE w == name \o <<NUL>>
<1>1. /\ <<NUL>> \in Seq(Byte) /\ Len(<<NUL>>) = 1 /\ <<NUL>>[1] = NUL
      /\ Len(a) \in Nat /\ Len(b) \in Nat \ {0} /\ Len(name) \in Nat
  BY EmptySeq, LenProperties DEF NUL, Byte
<1>2. /\ Len(w) = Len(name) + 1
      /\ \A i \in 1 .. Len(name) + 1 :
           w[i] = IF i <= Len(name) THEN name[i] ELSE <<NUL>>[i - Len(name)]
  BY <1>1, BytesConcat
<1>3. /\ Len(a \o b) = Len(a) + Len(b)
      /\ \A i \in 1 .. Len(a) + Len(b) :
           (a \o b)[i] = IF i <= Len(a) THEN a[i] ELSE b[i - Len(a)]
  BY ConcatProperties
<1>4. a \o b = w
  OBVIOUS
<1> HIDE DEF w
<1>5. Len(a) + Len(b) = Len(name) + 1
  BY <1>2, <1>3, <1>4
<1>6. /\ \A i \in 1 .. Len(a) : a[i] = w[i]
      /\ b[1] = w[Len(a) + 1]
  <2>1. ASSUME NEW i \in 1 .. Len(a) PROVE a[i] = w[i]
    <3>1. i \in 1 .. Len(a) + Len(b) /\ i <= Len(a)
      BY <1>1
    <3> QED
      BY <1>3, <1>4, <3>1
  <2>2. b[1] = w[Len(a) + 1]
    <3>1. Len(a) + 1 \in 1 .. Len(a) + Len(b) /\ ~(Len(a) + 1 <= Len(a)) /\ (Len(a) + 1) - Len(a) = 1
      BY <1>1
    <3> QED
      BY <1>3, <1>4, <3>1
  <2> QED
    BY <2>1, <2>2
<1>7. Head(b) = b[1] /\ Tail(b) \in Seq(Byte) /\ Len(Tail(b)) = Len(b) - 1
  BY HeadTailProperties
<1>8. ASSUME Head(b) = NUL PROVE a = name /\ Tail(b) = <<>>
  <2>1. ~(Len(a) + 1 <= Len(name))
    <3> SUFFICES ASSUME Len(a) + 1 <= Len(name) PROVE FALSE
      OBVIOUS
    <3>1. Len(a) + 1 \in 1 .. Len(name) /\ Len(a) + 1 \in 1 .. Len(name) + 1
      BY <1>1
    <3>2. w[Len(a) + 1] = name[Len(a) + 1] /\ name[Len(a) + 1] >= 32
      BY <1>2, <3>1 DEF Printable
    <3> QED
      BY <1>6, <1>7, <1>8, <3>2 DEF NUL
  <2>2. Len(a) = Len(name) /\ Len(b) = 1
    BY <1>1, <1>5, <2>1
  <2>3. \A i \in 1 .. Len(a) : a[i] = name[i]
    <3> SUFFICES ASSUME NEW i \in 1 .. Len(a) PROVE a[i] = name[i]
      OBVIOUS
    <3>1. i \in 1 .. Len(name) + 1 /\ i <= Len(name)
      BY <1>1, <2>2
    <3> QED
      BY <1>2, <1>6, <3>1
  <2>4. a = name
    BY <2>2, <2>3, SeqEqual
  <2>5. Len(Tail(b)) = 0
    BY <1>7, <2>2
  <2> QED
    BY <1>7, <2>4, <2>5, EmptySeq
<1>9. Append(a, Head(b)) \o Tail(b) = a \o b
  BY ReadKeepsOrder
<1> QED
  BY <1>8, <1>9

(* The name is read up to its terminator: it is the name asked for. *)
LEMMA TstNameKeeps ==
  ASSUME Inv, TstName
  PROVE  Inv'
<1>1. TypeOK /\ LinkTypeOK /\ Books /\ ConfigStored /\ tname \in Seq(Byte)
  BY DEF Inv, TypeOK
<1>2. /\ tst = "name" /\ Readable("tst") /\ TakeByte("tst")
      /\ UNCHANGED <<tx, console, sut, job, listed, count, size, got, mem, loaded,
                     relays, tbuf>>
  BY DEF TstName, sutVars
<1>3. /\ rx' \in [Side -> Seq(Byte)] /\ rx'["sut"] = rx["sut"]
      /\ Ahead # <<>> /\ Head(Ahead) = Head(rx["tst"]) /\ Head(Ahead) \in Byte
      /\ Ahead' = Tail(Ahead) /\ Back' = Back /\ Want' = Want
      /\ Ahead \in Seq(Byte)
  BY <1>1, <1>2, TesterReads, StreamTypes DEF Want, JobName, Back
<1>4. Naming
  BY <1>2 DEF Inv, Phase, Waiting, Requested, Naming, Fetching, Sizing, Acked, Storing, Early
<1>5. Asking' /\ Back' = <<>>
  BY <1>2, <1>3, <1>4 DEF Naming, Asking
<1>6. /\ Head(Ahead) = NUL => tname = Want /\ Tail(Ahead) = <<>>
      /\ Head(Ahead) # NUL => Append(tname, Head(Ahead)) \o Tail(Ahead) = Want \o <<NUL>>
  <2>1. tname \o Ahead = Want \o <<NUL>>
    BY <1>4 DEF Naming
  <2>2. Want \in Seq(Byte) /\ Printable(Want)
    BY <1>1, JobIsNamed
  <2> QED
    BY <1>1, <1>3, <2>1, <2>2, NameRead, ZenonT(30)
<1>7. CASE Head(Ahead) = NUL
  <2>1. tst' = "fetch" /\ tname' = tname
    BY <1>3, <1>7 DEF TstName
  <2>2. Fetching'
    BY <1>3, <1>5, <1>6, <1>7, <2>1 DEF Fetching
  <2>3. TypeOK' /\ Books' /\ ConfigStored'
    BY <1>1, <1>2, <1>3, <2>1 DEF TypeOK, LinkTypeOK, TstStates, Books, ConfigStored, Files
  <2> QED
    BY <2>2, <2>3 DEF Inv, Phase
<1>8. CASE Head(Ahead) # NUL
  <2>1. tst' = "name" /\ tname' = Append(tname, Head(Ahead))
    BY <1>2, <1>3, <1>8 DEF TstName
  <2>2. tname' \in Seq(Byte)
    BY <1>1, <1>3, <2>1, AppendProperties
  <2>3. Naming'
    BY <1>3, <1>5, <1>6, <1>8, <2>1 DEF Naming
  <2>4. TypeOK' /\ Books' /\ ConfigStored'
    BY <1>1, <1>2, <1>3, <2>1, <2>2 DEF TypeOK, LinkTypeOK, TstStates, Books, ConfigStored, Files
  <2> QED
    BY <2>3, <2>4 DEF Inv, Phase
<1> QED
  BY <1>7, <1>8

(* The file is fetched and its size is put. *)
LEMMA TstFetchKeeps ==
  ASSUME Inv, TstFetch
  PROVE  Inv'
<1>1. TypeOK /\ LinkTypeOK /\ Books /\ ConfigStored
  BY DEF Inv, TypeOK
<1>2. /\ tst = "fetch" /\ tst' = "ack" /\ tname \in DOMAIN Files
      /\ tbuf' = Received(Files[tname]) /\ Put("tst", SizeBytes(Len(tbuf')))
      /\ UNCHANGED <<rx, console, sut, job, listed, count, size, got, mem, loaded,
                     relays, tname>>
  BY DEF TstFetch, sutVars
<1>3. Fetching
  BY <1>2 DEF Inv, Phase, Waiting, Requested, Naming, Fetching, Sizing, Acked, Storing, Early
<1>4. tbuf' \in Seq(Byte) /\ Len(tbuf') \in Nat
  BY <1>1, <1>2, ReceivedType, LenProperties DEF TypeOK, Files
<1>5. SizeBytes(Len(tbuf')) \in Seq(Byte) /\ Len(tbuf') % 256 ^ 0 = 0
  BY <1>4, SizeDecodes
<1>6. /\ tx' \in [Side -> Seq(Byte)] /\ Ahead' = Ahead
      /\ Back' = Back \o SizeBytes(Len(tbuf'))
  BY <1>1, <1>2, <1>5, TesterPuts
<1>7. Ahead' = <<>> /\ Back' = Rest(SizeBytes(Len(tbuf')), 0)
  BY <1>3, <1>5, <1>6, ConcatEmptySeq, RestOfMessage DEF Fetching
<1>8. Fetched'
  BY <1>2, <1>3 DEF Fetching, Fetched, Files, Want, JobName
<1>9. Sizing'
  BY <1>2, <1>3, <1>5, <1>7, <1>8 DEF Sizing, Fetching, Asking
<1>10. TypeOK' /\ Books' /\ ConfigStored'
  BY <1>1, <1>2, <1>4, <1>6 DEF TypeOK, LinkTypeOK, TstStates, Books, ConfigStored, Files
<1> QED
  BY <1>9, <1>10 DEF Inv, Phase

(* What comes before a request is clean. *)
LEMMA BeforeRequest ==
  ASSUME NEW r \in Seq(Byte), NEW t \in Seq(Byte), NEW name \in Seq(Byte), NEW d \in Nat,
         Len(r) <= d, Whole(r \o t, d, name)
  PROVE  Clean(r)
<1>1. PICK n \in 1 .. Len(r \o t) : n > d /\ AskedAt(r \o t, n, name)
  BY DEF Whole
<1>2. \A i \in 1 .. n - 1 : (r \o t)[i] # FRX
  BY <1>1 DEF AskedAt
<1>3. /\ Len(r) \in Nat /\ Len(t) \in Nat
      /\ \A i \in 1 .. Len(r) + Len(t) :
           (r \o t)[i] = IF i <= Len(r) THEN r[i] ELSE t[i - Len(r)]
  BY BytesConcat, LenProperties
<1>4. n \in Int /\ Len(r) < n
  <2>1. n \in Int
    OBVIOUS
  <2> QED
    BY <1>1, <1>3, <2>1
<1> SUFFICES ASSUME NEW i \in 1 .. Len(r) PROVE r[i] # FRX
  BY DEF Clean, Free
<1>5. i \in 1 .. Len(r) + Len(t) /\ i <= Len(r) /\ i \in 1 .. n - 1
  BY <1>3, <1>4
<1> QED
  BY <1>2, <1>3, <1>5

(* The ACK is there: the content is put. *)
LEMMA TstAckKeeps ==
  ASSUME Inv, TstAck
  PROVE  Inv'
<1>1. TypeOK /\ LinkTypeOK /\ Books /\ ConfigStored /\ tbuf \in Seq(Byte)
  BY DEF Inv, TypeOK
<1>2. /\ tst = "ack" /\ Readable("tst") /\ TakeByte("tst")
      /\ UNCHANGED <<console, sut, job, listed, count, size, got, mem, loaded,
                     tname, tbuf>>
  BY DEF TstAck, sutVars
<1>3. /\ rx' \in [Side -> Seq(Byte)] /\ rx'["sut"] = rx["sut"]
      /\ rx'["tst"] = Tail(rx["tst"]) /\ rx["tst"] # <<>>
      /\ Ahead # <<>> /\ Head(Ahead) = Head(rx["tst"])
      /\ tx'["sut"] = tx["sut"] => Ahead' = Tail(Ahead)
      /\ Want' = Want /\ Ahead \in Seq(Byte) /\ Depth["tst"] \in Nat \ {0}
  BY <1>1, <1>2, TesterReads, StreamTypes, LinkAssumption DEF Want, JobName, Readable
<1>4. Acked \/ Early
  BY <1>2, <1>3
     DEF Inv, Phase, Waiting, Requested, Naming, Fetching, Sizing, Acked, Storing, Early
<1>5. Back = <<>> /\ Head(Ahead) = ACK
  <2>1. Head(<<ACK>>) = ACK
    OBVIOUS
  <2> QED
    BY <1>4, <2>1 DEF Acked, Early
<1>6. /\ Put("tst", tbuf) /\ relays' = relays + 1
      /\ tst' = IF relays' = 2 THEN "done" ELSE "print"
  BY <1>3, <1>5 DEF TstAck
<1>7. /\ tx' \in [Side -> Seq(Byte)] /\ tx'["sut"] = tx["sut"]
      /\ Back' = Back \o tbuf
  BY <1>1, <1>3, <1>6, TesterPuts
<1>8. Ahead' = Tail(Ahead) /\ Back' = tbuf
  BY <1>1, <1>3, <1>5, <1>7, ConcatEmptySeq
<1>9. /\ tst' \in {"print", "done"} /\ relays' \in 0 .. 2
      /\ tst' # "done" => relays' < 2
  <2>1. relays \in 0 .. 2 /\ relays < 2
    BY <1>1, <1>2 DEF TypeOK, Books
  <2>2. relays' \in 0 .. 2
    BY <1>6, <2>1
  <2>3. relays' # 2 => relays' < 2
    BY <2>2
  <2> QED
    BY <1>6, <2>2, <2>3
<1>10. ASSUME Acked PROVE Phase'
  <2>1. Ahead' = <<>>
    <3>1. Tail(<<ACK>>) = <<>>
      OBVIOUS
    <3> QED
      BY <1>8, <1>10, <3>1 DEF Acked
  <2>2. Back' = Rest(tbuf, got)
    BY <1>1, <1>8, <1>10, RestOfMessage DEF Acked
  <2>3. Storing'
    BY <1>2, <1>3, <1>9, <1>10, <2>1, <2>2 DEF Acked, Storing, Fetched, Files
  <2> QED
    BY <2>3 DEF Phase
<1>11. ASSUME Early, Stopped PROVE Phase'
  <2>1. Clean(Ahead') /\ Back' = <<>>
    BY <1>3, <1>8, <1>11, CleanStays DEF Early
  <2>2. Waiting'
    BY <1>2, <1>9, <1>11, <2>1 DEF Waiting, Stopped
  <2> QED
    BY <2>2 DEF Phase
<1>12. ASSUME Early, Asking PROVE Phase'
  <2>1. Whole(Ahead, Depth["tst"] + 1, Want) /\ Len(rx["tst"]) <= Depth["tst"] /\ Back' = <<>>
    BY <1>8, <1>12 DEF Early
  <2>2. PICK n \in 1 .. Len(Ahead) : n > Depth["tst"] + 1 /\ AskedAt(Ahead, n, Want)
    BY <2>1 DEF Whole
  <2>3. Want \in Seq(Byte) /\ Printable(Want)
    BY <1>1, JobIsNamed
  <2>4. n > 1 /\ n - 1 > Depth["tst"] /\ n \in Int
    BY <1>3, <2>2
  <2>5. n - 1 \in 1 .. Len(Tail(Ahead)) /\ AskedAt(Tail(Ahead), n - 1, Want)
    BY <1>3, <2>2, <2>3, <2>4, AskedStays
  <2>6. Whole(Ahead', Depth["tst"], Want)
    BY <1>8, <2>4, <2>5 DEF Whole
  <2>7. Clean(rx'["tst"])
    <3>1. /\ rx'["tst"] \in Seq(Byte) /\ tx'["sut"] \in Seq(Byte)
      BY <1>3, <1>7 DEF Side
    <3>2. Len(rx["tst"]) \in Nat /\ Len(rx'["tst"]) = Len(rx["tst"]) - 1
      BY <1>1, <1>3, StreamTypes, HeadTailProperties, LenProperties
    <3>3. Len(rx'["tst"]) <= Depth["tst"] /\ Depth["tst"] \in Nat
      BY <1>3, <2>1, <3>2
    <3>4. Whole(rx'["tst"] \o tx'["sut"], Depth["tst"], Want)
      BY <2>6 DEF Ahead
    <3> QED
      BY <2>3, <3>1, <3>3, <3>4, BeforeRequest
  <2>8. Requested'
    BY <1>2, <1>3, <1>9, <1>12, <2>1, <2>6, <2>7 DEF Requested, Asking
  <2> QED
    BY <2>8 DEF Phase
<1>13. Phase'
  BY <1>4, <1>10, <1>11, <1>12 DEF Early
<1>14. TypeOK' /\ Books' /\ ConfigStored'
  BY <1>1, <1>2, <1>3, <1>7, <1>9 DEF TypeOK, LinkTypeOK, TstStates, Books, ConfigStored, Files
<1> QED
  BY <1>13, <1>14 DEF Inv

---------------------------------------------------------------------------------
(* The line keeps the invariant. *)

(* A byte reaches the Tester, or is lost because nobody reads. *)
LEMMA DeliverToTester ==
  ASSUME Inv, Deliver("sut")
  PROVE  Inv'
<1>1. TypeOK /\ LinkTypeOK /\ Books /\ ConfigStored
  BY DEF Inv, TypeOK
<1>2. /\ Transmit("sut", Polling("tst") \/ Prompt)
      /\ UNCHANGED <<console, sut, job, listed, count, size, got, mem, loaded,
                     tst, relays, tname, tbuf>>
  BY DEF Deliver, Other, sutVars, tstVars
<1>3. /\ LinkTypeOK' /\ Back' = Back
      /\ tx'["tst"] = tx["tst"] /\ rx'["sut"] = rx["sut"]
      /\ \/ /\ Ahead' = Ahead /\ Ahead # <<>>
            /\ Len(rx["tst"]) < Depth["tst"]
            /\ rx'["tst"] = Append(rx["tst"], Head(tx["sut"]))
         \/ /\ ~(Polling("tst") \/ Prompt)
            /\ Len(rx["tst"]) >= Depth["tst"]
            /\ rx'["tst"] = rx["tst"] /\ tx["sut"] # <<>>
            /\ Ahead' = rx["tst"] \o Tail(tx["sut"])
  BY <1>1, <1>2, LineToTester
<1>4. /\ rx["tst"] \in Seq(Byte) /\ tx["sut"] \in Seq(Byte) /\ Ahead \in Seq(Byte)
      /\ Len(rx["tst"]) \in Nat /\ Depth["tst"] \in Nat \ {0} /\ Want' = Want
      /\ Ahead = rx["tst"] \o tx["sut"]
  BY <1>1, <1>2, StreamTypes, LinkAssumption, LenProperties DEF Want, JobName, Ahead
<1>5. Ahead # <<>> /\ tx["sut"] # <<>>
  <2>1. tx["sut"] # <<>>
    BY <1>2 DEF Transmit
  <2> QED
    BY <1>1, <2>1, StreamTypes
<1>6. Back = <<>> => Idle("tst")
  <2>1. Back = <<>> => tx["tst"] = <<>>
    BY <1>1, StreamTypes
  <2>2. Len(<<>>) = 0
    OBVIOUS
  <2> QED
    BY <2>1, <2>2, LinkAssumption DEF Idle
<1>7. ASSUME Back = <<>>, tst \in {"frx", "name", "ack"}
      PROVE  /\ Ahead' = Ahead
             /\ Len(rx["tst"]) < Depth["tst"]
             /\ rx'["tst"] = Append(rx["tst"], Head(tx["sut"]))
  <2>1. Polling("tst")
    BY <1>6, <1>7 DEF Polling
  <2> QED
    BY <1>3, <2>1
<1>8. Clean(Ahead) => Clean(Ahead')
  <2>1. Clean(Ahead) => Clean(rx["tst"] \o Tail(tx["sut"]))
    BY <1>4, <1>5, CleanStays
  <2> QED
    BY <1>3, <2>1
<1>9. Waiting \/ Requested \/ Naming \/ Acked \/ Early
  BY <1>5 DEF Inv, Phase, Fetching, Sizing, Storing
<1>10. ASSUME Waiting PROVE Phase'
  <2>1. Waiting'
    BY <1>2, <1>3, <1>8, <1>10 DEF Waiting, Stopped
  <2> QED
    BY <2>1 DEF Phase
<1>11. ASSUME Naming PROVE Phase'
  <2>1. Naming'
    BY <1>2, <1>3, <1>4, <1>7, <1>11 DEF Naming, Asking
  <2> QED
    BY <2>1 DEF Phase
<1>12. ASSUME Acked PROVE Phase'
  <2>1. Acked'
    BY <1>2, <1>3, <1>4, <1>7, <1>12 DEF Acked, Fetched, Files
  <2> QED
    BY <2>1 DEF Phase
<1>13. Head(tx["sut"]) \in Byte /\ Append(rx["tst"], Head(tx["sut"])) \in Seq(Byte)
       /\ Len(Append(rx["tst"], Head(tx["sut"]))) = Len(rx["tst"]) + 1
  BY <1>4, <1>5, HeadTailProperties, AppendProperties
<1>14. ASSUME Early PROVE Phase'
  <2>1. /\ Ahead' = Ahead /\ Len(rx["tst"]) < Depth["tst"]
        /\ rx'["tst"] = Append(rx["tst"], Head(tx["sut"]))
    BY <1>7, <1>14 DEF Early
  <2>2. Len(rx'["tst"]) <= Depth["tst"]
    BY <1>4, <1>13, <2>1
  <2>3. Early'
    BY <1>2, <1>3, <1>4, <1>14, <2>1, <2>2 DEF Early, Stopped, Asking
  <2> QED
    BY <2>3 DEF Phase
<1>15. ASSUME Requested PROVE Phase'
  <2>1. Clean(Ahead) => Clean(rx["tst"]) /\ Clean(tx["sut"])
    BY <1>4, CleanStays
  <2>2. CASE tst = "print"
    <3>1. Clean(rx["tst"]) /\ (Clean(Ahead) \/ Whole(Ahead, Depth["tst"], Want))
      BY <1>15, <2>2 DEF Requested
    <3>2. rx'["tst"] \in Seq(Byte) /\ tx'["sut"] \in Seq(Byte) /\ Ahead' = rx'["tst"] \o tx'["sut"]
      BY <1>3 DEF LinkTypeOK, Side, Ahead
    <3>3. Want \in Seq(Byte) /\ Printable(Want)
      BY <1>1, JobIsNamed
    <3>4. CASE Clean(Ahead)
      <4>1. Clean(Ahead') /\ Clean(rx'["tst"])
        BY <1>8, <3>2, <3>4, CleanStays
      <4>2. Requested'
        BY <1>2, <1>3, <1>15, <2>2, <4>1 DEF Requested, Asking
      <4> QED
        BY <4>2 DEF Phase
    <3>5. CASE Whole(Ahead, Depth["tst"], Want) /\ Ahead' = Ahead
                 /\ Len(rx["tst"]) < Depth["tst"]
                 /\ rx'["tst"] = Append(rx["tst"], Head(tx["sut"]))
      <4>1. Len(rx'["tst"]) <= Depth["tst"] /\ Depth["tst"] \in Nat
        BY <1>4, <1>13, <3>5
      <4>2. Whole(rx'["tst"] \o tx'["sut"], Depth["tst"], Want)
        BY <3>2, <3>5
      <4>3. Clean(rx'["tst"])
        BY <3>2, <3>3, <4>1, <4>2, BeforeRequest
      <4>4. Requested'
        BY <1>2, <1>3, <1>4, <1>15, <2>2, <3>5, <4>3 DEF Requested, Asking
      <4> QED
        BY <4>4 DEF Phase
    <3>6. CASE /\ Whole(Ahead, Depth["tst"], Want) /\ Len(rx["tst"]) >= Depth["tst"]
               /\ rx'["tst"] = rx["tst"] /\ Ahead' = rx["tst"] \o Tail(tx["sut"])
      <4>1. PICK n \in 1 .. Len(Ahead) : n > Depth["tst"] /\ AskedAt(Ahead, n, Want)
        BY <3>6 DEF Whole
      <4>2. \/ Clean(rx["tst"] \o Tail(tx["sut"]))
            \/ n - 1 > Len(rx["tst"]) /\ n - 1 \in 1 .. Len(rx["tst"] \o Tail(tx["sut"]))
               /\ AskedAt(rx["tst"] \o Tail(tx["sut"]), n - 1, Want)
        BY <1>4, <1>5, <3>1, <3>3, <4>1, AskedOrCut
      <4>3. n - 1 > Len(rx["tst"]) => n - 1 > Depth["tst"]
        <5>1. n \in Int
          OBVIOUS
        <5> QED
          BY <1>4, <3>6, <5>1
      <4>4. Clean(Ahead') \/ Whole(Ahead', Depth["tst"], Want)
        BY <3>6, <4>2, <4>3 DEF Whole
      <4>5. Requested'
        BY <1>2, <1>3, <1>4, <1>15, <2>2, <3>1, <3>6, <4>4 DEF Requested, Asking
      <4> QED
        BY <4>5 DEF Phase
    <3> QED
      BY <1>3, <3>1, <3>4, <3>5, <3>6
  <2>3. CASE tst = "frx"
    <3>1. Ahead' = Ahead
      BY <1>7, <1>15, <2>3 DEF Requested
    <3>2. Requested'
      BY <1>2, <1>3, <1>4, <1>15, <2>3, <3>1 DEF Requested, Asking
    <3> QED
      BY <3>2 DEF Phase
  <2>4. CASE tst = "done"
    <3>1. Requested'
      BY <1>2, <1>3, <1>15, <2>4 DEF Requested, Asking
    <3> QED
      BY <3>1 DEF Phase
  <2> QED
    BY <1>15, <2>2, <2>3, <2>4 DEF Requested
<1>16. Phase'
  BY <1>9, <1>10, <1>11, <1>12, <1>14, <1>15
<1>17. TypeOK' /\ Books' /\ ConfigStored'
  BY <1>1, <1>2, <1>3 DEF TypeOK, Books, ConfigStored, Files
<1> QED
  BY <1>16, <1>17 DEF Inv

(* The SUT is reading whenever the line has a byte for it. *)
LEMMA SutIsPolling ==
  ASSUME Inv, tx["tst"] # <<>>
  PROVE  Polling("sut") /\ (Sizing \/ Storing)
<1>1. LinkTypeOK
  BY DEF Inv, TypeOK
<1>2. Back # <<>>
  BY <1>1, StreamTypes
<1>3. Sizing \/ Storing
  BY <1>2 DEF Inv, Phase, Waiting, Requested, Naming, Fetching, Acked, Early
<1>4. Ahead = <<>> /\ sut \in {"size", "data"}
  BY <1>3 DEF Sizing, Storing
<1>5. tx["sut"] = <<>>
  BY <1>1, <1>4, StreamTypes
<1>6. Len(<<>>) = 0
  OBVIOUS
<1>7. Idle("sut")
  BY <1>5, <1>6, LinkAssumption DEF Idle
<1> QED
  BY <1>3, <1>4, <1>7 DEF Polling

(* A byte reaches the SUT. *)
LEMMA DeliverToSut ==
  ASSUME Inv, Deliver("tst")
  PROVE  Inv' /\ Len(rx'["sut"]) = Len(rx["sut"]) + 1
<1>1. TypeOK /\ LinkTypeOK /\ Books /\ ConfigStored
  BY DEF Inv, TypeOK
<1>2. /\ Transmit("tst", Polling("sut") \/ (Prompt /\ "tst" = "sut")) /\ tx["tst"] # <<>>
      /\ UNCHANGED <<console, sut, job, listed, count, size, got, mem, loaded,
                     tst, relays, tname, tbuf>>
  BY DEF Deliver, Other, Transmit, sutVars, tstVars
<1>3. Polling("sut") /\ (Sizing \/ Storing)
  BY <1>2, SutIsPolling
<1>4. /\ LinkTypeOK' /\ Back' = Back /\ Ahead' = Ahead
      /\ Len(rx'["sut"]) = Len(rx["sut"]) + 1
  BY <1>1, <1>2, <1>3, LineToSut
<1>5. Want' = Want
  BY <1>2 DEF Want, JobName
<1>6. Sizing => Sizing'
  BY <1>2, <1>4, <1>5 DEF Sizing, Fetched, Files
<1>7. Storing => Storing'
  BY <1>2, <1>4, <1>5 DEF Storing, Fetched, Files
<1>8. Phase'
  BY <1>3, <1>6, <1>7 DEF Phase
<1>9. TypeOK' /\ Books' /\ ConfigStored'
  BY <1>1, <1>2, <1>4 DEF TypeOK, Books, ConfigStored, Files
<1> QED
  BY <1>4, <1>8, <1>9 DEF Inv

---------------------------------------------------------------------------------
(* The invariant holds when loading starts, and every step keeps it. *)

(* The welcome messages and the enquiries left over hold no FRX. *)
LEMMA InitInv == Init => Inv
<1> SUFFICES ASSUME Init PROVE Inv
  OBVIOUS
<1>1. /\ "sut" \in Side /\ "tst" \in Side
      /\ <<>> \in Seq(Byte) /\ <<255, ENQ>> \in Seq(Byte) /\ Text \in Seq(Byte)
      /\ Clean(Text) /\ Clean(<<>>) /\ Clean(<<255, ENQ>>)
  BY TextIsClean, EmptySeq DEF Side, Byte, ENQ
<1>2. /\ rx["tst"] \in {<<>>, <<255, ENQ>>} /\ rx["sut"] = <<>>
      /\ tx["sut"] = Text /\ tx["tst"] = <<>>
  BY <1>1 DEF Init, Side
<1>3. LinkTypeOK
  BY <1>1 DEF Init, LinkTypeOK
<1>4. Clean(Ahead)
  <2>1. rx["tst"] \in Seq(Byte) /\ Clean(rx["tst"])
    BY <1>1, <1>2
  <2> QED
    BY <1>1, <1>2, <2>1, CleanStays DEF Ahead
<1>5. Back = <<>>
  BY <1>1, <1>2, ConcatEmptySeq DEF Back
<1>6. Waiting
  BY <1>4, <1>5 DEF Waiting, Stopped, Init
<1>7. NoFiles \in [files : Seq(Seq(Byte)), addrs : Seq(0 .. AddrMod - 1)]
  BY EmptySeq DEF NoFiles
<1>8. mem \in [0 .. MemSize - 1 -> Byte]
  BY DEF Init, Byte
<1>9. TypeOK
  <2>1. /\ job \in 0 .. MaxFiles /\ count \in 0 .. 4 /\ size \in Nat /\ got \in 0 .. size
        /\ relays \in 0 .. 2 /\ console \in Consoles
        /\ sut \in SutStates /\ tst \in TstStates
    BY RelayAssumption DEF Init, SutStates, TstStates
  <2>2. /\ loaded \in Seq([name : Seq(Byte), addr : Nat, size : Nat])
        /\ tname \in Seq(Byte) /\ tbuf \in Seq(Byte) /\ listed = NoFiles
    BY EmptySeq DEF Init
  <2> QED
    BY <1>3, <1>7, <1>8, <2>1, <2>2 DEF TypeOK
<1>10. Books
  <2>1. Len(console.entries) \in 0 .. MaxFiles
    BY ConsoleTypes DEF Init
  <2>2. Len(<<>>) = 0
    OBVIOUS
  <2> QED
    BY <2>1, <2>2, RelayAssumption DEF Books, Init
<1>11. ConfigStored
  BY DEF ConfigStored, Init
<1> QED
  BY <1>6, <1>9, <1>10, <1>11 DEF Inv, Phase

(* The invariant reads the variables of the module only. *)
LEMMA InvStutters == Inv /\ UNCHANGED vars => Inv'
<1> SUFFICES ASSUME Inv, UNCHANGED vars PROVE Inv'
  OBVIOUS
<1>1. UNCHANGED <<rx, tx, console, sut, job, listed, count, size, got, mem, loaded, tst,
                  relays, tname, tbuf>>
  BY DEF vars, sutVars, tstVars
<1>2. Ahead' = Ahead /\ Back' = Back /\ Want' = Want
  BY <1>1 DEF Ahead, Back, Want, JobName
<1>3. TypeOK' /\ Books' /\ ConfigStored'
  BY <1>1 DEF Inv, TypeOK, LinkTypeOK, Books, ConfigStored, Files
<1>4. Phase'
  BY <1>1, <1>2 DEF Inv, Phase, Waiting, Requested, Naming, Fetching, Sizing, Acked, Storing,
                    Early, Asking, Stopped, Fetched, Files
<1> QED
  BY <1>3, <1>4 DEF Inv

(* Every step keeps the invariant. *)
LEMMA NextInv == Inv /\ [Next]_vars => Inv'
<1>1. ASSUME Inv, SutNext PROVE Inv'
  BY <1>1, SutRequestKeeps, SutSizeKeeps, SutDataKeeps, SutReceivedKeeps DEF SutNext
<1>2. ASSUME Inv, TstNext PROVE Inv'
  BY <1>2, TstPrintKeeps, TstFrxKeeps, TstNameKeeps, TstFetchKeeps, TstAckKeeps DEF TstNext
<1>3. ASSUME Inv, NEW p \in Side, Deliver(p) PROVE Inv'
  BY <1>3, DeliverToTester, DeliverToSut DEF Side
<1>4. ASSUME Inv, Terminated PROVE Inv'
  BY <1>4, InvStutters DEF Terminated
<1> QED
  BY <1>1, <1>2, <1>3, <1>4, InvStutters DEF Next

(* The invariant holds in every state that loading can reach. *)
THEOREM LoadingInvariant == Spec => []Inv
<1>1. Init => Inv
  BY InitInv
<1>2. Inv /\ [Next]_vars => Inv'
  BY NextInv
<1> QED
  BY <1>1, <1>2, PTL DEF Spec

(* Type correctness of loading: the fifteen variables keep their types,     *)
(* whatever the line loses and whatever the files hold.                     *)
THEOREM TypeCorrect == Spec => []TypeOK
<1>1. Inv => TypeOK
  BY DEF Inv
<1> QED
  BY <1>1, LoadingInvariant, PTL

(* The file that the Tester fetches is the one that the SUT awaits: a       *)
(* request is received whole or not at all, for every name, every FIFO and  *)
(* every message at least as long as the FIFO.                              *)
THEOREM TheRightFile == Spec => []RightFile
<1>1. Inv => RightFile
  BY DEF Inv, Phase, Waiting, Requested, Naming, Fetching, Sizing, Acked, Storing, Early,
         Asking, RightFile, Want
<1> QED
  BY <1>1, LoadingInvariant, PTL

(* No byte is lost on the way to the SUT, although the line has no flow     *)
(* control: the Tester sends only while the boot loader polls the UART.     *)
THEOREM NoByteLost == Spec => SutNeverOverruns
<1> DEFINE Kept == tx["tst"] # <<>> /\ tx'["tst"] = Tail(tx["tst"]) =>
                     Len(rx'["sut"]) = Len(rx["sut"]) + 1
<1>1. Inv /\ [Next]_vars => [Kept]_vars
  <2> SUFFICES ASSUME Inv, Next, tx["tst"] # <<>>, tx'["tst"] = Tail(tx["tst"])
               PROVE  Len(rx'["sut"]) = Len(rx["sut"]) + 1 \/ UNCHANGED vars
    OBVIOUS
  <2>1. LinkTypeOK /\ "tst" \in Side /\ "sut" \in Side /\ tx["tst"] \in Seq(Byte)
    BY StreamTypes DEF Inv, TypeOK
  <2>2. tx'["tst"] # tx["tst"]
    <3>1. Len(Tail(tx["tst"])) = Len(tx["tst"]) - 1 /\ Len(tx["tst"]) \in Nat
      BY <2>1, HeadTailProperties, LenProperties
    <3>2. Len(Tail(tx["tst"])) # Len(tx["tst"])
      BY <3>1
    <3> QED
      BY <3>2
  <2>3. Sizing \/ Storing
    BY SutIsPolling
  <2>4. CASE SutNext
    <3>1. tx' = tx \/ \E bytes : Put("sut", bytes)
      BY <2>4 DEF SutNext, SutRequest, SutSize, SutData, SutReceived
    <3>2. tx'["tst"] = tx["tst"]
      BY <2>1, <3>1 DEF Put, LinkTypeOK
    <3> QED
      BY <2>2, <3>2
  <2>5. CASE TstNext
    <3>1. tx' = tx
      <4>1. tst \in {"print", "frx", "done", "ack"} /\ Ahead = <<>>
        BY <2>3 DEF Sizing, Storing
      <4>2. rx["tst"] = <<>>
        BY <2>1, <4>1, StreamTypes
      <4> QED
        BY <2>5, <4>1, <4>2 DEF TstNext, TstPrint, TstFrx, TstName, TstFetch, TstAck, Readable
    <3> QED
      BY <2>2, <3>1
  <2>6. CASE Deliver("sut")
    <3>1. tx'["tst"] = tx["tst"]
      BY <2>1, <2>6 DEF Deliver, Transmit, LinkTypeOK
    <3> QED
      BY <2>2, <3>1
  <2>7. CASE Deliver("tst")
    BY <2>7, DeliverToSut
  <2>8. CASE Terminated
    BY <2>8 DEF Terminated
  <2> QED
    BY <2>4, <2>5, <2>6, <2>7, <2>8 DEF Next, Side
<1> QED
  BY <1>1, LoadingInvariant, PTL DEF SutNeverOverruns, Spec

---------------------------------------------------------------------------------
(* Loading implements FileService when every file fits the buffer of the    *)
(* Tester: the Linux program cuts a larger one.                             *)
FilesFit == \A c \in Consoles : \A n \in DOMAIN c.files : Len(c.files[n]) <= FirmwareMax

(* The service is about to store, or storing, the file that is loaded. *)
LEMMA ServiceWants ==
  ASSUME Inv, sut # "done"
  PROVE  /\ Len(loaded) = job /\ job <= Len(console.entries)
         /\ Service!Wanted(Len(loaded)) = [name |-> Want, addr |-> JobAddr(job)]
<1>1. TypeOK /\ Books /\ console \in Consoles /\ job \in Nat
  BY DEF Inv, TypeOK
<1>2. Len(loaded) = job /\ job <= Len(console.entries)
  BY <1>1 DEF Books
<1>3. CASE job = 0
  BY <1>1, <1>2, <1>3, JobIsNamed DEF Service!Wanted
<1>4. CASE job # 0
  <2>1. /\ Want = console.entries[job].name /\ JobAddr(job) = console.entries[job].addr
    BY <1>1, <1>4, JobIsNamed
  <2>2. console.entries[job] \in [name : Seq(Byte), addr : 0 .. AddrMod - 1]
    <3>1. console.entries \in Seq([name : Seq(Byte), addr : 0 .. AddrMod - 1])
      BY <1>1, ConfigAssumption
    <3>2. job \in 1 .. Len(console.entries)
      BY <1>1, <1>2, <1>4, <3>1, LenProperties
    <3> QED
      BY <3>1, <3>2, ElementOfSeq
  <2>3. console.entries[job] = [name |-> Want, addr |-> JobAddr(job)]
    BY <2>1, <2>2
  <2> QED
    BY <1>2, <1>4, <2>3 DEF Service!Wanted
<1> QED
  BY <1>2, <1>3, <1>4

(* While data is received, it is the content that the service stores. *)
LEMMA ServiceContent ==
  ASSUME FilesFit, Inv, Storing \/ Acked
  PROVE  Service!Content = tbuf /\ size = Len(tbuf)
<1>1. Fetched /\ size = Len(tbuf) /\ sut = "data"
  BY DEF Storing, Acked
<1>2. Want \in DOMAIN console.files /\ tbuf = Received(console.files[Want])
      /\ console \in Consoles
  BY <1>1 DEF Fetched, Files, Inv, TypeOK
<1>3. tbuf = console.files[Want]
  BY <1>2, ReceivedType DEF FilesFit
<1>4. Service!Wanted(Len(loaded)).name = Want
  BY <1>1, ServiceWants
<1> QED
  BY <1>1, <1>3, <1>4 DEF Service!Content

(* A byte that is stored is the next one of the content. *)
LEMMA StoringByte ==
  ASSUME Inv, SutData
  PROVE  /\ Storing /\ Head(rx["sut"]) = tbuf[got + 1] /\ got < Len(tbuf) /\ got \in Nat
         /\ tbuf \in Seq(Byte)
<1>1. TypeOK /\ LinkTypeOK /\ Books
  BY DEF Inv, TypeOK
<1>2. Back # <<>> /\ Head(Back) = Head(rx["sut"])
  BY <1>1, SutReads DEF SutData
<1>3. Storing
  BY <1>2 DEF Inv, Phase, Waiting, Requested, Naming, Fetching, Sizing, Acked, Storing, Early,
              Asking, Stopped, SutData
<1>4. Back = Rest(tbuf, got) /\ got < Len(tbuf) /\ got \in Nat /\ tbuf \in Seq(Byte)
  BY <1>1, <1>3 DEF Storing, SutData, TypeOK
<1>5. got \in 0 .. Len(tbuf)
  BY <1>4, LenProperties
<1> QED
  BY <1>2, <1>3, <1>4, <1>5, RestOfMessage

(* Loading implements FileService, for every console, FIFO and message:     *)
(* relay, parser and boot loader store the configuration and then exactly   *)
(* the files that it lists, in its order, whole and at their addresses,     *)
(* and never write anything else.  A request asks, a byte stores, the       *)
(* return of recvfile finishes; all other steps stutter.                    *)
THEOREM LoadingIsFileService ==
  ASSUME FilesFit
  PROVE  Spec => ImplementsFileService
<1>1. Init => Service!Init
  BY DEF Init, Service!Init
<1>2. Inv /\ [Next]_vars => [Service!Next]_(Service!vars)
  <2> SUFFICES ASSUME Inv, [Next]_vars
               PROVE  Service!Next \/ UNCHANGED Service!vars
    OBVIOUS
  <2>1. CASE SutRequest
    <3>1. Service!Ask
      <4>1. sut = "request" /\ sut' = "size" /\ got' = 0 /\ UNCHANGED <<console, mem, loaded>>
        BY <2>1 DEF SutRequest
      <4>2. Len(loaded) <= Len(console.entries)
        BY <4>1, ServiceWants
      <4> QED
        BY <4>1, <4>2 DEF Service!Ask
    <3> QED
      BY <3>1 DEF Service!Next
  <2>2. CASE SutSize
    <3>1. /\ sut \in {"size", "data"} /\ sut' \in {"size", "data"}
          /\ UNCHANGED <<console, got, mem, loaded>>
      BY <2>2 DEF SutSize
    <3> QED
      BY <3>1 DEF Service!vars
  <2>3. CASE SutData
    <3>1. /\ Storing /\ Head(rx["sut"]) = tbuf[got + 1] /\ got < Len(tbuf)
      BY <2>3, StoringByte
    <3>2. Service!Content = tbuf
      BY <3>1, ServiceContent
    <3>3. /\ sut = "data" /\ sut' = "data" /\ got' = got + 1
          /\ UNCHANGED <<console, loaded>>
          /\ mem' = [mem EXCEPT ![JobAddr(job) + got] = Head(rx["sut"])]
      BY <2>3 DEF SutData
    <3>4. Service!Wanted(Len(loaded)).addr = JobAddr(job)
      BY <3>3, ServiceWants
    <3>5. Service!Store
      BY <3>1, <3>2, <3>3, <3>4 DEF Service!Store
    <3> QED
      BY <3>5 DEF Service!Next
  <2>4. CASE SutReceived
    <3>1. Storing \/ Acked
      BY <2>4 DEF Inv, Phase, Waiting, Requested, Naming, Fetching, Sizing, Acked, Storing, Early,
         Asking, Stopped, SutReceived
    <3>2. Service!Content = tbuf /\ size = Len(tbuf)
      BY <3>1, ServiceContent
    <3>3. /\ sut = "data" /\ got = size /\ sut' \in {"request", "done"}
          /\ UNCHANGED <<console, got, mem>>
          /\ loaded' = Append(loaded, [name |-> Want, addr |-> JobAddr(job), size |-> size])
      BY <2>4 DEF SutReceived, Want
    <3>4. Service!Wanted(Len(loaded)) = [name |-> Want, addr |-> JobAddr(job)]
      BY <3>3, ServiceWants
    <3>5. Service!Finish
      BY <3>2, <3>3, <3>4 DEF Service!Finish
    <3> QED
      BY <3>5 DEF Service!Next
  <2>5. CASE TstNext \/ (\E p \in Side : Deliver(p)) \/ Terminated \/ UNCHANGED vars
    <3>1. UNCHANGED <<console, sut, got, mem, loaded>>
      BY <2>5 DEF TstNext, TstPrint, TstFrx, TstName, TstFetch, TstAck, Deliver, Terminated,
                  vars, sutVars
    <3> QED
      BY <3>1 DEF Service!vars
  <2> QED
    BY <2>1, <2>2, <2>3, <2>4, <2>5 DEF Next, SutNext
<1> QED
  BY <1>1, <1>2, LoadingInvariant, PTL DEF Spec, ImplementsFileService, Service!Spec

---------------------------------------------------------------------------------
(* Every listed file exists and is in the memory, and no two overlap. *)
Size(c, k) == Len(c.files[c.entries[k].name])

Apart ==
  \A c \in Consoles : \A k \in 1 .. Len(c.entries) :
    /\ c.entries[k].name \in DOMAIN c.files
    /\ c.entries[k].addr + Size(c, k) <= MemSize
    /\ \A m \in 1 .. Len(c.entries) :
         k < m => \/ c.entries[k].addr + Size(c, k) <= c.entries[m].addr
                  \/ c.entries[m].addr + Size(c, m) <= c.entries[k].addr

(* The first n bytes of the k-th file are in memory. *)
Stored(k, n) ==
  \A j \in 1 .. n :
    mem[console.entries[k].addr + j - 1] = Files[console.entries[k].name][j]

(* The files that are loaded are in memory, and so is what is received of   *)
(* the one that is being loaded.                                           *)
Image ==
  /\ \A k \in 1 .. job : k < job \/ sut = "done" => Stored(k, Size(console, k))
  /\ sut = "data" /\ job > 0 => Stored(job, got)

(* A byte of a file is stored where none of another file is. *)
LEMMA ByteOfImage ==
  ASSUME FilesFit, Apart, Inv, Image, SutData
  PROVE  Image'
<1>1. /\ Storing /\ Head(rx["sut"]) = tbuf[got + 1] /\ got < Len(tbuf) /\ got \in Nat
      /\ tbuf \in Seq(Byte) /\ Len(tbuf) \in Nat
  BY StoringByte, LenProperties
<1>2. /\ sut = "data" /\ sut' = "data" /\ got' = got + 1 /\ job' = job /\ console' = console
      /\ mem' = [mem EXCEPT ![JobAddr(job) + got] = Head(rx["sut"])]
  BY DEF SutData
<1>3. /\ job \in Nat /\ console \in Consoles /\ mem \in [0 .. MemSize - 1 -> Byte]
      /\ job <= Len(console.entries) /\ Len(console.entries) \in Nat /\ MemSize \in Nat
      /\ \A k \in 1 .. Len(console.entries) : console.entries[k].addr \in Nat
  <2>1. job \in Nat /\ console \in Consoles /\ mem \in [0 .. MemSize - 1 -> Byte]
    BY DEF Inv, TypeOK
  <2>2. job <= Len(console.entries)
    BY DEF Inv, Books
  <2>3. Len(console.entries) \in Nat /\ MemSize \in Nat
    BY <2>1, ConsoleTypes, RelayAssumption
  <2>4. \A k \in 1 .. Len(console.entries) : console.entries[k].addr \in Nat
    BY <2>1, ConsoleTypes
  <2> QED
    BY <2>1, <2>2, <2>3, <2>4
<1>4. CASE job = 0
  BY <1>2, <1>4 DEF Image
<1>5. CASE job > 0
  <2> DEFINE e == console.entries[job]
  <2>1. e.name = Want /\ e.addr = JobAddr(job) /\ job \in 1 .. Len(console.entries)
    BY <1>3, <1>5, JobIsNamed DEF Inv
  <2>2. tbuf = console.files[Want] /\ Want \in DOMAIN console.files
    <3>1. Fetched
      BY <1>1 DEF Storing
    <3> QED
      BY <1>3, <3>1, ReceivedType DEF Fetched, Files, FilesFit
  <2>3. Size(console, job) = Len(tbuf)
    BY <2>1, <2>2 DEF Size
  <2>4. e.addr + Len(tbuf) <= MemSize /\ e.addr \in Nat
    BY <1>3, <2>1, <2>3 DEF Apart
  <2> HIDE DEF e
  <2>5. e.addr + got \in 0 .. MemSize - 1
    BY <1>1, <1>3, <2>4
  <2>6. /\ mem'[e.addr + got] = tbuf[got + 1]
        /\ \A a \in 0 .. MemSize - 1 : a # e.addr + got => mem'[a] = mem[a]
    BY <1>1, <1>2, <1>3, <2>1, <2>5
  <2>7. ASSUME NEW k \in 1 .. job, k < job PROVE Stored(k, Size(console, k))'
    <3> SUFFICES ASSUME NEW j \in 1 .. Size(console, k)
                 PROVE  mem'[console.entries[k].addr + j - 1]
                          = console.files[console.entries[k].name][j]
      BY <1>2 DEF Stored, Files
    <3>1. /\ mem[console.entries[k].addr + j - 1] = console.files[console.entries[k].name][j]
          /\ k \in 1 .. Len(console.entries) /\ Size(console, k) \in Nat
      <4>1. k \in 1 .. Len(console.entries)
        BY <1>3
      <4>2. Size(console, k) \in Nat
        BY <1>3, <4>1, ConsoleTypes, LenProperties DEF Apart, Size
      <4> QED
        BY <2>7, <4>1, <4>2 DEF Image, Stored, Files
    <3>2. /\ console.entries[k].addr + Size(console, k) <= MemSize
          /\ \/ console.entries[k].addr + Size(console, k) <= e.addr
             \/ e.addr + Len(tbuf) <= console.entries[k].addr
      BY <1>3, <2>1, <2>3, <2>7, <3>1 DEF Apart, e
    <3> DEFINE a == console.entries[k].addr
    <3>3. a \in Nat
      BY <1>3, <3>1
    <3> HIDE DEF a
    <3>4. a + Size(console, k) <= MemSize /\ (a + Size(console, k) <= e.addr \/ e.addr + Len(tbuf) <= a)
      BY <3>2 DEF a
    <3>5. a + j - 1 \in 0 .. MemSize - 1 /\ a + j - 1 # e.addr + got
      <4>1. j \in Nat /\ 1 <= j /\ j <= Size(console, k) /\ Size(console, k) \in Nat
        BY <3>1
      <4>2. CASE a + Size(console, k) <= e.addr
        BY <1>1, <1>3, <2>4, <3>3, <3>4, <4>1, <4>2, SMTT(30)
      <4>3. CASE e.addr + Len(tbuf) <= a
        <5>1. e.addr + got < a /\ a + j - 1 >= a /\ a + j - 1 \in Int /\ e.addr + got \in Int
          BY <1>1, <2>4, <3>3, <4>1, <4>3
        <5>2. a + j - 1 \in 0 .. MemSize - 1
          BY <1>3, <3>3, <3>4, <4>1
        <5>3. e.addr + got < a + j - 1
          BY <3>3, <5>1
        <5>4. \A x, y \in Int : x < y => y # x
          OBVIOUS
        <5> QED
          BY <5>1, <5>2, <5>3, <5>4, Zenon
      <4> QED
        BY <3>4, <4>2, <4>3
    <3> QED
      BY <2>6, <3>1, <3>5 DEF a
  <2>8. Stored(job, got)'
    <3> SUFFICES ASSUME NEW j \in 1 .. got + 1
                 PROVE  mem'[e.addr + j - 1] = tbuf[j]
      BY <1>2, <2>1, <2>2 DEF Stored, Files, e
    <3>1. CASE j = got + 1
      <4>1. e.addr + j - 1 = e.addr + got
        BY <1>1, <2>4, <3>1
      <4> QED
        BY <2>6, <3>1, <4>1
    <3>2. CASE j # got + 1
      <4>1. j \in 1 .. got /\ e.addr + j - 1 \in 0 .. MemSize - 1 /\ e.addr + j - 1 # e.addr + got
        BY <1>1, <1>3, <2>4, <3>2, SMTT(30)
      <4>2. mem[e.addr + j - 1] = tbuf[j]
        BY <1>2, <1>5, <2>1, <2>2, <4>1 DEF Image, Stored, Files, e
      <4> QED
        BY <2>6, <4>1, <4>2
    <3> QED
      BY <3>1, <3>2
  <2> QED
    BY <1>2, <2>7, <2>8 DEF Image
<1> QED
  BY <1>3, <1>4, <1>5

(* Every other step leaves the image as it is, or completes a file. *)
LEMMA ImageKept ==
  ASSUME FilesFit, Apart, Inv, Image, [Next]_vars
  PROVE  Image'
<1>1. /\ job \in Nat /\ console \in Consoles /\ console' = console
      /\ job <= Len(console.entries) /\ Len(console.entries) \in Nat
  <2>1. job \in Nat /\ console \in Consoles
    BY DEF Inv, TypeOK
  <2>2. console' = console
    BY DEF Next, SutNext, SutRequest, SutSize, SutData, SutReceived, TstNext, TstPrint, TstFrx,
           TstName, TstFetch, TstAck, Deliver, Terminated, vars
  <2>3. job <= Len(console.entries)
    BY DEF Inv, Books
  <2> QED
    BY <2>1, <2>2, <2>3, ConsoleTypes, RelayAssumption
<1>2. CASE SutRequest
  <2>1. job' = job /\ mem' = mem /\ sut = "request" /\ sut' = "size" /\ got' = 0
    BY <1>2 DEF SutRequest
  <2> QED
    BY <1>1, <2>1 DEF Image, Stored, Files
<1>3. CASE SutSize
  <2>1. /\ job' = job /\ mem' = mem /\ sut = "size" /\ sut' \in {"size", "data"} /\ got' = got
    BY <1>3 DEF SutSize
  <2>2. got = 0
    BY <2>1 DEF Inv, Phase, Waiting, Requested, Naming, Fetching, Sizing, Acked, Storing, Early,
                Asking, Stopped
  <2> QED
    BY <1>1, <2>1, <2>2 DEF Image, Stored, Files
<1>4. CASE SutData
  BY <1>4, ByteOfImage
<1>5. CASE SutReceived
  <2>1. /\ sut = "data" /\ got = size /\ mem' = mem
        /\ \/ job' = job + 1 /\ sut' = "request"
           \/ job' = job /\ sut' = "done"
    BY <1>5 DEF SutReceived
  <2>2. Storing \/ Acked
    BY <1>5 DEF Inv, Phase, Waiting, Requested, Naming, Fetching, Sizing, Acked, Storing, Early,
                Asking, Stopped, SutReceived
  <2>3. ASSUME job > 0 PROVE size = Size(console, job)
    <3>1. console.entries[job].name = Want
      BY <1>1, <2>3, JobIsNamed DEF Inv
    <3>2. Fetched /\ size = Len(tbuf)
      BY <2>2 DEF Storing, Acked
    <3>3. tbuf = console.files[Want]
      BY <1>1, <3>2, ReceivedType DEF Fetched, Files, FilesFit
    <3> QED
      BY <3>1, <3>2, <3>3 DEF Size
  <2>4. \A k \in 1 .. job : Stored(k, Size(console, k))
    <3> SUFFICES ASSUME NEW k \in 1 .. job PROVE Stored(k, Size(console, k))
      OBVIOUS
    <3>1. CASE k < job
      BY <3>1 DEF Image
    <3>2. CASE ~(k < job)
      <4>1. k = job /\ job > 0
        BY <1>1, <3>2
      <4>2. Stored(job, got) /\ got = Size(console, job)
        BY <2>1, <2>3, <4>1 DEF Image
      <4> QED
        BY <4>1, <4>2
    <3> QED
      BY <3>1, <3>2
  <2>5. \A k \in 1 .. job' : k < job' \/ sut' = "done" => k \in 1 .. job
    BY <1>1, <2>1
  <2> QED
    BY <1>1, <2>1, <2>4, <2>5 DEF Image, Stored, Files
<1>6. CASE TstNext \/ (\E p \in Side : Deliver(p)) \/ Terminated \/ UNCHANGED vars
  <2>1. UNCHANGED <<sut, job, got, mem>>
    BY <1>6 DEF TstNext, TstPrint, TstFrx, TstName, TstFetch, TstAck, Deliver, Terminated,
                vars, sutVars
  <2> QED
    BY <1>1, <2>1 DEF Image, Stored, Files
<1> QED
  BY <1>2, <1>3, <1>4, <1>5, <1>6 DEF Next, SutNext

(* When the boot loader starts the program, every file that the             *)
(* configuration lists is in memory, whole and at its address, provided     *)
(* that the files fit the Tester's buffer and do not overlap.               *)
THEOREM TheImageIsComplete ==
  ASSUME FilesFit, Apart
  PROVE  Spec => []ImageIsComplete
<1>1. Init => Image
  BY DEF Init, Image
<1>2. Inv /\ Image /\ [Next]_vars => Image'
  BY ImageKept
<1>3. Inv /\ Image => ImageIsComplete
  <2> SUFFICES ASSUME Inv, Image, sut = "done",
                      NEW k \in 1 .. Len(console.entries),
                      NEW j \in 1 .. Size(console, k)
               PROVE  mem[console.entries[k].addr + j - 1] = Files[console.entries[k].name][j]
    BY DEF ImageIsComplete, Size, Files
  <2>1. job = Len(console.entries)
    BY DEF Inv, Books
  <2> QED
    BY <2>1 DEF Image, Stored
<1> QED
  BY <1>1, <1>2, <1>3, LoadingInvariant, PTL DEF Spec
=================================================================================
