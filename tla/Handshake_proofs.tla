----------------------------- MODULE Handshake_proofs ---------------------------
(***************************************************************************)
(* Proofs about the rendezvous of the boot loader and the Tester, for      *)
(* every acknowledge text without a newline, every FIFO that holds the     *)
(* greeting and the boot messages, and both kinds of Tester.               *)
(***************************************************************************)
EXTENDS Handshake, Link_proofs

(* The greeting and its parts are bytes. *)
LEMMA GreetingType ==
  /\ Greeting \in Seq(Byte)
  /\ Ack \in Seq(Byte)
  /\ Len(Ack) \in Nat \ {0}
  /\ Len(Greeting) = Len(Ack) + 1
  /\ Greeting[1] = NL
  /\ \A i \in 1 .. Len(Ack) : Greeting[i + 1] = Ack[i] /\ Ack[i] # NL
  /\ <<255, ENQ>> \in Seq(Byte)
  /\ <<NL>> \in Seq(Byte)
<1>1. Ack \in Seq(Byte) /\ Len(Ack) \in Nat \ {0}
  BY AckAssumption, EmptySeq
<1>2. /\ <<NL>> \in Seq(Byte) /\ Len(<<NL>>) = 1 /\ <<NL>>[1] = NL
      /\ <<255, ENQ>> \in Seq(Byte)
  BY DEF NL, ENQ, Byte
<1>3. /\ Greeting \in Seq(Byte)
      /\ Len(Greeting) = 1 + Len(Ack)
      /\ \A i \in 1 .. 1 + Len(Ack) :
           Greeting[i] = IF i <= 1 THEN <<NL>>[i] ELSE Ack[i - 1]
  BY <1>1, <1>2, ConcatProperties DEF Greeting
<1>4. Greeting[1] = NL
  BY <1>1, <1>2, <1>3
<1>5. ASSUME NEW i \in 1 .. Len(Ack) PROVE Greeting[i + 1] = Ack[i]
  <2>1. i + 1 \in 1 .. 1 + Len(Ack) /\ ~(i + 1 <= 1) /\ (i + 1) - 1 = i
    BY <1>1
  <2> QED
    BY <1>3, <2>1
<1> QED
  BY <1>1, <1>2, <1>3, <1>4, <1>5, AckAssumption

(* Where the boot loader is tells how much of the text it has matched: this *)
(* keeps the index of the matching loop inside the text.                   *)
MatchedInRange ==
  /\ sut \in {"off", "enquire", "poll"} => matched = 0
  /\ sut = "match" => matched < Len(Ack)
  /\ sut = "connected" => matched = Len(Ack)

(* The strengthened type invariant. *)
Typed == TypeOK /\ MatchedInRange

(* The initial state has the types. *)
LEMMA TypedInit == Init => Typed
<1> SUFFICES ASSUME Init PROVE Typed
  OBVIOUS
<1>1. <<>> \in Seq(Byte) /\ Len(Ack) \in Nat \ {0}
  BY GreetingType, EmptySeq
<1>2. LinkTypeOK
  BY <1>1 DEF Init, LinkInit, LinkTypeOK
<1> QED
  BY <1>1, <1>2 DEF Init, Typed, TypeOK, MatchedInRange, SutStates, TstStates

(* Every step keeps the types. *)
LEMMA TypedNext == Typed /\ [Next]_vars => Typed'
<1> SUFFICES ASSUME Typed, [Next]_vars PROVE Typed'
  OBVIOUS
<1> USE DEF SutStates, TstStates, MatchedInRange, Side
<1>1. /\ LinkTypeOK /\ heard \in Seq(Byte) /\ noise \in Seq(Byte)
      /\ sut \in SutStates /\ tst \in TstStates
      /\ matched \in 0 .. Len(Ack) /\ MatchedInRange
      /\ "sut" \in Side /\ "tst" \in Side
  BY DEF Typed, TypeOK
<1>2. CASE SutInit
  <2>1. LinkTypeOK'
    BY <1>1, <1>2, ReinitType DEF SutInit, LinkTypeOK
  <2> QED
    BY <1>1, <1>2, <2>1 DEF SutInit, Typed, TypeOK
<1>3. CASE SutEnquire
  <2>1. LinkTypeOK'
    BY <1>1, <1>3, PutType, GreetingType DEF SutEnquire, LinkTypeOK
  <2> QED
    BY <1>1, <1>3, <2>1 DEF SutEnquire, Typed, TypeOK
<1>4. CASE SutPoll
  <2>1. LinkTypeOK'
    BY <1>1, <1>4 DEF SutPoll, LinkTypeOK
  <2> QED
    BY <1>1, <1>4, <2>1, GreetingType DEF SutPoll, Typed, TypeOK
<1>5. CASE SutMatch
  <2>1. rx' \in [Side -> Seq(Byte)] /\ Head(rx["sut"]) \in Byte
    BY <1>1, <1>5, TakeByteType DEF SutMatch
  <2>2. tx' \in [Side -> Seq(Byte)]
    BY <1>1, <1>5, PutType, GreetingType DEF SutMatch, LinkTypeOK
  <2>3. heard' \in Seq(Byte)
    BY <1>1, <1>5, <2>1, AppendProperties DEF SutMatch
  <2>4. matched < Len(Ack) /\ matched \in Nat /\ Len(Ack) \in Nat \ {0}
    BY <1>1, <1>5, GreetingType DEF SutMatch
  <2>5. matched' \in 0 .. Len(Ack)
    BY <1>5, <2>4 DEF SutMatch, NextMatched
  <2>6. MatchedInRange' /\ sut' \in SutStates
    BY <1>1, <1>5, <2>5, <2>4 DEF SutMatch
  <2> QED
    BY <1>1, <1>5, <2>1, <2>2, <2>3, <2>5, <2>6 DEF SutMatch, Typed, TypeOK, LinkTypeOK
<1>6. CASE TstInit
  <2>1. LinkTypeOK'
    BY <1>1, <1>6, ReinitType DEF TstInit, LinkTypeOK
  <2> QED
    BY <1>1, <1>6, <2>1 DEF TstInit, Typed, TypeOK
<1>7. CASE TstAwait
  <2>1. rx' \in [Side -> Seq(Byte)]
    BY <1>1, <1>7, TakeByteType DEF TstAwait
  <2>2. tx' \in [Side -> Seq(Byte)]
    BY <1>1, <1>7, PutType, GreetingType DEF TstAwait, LinkTypeOK
  <2> QED
    BY <1>1, <1>7, <2>1, <2>2 DEF TstAwait, Typed, TypeOK, LinkTypeOK
<1>8. CASE TstGreetBlind
  <2>1. LinkTypeOK'
    BY <1>1, <1>8, PutType, GreetingType DEF TstGreetBlind, LinkTypeOK
  <2> QED
    BY <1>1, <1>8, <2>1 DEF TstGreetBlind, Typed, TypeOK
<1>9. CASE LinuxBootMessage
  <2>1. PICK c \in NoiseBytes : noise' = Append(noise, c) /\ Put("tst", <<c>>)
    BY <1>9 DEF LinuxBootMessage
  <2>2. c \in Byte /\ <<c>> \in Seq(Byte)
    BY NoiseAssumption
  <2>3. noise' \in Seq(Byte)
    BY <1>1, <2>1, <2>2, AppendProperties
  <2>4. LinkTypeOK'
    BY <1>1, <1>9, <2>1, <2>2, PutType DEF LinuxBootMessage, LinkTypeOK
  <2> QED
    BY <1>1, <1>9, <2>3, <2>4 DEF LinuxBootMessage, Typed, TypeOK
<1>10. ASSUME NEW p \in Side, Deliver(p) PROVE Typed'
  <2>1. LinkTypeOK'
    BY <1>1, <1>10, TransmitType DEF Deliver, LinkTypeOK
  <2> QED
    BY <1>1, <1>10, <2>1 DEF Deliver, Typed, TypeOK
<1>11. CASE UNCHANGED vars
  <2>1. LinkTypeOK'
    BY <1>1, <1>11 DEF vars, LinkTypeOK
  <2> QED
    BY <1>1, <1>11, <2>1 DEF vars, Typed, TypeOK
<1> QED
  BY <1>2, <1>3, <1>4, <1>5, <1>6, <1>7, <1>8, <1>9, <1>10, <1>11
  DEF Next, SutNext, TstProgram, Terminated

(* Type correctness; in particular the index of the matching loop of the    *)
(* boot loader never leaves the acknowledge text.                          *)
THEOREM TypeCorrect == Spec => []TypeOK
<1>1. Typed => TypeOK
  BY DEF Typed
<1> QED
  BY TypedInit, TypedNext, <1>1, PTL DEF Spec

---------------------------------------------------------------------------------
(* What the Tester has sent, and where those bytes are.  The order on the   *)
(* line is kept and no byte is lost, because all that is ever sent before  *)
(* the SUT is connected fits into its FIFO.                                *)

Sent == noise \o (IF tst = "acked" THEN Greeting ELSE <<>>)
Stream == (heard \o rx["sut"]) \o tx["tst"]

(* Before the SUT is started nothing has been sent. *)
QuietBefore ==
  sut = "off" =>
    /\ tst # "acked" /\ noise = <<>> /\ heard = <<>>
    /\ \A p \in Side : rx[p] = <<>> /\ tx[p] = <<>>

(* The boot messages are few and do not contain the text. *)
NoiseIsHarmless == Len(noise) <= NoiseMax /\ ~Contains(noise, Ack)

(* The last bytes read are the characters matched. *)
MatchedIsRead ==
  /\ matched <= Len(heard)
  /\ \A i \in 1 .. matched : heard[(Len(heard) - matched) + i] = Ack[i]

(* Once the newline of the greeting has been read, every character of the  *)
(* text is matched.                                                        *)
MatchedIsAll ==
  tst = "acked" /\ sut # "connected" /\ Len(heard) > Len(noise) =>
    matched = Len(heard) - (Len(noise) + 1)

(* The inductive invariant. *)
Inv ==
  /\ Typed
  /\ QuietBefore
  /\ NoiseIsHarmless
  /\ Stream = Sent
  /\ MatchedIsRead
  /\ MatchedIsAll

(* The types of what the invariant speaks about. *)
LEMMA InvTypes ==
  ASSUME Typed
  PROVE  /\ LinkTypeOK
         /\ rx["sut"] \in Seq(Byte) /\ tx["tst"] \in Seq(Byte)
         /\ heard \in Seq(Byte) /\ noise \in Seq(Byte)
         /\ sut \in SutStates /\ tst \in TstStates
         /\ matched \in Nat /\ matched <= Len(Ack) /\ MatchedInRange
         /\ "sut" \in Side /\ "tst" \in Side
         /\ Sent \in Seq(Byte)
         /\ Len(Sent) = Len(noise) + (IF tst = "acked" THEN Len(Greeting) ELSE 0)
         /\ tst # "acked" => Sent = noise
         /\ tst = "acked" => Sent = noise \o Greeting
         /\ Len(Stream) = Len(heard) + Len(rx["sut"]) + Len(tx["tst"])
<1>1. /\ LinkTypeOK /\ heard \in Seq(Byte) /\ noise \in Seq(Byte)
      /\ sut \in SutStates /\ tst \in TstStates
      /\ matched \in 0 .. Len(Ack) /\ MatchedInRange
  BY DEF Typed, TypeOK
<1>2. rx["sut"] \in Seq(Byte) /\ tx["tst"] \in Seq(Byte) /\ "sut" \in Side /\ "tst" \in Side
  BY <1>1 DEF LinkTypeOK, Side
<1>3. /\ noise \o <<>> = noise
      /\ noise \o Greeting \in Seq(Byte)
      /\ Len(noise \o Greeting) = Len(noise) + Len(Greeting)
  BY <1>1, GreetingType, BytesConcat
<1>4. /\ Sent \in Seq(Byte)
      /\ Len(Sent) = Len(noise) + (IF tst = "acked" THEN Len(Greeting) ELSE 0)
      /\ tst # "acked" => Sent = noise
      /\ tst = "acked" => Sent = noise \o Greeting
  BY <1>1, <1>3, LenProperties DEF Sent
<1>5. heard \o rx["sut"] \in Seq(Byte)
      /\ Len(heard \o rx["sut"]) = Len(heard) + Len(rx["sut"])
  BY <1>1, <1>2, ConcatProperties
<1>6. Len(Stream) = Len(heard) + Len(rx["sut"]) + Len(tx["tst"])
  BY <1>2, <1>5, ConcatProperties DEF Stream
<1>7. matched \in Nat /\ matched <= Len(Ack)
  BY <1>1, GreetingType
<1> QED
  BY <1>1, <1>2, <1>4, <1>6, <1>7

(* While bytes are on their way to the SUT its FIFO has room for them. *)
LEMMA RoomForTheNext ==
  ASSUME Inv, tx["tst"] # <<>>
  PROVE  Len(rx["sut"]) < Depth["sut"]
<1> DEFINE r == Len(rx["sut"])
           t == Len(tx["tst"])
           d == Depth["sut"]
           total == Len(Sent)
<1>1. Typed /\ Stream = Sent /\ Len(noise) <= NoiseMax
  BY DEF Inv, NoiseIsHarmless
<1>2. /\ Len(heard) \in Nat /\ r \in Nat /\ Len(noise) \in Nat
      /\ t \in Nat /\ t # 0
  BY <1>1, InvTypes, EmptySeq, LenProperties
<1>3. /\ total = Len(heard) + r + t
      /\ total = Len(noise) + (IF tst = "acked" THEN Len(Greeting) ELSE 0)
  BY <1>1, InvTypes
<1>4. /\ d \in Nat
      /\ d >= NoiseMax + Len(Ack) + 1
      /\ Len(Greeting) = Len(Ack) + 1
      /\ Len(Ack) \in Nat /\ NoiseMax \in Nat
  BY GreetingType, FifoAssumption, LinkAssumption, NoiseAssumption DEF Side
<1> HIDE DEF r, t, d, total
<1>5. total <= d
  BY <1>1, <1>2, <1>3, <1>4
<1>6. r < d
  BY <1>2, <1>3, <1>4, <1>5
<1> QED
  BY <1>6 DEF r, d

(* The initial state satisfies the invariant. *)
LEMMA InvInit == Init => Inv
<1> SUFFICES ASSUME Init PROVE Inv
  OBVIOUS
<1>1. Typed
  BY TypedInit
<1>2. /\ rx["sut"] = <<>> /\ tx["tst"] = <<>> /\ heard = <<>> /\ noise = <<>>
      /\ matched = 0 /\ tst = "off"
  BY DEF Init, LinkInit, Side
<1>3. <<>> \in Seq(Byte) /\ Len(<<>>) = 0
  BY EmptySeq
<1>4. Stream = Sent
  <2>1. <<>> \o <<>> = <<>>
    BY <1>3, ConcatEmptySeq
  <2> QED
    BY <1>2, <2>1 DEF Stream, Sent
<1>5. NoiseIsHarmless
  <2>1. 0 .. Len(noise) - Len(Ack) = {}
    BY <1>2, <1>3, GreetingType
  <2> QED
    BY <1>2, <1>3, <2>1, NoiseAssumption DEF NoiseIsHarmless, Contains
<1>6. QuietBefore
  BY <1>2 DEF Init, LinkInit, QuietBefore
<1> QED
  BY <1>1, <1>2, <1>3, <1>4, <1>5, <1>6 DEF Inv, MatchedIsRead, MatchedIsAll

(* Every step keeps the order of the bytes and loses none of them. *)
LEMMA OrderNext == Inv /\ [Next]_vars => (Stream = Sent)'
<1> SUFFICES ASSUME Inv, [Next]_vars PROVE Stream' = Sent'
  OBVIOUS
<1>1. Typed /\ Stream = Sent
  BY DEF Inv
<1>2. /\ LinkTypeOK
      /\ rx["sut"] \in Seq(Byte) /\ tx["tst"] \in Seq(Byte)
      /\ heard \in Seq(Byte) /\ noise \in Seq(Byte)
      /\ "sut" \in Side /\ "tst" \in Side
      /\ tst # "acked" => Sent = noise
      /\ Typed'
  BY <1>1, InvTypes, TypedNext DEF Inv
<1>3. /\ tst' # "acked" => Sent' = noise'
      /\ tst' = "acked" => Sent' = noise' \o Greeting
  <2>1. noise' \in Seq(Byte)
    BY <1>2 DEF Typed, TypeOK
  <2> QED
    BY <2>1, ConcatEmptySeq DEF Sent
<1>4. ASSUME NEW b \in Seq(Byte), tx'["tst"] = tx["tst"] \o b,
             rx'["sut"] = rx["sut"], heard' = heard
      PROVE  Stream' = Stream \o b
  <2>1. heard \o rx["sut"] \in Seq(Byte)
    BY <1>2, ConcatProperties
  <2>2. (heard \o rx["sut"]) \o (tx["tst"] \o b) = ((heard \o rx["sut"]) \o tx["tst"]) \o b
    BY <1>2, <1>4, <2>1, BytesAssociate
  <2> QED
    BY <1>4, <2>2 DEF Stream
<1>5. ASSUME rx'["sut"] = rx["sut"], tx'["tst"] = tx["tst"],
             UNCHANGED <<heard, noise>>, tst' = "acked" <=> tst = "acked"
      PROVE  Stream' = Sent'
  BY <1>1, <1>5 DEF Stream, Sent
<1>6. CASE SutInit
  <2>1. rx["sut"] = <<>>
    BY <1>6, <1>2 DEF SutInit, Inv, QuietBefore
  <2>2. rx'["sut"] = rx["sut"]
    BY <1>6, <1>2, <2>1, ReinitType DEF SutInit
  <2> QED
    BY <1>5, <1>6, <2>2 DEF SutInit
<1>7. CASE SutEnquire
  <2>1. tx'["tst"] = tx["tst"]
    BY <1>7, <1>2, PutType, GreetingType DEF SutEnquire, Side
  <2> QED
    BY <1>5, <1>7, <2>1 DEF SutEnquire
<1>8. CASE SutPoll
  BY <1>5, <1>8 DEF SutPoll
<1>9. CASE SutMatch
  <2>1. tx'["tst"] = tx["tst"]
    BY <1>9, <1>2, PutType, GreetingType DEF SutMatch, Side
  <2>2. rx["sut"] # <<>> /\ rx'["sut"] = Tail(rx["sut"])
        /\ heard' = Append(heard, Head(rx["sut"]))
    BY <1>9, <1>2, TakeByteType DEF SutMatch, Readable
  <2>3. heard' \o rx'["sut"] = heard \o rx["sut"]
    BY <1>2, <2>2, ReadKeepsOrder
  <2> QED
    BY <1>1, <1>9, <2>1, <2>3 DEF SutMatch, Stream, Sent
<1>10. CASE TstInit
  <2>1. rx'["sut"] = rx["sut"]
    BY <1>10, <1>2, ReinitType DEF TstInit, Side
  <2> QED
    BY <1>5, <1>10, <2>1 DEF TstInit
<1>11. CASE TstAwait
  <2>1. rx'["sut"] = rx["sut"]
    BY <1>11, <1>2, TakeByteType DEF TstAwait, Side
  <2>2. CASE Head(rx["tst"]) = ENQ
    <3>1. tx'["tst"] = tx["tst"] \o Greeting
      BY <1>11, <1>2, <2>2, PutType, GreetingType DEF TstAwait
    <3>2. Stream' = Stream \o Greeting
      BY <1>4, <1>11, <2>1, <3>1, GreetingType DEF TstAwait
    <3> QED
      BY <1>1, <1>2, <1>3, <1>11, <2>2, <3>2 DEF TstAwait
  <2>3. CASE Head(rx["tst"]) # ENQ
    BY <1>5, <1>11, <2>1, <2>3 DEF TstAwait
  <2> QED
    BY <2>2, <2>3
<1>12. CASE TstGreetBlind
  <2>1. tx'["tst"] = tx["tst"] \o Greeting
    BY <1>12, <1>2, PutType, GreetingType DEF TstGreetBlind
  <2>2. Stream' = Stream \o Greeting
    BY <1>4, <1>12, <2>1, GreetingType DEF TstGreetBlind
  <2> QED
    BY <1>1, <1>2, <1>3, <1>12, <2>2 DEF TstGreetBlind
<1>13. CASE LinuxBootMessage
  <2>1. PICK c \in NoiseBytes : noise' = Append(noise, c) /\ Put("tst", <<c>>)
    BY <1>13 DEF LinuxBootMessage
  <2>2. c \in Byte /\ <<c>> \in Seq(Byte)
    BY NoiseAssumption
  <2>3. tx'["tst"] = tx["tst"] \o <<c>>
    BY <1>2, <2>1, <2>2, PutType
  <2>4. Stream' = Stream \o <<c>>
    BY <1>4, <1>13, <2>2, <2>3 DEF LinuxBootMessage
  <2>5. Append(noise, c) = noise \o <<c>>
    BY <1>2, <2>2, AppendIsConcat
  <2> QED
    BY <1>1, <1>2, <1>3, <1>13, <2>1, <2>4, <2>5 DEF LinuxBootMessage
<1>14. ASSUME NEW p \in Side, Deliver(p) PROVE Stream' = Sent'
  <2>1. CASE p = "sut"
    <3>1. tx'["tst"] = tx["tst"] /\ rx'["sut"] = rx["sut"]
      BY <1>2, <1>14, <2>1, TransmitType DEF Deliver, Side
    <3> QED
      BY <1>5, <1>14, <3>1 DEF Deliver
  <2>2. CASE p = "tst"
    <3>1. /\ tx["tst"] # <<>> /\ tx'["tst"] = Tail(tx["tst"])
          /\ \/ rx'["sut"] = Append(rx["sut"], Head(tx["tst"]))
             \/ Len(rx["sut"]) >= Depth["sut"]
      BY <1>2, <1>14, <2>2, TransmitType DEF Deliver, Other
    <3>2. Len(rx["sut"]) < Depth["sut"]
      BY <3>1, RoomForTheNext
    <3>3. rx'["sut"] = Append(rx["sut"], Head(tx["tst"]))
      BY <1>2, <3>1, <3>2, LenProperties, LinkAssumption
    <3>4. (heard \o Append(rx["sut"], Head(tx["tst"]))) \o Tail(tx["tst"]) = Stream
      BY <1>2, <3>1, ByteDelivered DEF Stream
    <3> QED
      BY <1>1, <1>14, <3>1, <3>3, <3>4 DEF Deliver, Stream, Sent
  <2> QED
    BY <2>1, <2>2 DEF Side
<1>15. CASE UNCHANGED vars
  BY <1>5, <1>15 DEF vars
<1> QED
  BY <1>6, <1>7, <1>8, <1>9, <1>10, <1>11, <1>12, <1>13, <1>14, <1>15
  DEF Next, SutNext, TstProgram, Terminated

(* Nothing is sent before the SUT is started. *)
LEMMA QuietNext == Inv /\ [Next]_vars => QuietBefore'
<1> SUFFICES ASSUME Inv, [Next]_vars, sut' = "off"
             PROVE  /\ tst' # "acked" /\ noise' = <<>> /\ heard' = <<>>
                    /\ \A p \in Side : rx'[p] = <<>> /\ tx'[p] = <<>>
  BY DEF QuietBefore
<1>1. CASE sut # "off"
  BY <1>1 DEF Next, SutNext, SutInit, SutEnquire, SutPoll, SutMatch, TstProgram,
     TstInit, TstAwait, TstGreetBlind, LinuxBootMessage, Deliver, Terminated, vars
<1>2. CASE sut = "off"
  <2>1. /\ tst # "acked" /\ noise = <<>> /\ heard = <<>> /\ LinkTypeOK
        /\ \A p \in Side : rx[p] = <<>> /\ tx[p] = <<>>
    BY <1>2, InvTypes DEF Inv, QuietBefore
  <2>2. TstInit \/ UNCHANGED vars
    BY <1>2, <2>1 DEF Next, SutNext, SutInit, SutEnquire, SutPoll, SutMatch,
       TstProgram, TstAwait, TstGreetBlind, LinuxBootMessage, Deliver,
       Terminated, Readable, Transmit, Side
  <2>3. CASE TstInit
    <3>1. \A p \in Side : rx'[p] = <<>>
      BY <2>1, <2>3, ReinitType DEF TstInit, Side
    <3> QED
      BY <2>1, <2>3, <3>1 DEF TstInit
  <2>4. CASE UNCHANGED vars
    BY <2>1, <2>4 DEF vars
  <2> QED
    BY <2>2, <2>3, <2>4
<1> QED
  BY <1>1, <1>2

(* The boot messages stay few and without the text. *)
LEMMA NoiseNext == Inv /\ [Next]_vars => NoiseIsHarmless'
<1> SUFFICES ASSUME Inv, [Next]_vars PROVE NoiseIsHarmless'
  OBVIOUS
<1>1. NoiseIsHarmless /\ noise \in Seq(Byte)
  BY InvTypes DEF Inv
<1>2. CASE LinuxBootMessage
  <2>1. PICK c \in NoiseBytes : noise' = Append(noise, c) /\ ~Contains(noise', Ack)
    BY <1>2 DEF LinuxBootMessage
  <2>2. Len(noise') = Len(noise) + 1 /\ Len(noise) < NoiseMax /\ Len(noise) \in Nat
    BY <1>1, <1>2, <2>1, NoiseAssumption, AppendProperties, LenProperties
    DEF LinuxBootMessage
  <2>3. Len(noise') <= NoiseMax
    BY <2>2, NoiseAssumption
  <2>4. ~(Contains(noise, Ack))'
    BY <2>1 DEF Contains
  <2> QED
    BY <2>3, <2>4 DEF NoiseIsHarmless
<1>3. CASE noise' = noise
  BY <1>1, <1>3 DEF NoiseIsHarmless, Contains
<1> QED
  BY <1>2, <1>3 DEF Next, SutNext, SutInit, SutEnquire, SutPoll, SutMatch, TstProgram,
     TstInit, TstAwait, TstGreetBlind, Deliver, Terminated, vars

(* A step either reads a byte in the matching loop or leaves the loop's     *)
(* state alone.                                                            *)
LEMMA MatchOrNot ==
  ASSUME [Next]_vars
  PROVE  SutMatch \/ UNCHANGED <<matched, heard>>
BY DEF Next, SutNext, SutInit, SutEnquire, SutPoll, TstProgram, TstInit, TstAwait,
   TstGreetBlind, LinuxBootMessage, Deliver, Terminated, vars

(* The characters matched stay the last ones read. *)
LEMMA MatchedNext == Inv /\ [Next]_vars => MatchedIsRead'
<1> SUFFICES ASSUME Inv, [Next]_vars PROVE MatchedIsRead'
  OBVIOUS
<1> DEFINE c == Head(rx["sut"])
           n == Len(heard)
<1>1. /\ heard \in Seq(Byte) /\ matched \in Nat /\ n \in Nat
      /\ rx["sut"] \in Seq(Byte) /\ "sut" \in Side /\ LinkTypeOK
      /\ matched <= n
      /\ \A i \in 1 .. matched : heard[(n - matched) + i] = Ack[i]
  BY InvTypes, LenProperties DEF Inv, MatchedIsRead
<1>2. CASE SutMatch
  <2>1. /\ c \in Byte /\ heard' = Append(heard, c) /\ matched' = NextMatched(c)
    BY <1>1, <1>2, TakeByteType DEF SutMatch
  <2>2. /\ Len(heard') = n + 1
        /\ \A i \in 1 .. n : heard'[i] = heard[i]
        /\ heard'[n + 1] = c
    BY <1>1, <2>1, AppendProperties
  <2> HIDE DEF n, c
  <2>3. CASE c = Ack[matched + 1]
    <3>1. matched' = matched + 1
      BY <2>1, <2>3 DEF NextMatched
    <3>2. ASSUME NEW i \in 1 .. matched + 1
          PROVE  heard'[((n + 1) - (matched + 1)) + i] = Ack[i]
      <4>1. CASE i = matched + 1
        <5>1. ((n + 1) - (matched + 1)) + i = n + 1
          BY <1>1, <4>1
        <5> QED
          BY <2>2, <2>3, <4>1, <5>1
      <4>2. CASE i # matched + 1
        <5>1. /\ i \in 1 .. matched
              /\ ((n + 1) - (matched + 1)) + i = (n - matched) + i
              /\ (n - matched) + i \in 1 .. n
          BY <1>1, <4>2
        <5> QED
          BY <1>1, <2>2, <5>1
      <4> QED
        BY <4>1, <4>2
    <3> QED
      BY <1>1, <2>2, <3>1, <3>2 DEF MatchedIsRead
  <2>4. CASE c # Ack[matched + 1]
    <3>1. matched' = 0
      BY <2>1, <2>4 DEF NextMatched
    <3> QED
      BY <1>1, <2>2, <3>1 DEF MatchedIsRead
  <2> QED
    BY <2>3, <2>4
<1>3. CASE UNCHANGED <<matched, heard>>
  BY <1>1, <1>3 DEF MatchedIsRead
<1> QED
  BY <1>2, <1>3, MatchOrNot

(* What was read is the beginning of what was sent, and the next byte to be *)
(* read is the next one of what was sent.                                  *)
LEMMA ReadIsSent ==
  ASSUME Inv
  PROVE  /\ Len(heard) <= Len(Sent)
         /\ \A i \in 1 .. Len(heard) : heard[i] = Sent[i]
         /\ rx["sut"] # <<>> => /\ Len(heard) + 1 <= Len(Sent)
                                /\ Head(rx["sut"]) = Sent[Len(heard) + 1]
         /\ Len(heard) = Len(Sent) <=> rx["sut"] = <<>> /\ tx["tst"] = <<>>
<1> DEFINE r == rx["sut"]
           t == tx["tst"]
<1>1. /\ heard \in Seq(Byte) /\ r \in Seq(Byte) /\ t \in Seq(Byte)
      /\ Stream = Sent /\ Stream = (heard \o r) \o t
  BY InvTypes DEF Inv, Stream
<1> HIDE DEF r, t
<1>2. /\ Len(heard) \in Nat /\ Len(r) \in Nat /\ Len(t) \in Nat
      /\ heard \o r \in Seq(Byte)
      /\ Len(heard \o r) = Len(heard) + Len(r)
      /\ Len((heard \o r) \o t) = Len(heard \o r) + Len(t)
      /\ \A i \in 1 .. Len(heard) + Len(r) :
           (heard \o r)[i] = IF i <= Len(heard) THEN heard[i] ELSE r[i - Len(heard)]
      /\ \A i \in 1 .. Len(heard \o r) + Len(t) :
           ((heard \o r) \o t)[i] = IF i <= Len(heard \o r) THEN (heard \o r)[i]
                                    ELSE t[i - Len(heard \o r)]
  BY <1>1, BytesConcat
<1>3. Len(heard) <= Len(Sent)
  BY <1>1, <1>2
<1>4. ASSUME NEW i \in 1 .. Len(heard) PROVE heard[i] = Sent[i]
  <2>1. /\ i \in 1 .. Len(heard) + Len(r) /\ i <= Len(heard)
        /\ i \in 1 .. Len(heard \o r) + Len(t) /\ i <= Len(heard \o r)
    BY <1>2
  <2> QED
    BY <1>1, <1>2, <2>1
<1>5. ASSUME r # <<>>
      PROVE  Len(heard) + 1 <= Len(Sent) /\ Head(r) = Sent[Len(heard) + 1]
  BY <1>1, <1>5, NextByte
<1>6. (Len(r) = 0 <=> r = <<>>) /\ (Len(t) = 0 <=> t = <<>>)
  BY <1>1, EmptySeq
<1>7. Len(heard) = Len(Sent) <=> Len(r) = 0 /\ Len(t) = 0
  BY <1>1, <1>2
<1> QED
  BY <1>3, <1>4, <1>5, <1>6, <1>7 DEF r, t

(* The bytes of what was sent, by position. *)
LEMMA SentByPosition ==
  ASSUME Typed
  PROVE  /\ Len(noise) \in Nat
         /\ \A i \in 1 .. Len(noise) : Sent[i] = noise[i]
         /\ tst = "acked" =>
              /\ Len(Sent) = Len(noise) + (Len(Ack) + 1)
              /\ Sent[Len(noise) + 1] = NL
              /\ \A i \in 1 .. Len(Ack) : Sent[(Len(noise) + 1) + i] = Ack[i]
         /\ tst # "acked" => Len(Sent) = Len(noise)
<1>1. /\ noise \in Seq(Byte) /\ Len(noise) \in Nat
      /\ tst # "acked" => Sent = noise
      /\ tst = "acked" => Sent = noise \o Greeting
      /\ Greeting \in Seq(Byte) /\ Len(Greeting) = Len(Ack) + 1
      /\ Len(Ack) \in Nat /\ Greeting[1] = NL
      /\ \A i \in 1 .. Len(Ack) : Greeting[i + 1] = Ack[i]
  BY InvTypes, GreetingType, LenProperties
<1>2. CASE tst # "acked"
  BY <1>1, <1>2
<1>3. CASE tst = "acked"
  <2>1. /\ Len(Sent) = Len(noise) + (Len(Ack) + 1)
        /\ \A i \in 1 .. Len(noise) + (Len(Ack) + 1) :
             Sent[i] = IF i <= Len(noise) THEN noise[i] ELSE Greeting[i - Len(noise)]
    <3>1. /\ Len(noise \o Greeting) = Len(noise) + Len(Greeting)
          /\ \A i \in 1 .. Len(noise) + Len(Greeting) :
               (noise \o Greeting)[i] =
                  IF i <= Len(noise) THEN noise[i] ELSE Greeting[i - Len(noise)]
      BY <1>1, BytesConcat
    <3>2. Sent = noise \o Greeting /\ Len(Greeting) = Len(Ack) + 1
      BY <1>1, <1>3
    <3> QED
      BY <3>1, <3>2
  <2>2. ASSUME NEW i \in 1 .. Len(noise) PROVE Sent[i] = noise[i]
    <3>1. i \in 1 .. Len(noise) + (Len(Ack) + 1) /\ i <= Len(noise)
      BY <1>1
    <3> QED
      BY <2>1, <3>1
  <2>3. Sent[Len(noise) + 1] = NL
    <3>1. /\ Len(noise) + 1 \in 1 .. Len(noise) + (Len(Ack) + 1)
          /\ ~(Len(noise) + 1 <= Len(noise))
          /\ (Len(noise) + 1) - Len(noise) = 1
      BY <1>1
    <3> QED
      BY <1>1, <2>1, <3>1
  <2>4. ASSUME NEW i \in 1 .. Len(Ack) PROVE Sent[(Len(noise) + 1) + i] = Ack[i]
    <3>1. /\ (Len(noise) + 1) + i \in 1 .. Len(noise) + (Len(Ack) + 1)
          /\ ~((Len(noise) + 1) + i <= Len(noise))
          /\ ((Len(noise) + 1) + i) - Len(noise) = i + 1
      BY <1>1
    <3> QED
      BY <1>1, <2>1, <3>1
  <2> QED
    BY <1>1, <1>3, <2>1, <2>2, <2>3, <2>4
<1> QED
  BY <1>2, <1>3

(* The newline of the greeting starts the matching loop afresh, and from    *)
(* there on every character matches.                                       *)
LEMMA AllNext == Inv /\ [Next]_vars => MatchedIsAll'
<1> SUFFICES ASSUME Inv, [Next]_vars,
                    tst' = "acked", sut' # "connected", Len(heard') > Len(noise')
             PROVE  matched' = Len(heard') - (Len(noise') + 1)
  BY DEF MatchedIsAll
<1> DEFINE n == Len(noise)
           h == Len(heard)
<1>1. /\ Typed /\ heard \in Seq(Byte) /\ h \in Nat /\ n \in Nat
      /\ matched \in Nat /\ matched <= Len(Ack) /\ MatchedInRange
      /\ LinkTypeOK /\ "sut" \in Side /\ sut \in SutStates
      /\ Len(Ack) \in Nat
  BY InvTypes, SentByPosition, LenProperties, GreetingType DEF Inv
<1>2. CASE SutMatch
  <2>1. /\ sut = "match" /\ tst = "acked" /\ noise' = noise
        /\ rx["sut"] # <<>>
        /\ Head(rx["sut"]) \in Byte
        /\ heard' = Append(heard, Head(rx["sut"]))
        /\ matched' = NextMatched(Head(rx["sut"]))
    BY <1>1, <1>2, TakeByteType DEF SutMatch, Readable
  <2>2. Len(heard') = h + 1
    BY <1>1, <2>1, AppendProperties
  <2>3. /\ Head(rx["sut"]) = Sent[h + 1] /\ h + 1 <= Len(Sent)
        /\ Len(Sent) = n + (Len(Ack) + 1)
        /\ Sent[n + 1] = NL
        /\ \A i \in 1 .. Len(Ack) : Sent[(n + 1) + i] = Ack[i]
    BY <1>1, <2>1, ReadIsSent, SentByPosition
  <2>4. matched < Len(Ack) /\ sut # "connected"
    BY <1>1, <2>1 DEF MatchedInRange
  <2>5. h > n => matched = h - (n + 1)
    BY <2>1, <2>4 DEF Inv, MatchedIsAll
  <2>6. h >= n
    BY <1>1, <2>1, <2>2
  <2> HIDE DEF h, n
  <2>7. CASE h = n
    <3>1. matched + 1 \in 1 .. Len(Ack)
      BY <1>1, <2>4
    <3>2. Head(rx["sut"]) # Ack[matched + 1]
      BY <2>3, <2>7, <3>1, GreetingType
    <3>3. matched' = 0
      BY <2>1, <3>2 DEF NextMatched
    <3> QED
      BY <1>1, <2>1, <2>2, <2>7, <3>3 DEF n
  <2>8. CASE h > n
    <3>1. matched = h - (n + 1) /\ matched + 1 \in 1 .. Len(Ack)
          /\ (n + 1) + (matched + 1) = h + 1
      BY <1>1, <2>4, <2>5, <2>8
    <3>2. Head(rx["sut"]) = Ack[matched + 1]
      BY <2>3, <3>1
    <3>3. matched' = matched + 1
      BY <2>1, <3>2 DEF NextMatched
    <3>4. matched' = (h + 1) - (n + 1)
      BY <1>1, <3>1, <3>3
    <3> QED
      BY <2>1, <2>2, <3>4 DEF n
  <2> QED
    BY <1>1, <2>6, <2>7, <2>8
<1>3. CASE UNCHANGED <<matched, heard>> /\ tst = "acked"
  <2>1. noise' = noise
    BY <1>3 DEF Next, SutNext, SutInit, SutEnquire, SutPoll, SutMatch, TstProgram,
       TstInit, TstAwait, TstGreetBlind, LinuxBootMessage, Deliver, Terminated, vars
  <2>2. CASE sut # "connected"
    BY <1>3, <2>1, <2>2 DEF Inv, MatchedIsAll
  <2>3. CASE sut = "connected"
    BY <2>3 DEF Next, SutNext, SutInit, SutEnquire, SutPoll, SutMatch, TstProgram,
       TstInit, TstAwait, TstGreetBlind, LinuxBootMessage, Deliver, Terminated, vars
  <2> QED
    BY <2>2, <2>3
<1>4. CASE UNCHANGED <<matched, heard>> /\ tst # "acked"
  <2>1. noise' = noise
    BY <1>4 DEF Next, SutNext, SutInit, SutEnquire, SutPoll, SutMatch, TstProgram,
       TstInit, TstAwait, TstGreetBlind, LinuxBootMessage, Deliver, Terminated, vars
  <2>2. Len(heard) <= Len(noise)
    BY <1>1, <1>4, ReadIsSent, SentByPosition
  <2> QED
    BY <1>1, <1>4, <2>1, <2>2
<1> QED
  BY <1>2, <1>3, <1>4, MatchOrNot

(* The invariant is inductive. *)
LEMMA InvNext == Inv /\ [Next]_vars => Inv'
<1> SUFFICES ASSUME Inv, [Next]_vars PROVE Inv'
  OBVIOUS
<1>1. Typed'
  BY TypedNext DEF Inv
<1>2. QuietBefore' /\ NoiseIsHarmless' /\ (Stream = Sent)'
  BY QuietNext, NoiseNext, OrderNext
<1>3. MatchedIsRead' /\ MatchedIsAll'
  BY MatchedNext, AllNext
<1> QED
  BY <1>1, <1>2, <1>3 DEF Inv

(* The invariant holds in every state. *)
LEMMA Invariance == Spec => []Inv
BY InvInit, InvNext, PTL DEF Spec

(* The text is found in what was sent only at its end: the boot messages do *)
(* not contain it, and it contains no newline.                             *)
LEMMA OnlyAtTheEnd ==
  ASSUME Inv, NEW k \in Nat, k + Len(Ack) <= Len(Sent),
         \A i \in 1 .. Len(Ack) : Sent[k + i] = Ack[i]
  PROVE  tst = "acked" /\ k + Len(Ack) = Len(Sent)
<1> DEFINE n == Len(noise)
           a == Len(Ack)
<1>1. /\ Typed /\ n \in Nat /\ a \in Nat /\ a # 0
      /\ \A i \in 1 .. n : Sent[i] = noise[i]
      /\ \A i \in 1 .. a : Ack[i] # NL
  BY SentByPosition, GreetingType DEF Inv
<1>2. ~(k + a <= n)
  <2> SUFFICES ASSUME k + a <= n PROVE FALSE
    OBVIOUS
  <2>1. k \in 0 .. n - a
    BY <1>1
  <2>2. ASSUME NEW i \in 1 .. a PROVE noise[k + i] = Ack[i]
    <3>1. k + i \in 1 .. n
      BY <1>1
    <3> QED
      BY <1>1, <3>1
  <2>3. Contains(noise, Ack)
    BY <2>1, <2>2 DEF Contains
  <2> QED
    BY <2>3 DEF Inv, NoiseIsHarmless
<1>3. tst = "acked"
  BY <1>1, <1>2, SentByPosition
<1>4. Len(Sent) = n + (a + 1) /\ Sent[n + 1] = NL
  BY <1>1, <1>3, SentByPosition
<1> HIDE DEF n, a
<1>5. ~(k <= n)
  <2> SUFFICES ASSUME k <= n PROVE FALSE
    OBVIOUS
  <2>1. (n + 1) - k \in 1 .. a /\ k + ((n + 1) - k) = n + 1
    BY <1>1, <1>2
  <2>2. Sent[n + 1] = Ack[(n + 1) - k]
    BY <2>1 DEF a
  <2> QED
    BY <1>1, <1>4, <2>1, <2>2
<1>6. k + a = n + (a + 1)
  <2>1. k + a <= n + (a + 1)
    BY <1>4 DEF a
  <2> QED
    BY <1>1, <1>5, <2>1
<1> QED
  BY <1>3, <1>4, <1>6 DEF a

---------------------------------------------------------------------------------
(* The boot loader takes nothing but the whole greeting of the Tester for   *)
(* the acknowledge, whatever the Tester's Linux has printed before it.     *)
THEOREM Genuine == Spec => []AckIsGenuine
<1>1. Inv => AckIsGenuine
  <2> SUFFICES ASSUME Inv, sut = "connected"
               PROVE  tst = "acked" /\ tx["tst"] = <<>> /\ rx["sut"] = <<>>
    BY DEF AckIsGenuine
  <2> DEFINE k == Len(heard) - Len(Ack)
  <2>1. /\ matched = Len(Ack) /\ matched <= Len(heard)
        /\ \A i \in 1 .. matched : heard[(Len(heard) - matched) + i] = Ack[i]
        /\ heard \in Seq(Byte) /\ Len(Ack) \in Nat /\ Len(heard) \in Nat
    BY InvTypes, GreetingType, LenProperties DEF Inv, MatchedIsRead, MatchedInRange
  <2>2. k \in Nat /\ k + Len(Ack) = Len(heard)
    BY <2>1
  <2>3. Len(heard) <= Len(Sent) /\ \A i \in 1 .. Len(heard) : heard[i] = Sent[i]
    BY ReadIsSent
  <2>4. ASSUME NEW i \in 1 .. Len(Ack) PROVE Sent[k + i] = Ack[i]
    <3>1. k + i \in 1 .. Len(heard)
      BY <2>1
    <3>2. heard[k + i] = Ack[i]
      BY <2>1
    <3> QED
      BY <2>3, <3>1, <3>2
  <2> HIDE DEF k
  <2>5. tst = "acked" /\ k + Len(Ack) = Len(Sent)
    BY <2>2, <2>3, <2>4, OnlyAtTheEnd
  <2> QED
    BY <2>2, <2>5, ReadIsSent
<1> QED
  BY <1>1, Invariance, PTL

(* The greeting is never missed, although the matching loop does not        *)
(* reconsider the character that ended a partial match.                    *)
THEOREM NeverMissed == Spec => []AckNeverMissed
<1>1. Inv => AckNeverMissed
  <2> SUFFICES ASSUME Inv, tst = "acked", tx["tst"] = <<>>, rx["sut"] = <<>>,
                      sut # "connected"
               PROVE  FALSE
    BY DEF AckNeverMissed
  <2>1. /\ Len(heard) = Len(noise) + (Len(Ack) + 1)
        /\ Len(noise) \in Nat /\ Len(Ack) \in Nat /\ Len(Ack) # 0
    BY ReadIsSent, SentByPosition, GreetingType DEF Inv
  <2>2. matched = Len(heard) - (Len(noise) + 1)
    BY <2>1 DEF Inv, MatchedIsAll
  <2>3. matched = Len(Ack)
    BY <2>1, <2>2
  <2>4. sut \in SutStates /\ MatchedInRange
    BY InvTypes DEF Inv
  <2> QED
    BY <2>1, <2>3, <2>4 DEF SutStates, MatchedInRange
<1> QED
  BY <1>1, Invariance, PTL
=================================================================================
