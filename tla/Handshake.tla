------------------------------- MODULE Handshake --------------------------------
(***************************************************************************)
(* The rendezvous of the SUT's boot loader and the Tester over the serial  *)
(* line.  The boot loader sends <<0xff, ENQ>> until something arrives and  *)
(* then reads bytes until it has seen the acknowledge text, matching it    *)
(* character by character (iob_soc_sut_boot.c).  A bare-metal Tester waits *)
(* for an ENQ before it sends the text; a Tester that runs Linux sends it  *)
(* without waiting, after the messages of its own boot have gone down the  *)
(* same line (tester_verification.c).                                      *)
(***************************************************************************)
EXTENDS Link

CONSTANTS
  Ack,          \* the acknowledge text, "Tester ACK"
  TesterLinux,  \* TRUE: the Tester runs Linux, FALSE: bare metal
  NoiseBytes,   \* bytes that the boot messages of Linux are made of
  NoiseMax      \* bound on the number of those bytes

(* Mutant of Greeting: without the newline. *)
BareGreeting == Ack

(* The Tester sends the text after a newline. *)
Greeting == <<NL>> \o Ack

ASSUME AckAssumption ==
  /\ Ack \in Seq(Byte) \ {<<>>}
  /\ \A i \in 1 .. Len(Ack) : Ack[i] # NL

ASSUME NoiseAssumption ==
  /\ TesterLinux \in BOOLEAN
  /\ NoiseBytes \subseteq Byte
  /\ NoiseMax \in Nat
  /\ ~TesterLinux => NoiseMax = 0

(* The FIFO of the SUT holds the greeting and the boot messages that       *)
(* arrive while it is still sending enquiries: 11 bytes out of 16 on bare  *)
(* metal.                                                                  *)
ASSUME FifoAssumption == Depth["sut"] >= NoiseMax + Len(Ack) + 1

VARIABLES
  sut,      \* where the boot loader is
  tst,      \* where the Tester is
  matched,  \* i of the matching loop: characters of Ack matched so far
  heard,    \* history: the bytes the matching loop has read
  noise     \* history: the boot messages the Tester's Linux has sent

vars == <<rx, tx, sut, tst, matched, heard, noise>>

SutStates == {"off", "enquire", "poll", "match", "connected"}
TstStates == {"off", "await", "acked"}

TypeOK ==
  /\ LinkTypeOK
  /\ sut \in SutStates
  /\ tst \in TstStates
  /\ matched \in 0 .. Len(Ack)
  /\ heard \in Seq(Byte)
  /\ noise \in Seq(Byte)

Init ==
  /\ LinkInit
  /\ sut = "off"
  /\ tst = "off"
  /\ matched = 0
  /\ heard = <<>>
  /\ noise = <<>>

(* text occurs in s *)
Contains(s, text) ==
  \E k \in 0 .. Len(s) - Len(text) :
    \A i \in 1 .. Len(text) : s[k + i] = text[i]

---------------------------------------------------------------------------------
(* The boot loader of the SUT *)

(* uart16550_init, then the loop is entered *)
SutInit ==
  /\ sut = "off"
  /\ sut' = "enquire"
  /\ Reinit("sut")
  /\ UNCHANGED <<tx, tst, matched, heard, noise>>

(* the body of the loop: an enquiry, if the transmitter is ready *)
SutEnquire ==
  /\ sut = "enquire"
  /\ sut' = "poll"
  /\ IF tx["sut"] = <<>> THEN Put("sut", <<255, ENQ>>) ELSE UNCHANGED tx
  /\ UNCHANGED <<rx, tst, matched, heard, noise>>

(* Mutant of SutPoll: the enquiry is sent only once. *)
SutEnquireOnce ==
  /\ sut = "poll"
  /\ Idle("sut")
  /\ sut' = "match"
  /\ UNCHANGED <<rx, tx, tst, matched, heard, noise>>

(* the condition of the loop: leave it when a byte has arrived *)
SutPoll ==
  /\ sut = "poll"
  /\ Idle("sut")
  /\ sut' = IF rx["sut"] = <<>> THEN "enquire" ELSE "match"
  /\ UNCHANGED <<rx, tx, tst, matched, heard, noise>>

(* Mutants of NextMatched: a mismatch takes back one character; a mismatch *)
(* is ignored.                                                             *)
BackOne(c) == IF c = Ack[matched + 1] THEN matched + 1 ELSE matched - 1
NoRestart(c) == IF c = Ack[matched + 1] THEN matched + 1 ELSE matched

(* how far the match is after the byte c *)
NextMatched(c) == IF c = Ack[matched + 1] THEN matched + 1 ELSE 0

(* one turn of the matching loop; after the last character the boot loader *)
(* sends its welcome messages, here one byte of text                       *)
SutMatch ==
  /\ sut = "match"
  /\ Readable("sut")
  /\ TakeByte("sut")
  /\ heard' = Append(heard, Head(rx["sut"]))
  /\ matched' = NextMatched(Head(rx["sut"]))
  /\ IF matched' = Len(Ack)
       THEN sut' = "connected" /\ Put("sut", <<NL>>)
       ELSE UNCHANGED <<sut, tx>>
  /\ UNCHANGED <<tst, noise>>

---------------------------------------------------------------------------------
(* The Tester *)

(* bare metal: uart16550_init of UART1 *)
TstInit ==
  /\ ~TesterLinux
  /\ tst = "off"
  /\ tst' = "await"
  /\ Reinit("tst")
  /\ UNCHANGED <<tx, sut, matched, heard, noise>>

(* bare metal: bytes are dropped up to the ENQ, then the greeting is sent *)
TstAwait ==
  /\ tst = "await"
  /\ Readable("tst")
  /\ TakeByte("tst")
  /\ IF Head(rx["tst"]) = ENQ
       THEN tst' = "acked" /\ Put("tst", Greeting)
       ELSE UNCHANGED <<tst, tx>>
  /\ UNCHANGED <<sut, matched, heard, noise>>

(* Linux: a byte of its boot messages.  What is sent before the SUT        *)
(* initialises its UART may be discarded there and is not represented; the messages *)
(* do not contain the acknowledge text.                                    *)
LinuxBootMessage ==
  /\ TesterLinux
  /\ tst = "off"
  /\ sut # "off"
  /\ Len(noise) < NoiseMax
  /\ \E c \in NoiseBytes :
       /\ ~Contains(Append(noise, c), Ack)
       /\ noise' = Append(noise, c)
       /\ Put("tst", <<c>>)
  /\ UNCHANGED <<rx, sut, tst, matched, heard>>

(* Linux: the verification program opens the port and sends the greeting,  *)
(* with no wait for an ENQ.  It relies on the boot of Linux taking longer  *)
(* than the SUT needs to initialise its UART.                              *)
TstGreetBlind ==
  /\ TesterLinux
  /\ tst = "off"
  /\ sut # "off"
  /\ tst' = "acked"
  /\ Put("tst", Greeting)
  /\ UNCHANGED <<rx, sut, matched, heard, noise>>

---------------------------------------------------------------------------------
(* The line *)

Polling(p) ==
  CASE p = "sut" -> sut = "match"
    [] p = "tst" -> tst = "await"

Deliver(p) ==
  /\ Transmit(p, Polling(Other(p)))
  /\ UNCHANGED <<sut, tst, matched, heard, noise>>

Terminated ==
  /\ sut = "connected"
  /\ tst = "acked"
  /\ \A p \in Side : tx[p] = <<>>
  /\ UNCHANGED vars

SutNext == SutInit \/ SutEnquire \/ SutPoll \/ SutMatch

TstProgram == TstInit \/ TstAwait \/ TstGreetBlind

Next ==
  \/ SutNext
  \/ TstProgram
  \/ LinuxBootMessage
  \/ \E p \in Side : Deliver(p)
  \/ Terminated

(* Each program runs, and the line carries what was put. *)
Fairness ==
  /\ WF_vars(SutNext)
  /\ WF_vars(TstProgram)
  /\ \A p \in Side : WF_vars(Deliver(p))

Spec == Init /\ [][Next]_vars

FairSpec == Spec /\ Fairness

---------------------------------------------------------------------------------
(* Properties *)

(* The boot loader takes nothing but the Tester's whole greeting for the   *)
(* acknowledge, whatever Linux printed on the line before it: the promise  *)
(* of the comment above the matching loop of the boot loader.              *)
AckIsGenuine ==
  sut = "connected" =>
    /\ tst = "acked"
    /\ tx["tst"] = <<>>
    /\ rx["sut"] = <<>>

(* The greeting is never missed: once the SUT has consumed all that was    *)
(* sent it is connected, although the matching loop does not reconsider    *)
(* the character that ended a partial match, and although the greeting may *)
(* arrive while the boot loader is still sending enquiries.                *)
AckNeverMissed ==
  tst = "acked" /\ tx["tst"] = <<>> /\ rx["sut"] = <<>> => sut = "connected"

(* The two programs find each other whichever of them starts first. *)
Rendezvous == <>(sut = "connected" /\ tst = "acked")
=================================================================================
