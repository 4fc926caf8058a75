---------------------------------- MODULE Link ----------------------------------
(***************************************************************************)
(* The serial line between the two programs of the verification set-up:    *)
(* the System Under Test ("sut", UART0 of the SUT) and the Tester ("tst",  *)
(* UART1 of the Tester).  There is no flow control: a byte that arrives    *)
(* when the receive FIFO is full is lost, unless the receiving program is  *)
(* polling the UART at that moment.                                        *)
(*                                                                         *)
(* The driver of the UART is the library uart16550, which is not in this   *)
(* repository; it is modelled from how the programs call it.               *)
(***************************************************************************)
EXTENDS Integers, Sequences

CONSTANTS
  Depth,      \* Depth[p]: bytes the receive FIFO of p holds (16 in a 16550)
  InFlight    \* bytes of a finished put that may still be in the transmitter

Side == {"sut", "tst"}

Other(p) == IF p = "sut" THEN "tst" ELSE "sut"

ASSUME LinkAssumption ==
  /\ Depth \in [Side -> Nat \ {0}]
  /\ InFlight \in Nat

Byte == 0 .. 255

(* The control codes of the protocol (iob-uart16550.h). *)
NUL == 0
STX == 2
ETX == 3
EOT == 4
ENQ == 5
ACK == 6
FTX == 7
FRX == 8
NL  == 10

VARIABLES
  rx,   \* rx[p]: the receive FIFO of p
  tx    \* tx[p]: what p has put and the line has not delivered yet

link == <<rx, tx>>

LinkTypeOK ==
  /\ rx \in [Side -> Seq(Byte)]
  /\ tx \in [Side -> Seq(Byte)]

LinkInit ==
  /\ rx = [p \in Side |-> <<>>]
  /\ tx = [p \in Side |-> <<>>]

(* uart16550_putc polls the transmitter, so a put returns only when at     *)
(* most InFlight bytes are still on their way.                             *)
Idle(p) == Len(tx[p]) <= InFlight

(* uart16550_puts, uart16550_putc: the bytes enter the line in order. *)
Put(p, bytes) == tx' = [tx EXCEPT ![p] = @ \o bytes]

(* uart16550_getc blocks until a byte is there. *)
Readable(p) == Idle(p) /\ rx[p] # <<>>

TakeByte(p) == rx' = [rx EXCEPT ![p] = Tail(@)]

(* uart16550_init: what had arrived may be discarded. *)
Reinit(p) == rx' \in {rx, [rx EXCEPT ![p] = <<>>]}

(* The line delivers the oldest byte of p.  polled: the receiving program  *)
(* is reading at this moment, so that the FIFO never overruns.             *)
Transmit(p, polled) ==
  LET q == Other(p) IN
  /\ tx[p] # <<>>
  /\ tx' = [tx EXCEPT ![p] = Tail(@)]
  /\ \/ /\ Len(rx[q]) < Depth[q]
        /\ rx' = [rx EXCEPT ![q] = Append(@, Head(tx[p]))]
     \/ /\ Len(rx[q]) >= Depth[q]
        /\ ~polled
        /\ rx' = rx
=================================================================================
