--------------------------------- MODULE Streams --------------------------------
(***************************************************************************)
(* The AXI streams between the Tester and the SUT, and the DMA of the      *)
(* Tester (iob-dma-user.c, iob-axistream-*-user.c, send_axistream,         *)
(* receive_axistream and the loopback of the SUT).  The Tester's end of a  *)
(* stream is fed by the DMA or by software, as its mode says.              *)
(***************************************************************************)
EXTENDS Integers, Sequences

CONSTANTS
  Words,       \* the words of send_axistream
  FifoDepth    \* words that the FIFO of a stream holds

(* The words wait in a FIFO until the SUT has enabled its stream. *)
ASSUME FifoAssumption ==
  /\ Words \in Seq(Nat) \ {<<>>}
  /\ FifoDepth \in Nat /\ FifoDepth >= Len(Words)

VARIABLES
  out,      \* the Tester's output: [fifo, mode]
  in,       \* the Tester's input: [fifo, mode, nwords]
  sutIn,    \* the SUT's input: [fifo, enabled, nwords]
  dma,      \* [direction, interface, left, data]: data are the words to be
            \* read or those written so far
  received  \* byte_stream of receive_axistream

streamVars == <<out, in, sutIn, dma, received>>

NoTransfer == [direction |-> 0, interface |-> 0, left |-> 0, data |-> <<>>]

StreamsInit ==
  /\ out = [fifo |-> <<>>, mode |-> "swreg"]
  /\ in = [fifo |-> <<>>, mode |-> "swreg", nwords |-> 0]
  /\ sutIn = [fifo |-> <<>>, enabled |-> FALSE, nwords |-> 0]
  /\ dma = NoTransfer
  /\ received = <<>>

(* dma_start_transfer up to the transfer size, which begins the transfer.   *)
(* A size of 0 cannot be mapped: nothing is transferred.                   *)
StartTransfer(data, size, direction, interface) ==
  dma' = IF size = 0 THEN [dma EXCEPT !.data = <<>>]
         ELSE [direction |-> direction, interface |-> interface, left |-> size,
               data |-> IF direction = 0 THEN SubSeq(data, 1, size) ELSE <<>>]

(* Mutant of dma_transfer_ready: the transfer is not awaited. *)
ReadyAtOnce == TRUE

dma_transfer_ready == dma.left = 0

(* iob_axis_write for one word after the other; nobody looks at its result, *)
(* so that the words that find the FIFO full are lost                      *)
Push(fifo, words) ==
  LET all == fifo \o words
  IN  IF Len(all) <= FifoDepth THEN all ELSE SubSeq(all, 1, FifoDepth)

---------------------------------------------------------------------------------
(* the hardware *)

MoveOut ==
  /\ dma.left > 0 /\ dma.direction = 0
  /\ out.mode = "dma" /\ Len(out.fifo) < FifoDepth
  /\ out' = [out EXCEPT !.fifo = Append(@, Head(dma.data))]
  /\ dma' = [dma EXCEPT !.left = @ - 1, !.data = Tail(@)]
  /\ UNCHANGED <<in, sutIn, received>>

MoveIn ==
  /\ dma.left > 0 /\ dma.direction = 1 /\ dma.interface = 0
  /\ in.mode = "dma" /\ in.fifo # <<>>
  /\ in' = [in EXCEPT !.fifo = Tail(@)]
  /\ dma' = [dma EXCEPT !.left = @ - 1, !.data = Append(@, Head(in.fifo))]
  /\ UNCHANGED <<out, sutIn, received>>

(* a word crosses from the Tester to the SUT *)
Cross ==
  /\ out.fifo # <<>> /\ sutIn.enabled /\ Len(sutIn.fifo) < FifoDepth
  /\ out' = [out EXCEPT !.fifo = Tail(@)]
  /\ sutIn' = [sutIn EXCEPT !.fifo = Append(@, Head(out.fifo)), !.nwords = @ + 1]
  /\ UNCHANGED <<in, dma, received>>

---------------------------------------------------------------------------------
(* send_axistream *)

SendByDma ==
  /\ out' = [fifo |-> <<>>, mode |-> "dma"]
  /\ StartTransfer(Words, Len(Words) - 1, 0, 0)
  /\ UNCHANGED <<in, sutIn, received>>

SendLast ==
  /\ dma_transfer_ready
  /\ out' = [fifo |-> Push(out.fifo, <<Words[Len(Words)]>>), mode |-> "swreg"]
  /\ UNCHANGED <<in, sutIn, dma, received>>

---------------------------------------------------------------------------------
(* receive_axistream *)

ReceiveByDma ==
  /\ in' = [in EXCEPT !.mode = "dma"]
  /\ StartTransfer(<<>>, in.nwords, 1, 0)
  /\ UNCHANGED <<out, sutIn, received>>

ReceiveDone ==
  /\ dma_transfer_ready
  /\ received' = dma.data
  /\ UNCHANGED <<out, in, sutIn, dma>>

---------------------------------------------------------------------------------
(* the SUT *)

SutEnable ==
  /\ ~sutIn.enabled
  /\ sutIn' = [sutIn EXCEPT !.enabled = TRUE]
  /\ UNCHANGED <<out, in, dma, received>>

(* axistream_loopback, for at most 16 words *)
Loopback ==
  IF sutIn.fifo = <<>> THEN UNCHANGED streamVars
  ELSE /\ in' = [in EXCEPT !.fifo = Push(@, SubSeq(sutIn.fifo, 1, sutIn.nwords)),
                          !.nwords = sutIn.nwords]
       /\ sutIn' = [sutIn EXCEPT !.fifo = SubSeq(@, sutIn.nwords + 1, Len(@))]
       /\ UNCHANGED <<out, dma, received>>
=================================================================================
