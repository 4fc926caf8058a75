--------------------------------- MODULE Devices --------------------------------
(***************************************************************************)
(* The peripherals in the verification under Linux: main of                *)
(* tester_verification.c as far as it uses the logic analyser, the state   *)
(* machines, the streams and their DMA, the registers of the SUT, the GPIO *)
(* and the timer, together with the SUT and with the hardware, which go on *)
(* by themselves.  The serial line is only where the two programs wait for *)
(* each other (modules Handshake, Relay and Exercise).                     *)
(***************************************************************************)
EXTENDS Ila, Pfsm, Streams

CONSTANTS
  Trail,        \* samples the monitor takes after the last word
  Enough,       \* samples that main waits for
  Bitstreams,   \* the files pfsm.bit and monitor_pfsm.bit
  Shapes,       \* [entries, words] of the two state machines
  BufferBytes,  \* BUFFER_SIZE
  CountBase,    \* values of the low word of the timer's counter
  MaxCount      \* bound of the counter

(* main waits for as many samples as there are words; the analyser, which   *)
(* has 16 samples, is not filled by one stream.                            *)
ASSUME SampleAssumption ==
  /\ Triggers # {}
  /\ Trail \in Nat
  /\ Len(Words) + Trail < BufferSize
  /\ Enough = Len(Words)

(* A bitstream has the whole table of its machine, and the machine room for *)
(* it.                                                                     *)
ASSUME BitstreamAssumption ==
  /\ BufferBytes \in Nat /\ MemoryWords \in Nat
  /\ \A d \in 1 .. 2 :
       LET size == 4 * Shapes[d].entries * Shapes[d].words IN
       /\ Shapes[d].entries \in 1 .. MemoryWords
       /\ Shapes[d].words \in Nat \ {0} /\ 0 .. Shapes[d].words - 1 \subseteq Selects
       /\ Bitstreams[d] \in Seq(Nat)
       /\ size <= Len(Bitstreams[d]) /\ size <= BufferBytes

ASSUME CountAssumption == CountBase \in Nat \ {0} /\ MaxCount \in Nat

Machines == {0, 1}

VARIABLES
  step,      \* where main is
  sut,       \* the firmware of the SUT: "boot", "ready" or "done"
  ila,       \* the library of the analyser and the analyser
  trail,     \* samples that the monitor still takes
  taken,     \* history: the samples
  latest,    \* latest_sample_index of print_ila_samples
  rows,      \* the samples printed
  dump,      \* what ila_output_data puts out
  buffer,    \* buffer of main
  current,   \* the globals of the state machine library
  machines,  \* the two state machines, by minor number
  regs,      \* the registers between the Tester and the SUT
  gpio,      \* the outputs of each side, which are the inputs of the other
  seen,      \* the registers and the inputs that each side has read
  timer,     \* [running, counter, latch]
  count,     \* *count of iob_timer_get_count
  began      \* history: the counter when iob_timer_get_count was called

ilaVars   == <<ila, trail, taken, latest, rows, dump>>
pfsmVars  == <<buffer, current, machines>>
regVars   == <<regs, gpio, seen>>
timerVars == <<timer, count, began>>
vars == <<step, sut, streamVars, ilaVars, pfsmVars, regVars, timerVars>>

(* the steps of main, one after the other *)
Order == [init |-> 1, write |-> 2, pfsm |-> 3, monitor |-> 4, enable |-> 5,
          stream |-> 6, last |-> 7, wait |-> 8, disable |-> 9, print |-> 10,
          printing |-> 11, results |-> 12, receive |-> 13, receiving |-> 14,
          output |-> 15, timer |-> 16, sample |-> 17, high |-> 18, low |-> 19,
          gpio |-> 20, end |-> 21]

Steps == DOMAIN Order \cup {"failed"}

(* TRUE once main has finished step s *)
After(s) == step # "failed" /\ Order[step] > Order[s]

TypeOK ==
  /\ step \in Steps
  /\ sut \in {"boot", "ready", "done"}
  /\ \A r \in Registers \ {"misc"} : ila[r] \subseteq Triggers /\ ila.hw[r] \subseteq Triggers
  /\ ila.misc \subseteq 0 .. 5 /\ ila.hw.misc \subseteq 0 .. 5
  /\ {ila.hw.count, ila.hw.index, latest} \subseteq Index
  /\ trail \in 0 .. Trail
  /\ Len(buffer) = BufferBytes
  /\ current.minor \in Machines
  /\ DOMAIN machines = Machines
  /\ Len(out.fifo) <= FifoDepth /\ Len(in.fifo) <= FifoDepth
  /\ dma.left \in 0 .. BufferSize
  /\ timer.counter \in 0 .. MaxCount
  /\ {count, began} \subseteq 0 .. MaxCount

Init ==
  /\ step = "init"
  /\ sut = "boot"
  /\ StreamsInit
  /\ ila = PowerUp
  /\ trail = 0
  /\ taken = <<>>
  /\ latest = 0
  /\ rows = <<>>
  /\ dump = <<>>
  /\ buffer = [i \in 1 .. BufferBytes |-> 0]
  /\ current = [entries |-> 0, words |-> 0, minor |-> 0]
  /\ machines = [d \in Machines |-> Unprogrammed]
  /\ regs = [r \in 1 .. 5 |-> "none"]
  /\ gpio = [tester |-> "none", sut |-> "none"]
  /\ seen = [tester |-> <<>>, sut |-> <<>>]
  /\ timer = [running |-> FALSE, counter |-> 0, latch |-> 0]
  /\ count = 0
  /\ began = 0

Go(from, to) == step = from /\ step' = to

---------------------------------------------------------------------------------
(* The start of main *)

Setup ==
  /\ Go("init", "write")
  /\ ila' = ila_set_circular_buffer(ila_init(ila), TRUE)
  /\ UNCHANGED <<sut, streamVars, trail, taken, latest, rows, dump, pfsmVars, regVars,
                 timerVars>>

(* Mutant of RegisterFile: register 4 has the file of register 3. *)
RegisterFileOfThree(n) == IF n = 4 THEN 3 ELSE n

(* the file of a register; that of register 5 is the one of register 4     *)
RegisterFile(n) == IF n = 5 THEN 4 ELSE n

Write ==
  /\ Go("write", "pfsm")
  /\ regs' = [regs EXCEPT ![RegisterFile(1)] = "64", ![RegisterFile(2)] = "1024"]
  /\ gpio' = [gpio EXCEPT !.tester = "1234abcd"]
  /\ UNCHANGED <<sut, streamVars, ilaVars, pfsmVars, seen, timerVars>>

(* Mutant of FileRead: the file is read whole. *)
FileReadWhole(content) ==
  content \o SubSeq(buffer, Len(content) + 1, BufferBytes)

(* rz_request_file: at most read_size bytes go over the buffer, and what    *)
(* is behind them stays                                                    *)
FileRead(content) ==
  [i \in 1 .. BufferBytes |-> IF i <= Len(content) THEN content[i] ELSE buffer[i]]

(* pfsm_program and ila_monitor_program: state machine d is the one used *)
ProgramMachine(d) ==
  /\ current' = pfsm_init(current, Shapes[d + 1].entries, Shapes[d + 1].words, d)
  /\ buffer' = FileRead(Bitstreams[d + 1])
  /\ machines' = [machines EXCEPT ![current'.minor] = Programmed(@, current', buffer')]
  /\ UNCHANGED <<sut, streamVars, ilaVars, regVars, timerVars>>

pfsm_program == Go("pfsm", "monitor") /\ ProgramMachine(0)
ila_monitor_program == Go("monitor", "enable") /\ ProgramMachine(1)

Enable ==
  /\ Go("enable", "stream")
  /\ ila' = ila_enable_all_triggers(ila)
  /\ UNCHANGED <<sut, streamVars, trail, taken, latest, rows, dump, pfsmVars, regVars,
                 timerVars>>

---------------------------------------------------------------------------------
(* The stream and the analyser *)

StreamOut ==
  /\ \/ Go("stream", "last") /\ SendByDma
     \/ Go("last", "wait") /\ SendLast
  /\ UNCHANGED <<sut, ilaVars, pfsmVars, regVars, timerVars>>

(* while(ila_number_samples() < 4); *)
Wait ==
  /\ Go("wait", "disable")
  /\ ila_number_samples(ila) >= Enough
  /\ UNCHANGED <<sut, streamVars, ilaVars, pfsmVars, regVars, timerVars>>

Disable ==
  /\ Go("disable", "print")
  /\ ila' = ila_disable_all_triggers(ila)
  /\ UNCHANGED <<sut, streamVars, trail, taken, latest, rows, dump, pfsmVars, regVars,
                 timerVars>>

(* print_ila_samples: the whole buffer, from the latest index on, by DMA *)
PrintStart ==
  /\ Go("print", "printing")
  /\ latest' = ila_number_samples(ila)
  /\ ila' = ila_set_cursor(ila, latest')
  /\ StartTransfer(<<>>, BufferSize, 1, 1)
  /\ UNCHANGED <<sut, out, in, sutIn, received, trail, taken, rows, dump, pfsmVars,
                 regVars, timerVars>>

(* What the DMA has not written is whatever the memory held. *)
Copied(k) == IF k <= Len(dma.data) THEN dma.data[k] ELSE NoSample

(* the last "latest" samples are printed, and the mode is sent to the SUT *)
PrintRows ==
  /\ Go("printing", "results")
  /\ dma_transfer_ready
  /\ rows' = [i \in 1 .. latest |-> Copied(BufferSize - latest + i)]
  /\ UNCHANGED <<sut, streamVars, ila, trail, taken, latest, dump, pfsmVars, regVars,
                 timerVars>>

---------------------------------------------------------------------------------
(* The end of main, after the SUT has been exercised *)

Results ==
  /\ Go("results", "receive")
  /\ sut = "done"
  /\ seen' = [seen EXCEPT !.tester =
                <<regs[RegisterFile(3)], regs[RegisterFile(4)], gpio.sut>>]
  /\ UNCHANGED <<sut, streamVars, ilaVars, pfsmVars, regs, gpio, timerVars>>

StreamIn ==
  /\ \/ Go("receive", "receiving") /\ ReceiveByDma
     \/ Go("receiving", "output") /\ ReceiveDone
  /\ UNCHANGED <<sut, ilaVars, pfsmVars, regVars, timerVars>>

Output ==
  /\ Go("output", "timer")
  /\ LET n == ila_number_samples(ila) IN dump' = ila_output_data(ila, n, DumpEnd(n))
  /\ UNCHANGED <<sut, streamVars, ila, trail, taken, latest, rows, pfsmVars, regVars,
                 timerVars>>

(* iob_timer_init *)
TimerInit ==
  /\ Go("timer", "sample")
  /\ timer' = [timer EXCEPT !.counter = 0, !.running = TRUE]
  /\ UNCHANGED <<sut, streamVars, ilaVars, pfsmVars, regVars, count, began>>

(* what the data registers show: the value sampled *)
TimerData == timer.latch

(* Mutant of TimerSample: the counter is not sampled. *)
TimerNoSample ==
  /\ Go("sample", "high")
  /\ began' = timer.counter
  /\ UNCHANGED <<sut, streamVars, ilaVars, pfsmVars, regVars, timer, count>>

(* iob_timer_get_count: sample, then the high and the low word *)
TimerSample ==
  /\ Go("sample", "high")
  /\ timer' = [timer EXCEPT !.latch = timer.counter]
  /\ began' = timer.counter
  /\ UNCHANGED <<sut, streamVars, ilaVars, pfsmVars, regVars, count>>

TimerHigh ==
  /\ Go("high", "low")
  /\ count' = (TimerData \div CountBase) * CountBase
  /\ UNCHANGED <<sut, streamVars, ilaVars, pfsmVars, regVars, timer, began>>

TimerLow ==
  /\ Go("low", "gpio")
  /\ count' = count + (TimerData % CountBase)
  /\ UNCHANGED <<sut, streamVars, ilaVars, pfsmVars, regVars, timer, began>>

(* iob_gpio_test *)
GpioTest ==
  /\ Go("gpio", "end")
  /\ gpio' = [gpio EXCEPT !.tester = "0"]
  /\ UNCHANGED <<sut, streamVars, ilaVars, pfsmVars, regs, seen, timerVars>>

(* A file of the timer or of the GPIO cannot be opened or written: main     *)
(* returns without test.log.  A count that cannot be read is only printed. *)
TestFails ==
  /\ \/ Go("timer", "failed")
     \/ Go("gpio", "failed")
  /\ UNCHANGED <<sut, streamVars, ilaVars, pfsmVars, regVars, timerVars>>

---------------------------------------------------------------------------------
(* The SUT *)

SutStart ==
  /\ sut = "boot"
  /\ After("enable")
  /\ sut' = "ready"
  /\ SutEnable
  /\ UNCHANGED <<step, ilaVars, pfsmVars, regVars, timerVars>>

(* after the mode: registers, GPIO and the loopback *)
SutRun ==
  /\ sut = "ready"
  /\ step = "results"
  /\ sut' = "done"
  /\ seen' = [seen EXCEPT !.sut = <<regs[1], regs[2], gpio.tester>>]
  /\ regs' = [regs EXCEPT ![3] = "128", ![4] = "2048", ![5] = "address"]
  /\ gpio' = [gpio EXCEPT !.sut = "abcd1234"]
  /\ Loopback
  /\ UNCHANGED <<step, ilaVars, pfsmVars, timerVars>>

---------------------------------------------------------------------------------
(* The hardware *)

Mark == 99

Sample(v) ==
  /\ ila' = [ila EXCEPT !.hw = Sampled(ila.hw, v)]
  /\ taken' = IF ila' = ila THEN taken ELSE Append(taken, v)

(* A word crosses to the SUT and is sampled; the last one, which has TLAST, *)
(* starts the trail of the monitor.                                        *)
CrossSampled ==
  /\ Cross
  /\ Sample(Head(out.fifo))
  /\ trail' = IF sutIn'.nwords = Len(Words) THEN Trail ELSE trail
  /\ UNCHANGED <<step, sut, latest, rows, dump, pfsmVars, regVars, timerVars>>

TrailSampled ==
  /\ trail > 0
  /\ trail' = trail - 1
  /\ Sample(Mark)
  /\ UNCHANGED <<step, sut, streamVars, latest, rows, dump, pfsmVars, regVars, timerVars>>

MoveStream ==
  /\ MoveOut \/ MoveIn
  /\ UNCHANGED <<step, sut, ilaVars, pfsmVars, regVars, timerVars>>

(* The analyser is the second input of the DMA; its cursor goes round. *)
MoveSample ==
  /\ dma.left > 0 /\ dma.direction = 1 /\ dma.interface = 1
  /\ dma' = [dma EXCEPT !.left = @ - 1,
                        !.data = Append(@, ila.hw.samples[ila.hw.index])]
  /\ ila' = [ila EXCEPT !.hw.index = (@ + 1) % BufferSize]
  /\ UNCHANGED <<step, sut, out, in, sutIn, received, trail, taken, latest, rows, dump,
                 pfsmVars, regVars, timerVars>>

Tick ==
  /\ timer.running
  /\ timer.counter < MaxCount
  /\ timer' = [timer EXCEPT !.counter = @ + 1]
  /\ UNCHANGED <<step, sut, streamVars, ilaVars, pfsmVars, regVars, count, began>>

Ended == step \in {"end", "failed"} /\ UNCHANGED vars

Main ==
  \/ Setup \/ Write \/ pfsm_program \/ ila_monitor_program \/ Enable
  \/ StreamOut \/ Wait \/ Disable \/ PrintStart \/ PrintRows
  \/ Results \/ StreamIn \/ Output
  \/ TimerInit \/ TimerSample \/ TimerHigh \/ TimerLow \/ GpioTest \/ TestFails

Sut == SutStart \/ SutRun

Hardware == CrossSampled \/ TrailSampled \/ MoveStream \/ MoveSample

Next == Main \/ Sut \/ Hardware \/ Tick \/ Ended

Fairness == WF_vars(Main) /\ WF_vars(Sut) /\ WF_vars(Hardware)

Spec == Init /\ [][Next]_vars /\ Fairness

---------------------------------------------------------------------------------
(* Properties *)

(* Each state machine has its own bitstream, whole, and is in state 0,      *)
(* although both are programmed from the same buffer through the same      *)
(* globals and only the minor number tells them apart.                     *)
BitstreamsInPlace ==
  After("monitor") =>
    \A d \in Machines :
      LET s == Shapes[d + 1] IN
      /\ machines[d].state = "reset"
      /\ \A e \in 0 .. s.entries - 1, w \in 0 .. s.words - 1 :
           machines[d].lut[<<e, w>>] = Word(Bitstreams[d + 1], 4 * (e * s.words + w))

(* The Tester gets back the words it has sent, in their order, although    *)
(* the last one takes another way than those before, and the SUT may have  *)
(* enabled its stream late.                                                *)
WordsComeBack == After("receiving") => received = Words

(* The samples printed are all those taken, in their order: the words of   *)
(* the stream and as much of the trail as came before the triggers were    *)
(* disabled.                                                               *)
RowsAreTheSamples ==
  After("printing") =>
    /\ rows = taken
    /\ Len(rows) >= Len(Words) /\ SubSeq(rows, 1, Len(Words)) = Words

(* ila_data.bin has every sample of the buffer once, the oldest first.     *)
DumpIsTheBuffer ==
  After("output") =>
    dump = [i \in 1 .. BufferSize - Len(taken) |-> NoSample] \o taken

(* Each side reads what the other has written to the registers and to the  *)
(* GPIO before.                                                            *)
ReadsAreTheWrites ==
  /\ sut = "done" => seen.sut = <<"64", "1024", "1234abcd">>
  /\ After("results") => seen.tester = <<"128", "2048", "abcd1234">>

(* The count printed was the value of the running counter at some moment   *)
(* of the call, although it is read in two halves.                         *)
CountIsCoherent == After("low") => began <= count /\ count <= timer.counter

(* The program comes to its end: the wait for the samples ends, and so do  *)
(* the three transfers.                                                    *)
Completes == <>(step \in {"end", "failed"})
=================================================================================
