----------------------------- MODULE Devices_proofs -----------------------------
(***************************************************************************)
(* What holds in every state of the verification under Linux, for every    *)
(* size of the buffers, every list of words and every pair of state        *)
(* machines that the assumptions of Devices admit.  The invariant has a    *)
(* part for each peripheral and one for the order of the two programs.     *)
(***************************************************************************)
EXTENDS Devices, SequenceTheorems, TLAPS

(* main before the triggers are enabled, and after it has read the results *)
Early == {"init", "write", "pfsm", "monitor", "enable"}
Late == {"receive", "receiving", "output", "timer", "sample", "high", "low", "gpio",
         "end", "failed"}

(* The SUT leaves its boot loader after the triggers were enabled, is done  *)
(* when it has got the mode, and main reads the results after that.        *)
ControlInv ==
  /\ step \in Steps
  /\ sut \in {"boot", "ready", "done"}
  /\ step \in Early => sut = "boot"
  /\ sut = "done" => step \in Late \cup {"results"}
  /\ step \in Late => sut = "done"

(* The registers and the outputs hold what was last written to them. *)
RegInv ==
  /\ DOMAIN regs = 1 .. 5
  /\ gpio = [tester |-> gpio.tester, sut |-> gpio.sut]
  /\ seen = [tester |-> seen.tester, sut |-> seen.sut]
  /\ step \notin {"init", "write"} => regs[1] = "64" /\ regs[2] = "1024"
  /\ step \notin {"init", "write", "end", "failed"} => gpio.tester = "1234abcd"
  /\ sut = "done" =>
       /\ regs[3] = "128" /\ regs[4] = "2048" /\ gpio.sut = "abcd1234"
       /\ seen.sut = <<"64", "1024", "1234abcd">>
  /\ step \in Late => seen.tester = <<"128", "2048", "abcd1234">>

(* The table of a machine, and the words of a bitstream at their places. *)
Table == (0 .. MemoryWords - 1) \X Selects

InPlace(d) ==
  LET s == Shapes[d + 1] IN
  /\ machines[d].state = "reset"
  /\ \A e \in 0 .. s.entries - 1, w \in 0 .. s.words - 1 :
       machines[d].lut[<<e, w>>] = Word(Bitstreams[d + 1], 4 * (e * s.words + w))

(* A machine that has been programmed holds its bitstream. *)
PfsmInv ==
  /\ buffer \in [1 .. BufferBytes -> Nat]
  /\ current.minor \in Machines
  /\ DOMAIN machines = Machines
  /\ \A d \in Machines :
       /\ machines[d] = [lut |-> machines[d].lut, state |-> machines[d].state]
       /\ DOMAIN machines[d].lut = Table
  /\ step \notin {"init", "write", "pfsm"} => InPlace(0)
  /\ step \notin {"init", "write", "pfsm", "monitor"} => InPlace(1)

(* The count is what the timer has sampled when iob_timer_get_count began. *)
TimerInv ==
  /\ timer \in [running : BOOLEAN, counter : 0 .. MaxCount, latch : 0 .. MaxCount]
  /\ count \in 0 .. MaxCount /\ began \in 0 .. MaxCount
  /\ step \in {"high", "low"} => timer.latch = began /\ began <= timer.counter
  /\ step = "low" => count = (began \div CountBase) * CountBase
  /\ step \in {"gpio", "end"} => count = began /\ began <= timer.counter

(* main while the triggers are enabled *)
Watching == {"stream", "last", "wait", "disable"}

(* s has the words behind the first at ones, in their order. *)
Part(s, at) ==
  /\ s \in Seq(Nat) /\ at \in Nat /\ at + Len(s) <= Len(Words)
  /\ \A i \in 1 .. Len(s) : s[i] = Words[at + i]

OutType == [fifo : Seq(Nat), mode : {"swreg", "dma"}]
InType == [fifo : Seq(Nat), mode : {"swreg", "dma"}, nwords : Nat]
SutInType == [fifo : Seq(Nat), enabled : BOOLEAN, nwords : 0 .. Len(Words)]
DmaType == [direction : {0, 1}, interface : {0, 1}, left : 0 .. BufferSize,
            data : Seq(Nat)]

(* The words on their way to the SUT: the DMA, the FIFO of the Tester and   *)
(* that of the SUT hold what is left of them, in their order.              *)
SendInv ==
  /\ out \in OutType /\ sutIn \in SutInType
  /\ sut = "boot" <=> ~sutIn.enabled
  /\ Part(out.fifo, sutIn.nwords)
  /\ step \in Early \cup {"stream"} => sutIn.nwords = 0 /\ out.fifo = <<>>
  /\ step = "last" =>
       /\ dma.left # 0 => dma.direction = 0
       /\ Len(dma.data) = dma.left
       /\ sutIn.nwords + Len(out.fifo) + dma.left = Len(Words) - 1
       /\ Part(dma.data, sutIn.nwords + Len(out.fifo))
  /\ step \notin Early \cup {"stream", "last"} =>
       sutIn.nwords + Len(out.fifo) = Len(Words)
  /\ sut # "done" => Part(sutIn.fifo, 0) /\ Len(sutIn.fifo) = sutIn.nwords

(* The words on their way back: the SUT has put them into the FIFO, and the *)
(* DMA takes them out.                                                     *)
ReturnInv ==
  /\ in \in InType /\ dma \in DmaType /\ received \in Seq(Nat)
  /\ dma.left # 0 => step \in {"last", "printing", "receiving"}
  /\ step = "printing" => dma.direction = 1 /\ dma.interface = 1
  /\ Len(in.fifo) <= Len(Words)
  /\ sut # "done" => in.fifo = <<>>
  /\ sut = "done" /\ step \in {"results", "receive"} =>
       in.fifo = Words /\ in.nwords = Len(Words)
  /\ step = "receiving" =>
       /\ dma.direction = 1 /\ dma.interface = 0
       /\ dma.left = Len(in.fifo) /\ Len(dma.data) + dma.left = Len(Words)
       /\ Part(dma.data, 0) /\ Part(in.fifo, Len(dma.data))
  /\ step \in Late \ {"receive", "receiving"} => received = Words

(* The library of the analyser with the analyser. *)
HwType ==
  [type : SUBSET Triggers, negate : SUBSET Triggers, mask : SUBSET Triggers,
   misc : SUBSET (0 .. 5), samples : [Index -> Nat], count : Index, index : Index]
IlaType ==
  [type : SUBSET Triggers, negate : SUBSET Triggers, mask : SUBSET Triggers,
   misc : SUBSET (0 .. 5), hw : HwType]

(* The analyser with the bits in misc set, no trigger enabled and nothing   *)
(* sampled.                                                                *)
NoSamples == [i \in Index |-> NoSample]
QuietHw(misc) ==
  [type |-> {}, negate |-> {}, mask |-> {}, misc |-> misc, samples |-> NoSamples,
   count |-> 0, index |-> 0]
Quiet(misc) ==
  [type |-> {}, negate |-> {}, mask |-> {}, misc |-> misc, hw |-> QuietHw(misc)]

(* The analyser has the words that have crossed, then samples of the trail, *)
(* and is never full; all words have crossed when main goes on.            *)
Sampling ==
  LET t == Len(taken) IN
  /\ ila \in IlaType
  /\ taken \in Seq(Nat)
  /\ ila.hw.count = t
  /\ \A i \in Index : ila.hw.samples[i] = IF i < t THEN taken[i + 1] ELSE NoSample

Counting ==
  LET n == sutIn.nwords
      t == Len(taken) IN
  /\ trail \in 0 .. Trail
  /\ n < Len(Words) => t = n /\ trail = 0
  /\ n = Len(Words) => n <= t /\ t + trail <= n + Trail
  /\ \A i \in 1 .. n : taken[i] = Words[i]

SampleInv ==
  /\ Sampling
  /\ Counting
  /\ step = "init" => ila = Quiet({})
  /\ step # "init" => ila.hw.misc = {CIRCULAR}
  /\ ila.hw.mask = IF step \in Watching THEN Triggers ELSE {}
  /\ step \in Early => taken = <<>>
  /\ step \notin Early \cup {"stream", "last", "wait"} => sutIn.nwords = Len(Words)

(* The place in the buffer of the analyser that is k places after start. *)
Around(start, k) == IF start + k < BufferSize THEN start + k ELSE start + k - BufferSize

(* What is printed and put out are the samples. *)
PrintInv ==
  /\ latest \in Index
  /\ step = "printing" =>
       /\ Len(dma.data) + dma.left = BufferSize
       /\ latest = Len(taken)
       /\ dma.left # 0 => ila.hw.index = Around(latest, Len(dma.data))
       /\ \A k \in 1 .. Len(dma.data) :
            dma.data[k] = ila.hw.samples[Around(latest, k - 1)]
  /\ step \in Late \cup {"results"} => rows = taken
  /\ step \in Late \ {"receive", "receiving", "output"} =>
       dump = [i \in 1 .. BufferSize - Len(taken) |-> NoSample] \o taken

---------------------------------------------------------------------------------
(* Which steps come after a step. *)
LEMMA StepsAfter ==
  ASSUME step \in Steps
  PROVE  /\ Steps = Early \cup Late \cup {"stream", "last", "wait", "disable", "print",
                                          "printing", "results"}
         /\ After("monitor") <=> step \notin {"init", "write", "pfsm", "monitor", "failed"}
         /\ After("enable") <=> step \notin Early \cup {"failed"}
         /\ After("printing") <=> step \in (Late \cup {"results"}) \ {"failed"}
         /\ After("results") <=> step \in Late \ {"failed"}
         /\ After("receiving") <=> step \in Late \ {"receive", "receiving", "failed"}
         /\ After("output") <=> step \in Late \ {"receive", "receiving", "output", "failed"}
         /\ After("low") <=> step \in {"gpio", "end"}
BY DEF After, Steps, Order, Early, Late

(* The two programs keep their order. *)
LEMMA ControlStep ==
  ASSUME ControlInv, [Next]_vars
  PROVE  ControlInv'
<1>. USE DEF ControlInv
<1>1. CASE UNCHANGED vars
  BY <1>1 DEF vars
<1>2. CASE Main
  BY <1>2, StepsAfter DEF Main, Go, Early, Late, Setup, Write, pfsm_program,
     ila_monitor_program, ProgramMachine, Enable, StreamOut, Wait, Disable, PrintStart,
     PrintRows, Results, StreamIn, Output, TimerInit, TimerSample, TimerHigh, TimerLow,
     GpioTest, TestFails
<1>3. CASE Sut
  BY <1>3, StepsAfter DEF Sut, SutStart, SutRun, Early, Late
<1>4. CASE Hardware \/ Tick
  BY <1>4 DEF Hardware, CrossSampled, TrailSampled, MoveStream, MoveSample, Tick
<1>. QED
  BY <1>1, <1>2, <1>3, <1>4 DEF Next, Ended

(* The registers keep what was written. *)
LEMMA RegStep ==
  ASSUME ControlInv, RegInv, [Next]_vars
  PROVE  RegInv'
<1>. USE DEF RegInv, regVars
<1>1. CASE UNCHANGED vars
  BY <1>1 DEF vars
<1>2. CASE Write
  BY <1>2 DEF Write, Go, RegisterFile, ControlInv, Early, Late
<1>3. CASE Results
  BY <1>3 DEF Results, Go, RegisterFile, Late
<1>4. CASE GpioTest
  BY <1>4 DEF GpioTest, Go, Late
<1>5. CASE SutRun
  BY <1>5 DEF SutRun, Late
<1>6. CASE Setup \/ pfsm_program \/ ila_monitor_program \/ Enable \/ StreamOut \/ Wait
           \/ Disable \/ PrintStart \/ PrintRows
  BY <1>6 DEF Go, Late, Setup, pfsm_program, ila_monitor_program, ProgramMachine, Enable,
     StreamOut, Wait, Disable, PrintStart, PrintRows
<1>7. CASE StreamIn \/ Output \/ TimerInit \/ TimerSample \/ TimerHigh \/ TimerLow
           \/ TestFails
  BY <1>7 DEF Go, Late, StreamIn, Output, TimerInit, TimerSample, TimerHigh, TimerLow,
     TestFails
<1>8. CASE SutStart \/ Hardware \/ Tick
  BY <1>8 DEF SutStart, Hardware, CrossSampled, TrailSampled, MoveStream, MoveSample, Tick
<1>. QED
  BY <1>1, <1>2, <1>3, <1>4, <1>5, <1>6, <1>7, <1>8 DEF Next, Main, Sut, Ended

(* The two halves of the count come from one sample. *)
LEMMA TimerStep ==
  ASSUME ControlInv, TimerInv, [Next]_vars
  PROVE  TimerInv'
<1>. USE CountAssumption DEF TimerInv, timerVars
<1>1. CASE UNCHANGED vars
  BY <1>1 DEF vars
<1>2. CASE TimerInit
  <2>1. timer' = [running |-> TRUE, counter |-> 0, latch |-> timer.latch]
    BY <1>2 DEF TimerInit
  <2>2. step' = "sample" /\ UNCHANGED <<count, began>>
    BY <1>2 DEF TimerInit, Go
  <2>. QED
    BY <2>1, <2>2
<1>3. CASE TimerSample
  BY <1>3 DEF TimerSample, Go
<1>4. CASE TimerHigh
  <2>1. \A z \in Nat : (z \div CountBase) * CountBase \in 0 .. z
    OBVIOUS
  <2>. QED
    BY <1>4, <2>1 DEF TimerHigh, TimerData, Go
<1>5. CASE TimerLow
  <2>1. \A z \in Nat : (z \div CountBase) * CountBase + (z % CountBase) = z
    OBVIOUS
  <2>. QED
    BY <1>5, <2>1 DEF TimerLow, TimerData, Go
<1>6. CASE Setup \/ Write \/ pfsm_program \/ ila_monitor_program \/ Enable \/ StreamOut
           \/ Wait \/ Disable \/ PrintStart \/ PrintRows
  BY <1>6 DEF Go, Setup, Write, pfsm_program, ila_monitor_program, ProgramMachine, Enable,
     StreamOut, Wait, Disable, PrintStart, PrintRows
<1>7. CASE Results \/ StreamIn \/ Output \/ GpioTest \/ TestFails
  BY <1>7 DEF Go, Results, StreamIn, Output, GpioTest, TestFails
<1>8. CASE Sut \/ Hardware
  BY <1>8 DEF Sut, SutStart, SutRun, Hardware, CrossSampled, TrailSampled, MoveStream,
     MoveSample
<1>9. CASE Tick
  BY <1>9 DEF Tick
<1>. QED
  BY <1>1, <1>2, <1>3, <1>4, <1>5, <1>6, <1>7, <1>8, <1>9 DEF Next, Main, Ended


---------------------------------------------------------------------------------
(* The state machines *)

(* What is assumed of the machine with a minor number. *)
LEMMA ShapesFit ==
  ASSUME NEW d \in Machines
  PROVE  LET n == Shapes[d + 1].words
             m == Shapes[d + 1].entries IN
         /\ BufferBytes \in Nat /\ MemoryWords \in Nat
         /\ m \in 1 .. MemoryWords
         /\ n \in Nat \ {0} /\ 0 .. n - 1 \subseteq Selects
         /\ Bitstreams[d + 1] \in Seq(Nat) /\ Len(Bitstreams[d + 1]) \in Nat
         /\ 4 * m * n <= Len(Bitstreams[d + 1]) /\ 4 * m * n <= BufferBytes
<1>1. d + 1 \in 1 .. 2
  BY DEF Machines
<1>2. Bitstreams[d + 1] \in Seq(Nat)
  BY <1>1, BitstreamAssumption, Zenon
<1>3. Len(Bitstreams[d + 1]) \in Nat
  BY <1>2
<1>. QED
  BY <1>1, <1>3, BitstreamAssumption, Zenon

(* The words of a table lie within the bitstream and within the buffer. *)
LEMMA WordsInTheFile ==
  ASSUME NEW d \in Machines, NEW e \in 0 .. Shapes[d + 1].entries - 1,
         NEW w \in 0 .. Shapes[d + 1].words - 1
  PROVE  LET at == 4 * (e * Shapes[d + 1].words + w) IN
         /\ at \in Nat
         /\ at + 4 <= Len(Bitstreams[d + 1])
         /\ at + 4 <= BufferBytes
<1>. DEFINE n == Shapes[d + 1].words
            m == Shapes[d + 1].entries
<1>1. /\ n \in Nat /\ m \in Nat /\ BufferBytes \in Nat /\ Len(Bitstreams[d + 1]) \in Nat
      /\ 4 * m * n <= Len(Bitstreams[d + 1]) /\ 4 * m * n <= BufferBytes
  BY ShapesFit
<1>. HIDE DEF n, m
<1>2. e \in Nat /\ w \in Nat /\ e + 1 <= m /\ w + 1 <= n
  BY <1>1, SMTT(30) DEF m, n
<1>3. (e + 1) * n <= m * n
  BY <1>1, <1>2
<1>4. (e + 1) * n = e * n + n /\ e * n \in Nat /\ m * n \in Nat /\ 4 * m * n = 4 * (m * n)
  BY <1>1, <1>2
<1>5. e * n + w + 1 <= m * n
  BY <1>1, <1>2, <1>3, <1>4
<1>6. 4 * (e * n + w) \in Nat /\ 4 * (e * n + w) + 4 <= 4 * (m * n)
  BY <1>1, <1>2, <1>4, <1>5
<1>7. LET at == 4 * (e * n + w) IN
      at \in Nat /\ at + 4 <= Len(Bitstreams[d + 1]) /\ at + 4 <= BufferBytes
  BY <1>1, <1>4, <1>6
<1>. QED
  BY <1>7 DEF n

(* Four bytes that lie in the file are read from the buffer it was read     *)
(* into.                                                                   *)
LEMMA WordOfTheFile ==
  ASSUME buffer \in [1 .. BufferBytes -> Nat], BufferBytes \in Nat,
         NEW content \in Seq(Nat), NEW at \in Nat,
         at + 4 <= Len(content), at + 4 <= BufferBytes
  PROVE  Word(FileRead(content), at) = Word(content, at)
<1>. DEFINE b == FileRead(content)
<1>1. b \in [1 .. BufferBytes -> Nat]
  BY LenProperties, ElementOfSeq DEF FileRead
<1>2. b \in Seq(Nat) /\ Len(b) = BufferBytes
  BY <1>1
<1>3. \A i \in at + 1 .. at + 4 : b[i] = content[i]
  BY <1>1 DEF FileRead
<1>. HIDE DEF b
<1>4. /\ SubSeq(b, at + 1, at + 4) = [i \in 1 .. 4 |-> b[at + i]]
      /\ SubSeq(content, at + 1, at + 4) = [i \in 1 .. 4 |-> content[at + i]]
  <2>1. ASSUME NEW z \in Seq(Nat), at + 4 <= Len(z)
        PROVE  SubSeq(z, at + 1, at + 4) = [i \in 1 .. 4 |-> z[at + i]]
    <3>1. SubSeq(z, at + 1, at + 4) = [i \in 1 .. (at + 4) - (at + 1) + 1 |-> z[(at + 1) + i - 1]]
      BY <2>1
    <3>2. (at + 4) - (at + 1) + 1 = 4 /\ \A i \in 1 .. 4 : (at + 1) + i - 1 = at + i
      OBVIOUS
    <3>. QED
      BY <3>1, <3>2
  <2>. QED
    BY <1>2, <2>1
<1>5. \A i \in 1 .. 4 : b[at + i] = content[at + i]
  BY <1>3
<1>. QED
  BY <1>4, <1>5 DEF b, Word

(* A machine holds its bitstream when it has been programmed, and the other *)
(* one keeps its own.                                                      *)
LEMMA ProgramStep ==
  ASSUME PfsmInv, NEW d \in Machines, ProgramMachine(d)
  PROVE  /\ buffer' \in [1 .. BufferBytes -> Nat]
         /\ current'.minor = d
         /\ DOMAIN machines' = Machines
         /\ \A c \in Machines :
              /\ machines'[c] = [lut |-> machines'[c].lut, state |-> machines'[c].state]
              /\ DOMAIN machines'[c].lut = Table
         /\ \A c \in Machines \ {d} : machines'[c] = machines[c]
         /\ InPlace(d)'
<1>. DEFINE s == Shapes[d + 1]
            content == Bitstreams[d + 1]
<1>1. content \in Seq(Nat) /\ BufferBytes \in Nat
  BY ShapesFit
<1>2. buffer' = FileRead(content) /\ buffer' \in [1 .. BufferBytes -> Nat]
  BY <1>1, ElementOfSeq, LenProperties DEF ProgramMachine, FileRead, PfsmInv
<1>3. current' = [entries |-> s.entries, words |-> s.words, minor |-> d]
  BY DEF ProgramMachine, pfsm_init
<1>4. machines' = [machines EXCEPT ![d] = Programmed(machines[d], current', buffer')]
  BY <1>3 DEF ProgramMachine
<1>5. /\ DOMAIN machines' = Machines
      /\ machines'[d] = Programmed(machines[d], current', buffer')
      /\ \A c \in Machines \ {d} : machines'[c] = machines[c]
  BY <1>4 DEF PfsmInv
<1>6. /\ machines'[d].state = "reset"
      /\ machines'[d] = [lut |-> machines'[d].lut, state |-> machines'[d].state]
      /\ DOMAIN machines'[d].lut = Table
  BY <1>5 DEF Programmed, PfsmInv
<1>7. ASSUME NEW e \in 0 .. s.entries - 1, NEW w \in 0 .. s.words - 1
      PROVE  machines'[d].lut[<<e, w>>] = Word(content, 4 * (e * s.words + w))
  <2>1. <<e, w>> \in Table /\ e < s.entries /\ w < s.words
    <3>. DEFINE n == s.words
                m == s.entries
    <3>1. m \in 1 .. MemoryWords /\ MemoryWords \in Nat /\ n \in Nat \ {0} /\ 0 .. n - 1 \subseteq Selects
      BY ShapesFit
    <3>. HIDE DEF n, m
    <3>2. e \in 0 .. m - 1 /\ w \in 0 .. n - 1
      BY DEF n, m
    <3>3. e \in 0 .. MemoryWords - 1 /\ e < m /\ w \in Selects /\ w < n
      BY <3>1, <3>2
    <3>. QED
      BY <3>3 DEF Table, n, m
  <2>2. machines'[d].lut[<<e, w>>] = Word(buffer', 4 * (e * s.words + w))
    BY <1>3, <1>5, <2>1 DEF Programmed, PfsmInv
  <2>3. LET at == 4 * (e * s.words + w) IN
        at \in Nat /\ at + 4 <= Len(content) /\ at + 4 <= BufferBytes
    BY WordsInTheFile
  <2>4. Word(buffer', 4 * (e * s.words + w)) = Word(content, 4 * (e * s.words + w))
    BY <1>1, <1>2, <2>3, WordOfTheFile DEF PfsmInv
  <2>. QED
    BY <2>2, <2>4
<1>. QED
  BY <1>2, <1>3, <1>5, <1>6, <1>7 DEF InPlace, PfsmInv

(* The machines keep their bitstreams. *)
LEMMA PfsmStep ==
  ASSUME PfsmInv, [Next]_vars
  PROVE  PfsmInv'
<1>1. CASE pfsm_program
  <2>1. ProgramMachine(0) /\ step' = "monitor"
    BY <1>1 DEF pfsm_program, Go
  <2>. QED
    BY <2>1, ProgramStep DEF PfsmInv, Machines
<1>2. CASE ila_monitor_program
  <2>1. ProgramMachine(1) /\ step = "monitor" /\ step' = "enable"
    BY <1>2 DEF ila_monitor_program, Go
  <2>2. InPlace(0)
    BY <2>1 DEF PfsmInv
  <2>3. InPlace(0)'
    BY <2>1, <2>2, ProgramStep DEF InPlace, Machines
  <2>. QED
    BY <2>1, <2>3, ProgramStep DEF PfsmInv, Machines
<1>3. ASSUME UNCHANGED pfsmVars,
             \/ step' = step
             \/ step' \in {"write", "pfsm"}
             \/ step \notin {"init", "write", "pfsm", "monitor"}
      PROVE  PfsmInv'
  BY <1>3 DEF PfsmInv, pfsmVars, InPlace
<1>4. CASE UNCHANGED vars
  BY <1>3, <1>4 DEF vars
<1>5. CASE Setup \/ Write \/ Enable \/ StreamOut \/ Wait \/ Disable \/ PrintStart
           \/ PrintRows
  BY <1>3, <1>5 DEF Go, Setup, Write, Enable, StreamOut, Wait, Disable, PrintStart,
     PrintRows
<1>6. CASE Results \/ StreamIn \/ Output \/ TimerInit \/ TimerSample \/ TimerHigh
           \/ TimerLow \/ GpioTest \/ TestFails
  BY <1>3, <1>6 DEF Go, Results, StreamIn, Output, TimerInit, TimerSample, TimerHigh,
     TimerLow, GpioTest, TestFails
<1>7. CASE Sut \/ Hardware \/ Tick
  BY <1>3, <1>7 DEF Sut, SutStart, SutRun, Hardware, CrossSampled, TrailSampled,
     MoveStream, MoveSample, Tick
<1>. QED
  BY <1>1, <1>2, <1>4, <1>5, <1>6, <1>7 DEF Next, Main, Ended


---------------------------------------------------------------------------------
(* The streams *)

(* The number of words fits everywhere. *)
LEMMA WordsFit ==
  /\ Words \in Seq(Nat) /\ Len(Words) \in Nat \ {0}
  /\ FifoDepth \in Nat /\ Len(Words) <= FifoDepth
  /\ BufferSize \in Nat \ {0} /\ Trail \in Nat /\ Len(Words) + Trail < BufferSize
BY FifoAssumption, SampleAssumption, BufferAssumption, EmptySeq, LenProperties

(* A part without its first word is a part. *)
LEMMA PartTail ==
  ASSUME NEW s, NEW at, Part(s, at), s # <<>>
  PROVE  /\ Head(s) \in Nat /\ Head(s) = Words[at + 1]
         /\ Tail(s) \in Seq(Nat) /\ Len(Tail(s)) = Len(s) - 1 /\ Len(s) \in Nat \ {0}
         /\ Part(Tail(s), at + 1) /\ at + Len(s) <= Len(Words)
<1>1. s \in Seq(Nat) /\ at \in Nat /\ Len(Words) \in Nat
  BY WordsFit DEF Part
<1>2. /\ Head(s) = s[1] /\ Tail(s) \in Seq(Nat) /\ Len(Tail(s)) = Len(s) - 1
      /\ \A i \in 1 .. Len(Tail(s)) : Tail(s)[i] = s[i + 1]
  BY <1>1, HeadTailProperties
<1>3. Len(s) \in Nat \ {0} /\ s[1] \in Nat
  BY <1>1, EmptySeq, LenProperties, ElementOfSeq
<1>4. \A i \in 1 .. Len(s) - 1 : s[i + 1] = Words[(at + 1) + i]
  <2>1. \A i \in 1 .. Len(s) - 1 : i + 1 \in 1 .. Len(s) /\ at + (i + 1) = (at + 1) + i
    BY <1>1, <1>3
  <2>. QED
    BY <2>1 DEF Part
<1>. QED
  BY <1>1, <1>2, <1>3, <1>4 DEF Part

(* A part with the word that follows it is a part. *)
LEMMA PartAppend ==
  ASSUME NEW s, NEW at, Part(s, at), at + Len(s) < Len(Words)
  PROVE  LET t == Append(s, Words[at + Len(s) + 1]) IN
         t \in Seq(Nat) /\ Len(t) = Len(s) + 1 /\ Part(t, at)
<1>. DEFINE x == Words[at + Len(s) + 1]
<1>1. s \in Seq(Nat) /\ at \in Nat /\ Len(Words) \in Nat /\ Len(s) \in Nat
  BY WordsFit DEF Part
<1>2. x \in Nat
  BY <1>1, WordsFit, ElementOfSeq
<1>3. /\ Append(s, x) \in Seq(Nat) /\ Len(Append(s, x)) = Len(s) + 1
      /\ \A i \in 1 .. Len(s) : Append(s, x)[i] = s[i]
      /\ Append(s, x)[Len(s) + 1] = x
  BY <1>1, <1>2, AppendProperties
<1>4. at + Len(s) + 1 = at + (Len(s) + 1)
  BY <1>1
<1>5. \A i \in 1 .. Len(s) + 1 : Append(s, x)[i] = Words[at + i]
  <2>1. \A i \in 1 .. Len(s) + 1 : i \in 1 .. Len(s) \/ i = Len(s) + 1
    BY <1>1
  <2>. QED
    BY <1>3, <1>4, <2>1 DEF Part
<1>. HIDE DEF x
<1>6. Append(s, x) \in Seq(Nat) /\ Len(Append(s, x)) = Len(s) + 1 /\ Part(Append(s, x), at)
  BY <1>1, <1>3, <1>5 DEF Part
<1>. QED
  BY <1>6 DEF x

(* The part that has all words is the words; the empty part, and the first  *)
(* words, are parts.                                                       *)
LEMMA PartWhole ==
  /\ \A s : Part(s, 0) /\ Len(s) = Len(Words) => s = Words
  /\ Part(Words, 0)
  /\ \A at \in 0 .. Len(Words) : Part(<<>>, at)
  /\ \A k \in 0 .. Len(Words) :
       LET t == SubSeq(Words, 1, k) IN
       t \in Seq(Nat) /\ Len(t) = k /\ Part(t, 0)
<1>1. ASSUME NEW s, Part(s, 0), Len(s) = Len(Words)
      PROVE  s = Words
  <2>1. s \in Seq(Nat) /\ Words \in Seq(Nat) /\ \A i \in 1 .. Len(s) : s[i] = Words[i]
    BY <1>1, WordsFit DEF Part
  <2>. QED
    BY <1>1, <2>1, SeqEqual
<1>2. Part(Words, 0)
  BY WordsFit DEF Part
<1>3. ASSUME NEW at \in 0 .. Len(Words)
      PROVE  Part(<<>>, at)
  <2>1. <<>> \in Seq(Nat) /\ Len(<<>>) = 0
    OBVIOUS
  <2>. QED
    BY <2>1, WordsFit DEF Part
<1>4. ASSUME NEW k \in 0 .. Len(Words)
      PROVE  LET t == SubSeq(Words, 1, k) IN
             t \in Seq(Nat) /\ Len(t) = k /\ Part(t, 0)
  <2>1. 1 \in 1 .. Len(Words) + 1 /\ k \in 1 - 1 .. Len(Words) /\ k \in Nat
    BY WordsFit
  <2>2. /\ SubSeq(Words, 1, k) \in Seq(Nat)
        /\ Len(SubSeq(Words, 1, k)) = IF 1 <= k THEN k - 1 + 1 ELSE 0
        /\ \A i \in 1 .. k - 1 + 1 : SubSeq(Words, 1, k)[i] = Words[1 + i - 1]
    BY <2>1, WordsFit, SubSeqProperties
  <2>3. Len(SubSeq(Words, 1, k)) = k /\ \A i \in 1 .. k : SubSeq(Words, 1, k)[i] = Words[i]
    BY <2>1, <2>2
  <2>. QED
    BY <2>1, <2>2, <2>3, WordsFit DEF Part
<1>. QED
  BY <1>1, <1>2, <1>3, <1>4

(* The steps that leave the streams and the DMA alone keep the words in     *)
(* their places.                                                           *)
LEMMA StreamFrame ==
  ASSUME ControlInv, SendInv, ReturnInv, UNCHANGED streamVars, UNCHANGED sut,
         \/ step' = step
         \/ step \in Early \ {"enable"} /\ step' \in Early
         \/ step = "enable" /\ step' = "stream"
         \/ step = "wait" /\ step' = "disable"
         \/ step = "disable" /\ step' = "print"
         \/ step = "printing" /\ step' = "results" /\ dma.left = 0
         \/ step = "results" /\ step' = "receive"
         \/ /\ step \in Late \ {"receive", "receiving"}
            /\ step' \in Late \ {"receive", "receiving"}
  PROVE  SendInv' /\ ReturnInv'
<1>1. SendInv'
  BY DEF ControlInv, SendInv, Part, streamVars, Early, Late
<1>2. ReturnInv'
  BY DEF ControlInv, ReturnInv, Part, streamVars, Early, Late
<1>. QED
  BY <1>1, <1>2

(* main gives the words but the last to the DMA. *)
LEMMA SendByDmaStep ==
  ASSUME ControlInv, SendInv, ReturnInv, Go("stream", "last"), SendByDma, UNCHANGED sut
  PROVE  SendInv' /\ ReturnInv'
<1>. DEFINE k == Len(Words) - 1
<1>1. k \in 0 .. Len(Words) /\ k \in 0 .. BufferSize /\ Len(Words) = k + 1 /\ k \in Nat
  BY WordsFit
<1>2. /\ step = "stream" /\ step' = "last" /\ UNCHANGED <<in, sutIn, received, sut>>
      /\ out' = [fifo |-> <<>>, mode |-> "dma"] /\ Len(<<>>) = 0 /\ <<>> \in Seq(Nat)
  BY DEF Go, SendByDma
<1>3. LET t == SubSeq(Words, 1, k) IN t \in Seq(Nat) /\ Len(t) = k /\ Part(t, 0)
  BY <1>1, PartWhole
<1>4. /\ dma' \in DmaType
      /\ k # 0 => dma'.direction = 0
      /\ dma'.left = k /\ Len(dma'.data) = k /\ Part(dma'.data, 0)
  <2>1. CASE k = 0
    <3>1. dma \in DmaType /\ dma.left = 0
      BY <1>2 DEF ReturnInv
    <3>2. dma' = [dma EXCEPT !.data = <<>>]
      BY <2>1 DEF SendByDma, StartTransfer
    <3>3. dma' \in DmaType /\ dma'.left = 0 /\ dma'.data = <<>>
      BY <1>2, <3>1, <3>2 DEF DmaType
    <3>4. Part(<<>>, 0)
      BY <1>1, <2>1, PartWhole
    <3>. HIDE DEF k
    <3>. QED
      BY <1>2, <2>1, <3>3, <3>4
  <2>2. CASE k # 0
    <3>1. dma' = [direction |-> 0, interface |-> 0, left |-> k,
                  data |-> SubSeq(Words, 1, k)]
      BY <2>2 DEF SendByDma, StartTransfer
    <3>. HIDE DEF k
    <3>. QED
      BY <1>1, <1>3, <3>1 DEF DmaType
  <2>. QED
    BY <2>1, <2>2
<1>5. /\ sutIn'.nwords = 0 /\ out'.fifo = <<>> /\ out' \in OutType /\ Part(<<>>, 0)
      /\ (0 + 0) + k = (k + 1) - 1 /\ Len(out'.fifo) = 0 /\ 0 + Len(out'.fifo) = 0
  BY <1>1, <1>2, PartWhole DEF SendInv, OutType
<1>6. step' \notin Early \cup {"stream"}
  BY <1>2 DEF Early
<1>. HIDE DEF k
<1>7. SendInv'
  <2>1. sutIn' \in SutInType /\ (sut' = "boot" <=> ~sutIn'.enabled)
    BY <1>2 DEF SendInv
  <2>2. sut' # "done" => Part(sutIn'.fifo, 0) /\ Len(sutIn'.fifo) = sutIn'.nwords
    BY <1>2 DEF SendInv
  <2>3. step' = "last"
    BY <1>2
  <2>4. sutIn'.nwords + Len(out'.fifo) = 0 /\ Part(out'.fifo, sutIn'.nwords)
    BY <1>5
  <2>5. 0 + dma'.left = Len(Words) - 1
    BY <1>1, <1>4
  <2>. QED
    BY <1>4, <1>5, <1>6, <2>1, <2>2, <2>3, <2>4, <2>5 DEF SendInv
<1>8. ReturnInv'
  <2>1. step' = "last" /\ step' \notin Late /\ UNCHANGED <<in, received, sut>>
    BY <1>2 DEF Late
  <2>. QED
    BY <1>4, <2>1 DEF ReturnInv
<1>. QED
  BY <1>7, <1>8


(* main gives the last word to the stream itself. *)
LEMMA SendLastStep ==
  ASSUME ControlInv, SendInv, ReturnInv, Go("last", "wait"), SendLast, UNCHANGED sut
  PROVE  SendInv' /\ ReturnInv'
<1>. DEFINE x == Words[Len(Words)]
            n == sutIn.nwords
            f == out.fifo
<1>1. /\ step = "last" /\ step' = "wait" /\ UNCHANGED <<in, sutIn, received, dma, sut>>
      /\ out' = [fifo |-> Push(f, <<x>>), mode |-> "swreg"]
      /\ dma.left = 0
  BY DEF Go, SendLast, dma_transfer_ready
<1>2. Part(f, n) /\ n + Len(f) + dma.left = Len(Words) - 1
  BY <1>1 DEF SendInv
<1>3. /\ n \in Nat /\ f \in Seq(Nat) /\ Len(f) \in Nat
      /\ n + Len(f) < Len(Words) /\ n + Len(f) + 1 = Len(Words)
  <2>1. n \in Nat /\ f \in Seq(Nat) /\ Len(Words) \in Nat
    BY <1>2, WordsFit DEF Part
  <2>. DEFINE m == Len(f)
              l == Len(Words)
  <2>2. m \in Nat /\ l \in Nat /\ n + m + 0 = l - 1
    BY <1>1, <1>2, <2>1, LenProperties
  <2>. HIDE DEF n, m, l
  <2>3. n + m < l /\ n + m + 1 = l
    BY <2>1, <2>2
  <2>. QED
    BY <2>1, <2>2, <2>3 DEF m, l
<1>4. Append(f, x) \in Seq(Nat) /\ Len(Append(f, x)) = Len(f) + 1 /\ Part(Append(f, x), n)
  BY <1>2, <1>3, PartAppend
<1>5. f \o <<x>> = Append(f, x)
  BY <1>3, WordsFit, ElementOfSeq, AppendIsConcat, SMTT(30)
<1>6. Push(f, <<x>>) = Append(f, x)
  <2>1. Len(Append(f, x)) <= FifoDepth
    <3>. DEFINE m == Len(f)
                l == Len(Words)
                a == Append(f, x)
    <3>1. /\ m \in Nat /\ n \in Nat /\ n + m + 1 = l /\ l <= FifoDepth /\ FifoDepth \in Nat
          /\ Len(a) = m + 1
      BY <1>3, <1>4, WordsFit
    <3>. HIDE DEF m, l, a, n
    <3>2. Len(a) <= FifoDepth
      BY <3>1
    <3>. QED
      BY <3>2 DEF a
  <2>. HIDE DEF f, x
  <2>. QED
    BY <1>5, <2>1 DEF Push
<1>7. out' \in OutType /\ out'.fifo = Append(f, x)
  BY <1>1, <1>4, <1>6 DEF OutType
<1>8. n + Len(Append(f, x)) = Len(Words)
  BY <1>3, <1>4
<1>9. SendInv'
  <2>1. step' = "wait" /\ step' \notin Early
    BY <1>1 DEF Early
  <2>2. UNCHANGED <<sutIn, sut>>
    BY <1>1
  <2>. HIDE DEF f, x
  <2>. QED
    BY <1>4, <1>7, <1>8, <2>1, <2>2 DEF SendInv
<1>10. ReturnInv'
  <2>1. step' = "wait" /\ step' \notin Late /\ UNCHANGED <<in, received, sut, dma>> /\ dma.left = 0
    BY <1>1 DEF Late
  <2>. QED
    BY <2>1 DEF ReturnInv
<1>. QED
  BY <1>9, <1>10

(* A word that the DMA moves to the stream keeps its place. *)
LEMMA MoveOutStep ==
  ASSUME ControlInv, SendInv, ReturnInv, MoveOut, UNCHANGED <<step, sut>>
  PROVE  SendInv' /\ ReturnInv'
<1>. DEFINE n == sutIn.nwords
            f == out.fifo
            g == dma.data
            x == Head(g)
<1>1. /\ UNCHANGED <<in, sutIn, received>> /\ dma.left > 0 /\ dma.direction = 0
      /\ out' = [out EXCEPT !.fifo = Append(f, x)]
      /\ dma' = [dma EXCEPT !.left = dma.left - 1, !.data = Tail(g)]
  BY DEF MoveOut
<1>2. step = "last" /\ dma.left \in 1 .. BufferSize
  BY <1>1, WordsFit DEF ReturnInv, DmaType
<1>3. /\ Part(f, n) /\ Part(g, n + Len(f)) /\ Len(g) = dma.left
      /\ n + Len(f) + dma.left = Len(Words) - 1
  BY <1>2 DEF SendInv
<1>4. n \in Nat /\ f \in Seq(Nat) /\ Len(f) \in Nat /\ g \in Seq(Nat) /\ g # <<>>
  BY <1>2, <1>3, EmptySeq, LenProperties DEF Part
<1>5. /\ x = Words[n + Len(f) + 1] /\ Tail(g) \in Seq(Nat) /\ Len(Tail(g)) = dma.left - 1
      /\ Part(Tail(g), n + Len(f) + 1)
  BY <1>3, <1>4, PartTail
<1>6. n + Len(f) < Len(Words)
  <2>1. dma.left \in Nat \ {0} /\ Len(Words) \in Nat
    BY <1>2, WordsFit
  <2>2. n + Len(f) + dma.left = Len(Words) - 1
    BY <1>3
  <2>. HIDE DEF n, f, g, x
  <2>. QED
    BY <1>4, <2>1, <2>2
<1>7. Append(f, x) \in Seq(Nat) /\ Len(Append(f, x)) = Len(f) + 1 /\ Part(Append(f, x), n)
  BY <1>3, <1>5, <1>6, PartAppend
<1>8. out' \in OutType /\ out'.fifo = Append(f, x)
  BY <1>1, <1>7 DEF SendInv, OutType
<1>9. dma.left - 1 \in 0 .. BufferSize
  BY <1>2, WordsFit
<1>10. /\ dma' \in DmaType /\ dma'.data = Tail(g)
       /\ dma'.left = dma.left - 1 /\ dma'.direction = 0
  BY <1>1, <1>5, <1>9 DEF ReturnInv, DmaType
<1>11. n + Len(Append(f, x)) = n + Len(f) + 1
  <2>. HIDE DEF f, x, n
  <2>. QED
    BY <1>4, <1>7
<1>12. (n + Len(f) + 1) + (dma.left - 1) = Len(Words) - 1
  BY <1>2, <1>3, <1>4
<1>13. SendInv'
  <2>1. step' = "last" /\ step' \notin Early /\ sutIn' = sutIn /\ sut' = sut
    BY <1>1, <1>2 DEF Early
  <2>. HIDE DEF f, g, x
  <2>. QED
    BY <1>5, <1>7, <1>8, <1>10, <1>11, <1>12, <2>1 DEF SendInv
<1>14. ReturnInv'
  <2>1. step' = "last" /\ step' \notin Late /\ UNCHANGED <<in, received, sut>>
    BY <1>1, <1>2 DEF Late
  <2>. QED
    BY <1>10, <2>1 DEF ReturnInv
<1>. QED
  BY <1>13, <1>14

(* A word that crosses keeps its place. *)
LEMMA CrossStep ==
  ASSUME ControlInv, SendInv, ReturnInv, Cross, UNCHANGED <<step, sut>>
  PROVE  /\ SendInv' /\ ReturnInv'
         /\ sutIn.nwords \in 0 .. Len(Words) - 1 /\ sutIn'.nwords = sutIn.nwords + 1
         /\ Head(out.fifo) = Words[sutIn.nwords + 1] /\ Head(out.fifo) \in Nat
         /\ step \notin Early \cup {"stream"}
<1>. DEFINE n == sutIn.nwords
            f == out.fifo
            g == sutIn.fifo
            x == Head(f)
<1>1. /\ UNCHANGED <<in, dma, received>> /\ f # <<>> /\ sutIn.enabled
      /\ out' = [out EXCEPT !.fifo = Tail(f)]
      /\ sutIn' = [sutIn EXCEPT !.fifo = Append(g, x), !.nwords = n + 1]
  BY DEF Cross
<1>2. Part(f, n) /\ n \in Nat /\ g \in Seq(Nat) /\ step \notin Early \cup {"stream"}
  BY <1>1 DEF SendInv, SutInType, Part
<1>3. /\ x \in Nat /\ x = Words[n + 1] /\ Tail(f) \in Seq(Nat)
      /\ Len(Tail(f)) = Len(f) - 1 /\ Len(f) \in Nat \ {0}
      /\ Part(Tail(f), n + 1) /\ n + Len(f) <= Len(Words)
  BY <1>1, <1>2, PartTail
<1>4. /\ n + 1 \in 0 .. Len(Words) /\ n \in 0 .. Len(Words) - 1
      /\ (n + 1) + (Len(f) - 1) = n + Len(f)
  <2>. HIDE DEF f, n
  <2>. QED
    BY <1>2, <1>3, WordsFit
<1>5. Append(g, x) \in Seq(Nat)
  BY <1>2, <1>3, AppendProperties
<1>6. out' \in OutType /\ out'.fifo = Tail(f)
  BY <1>1, <1>3 DEF SendInv, OutType
<1>7. /\ sutIn' \in SutInType /\ sutIn'.fifo = Append(g, x) /\ sutIn'.nwords = n + 1
      /\ sutIn'.enabled = sutIn.enabled
  BY <1>1, <1>4, <1>5 DEF SendInv, SutInType
<1>8. sut # "done" => Part(Append(g, x), 0) /\ Len(Append(g, x)) = n + 1
  <2>1. ASSUME sut # "done"
        PROVE  Part(g, 0) /\ Len(g) = n /\ 0 + Len(g) < Len(Words) /\ 0 + Len(g) + 1 = n + 1
    <3>1. Part(g, 0) /\ Len(g) = n
      BY <2>1 DEF SendInv
    <3>. HIDE DEF g, n
    <3>. QED
      BY <1>2, <1>4, <3>1, WordsFit
  <2>. HIDE DEF g, n
  <2>. QED
    BY <1>2, <1>3, <2>1, PartAppend
<1>9. SendInv'
  <2>1. UNCHANGED <<step, sut, dma>> /\ step \notin Early \cup {"stream"}
    BY <1>1, <1>2
  <2>2. sutIn'.nwords + Len(out'.fifo) = n + Len(f)
    BY <1>3, <1>4, <1>6, <1>7
  <2>. QED
    BY <1>3, <1>6, <1>7, <1>8, <2>1, <2>2 DEF SendInv
<1>10. ReturnInv'
  BY <1>1 DEF ReturnInv
<1>. QED
  BY <1>2, <1>3, <1>4, <1>7, <1>9, <1>10


(* A word that the DMA takes from the stream goes behind those before. *)
LEMMA MoveInStep ==
  ASSUME ControlInv, SendInv, ReturnInv, MoveIn, UNCHANGED <<step, sut>>
  PROVE  SendInv' /\ ReturnInv'
<1>. DEFINE f == in.fifo
            g == dma.data
            x == Head(f)
<1>1. /\ UNCHANGED <<out, sutIn, received>> /\ dma.left > 0 /\ dma.direction = 1
      /\ dma.interface = 0 /\ f # <<>>
      /\ in' = [in EXCEPT !.fifo = Tail(f)]
      /\ dma' = [dma EXCEPT !.left = dma.left - 1, !.data = Append(g, x)]
  BY DEF MoveIn
<1>2. dma.left \in 1 .. BufferSize /\ (step = "last" => FALSE) /\ step = "receiving"
  BY <1>1, WordsFit DEF ReturnInv, SendInv, DmaType
<1>3. /\ Part(g, 0) /\ Part(f, Len(g)) /\ dma.left = Len(f)
      /\ Len(g) + dma.left = Len(Words)
  BY <1>2 DEF ReturnInv
<1>4. g \in Seq(Nat) /\ Len(g) \in Nat /\ f \in Seq(Nat)
  BY <1>3, LenProperties DEF Part
<1>5. /\ x = Words[Len(g) + 1] /\ Tail(f) \in Seq(Nat) /\ Len(Tail(f)) = dma.left - 1
      /\ Part(Tail(f), Len(g) + 1)
  BY <1>1, <1>3, PartTail
<1>6. 0 + Len(g) < Len(Words) /\ 0 + Len(g) + 1 = Len(g) + 1
  <2>. HIDE DEF g
  <2>. QED
    BY <1>2, <1>3, <1>4, WordsFit
<1>7. Append(g, x) \in Seq(Nat) /\ Len(Append(g, x)) = Len(g) + 1 /\ Part(Append(g, x), 0)
  <2>1. x = Words[0 + Len(g) + 1]
    BY <1>5, <1>6
  <2>. HIDE DEF g, x
  <2>. QED
    BY <1>3, <1>6, <2>1, PartAppend
<1>8. /\ in' \in InType /\ in'.fifo = Tail(f) /\ in'.nwords = in.nwords
  BY <1>1, <1>5 DEF ReturnInv, InType
<1>9. dma.left - 1 \in 0 .. BufferSize /\ dma.left - 1 <= Len(Words)
  <2>. HIDE DEF g
  <2>. QED
    BY <1>2, <1>3, <1>4, WordsFit, SMTT(30)
<1>10. /\ dma' \in DmaType /\ dma'.data = Append(g, x)
       /\ dma'.left = dma.left - 1 /\ dma'.direction = 1 /\ dma'.interface = 0
  BY <1>1, <1>7, <1>9 DEF ReturnInv, DmaType
<1>11. (Len(g) + 1) + (dma.left - 1) = Len(Words)
  <2>1. dma.left \in Nat
    BY <1>2, WordsFit
  <2>2. \A a, b \in Nat : (a + 1) + (b - 1) = a + b
    OBVIOUS
  <2>3. (Len(g) + 1) + (dma.left - 1) = Len(g) + dma.left
    BY <1>4, <2>1, <2>2
  <2>. QED
    BY <1>3, <2>3
<1>12. step' = "receiving" /\ step' \notin Early /\ sut' = "done"
  BY <1>2 DEF ControlInv, Early, Late
<1>13. SendInv'
  BY <1>1, <1>2, <1>12 DEF SendInv
<1>14. ReturnInv'
  <2>1. received' \in Seq(Nat)
    BY <1>1 DEF ReturnInv
  <2>. HIDE DEF f, g, x
  <2>. QED
    BY <1>5, <1>7, <1>8, <1>9, <1>10, <1>11, <1>12, <2>1 DEF ReturnInv
<1>. QED
  BY <1>13, <1>14

(* The DMA is given a transfer from the analyser, or from the stream. *)
LEMMA PrintStartStep ==
  ASSUME ControlInv, SendInv, ReturnInv, PrintStart
  PROVE  SendInv' /\ ReturnInv' /\ dma'.left = BufferSize /\ Len(dma'.data) = 0
<1>1. /\ UNCHANGED <<sut, out, in, sutIn, received>> /\ step = "print" /\ step' = "printing"
      /\ dma' = [direction |-> 1, interface |-> 1, left |-> BufferSize, data |-> <<>>]
  BY WordsFit DEF PrintStart, StartTransfer, Go
<1>2. dma' \in DmaType /\ dma'.direction = 1 /\ dma'.interface = 1
  BY <1>1, WordsFit DEF DmaType
<1>3. dma'.left = BufferSize /\ Len(dma'.data) = 0
  BY <1>1
<1>4. step' \notin Late /\ step' \notin Early
  BY <1>1 DEF Early, Late
<1>5. SendInv'
  <2>1. step \notin Early /\ step' \notin Early \cup {"stream", "last"} /\ UNCHANGED <<sut, out, sutIn>>
    BY <1>1 DEF Early
  <2>2. step \notin {"stream", "last"}
    BY <1>1
  <2>. QED
    BY <2>1, <2>2 DEF SendInv
<1>6. ReturnInv'
  <2>1. UNCHANGED <<sut, in, received>> /\ step' = "printing"
    BY <1>1
  <2>. QED
    BY <1>2, <1>4, <2>1 DEF ReturnInv
<1>. QED
  BY <1>3, <1>5, <1>6

(* What the DMA brings back goes from the front of the FIFO to the end of   *)
(* the memory it writes, and is all there is when main goes on.            *)
LEMMA ReceiveStep ==
  ASSUME ControlInv, SendInv, ReturnInv, StreamIn
  PROVE  SendInv' /\ ReturnInv'
<1>1. /\ UNCHANGED <<sut, out, sutIn>> /\ step \in {"receive", "receiving"}
      /\ step' \in {"receiving", "output"} /\ sut = "done"
  BY DEF StreamIn, ReceiveByDma, ReceiveDone, Go, ControlInv, Late
<1>2. SendInv'
  BY <1>1 DEF SendInv, Early
<1>3. CASE ReceiveByDma /\ step = "receive" /\ step' = "receiving"
  <2>1. /\ in' = [in EXCEPT !.mode = "dma"] /\ in.fifo = Words /\ in.nwords = Len(Words)
        /\ received' = received
    BY <1>1, <1>3 DEF ReceiveByDma, ReturnInv
  <2>2. dma' = [direction |-> 1, interface |-> 0, left |-> Len(Words), data |-> <<>>]
    BY <1>3, <2>1, WordsFit DEF ReceiveByDma, StartTransfer
  <2>3. Len(Words) \in 0 .. BufferSize
    BY WordsFit
  <2>4. /\ dma' \in DmaType /\ dma'.direction = 1 /\ dma'.interface = 0
        /\ dma'.left = Len(Words) /\ dma'.data = <<>> /\ Len(<<>>) = 0
    BY <2>2, <2>3 DEF DmaType
  <2>5. in' \in InType /\ in'.fifo = Words
    BY <2>1 DEF ReturnInv, InType
  <2>6. Part(<<>>, 0) /\ Part(Words, 0) /\ 0 + Len(Words) = Len(Words) /\ Len(Words) <= Len(Words)
    BY WordsFit, PartWhole
  <2>7. received' \in Seq(Nat) /\ step' \notin Late \ {"receive", "receiving"} /\ sut' = "done"
    BY <1>1, <1>3, <2>1 DEF ReturnInv
  <2>. QED
    BY <1>2, <1>3, <2>4, <2>5, <2>6, <2>7 DEF ReturnInv
<1>4. CASE ReceiveDone /\ step = "receiving" /\ step' = "output"
  <2>1. /\ UNCHANGED <<in, dma>> /\ received' = dma.data /\ dma.left = 0
    BY <1>4 DEF ReceiveDone, dma_transfer_ready
  <2>2. Part(dma.data, 0) /\ Len(dma.data) + 0 = Len(Words)
    BY <1>4, <2>1 DEF ReturnInv
  <2>3. dma.data \in Seq(Nat) /\ Len(dma.data) \in Nat
    BY <2>2, LenProperties DEF Part
  <2>4. received' = Words
    BY <2>1, <2>2, <2>3, PartWhole
  <2>. QED
    BY <1>1, <1>2, <1>4, <2>1, <2>4, WordsFit DEF ReturnInv
<1>. QED
  BY <1>3, <1>4 DEF StreamIn, Go

(* The SUT enables its stream when it starts. *)
LEMMA SutStartStep ==
  ASSUME ControlInv, SendInv, ReturnInv, SutStart
  PROVE  SendInv' /\ ReturnInv'
<1>1. /\ UNCHANGED <<step, out, in, dma, received>> /\ sut = "boot" /\ sut' = "ready"
      /\ sutIn' = [sutIn EXCEPT !.enabled = TRUE]
  BY DEF SutStart, SutEnable
<1>2. /\ sutIn' \in SutInType /\ sutIn'.enabled /\ sutIn'.fifo = sutIn.fifo
      /\ sutIn'.nwords = sutIn.nwords
  BY <1>1 DEF SendInv, SutInType
<1>3. SendInv'
  BY <1>1, <1>2 DEF SendInv
<1>4. ReturnInv'
  BY <1>1 DEF ReturnInv
<1>. QED
  BY <1>3, <1>4

(* The SUT has all words when it sends them back. *)
LEMMA SutRunStep ==
  ASSUME ControlInv, SendInv, ReturnInv, SutRun, sutIn.nwords = Len(Words)
  PROVE  SendInv' /\ ReturnInv' /\ sutIn'.nwords = sutIn.nwords
<1>. DEFINE w == sutIn.fifo
<1>1. /\ UNCHANGED <<step, out, dma, received>> /\ sut = "ready" /\ sut' = "done"
      /\ step = "results" /\ step \notin Early /\ step \notin Late
  BY WordsFit DEF SutRun, Loopback, streamVars, Early, Late
<1>2. w = Words /\ in.fifo = <<>> /\ sutIn.enabled /\ dma.left = 0
  BY <1>1, PartWhole DEF SendInv, ReturnInv
<1>3. Words # <<>>
  BY FifoAssumption
<1>4. /\ in' = [in EXCEPT !.fifo = Push(<<>>, SubSeq(Words, 1, Len(Words))),
                        !.nwords = Len(Words)]
      /\ sutIn' = [sutIn EXCEPT !.fifo = SubSeq(Words, Len(Words) + 1, Len(Words))]
  BY <1>2, <1>3 DEF SutRun, Loopback
<1>5. SubSeq(Words, 1, Len(Words)) = Words
  BY WordsFit, SubSeqFull
<1>6. <<>> \o Words = Words
  BY WordsFit, ConcatEmptySeq
<1>7. Push(<<>>, Words) = Words
  BY <1>6, WordsFit DEF Push
<1>8. in' \in InType /\ in'.fifo = Words /\ in'.nwords = Len(Words)
  BY <1>4, <1>5, <1>7, WordsFit DEF ReturnInv, InType
<1>9. SubSeq(Words, Len(Words) + 1, Len(Words)) \in Seq(Nat)
  <2>1. Len(Words) + 1 \in 1 .. Len(Words) + 1 /\ Len(Words) \in (Len(Words) + 1) - 1 .. Len(Words)
    BY WordsFit
  <2>. QED
    BY <2>1, WordsFit, SubSeqProperties
<1>10. sutIn' \in SutInType /\ sutIn'.nwords = sutIn.nwords /\ sutIn'.enabled
  BY <1>2, <1>4, <1>9 DEF SendInv, SutInType
<1>11. SendInv'
  BY <1>1, <1>10 DEF SendInv
<1>12. ReturnInv'
  <2>1. dma' \in DmaType /\ received' \in Seq(Nat) /\ dma'.left = 0
    BY <1>1, <1>2 DEF ReturnInv
  <2>. QED
    BY <1>1, <1>8, <2>1, WordsFit DEF ReturnInv
<1>. QED
  BY <1>10, <1>11, <1>12


---------------------------------------------------------------------------------
(* The analyser *)

(* The library brings the analyser into a quiet state. *)
LEMMA SetupIsQuiet ==
  ila_set_circular_buffer(ila_init(Quiet({})), TRUE) = Quiet({CIRCULAR})
<1>1. ASSUME NEW m, NEW k
      PROVE  Flush([Quiet(m) EXCEPT !.misc = k], "misc") = Quiet(k)
  <2>. DEFINE q == [Quiet(m) EXCEPT !.misc = k]
              w == [QuietHw(m) EXCEPT !.misc = k]
  <2>1. q = [type |-> {}, negate |-> {}, mask |-> {}, misc |-> k, hw |-> QuietHw(m)]
    BY DEF Quiet
  <2>2. w = QuietHw(k)
    BY DEF QuietHw
  <2>3. [w EXCEPT !.type = {}, !.negate = {}, !.mask = {}, !.count = 0, !.samples = NoSamples]
          = QuietHw(k)
    <3>. SUFFICES ASSUME NEW z,
                         z = [w EXCEPT !.type = {}, !.negate = {}, !.mask = {}, !.count = 0,
                                       !.samples = NoSamples]
                  PROVE  z = QuietHw(k)
      OBVIOUS
    <3>1. w = [type |-> {}, negate |-> {}, mask |-> {}, misc |-> k, samples |-> NoSamples,
               count |-> 0, index |-> 0]
      BY <2>2 DEF QuietHw
    <3>. HIDE DEF w
    <3>2. z = [type |-> z.type, negate |-> z.negate, mask |-> z.mask, misc |-> z.misc,
               samples |-> z.samples, count |-> z.count, index |-> z.index]
      BY <3>1
    <3>3. /\ z.type = {} /\ z.negate = {} /\ z.mask = {} /\ z.misc = k
          /\ z.samples = NoSamples /\ z.count = 0 /\ z.index = 0
      BY <3>1
    <3>. QED
      BY <3>2, <3>3, Zenon DEF QuietHw
  <2>4. Written(QuietHw(m), "misc", k) = QuietHw(k)
    BY <2>2, <2>3 DEF Written, NoSamples
  <2>5. q.hw = QuietHw(m) /\ q["misc"] = k
    BY <2>1
  <2>6. [q EXCEPT !.hw = QuietHw(k)] = Quiet(k)
    <3>. HIDE DEF q
    <3>. QED
      BY <2>1 DEF Quiet
  <2>. HIDE DEF q
  <2>7. Flush(q, "misc") = [q EXCEPT !.hw = Written(q.hw, "misc", q["misc"])]
    BY DEF Flush
  <2>. QED
    BY <2>4, <2>5, <2>6, <2>7 DEF q
<1>2. \A r \in {"type", "negate", "mask"} : Flush(Quiet({}), r) = Quiet({})
  <2>1. ASSUME NEW r \in {"type", "negate", "mask"}
        PROVE  Flush(Quiet({}), r) = Quiet({})
    <3>1. [QuietHw({}) EXCEPT ![r] = {}] = QuietHw({})
      BY DEF QuietHw
    <3>2. Written(QuietHw({}), r, {}) = QuietHw({})
      BY <3>1 DEF Written
    <3>3. Quiet({})[r] = {} /\ Quiet({}).hw = QuietHw({})
          /\ [Quiet({}) EXCEPT !.hw = QuietHw({})] = Quiet({})
      BY DEF Quiet
    <3>. QED
      BY <3>2, <3>3 DEF Flush
  <2>. QED
    BY <2>1
<1>3. ASSUME NEW m, NEW b
      PROVE  /\ SetMisc(Quiet(m), b, TRUE) = Quiet(m \cup {b})
             /\ SetMisc(Quiet(m), b, FALSE) = Quiet(m \ {b})
  <2>1. Quiet(m).misc = m
    BY DEF Quiet
  <2>2. /\ SetMisc(Quiet(m), b, TRUE)
             = Flush([Quiet(m) EXCEPT !.misc = Quiet(m).misc \cup {b}], "misc")
        /\ SetMisc(Quiet(m), b, FALSE)
             = Flush([Quiet(m) EXCEPT !.misc = Quiet(m).misc \ {b}], "misc")
    BY DEF SetMisc, setBit
  <2>. QED
    BY <1>1, <2>1, <2>2
<1>5. [Quiet({}) EXCEPT !.type = {}, !.negate = {}, !.mask = {}, !.misc = {}] = Quiet({})
  <2>. DEFINE q == Quiet({})
  <2>. SUFFICES ASSUME NEW z,
                       z = [q EXCEPT !.type = {}, !.negate = {}, !.mask = {}, !.misc = {}]
                PROVE  z = Quiet({})
    OBVIOUS
  <2>1. q = [type |-> {}, negate |-> {}, mask |-> {}, misc |-> {}, hw |-> QuietHw({})]
    BY DEF Quiet
  <2>. HIDE DEF q
  <2>2. z = [type |-> z.type, negate |-> z.negate, mask |-> z.mask, misc |-> z.misc,
             hw |-> z.hw]
    BY <2>1
  <2>3. z.type = {} /\ z.negate = {} /\ z.mask = {} /\ z.misc = {} /\ z.hw = QuietHw({})
    BY <2>1
  <2>. QED
    BY <2>2, <2>3, Zenon DEF Quiet
<1>6. /\ Flush(Quiet({}), "misc") = Quiet({})
      /\ NoTimeOffset(Quiet({})) = Quiet({})
  <2>1. Quiet({}).misc = {} /\ [Quiet({}) EXCEPT !.misc = {}] = Quiet({})
    BY DEF Quiet
  <2>2. Flush(Quiet({}), "misc") = Quiet({})
    BY <1>1, <2>1
  <2>3. setBit(setBit(Quiet({}).misc, DELAY_TRIGGER, FALSE), DELAY_SIGNAL, FALSE) = {}
    BY <2>1 DEF setBit
  <2>. QED
    BY <2>1, <2>2, <2>3 DEF NoTimeOffset
<1>7. ila_reset(Quiet({})) = Quiet({})
  <2>1. SetMisc(SetMisc(Quiet({}), RST, TRUE), RST, FALSE) = Quiet({})
    <3>1. {} \cup {RST} = {RST} /\ {RST} \ {RST} = {}
      OBVIOUS
    <3>2. SetMisc(Quiet({}), RST, TRUE) = Quiet({RST})
      <4>1. SetMisc(Quiet({}), RST, TRUE) = Quiet({} \cup {RST})
        BY <1>3
      <4>. QED
        BY <3>1, <4>1, Zenon
    <3>3. SetMisc(Quiet({RST}), RST, FALSE) = Quiet({})
      <4>1. SetMisc(Quiet({RST}), RST, FALSE) = Quiet({RST} \ {RST})
        BY <1>3
      <4>. QED
        BY <3>1, <4>1, Zenon
    <3>. QED
      BY <3>2, <3>3, Zenon
  <2>2. /\ Flush(Quiet({}), "type") = Quiet({}) /\ Flush(Quiet({}), "mask") = Quiet({})
        /\ Flush(Quiet({}), "negate") = Quiet({})
    BY <1>2
  <2>. QED
    BY <2>1, <2>2 DEF ila_reset
<1>8. ila_init(Quiet({})) = Quiet({})
  <2>1. /\ Flush(Quiet({}), "type") = Quiet({}) /\ Flush(Quiet({}), "mask") = Quiet({})
        /\ Flush(Quiet({}), "negate") = Quiet({})
    BY <1>2
  <2>2. SetMisc(Quiet({}), REDUCE_AND, FALSE) = Quiet({})
    <3>1. {} \ {REDUCE_AND} = {}
      OBVIOUS
    <3>. QED
      BY <1>3, <3>1, Zenon
  <2>. DEFINE zero == [Quiet({}) EXCEPT !.type = {}, !.negate = {}, !.mask = {}, !.misc = {}]
              z == Flush(Flush(Flush(Flush(zero, "type"), "negate"), "mask"), "misc")
  <2>3. ila_init(Quiet({})) = ila_reset(SetMisc(NoTimeOffset(z), REDUCE_AND, FALSE))
    BY Zenon DEF ila_init
  <2>4. zero = Quiet({})
    BY <1>5
  <2>. HIDE DEF zero
  <2>5. z = Quiet({})
    BY <1>6, <2>1, <2>4, Zenon
  <2>. HIDE DEF z
  <2>. QED
    BY <1>6, <1>7, <2>2, <2>3, <2>5, Zenon
<1>9. SetMisc(Quiet({}), CIRCULAR, TRUE) = Quiet({CIRCULAR})
  <2>1. {} \cup {CIRCULAR} = {CIRCULAR}
    OBVIOUS
  <2>2. SetMisc(Quiet({}), CIRCULAR, TRUE) = Quiet({} \cup {CIRCULAR})
    BY <1>3
  <2>. QED
    BY <2>1, <2>2, Zenon
<1>. QED
  BY <1>8, <1>9 DEF ila_set_circular_buffer


(* The remainder of a number below the divisor, below its double, and of -1. *)
LEMMA Remainders ==
  ASSUME NEW n \in Nat \ {0}
  PROVE  /\ \A a \in 0 .. n - 1 : a % n = a
         /\ \A a \in n .. 2 * n - 1 : a % n = a - n
         /\ (0 - 1) % n = n - 1
<1>1. ASSUME NEW a \in 0 .. n - 1
      PROVE  a % n = a
  OBVIOUS
<1>2. ASSUME NEW a \in n .. 2 * n - 1
      PROVE  a % n = a - n
  OBVIOUS
<1>3. (0 - 1) % n = n - 1
  OBVIOUS
<1>. QED
  BY <1>1, <1>2, <1>3

(* A sample is stored behind those before while the triggers are enabled    *)
(* and the buffer is not about to wrap.                                    *)
LEMMA SampleTaken ==
  ASSUME Sampling, ila.hw.misc = {CIRCULAR}, ila.hw.mask = Triggers,
         Len(taken) + 1 < BufferSize, NEW v \in Nat, Sample(v)
  PROVE  /\ Sampling' /\ taken' = Append(taken, v) /\ Len(taken') = Len(taken) + 1
         /\ \A i \in 1 .. Len(taken) : taken'[i] = taken[i]
         /\ taken'[Len(taken) + 1] = v
         /\ ila'.hw.misc = {CIRCULAR} /\ ila'.hw.mask = Triggers
<1>. DEFINE hw == ila.hw
            t == Len(taken)
            z == [hw EXCEPT !.samples[t] = v, !.count = t + 1]
<1>1. /\ hw \in HwType /\ t \in Nat /\ t \in Index /\ t + 1 \in Index /\ taken \in Seq(Nat)
      /\ hw.count = t
  BY WordsFit, LenProperties DEF Sampling, IlaType, Index
<1>2. t % BufferSize = t /\ (t + 1) % BufferSize = t + 1
  <2>1. t \in 0 .. BufferSize - 1 /\ t + 1 \in 0 .. BufferSize - 1
    BY <1>1 DEF Index
  <2>. HIDE DEF t
  <2>. QED
    BY <2>1, WordsFit, Remainders
<1>3. Sampled(hw, v) = z
  <2>1. Triggers # {} /\ RST \notin {CIRCULAR} /\ CIRCULAR \in {CIRCULAR}
    BY SampleAssumption DEF RST, CIRCULAR
  <2>2. hw.misc = {CIRCULAR} /\ hw.mask = Triggers
    OBVIOUS
  <2>. HIDE DEF hw, t
  <2>. QED
    BY <1>1, <1>2, <2>1, <2>2 DEF Sampled
<1>4. /\ z \in HwType /\ z.count = t + 1 /\ z.misc = hw.misc /\ z.mask = hw.mask
      /\ z.samples = [hw.samples EXCEPT ![t] = v]
  <2>. HIDE DEF hw, t
  <2>. QED
    BY <1>1 DEF HwType
<1>5. ila' = [ila EXCEPT !.hw = z]
  BY <1>3 DEF Sample
<1>. HIDE DEF z
<1>6. ila' \in IlaType /\ ila'.hw = z
  BY <1>4, <1>5 DEF Sampling, IlaType
<1>7. ila' # ila
  <2>1. z.count # hw.count
    BY <1>1, <1>4
  <2>. QED
    BY <1>6, <2>1
<1>8. taken' = Append(taken, v)
  BY <1>7 DEF Sample
<1>9. /\ taken' \in Seq(Nat) /\ Len(taken') = t + 1
      /\ \A i \in 1 .. t : taken'[i] = taken[i]
      /\ taken'[t + 1] = v
  BY <1>1, <1>8, AppendProperties
<1>10. ASSUME NEW i \in Index
       PROVE  z.samples[i] = IF i < t + 1 THEN taken'[i + 1] ELSE NoSample
  <2>1. hw.samples[i] = IF i < t THEN taken[i + 1] ELSE NoSample
    BY DEF Sampling
  <2>2. hw.samples \in [Index -> Nat]
    BY <1>1 DEF HwType
  <2>3. z.samples[i] = IF i = t THEN v ELSE hw.samples[i]
    BY <1>4, <2>2
  <2>4. i \in Nat
    BY WordsFit DEF Index
  <2>. HIDE DEF hw, t
  <2>. QED
    BY <1>1, <1>9, <2>1, <2>3, <2>4
<1>11. Sampling'
  BY <1>4, <1>6, <1>9, <1>10 DEF Sampling
<1>. QED
  BY <1>4, <1>6, <1>8, <1>9, <1>11

(* Nothing is sampled while no trigger is enabled. *)
LEMMA NothingSampled ==
  ASSUME ila \in IlaType, ila.hw.mask = {}, NEW v, Sample(v)
  PROVE  ila' = ila /\ taken' = taken
<1>1. Sampled(ila.hw, v) = ila.hw
  BY DEF Sampled
<1>2. ila' = [ila EXCEPT !.hw = ila.hw]
  BY <1>1 DEF Sample
<1>3. ila' = ila
  BY <1>2 DEF IlaType
<1>. QED
  BY <1>3 DEF Sample

(* A register that is not a reset is written and nothing else changes. *)
LEMMA MaskWritten ==
  ASSUME ila \in IlaType, NEW m \in SUBSET Triggers,
         ila' = Flush([ila EXCEPT !.mask = m], "mask")
  PROVE  /\ ila' \in IlaType /\ ila'.hw.mask = m /\ ila'.hw.misc = ila.hw.misc
         /\ ila'.hw.count = ila.hw.count /\ ila'.hw.samples = ila.hw.samples
<1>. DEFINE c == [ila EXCEPT !.mask = m]
            w == [ila.hw EXCEPT !.mask = m]
<1>1. c.hw = ila.hw /\ c["mask"] = m /\ c \in IlaType
  BY DEF IlaType
<1>2. Written(ila.hw, "mask", m) = w
  BY DEF Written
<1>3. ila' = [c EXCEPT !.hw = w]
  BY <1>1, <1>2 DEF Flush
<1>4. /\ w \in HwType /\ w.mask = m /\ w.misc = ila.hw.misc
      /\ w.count = ila.hw.count /\ w.samples = ila.hw.samples
  BY DEF IlaType, HwType
<1>. HIDE DEF c, w
<1>5. ila' \in IlaType /\ ila'.hw = w
  BY <1>1, <1>3, <1>4 DEF IlaType
<1>. QED
  BY <1>4, <1>5

(* The steps that leave the analyser alone and move no word. *)
LEMMA SampleFrame ==
  ASSUME ControlInv, SampleInv, UNCHANGED <<ila, taken, trail>>,
         sutIn'.nwords = sutIn.nwords,
         \/ step' = step
         \/ step \in Early \ {"init", "enable"} /\ step' \in Early \ {"init"}
         \/ step \in Watching /\ step' \in {"last", "wait"}
         \/ /\ step \notin Early \cup Watching
            /\ step' \notin Early \cup Watching
  PROVE  SampleInv'
<1>1. Sampling' /\ Counting'
  BY DEF SampleInv, Sampling, Counting
<1>. QED
  BY <1>1 DEF ControlInv, SampleInv, Early, Watching


(* The triggers are enabled, and disabled when all words have crossed. *)
LEMMA MaskStep ==
  ASSUME ControlInv, SampleInv, Enable \/ Disable
  PROVE  SampleInv'
<1>1. CASE Enable
  <2>1. /\ step = "enable" /\ step' = "stream" /\ UNCHANGED <<sutIn, taken, trail>>
        /\ ila' = Flush([ila EXCEPT !.mask = Triggers], "mask")
    BY <1>1 DEF Enable, Go, ila_enable_all_triggers, streamVars
  <2>2. ila \in IlaType /\ Triggers \in SUBSET Triggers
    BY DEF SampleInv, Sampling
  <2>3. /\ ila' \in IlaType /\ ila'.hw.mask = Triggers /\ ila'.hw.misc = ila.hw.misc
        /\ ila'.hw.count = ila.hw.count /\ ila'.hw.samples = ila.hw.samples
    BY <2>1, <2>2, MaskWritten
  <2>4. Sampling' /\ Counting'
    BY <2>1, <2>3 DEF SampleInv, Sampling, Counting
  <2>. QED
    BY <2>1, <2>3, <2>4 DEF SampleInv, Early, Watching
<1>2. CASE Disable
  <2>1. /\ step = "disable" /\ step' = "print" /\ UNCHANGED <<sutIn, taken, trail>>
        /\ ila' = Flush([ila EXCEPT !.mask = {}], "mask")
    BY <1>2 DEF Disable, Go, ila_disable_all_triggers, streamVars
  <2>2. ila \in IlaType /\ {} \in SUBSET Triggers
    BY DEF SampleInv, Sampling
  <2>3. /\ ila' \in IlaType /\ ila'.hw.mask = {} /\ ila'.hw.misc = ila.hw.misc
        /\ ila'.hw.count = ila.hw.count /\ ila'.hw.samples = ila.hw.samples
    BY <2>1, <2>2, MaskWritten
  <2>4. Sampling' /\ Counting'
    BY <2>1, <2>3 DEF SampleInv, Sampling, Counting
  <2>. QED
    BY <2>1, <2>3, <2>4 DEF SampleInv, Early, Watching
<1>. QED
  BY <1>1, <1>2

(* The program starts with a quiet analyser. *)
LEMMA SetupStep ==
  ASSUME ControlInv, SampleInv, Setup
  PROVE  SampleInv'
<1>1. /\ step = "init" /\ step' = "write" /\ UNCHANGED <<sutIn, taken, trail>>
      /\ ila' = ila_set_circular_buffer(ila_init(ila), TRUE) /\ ila = Quiet({})
  BY DEF Setup, Go, streamVars, SampleInv
<1>2. ila' = Quiet({CIRCULAR})
  BY <1>1, SetupIsQuiet
<1>3. /\ ila'.hw = QuietHw({CIRCULAR}) /\ ila.hw = QuietHw({})
  <2>1. \A m : Quiet(m).hw = QuietHw(m)
    BY DEF Quiet
  <2>. QED
    BY <1>1, <1>2, <2>1
<1>4. /\ ila'.hw.count = ila.hw.count /\ ila'.hw.samples = ila.hw.samples
      /\ ila'.hw.mask = {} /\ ila'.hw.misc = {CIRCULAR}
  BY <1>3 DEF QuietHw
<1>5. NoSamples \in [Index -> Nat] /\ 0 \in Index /\ CIRCULAR \in 0 .. 5
  BY WordsFit DEF NoSamples, NoSample, Index, CIRCULAR
<1>6. QuietHw({CIRCULAR}) \in HwType
  BY <1>5 DEF QuietHw, HwType
<1>7. ila' \in IlaType
  BY <1>2, <1>5, <1>6 DEF Quiet, IlaType
<1>8. Sampling' /\ Counting'
  BY <1>1, <1>4, <1>7 DEF SampleInv, Sampling, Counting
<1>. QED
  BY <1>1, <1>4, <1>8 DEF SampleInv, Early, Watching

(* main goes on when all words have crossed. *)
LEMMA WaitStep ==
  ASSUME ControlInv, SendInv, SampleInv, Wait
  PROVE  SampleInv'
<1>1. /\ step = "wait" /\ step' = "disable" /\ UNCHANGED <<sutIn, ila, taken, trail>>
      /\ ila.hw.count >= Len(Words)
  BY SampleAssumption DEF Wait, Go, ila_number_samples, streamVars, ilaVars
<1>2. sutIn.nwords = Len(Words)
  <2>1. /\ sutIn.nwords \in 0 .. Len(Words) /\ Len(taken) >= Len(Words)
        /\ sutIn.nwords < Len(Words) => Len(taken) = sutIn.nwords
    BY <1>1 DEF SendInv, SutInType, SampleInv, Sampling, Counting
  <2>. QED
    BY <2>1, WordsFit
<1>3. Sampling' /\ Counting'
  BY <1>1 DEF SampleInv, Sampling, Counting
<1>. QED
  BY <1>1, <1>2, <1>3 DEF SampleInv, Early, Watching

(* A word is sampled when it crosses. *)
LEMMA CrossSampledStep ==
  ASSUME ControlInv, SendInv, ReturnInv, SampleInv, CrossSampled
  PROVE  SampleInv'
<1>. DEFINE n == sutIn.nwords
            t == Len(taken)
            v == Head(out.fifo)
<1>1. /\ Cross /\ UNCHANGED <<step, sut>> /\ Sample(v)
      /\ trail' = IF sutIn'.nwords = Len(Words) THEN Trail ELSE trail
  BY DEF CrossSampled
<1>2. /\ n \in 0 .. Len(Words) - 1 /\ sutIn'.nwords = n + 1 /\ v = Words[n + 1] /\ v \in Nat
      /\ step \notin Early \cup {"stream"}
  BY <1>1, CrossStep
<1>3. step \in Watching /\ step # "init"
  BY <1>2, WordsFit DEF SampleInv, Watching, Early
<1>4. /\ Sampling /\ Counting /\ ila.hw.misc = {CIRCULAR} /\ ila.hw.mask = Triggers
  BY <1>3 DEF SampleInv
<1>5. t = n /\ trail = 0 /\ n + 1 < BufferSize
  <2>1. n < Len(Words) /\ n + 1 < BufferSize
    BY <1>2, WordsFit
  <2>. QED
    BY <1>4, <2>1 DEF Counting
<1>6. /\ Sampling' /\ Len(taken') = n + 1
      /\ \A i \in 1 .. n : taken'[i] = taken[i]
      /\ taken'[n + 1] = v
      /\ ila'.hw.misc = {CIRCULAR} /\ ila'.hw.mask = Triggers
  BY <1>1, <1>2, <1>4, <1>5, SampleTaken
<1>7. Counting'
  <2>1. \A i \in 1 .. n : taken[i] = Words[i]
    BY <1>4 DEF Counting
  <2>2. n + 1 <= Len(Words) /\ Trail \in Nat /\ n \in Nat
    BY <1>2, WordsFit
  <2>. HIDE DEF n, t, v
  <2>3. \A i \in 1 .. n + 1 : taken'[i] = Words[i]
    BY <1>2, <1>6, <2>1, <2>2
  <2>. QED
    BY <1>1, <1>2, <1>5, <1>6, <2>2, <2>3 DEF Counting
<1>8. step' \in Watching /\ step' # "init" /\ step' \notin Early
      /\ (step' \notin Early \cup {"stream", "last", "wait"} => sutIn'.nwords = Len(Words))
  <2>1. step \notin Early \cup {"stream", "last", "wait"} => n = Len(Words)
    BY DEF SampleInv
  <2>. QED
    BY <1>1, <1>2, <1>3, <2>1, WordsFit
<1>. QED
  BY <1>6, <1>7, <1>8 DEF SampleInv

(* The monitor samples its trail as long as the triggers are enabled. *)
LEMMA TrailSampledStep ==
  ASSUME ControlInv, SendInv, SampleInv, TrailSampled
  PROVE  SampleInv'
<1>. DEFINE n == sutIn.nwords
            t == Len(taken)
<1>1. /\ UNCHANGED <<step, sut, sutIn>> /\ trail > 0 /\ trail' = trail - 1 /\ Sample(Mark)
  BY DEF TrailSampled, streamVars
<1>2. /\ Sampling /\ Counting /\ n \in 0 .. Len(Words) /\ trail \in 0 .. Trail
  BY DEF SampleInv, Counting, SendInv, SutInType
<1>3. /\ n = Len(Words) /\ n <= t /\ t + trail <= n + Trail
      /\ \A i \in 1 .. n : taken[i] = Words[i]
  BY <1>1, <1>2, WordsFit DEF Counting
<1>4. t \in Nat /\ n \in Nat /\ trail \in Nat /\ Trail \in Nat
  BY <1>2, WordsFit, LenProperties DEF Sampling
<1>5. step # "init"
  <2>1. step = "init" => n = 0
    BY DEF SendInv, Early
  <2>. QED
    BY <1>3, <2>1, WordsFit
<1>6. CASE step \in Watching
  <2>1. ila.hw.misc = {CIRCULAR} /\ ila.hw.mask = Triggers
    BY <1>5, <1>6 DEF SampleInv
  <2>2. t + 1 < BufferSize
    <3>. HIDE DEF n, t
    <3>. QED
      BY <1>1, <1>3, <1>4, WordsFit
  <2>3. /\ Sampling' /\ Len(taken') = t + 1
        /\ \A i \in 1 .. t : taken'[i] = taken[i]
        /\ ila'.hw.misc = {CIRCULAR} /\ ila'.hw.mask = Triggers
    BY <1>1, <1>2, <2>1, <2>2, SampleTaken DEF Mark
  <2>4. Counting'
    <3>1. sutIn'.nwords = n
      BY <1>1
    <3>. HIDE DEF n, t
    <3>2. \A i \in 1 .. n : taken'[i] = Words[i]
      BY <1>3, <1>4, <2>3
    <3>3. n <= t + 1 /\ (t + 1) + (trail - 1) <= n + Trail /\ trail - 1 \in 0 .. Trail
          /\ ~(n < Len(Words))
      BY <1>1, <1>2, <1>3, <1>4
    <3>. QED
      BY <1>1, <2>3, <3>1, <3>2, <3>3 DEF Counting
  <2>5. step' \notin Early /\ step' = step
    BY <1>1, <1>6 DEF Watching, Early
  <2>. QED
    BY <1>1, <1>3, <1>5, <1>6, <2>3, <2>4, <2>5 DEF SampleInv
<1>7. CASE step \notin Watching
  <2>1. ila' = ila /\ taken' = taken
    BY <1>1, <1>7, NothingSampled DEF SampleInv, Sampling
  <2>2. Counting'
    <3>1. trail - 1 \in 0 .. Trail /\ t + (trail - 1) <= n + Trail /\ ~(n < Len(Words))
      <4>. HIDE DEF n, t
      <4>. QED
        BY <1>1, <1>2, <1>3, <1>4
    <3>. QED
      BY <1>1, <1>3, <2>1, <3>1 DEF Counting
  <2>3. Sampling' /\ step' = step /\ sutIn' = sutIn
    BY <1>1, <1>2, <2>1 DEF Sampling
  <2>. QED
    BY <2>1, <2>2, <2>3 DEF SampleInv
<1>. QED
  BY <1>6, <1>7


---------------------------------------------------------------------------------
(* The samples printed and put out *)

(* The cursor of the analyser is set, or goes round. *)
LEMMA CursorSet ==
  ASSUME SampleInv, step # "init", NEW i \in Index, ila' = [ila EXCEPT !.hw.index = i],
         UNCHANGED <<taken, trail>>, sutIn'.nwords = sutIn.nwords,
         step' \notin Early \cup Watching, step \notin Early \cup Watching
  PROVE  SampleInv' /\ ila'.hw.index = i /\ ila'.hw.samples = ila.hw.samples
<1>. DEFINE w == [ila.hw EXCEPT !.index = i]
<1>1. ila \in IlaType /\ ila.hw \in HwType
  BY DEF SampleInv, Sampling, IlaType
<1>2. /\ w \in HwType /\ w.mask = ila.hw.mask /\ w.misc = ila.hw.misc
      /\ w.count = ila.hw.count /\ w.samples = ila.hw.samples /\ w.index = i
  BY <1>1 DEF HwType
<1>3. ila' = [ila EXCEPT !.hw = w]
  OBVIOUS
<1>. HIDE DEF w
<1>4. ila' \in IlaType /\ ila'.hw = w
  BY <1>1, <1>2, <1>3 DEF IlaType
<1>5. Sampling' /\ Counting'
  BY <1>2, <1>4 DEF SampleInv, Sampling, Counting
<1>. QED
  BY <1>2, <1>4, <1>5 DEF SampleInv, Early, Watching

(* Places around the buffer. *)
LEMMA AroundTheBuffer ==
  ASSUME NEW a \in Index
  PROVE  /\ Around(a, 0) = a
         /\ \A k \in 0 .. BufferSize - 1 :
              /\ Around(a, k) \in Index
              /\ (Around(a, k) + 1) % BufferSize \in Index
              /\ (a + k) % BufferSize = Around(a, k)
              /\ k + 1 < BufferSize => (Around(a, k) + 1) % BufferSize = Around(a, k + 1)
<1>1. BufferSize \in Nat \ {0} /\ a \in 0 .. BufferSize - 1 /\ a \in Nat
  BY WordsFit DEF Index
<1>2. Around(a, 0) = a
  BY <1>1 DEF Around
<1>3. ASSUME NEW k \in 0 .. BufferSize - 1
      PROVE  /\ Around(a, k) \in 0 .. BufferSize - 1
             /\ (Around(a, k) + 1) % BufferSize \in 0 .. BufferSize - 1
             /\ (a + k) % BufferSize = Around(a, k)
             /\ k + 1 < BufferSize => (Around(a, k) + 1) % BufferSize = Around(a, k + 1)
  <2>1. Around(a, k) \in 0 .. BufferSize - 1
    BY <1>1 DEF Around
  <2>2. (a + k) % BufferSize = Around(a, k)
    <3>1. CASE a + k < BufferSize
      <4>1. a + k \in 0 .. BufferSize - 1
        BY <1>1, <3>1
      <4>. QED
        BY <1>1, <3>1, <4>1, Remainders DEF Around
    <3>2. CASE ~(a + k < BufferSize)
      <4>1. a + k \in BufferSize .. 2 * BufferSize - 1
        BY <1>1, <3>2
      <4>. QED
        <5>1. (a + k) % BufferSize = (a + k) - BufferSize
          BY <1>1, <4>1, Remainders
        <5>2. Around(a, k) = (a + k) - BufferSize
          BY <1>1, <3>2 DEF Around
        <5>. QED
          BY <5>1, <5>2
    <3>. QED
      BY <3>1, <3>2
  <2>3. (Around(a, k) + 1) % BufferSize
          = IF Around(a, k) + 1 < BufferSize THEN Around(a, k) + 1 ELSE 0
    <3>1. CASE Around(a, k) + 1 < BufferSize
      <4>1. Around(a, k) + 1 \in 0 .. BufferSize - 1
        BY <1>1, <2>1, <3>1
      <4>. QED
        BY <1>1, <3>1, <4>1, Remainders
    <3>2. CASE ~(Around(a, k) + 1 < BufferSize)
      <4>1. Around(a, k) + 1 = BufferSize /\ BufferSize \in BufferSize .. 2 * BufferSize - 1
        BY <1>1, <2>1, <3>2
      <4>2. BufferSize % BufferSize = BufferSize - BufferSize
        BY <1>1, <4>1, Remainders
      <4>. QED
        BY <1>1, <3>2, <4>1, <4>2
    <3>. QED
      BY <3>1, <3>2
  <2>4. k + 1 < BufferSize =>
          (IF Around(a, k) + 1 < BufferSize THEN Around(a, k) + 1 ELSE 0) = Around(a, k + 1)
    BY <1>1 DEF Around
  <2>. QED
    BY <1>1, <2>1, <2>2, <2>3, <2>4
<1>. QED
  BY <1>2, <1>3 DEF Index

(* The DMA begins with the sample at the cursor. *)
LEMMA PrintBegins ==
  ASSUME ControlInv, SampleInv, PrintInv, PrintStart, dma'.left = BufferSize,
         Len(dma'.data) = 0
  PROVE  SampleInv' /\ PrintInv'
<1>. DEFINE t == ila.hw.count
<1>1. /\ step = "print" /\ step' = "printing" /\ UNCHANGED <<taken, trail, rows, dump, sutIn>>
      /\ latest' = t /\ ila' = [ila EXCEPT !.hw.index = t]
  BY DEF PrintStart, Go, ila_number_samples, ila_set_cursor
<1>2. t \in Index /\ t = Len(taken)
  BY DEF SampleInv, Sampling, IlaType, HwType
<1>3. /\ step # "init" /\ step' \notin Early \cup Watching /\ step \notin Early \cup Watching
      /\ step' \notin Late \cup {"results"} /\ sutIn'.nwords = sutIn.nwords
  BY <1>1 DEF Early, Watching, Late
<1>4. SampleInv' /\ ila'.hw.index = t
  BY <1>1, <1>2, <1>3, CursorSet
<1>5. Around(t, 0) = t
  BY <1>2, AroundTheBuffer
<1>6. PrintInv'
  <2>1. Len(dma'.data) + dma'.left = BufferSize /\ 1 .. Len(dma'.data) = {}
    BY WordsFit
  <2>. HIDE DEF t
  <2>. QED
    BY <1>1, <1>2, <1>3, <1>4, <1>5, <2>1 DEF PrintInv
<1>. QED
  BY <1>4, <1>6

(* A sample that the DMA takes goes behind those before. *)
LEMMA MoveSampleStep ==
  ASSUME ControlInv, SendInv, ReturnInv, SampleInv, PrintInv, MoveSample
  PROVE  SendInv' /\ ReturnInv' /\ SampleInv' /\ PrintInv'
<1>. DEFINE g == dma.data
            j == ila.hw.index
            x == ila.hw.samples[j]
<1>1. /\ UNCHANGED <<step, sut, out, in, sutIn, received, trail, taken, latest, rows, dump>>
      /\ dma.left > 0 /\ dma.direction = 1 /\ dma.interface = 1
      /\ dma' = [dma EXCEPT !.left = dma.left - 1, !.data = Append(g, x)]
      /\ ila' = [ila EXCEPT !.hw.index = (j + 1) % BufferSize]
  BY DEF MoveSample
<1>2. step = "printing" /\ dma.left \in 1 .. BufferSize /\ g \in Seq(Nat) /\ Len(g) \in Nat
  BY <1>1, WordsFit, LenProperties DEF SendInv, ReturnInv, DmaType
<1>3. /\ Len(g) + dma.left = BufferSize /\ latest \in Index /\ latest = Len(taken)
      /\ j = Around(latest, Len(g))
      /\ \A k \in 1 .. Len(g) : g[k] = ila.hw.samples[Around(latest, k - 1)]
  BY <1>2, WordsFit DEF PrintInv
<1>4. Len(g) \in 0 .. BufferSize - 1 /\ dma.left - 1 \in 0 .. BufferSize
      /\ (Len(g) + 1) + (dma.left - 1) = BufferSize
      /\ (dma.left - 1 # 0 => Len(g) + 1 < BufferSize)
  <2>1. Len(g) + dma.left = BufferSize
    BY <1>3
  <2>. HIDE DEF g
  <2>. QED
    BY <1>2, <2>1, WordsFit
<1>5. /\ j \in Index /\ (j + 1) % BufferSize \in Index
      /\ dma.left - 1 # 0 => (j + 1) % BufferSize = Around(latest, Len(g) + 1)
  <2>. HIDE DEF g, j
  <2>. QED
    BY <1>3, <1>4, AroundTheBuffer
<1>6. x \in Nat
  BY <1>5 DEF SampleInv, Sampling, IlaType, HwType
<1>7. /\ Append(g, x) \in Seq(Nat) /\ Len(Append(g, x)) = Len(g) + 1
      /\ \A k \in 1 .. Len(g) : Append(g, x)[k] = g[k]
      /\ Append(g, x)[Len(g) + 1] = x
  BY <1>2, <1>6, AppendProperties
<1>8. /\ dma' \in DmaType /\ dma'.left = dma.left - 1 /\ dma'.data = Append(g, x)
      /\ dma'.direction = 1 /\ dma'.interface = 1
  BY <1>1, <1>4, <1>7 DEF ReturnInv, DmaType
<1>9. /\ step # "init" /\ step' \notin Early \cup Watching /\ step \notin Early \cup Watching
      /\ step' \notin Late \cup {"results"} /\ sutIn'.nwords = sutIn.nwords /\ step' = "printing"
  BY <1>1, <1>2 DEF Early, Watching, Late
<1>10. SampleInv' /\ ila'.hw.index = (j + 1) % BufferSize /\ ila'.hw.samples = ila.hw.samples
  BY <1>1, <1>5, <1>9, CursorSet
<1>11. SendInv'
  BY <1>1, <1>2 DEF SendInv
<1>12. ReturnInv'
  BY <1>1, <1>8, <1>9 DEF ReturnInv
<1>13. PrintInv'
  <2>. HIDE DEF g, x, j
  <2>1. \A k \in 1 .. Len(g) + 1 :
          Append(g, x)[k] = ila'.hw.samples[Around(latest, k - 1)]
    <3>1. ASSUME NEW k \in 1 .. Len(g) + 1
          PROVE  Append(g, x)[k] = ila'.hw.samples[Around(latest, k - 1)]
      <4>1. CASE k \in 1 .. Len(g)
        BY <1>3, <1>7, <1>10, <4>1
      <4>2. CASE k = Len(g) + 1
        <5>1. (Len(g) + 1) - 1 = Len(g)
          BY <1>2
        <5>2. Append(g, x)[k] = x /\ Around(latest, k - 1) = j
          BY <1>3, <1>7, <4>2, <5>1
        <5>. QED
          BY <1>10, <5>2 DEF x
      <4>. QED
        BY <1>2, <4>1, <4>2
    <3>. QED
      BY <3>1
  <2>. QED
    BY <1>1, <1>3, <1>4, <1>5, <1>7, <1>8, <1>9, <1>10, <2>1, ZenonT(30) DEF PrintInv
<1>. QED
  BY <1>10, <1>11, <1>12, <1>13


(* The rows are the samples: the last ones that the DMA has copied. *)
LEMMA PrintRowsStep ==
  ASSUME ControlInv, ReturnInv, SampleInv, PrintInv, PrintRows
  PROVE  PrintInv'
<1>. DEFINE g == dma.data
            t == Len(taken)
            r == [i \in 1 .. t |-> Copied(BufferSize - t + i)]
<1>1. /\ step = "printing" /\ step' = "results" /\ UNCHANGED <<dma, latest, taken, dump, ila>>
      /\ dma.left = 0 /\ rows' = [i \in 1 .. latest |-> Copied(BufferSize - latest + i)]
  BY DEF PrintRows, Go, dma_transfer_ready, streamVars
<1>2. /\ g \in Seq(Nat) /\ Len(g) = BufferSize /\ latest = t /\ t \in Index
      /\ \A k \in 1 .. Len(g) : g[k] = ila.hw.samples[Around(t, k - 1)]
  <2>1. dma.data \in Seq(Nat) /\ Len(g) \in Nat /\ dma.left = 0
    BY <1>1, LenProperties DEF ReturnInv, DmaType
  <2>2. Len(g) + 0 = BufferSize
    BY <1>1 DEF PrintInv
  <2>3. Len(g) = BufferSize
    <3>. HIDE DEF g
    <3>. QED
      BY <2>1, <2>2
  <2>. QED
    BY <1>1, <2>1, <2>3 DEF PrintInv
<1>3. t \in Nat /\ t < BufferSize /\ BufferSize \in Nat
  BY <1>2, WordsFit DEF Index
<1>4. ASSUME NEW i \in 1 .. t
      PROVE  Copied(BufferSize - t + i) = taken[i]
  <2>. HIDE DEF g, t
  <2>1. /\ BufferSize - t + i \in 1 .. BufferSize
        /\ Around(t, (BufferSize - t + i) - 1) = i - 1
        /\ i - 1 \in Index /\ i - 1 < t /\ (i - 1) + 1 = i
    BY <1>3 DEF Around, Index
  <2>2. Copied(BufferSize - t + i) = g[BufferSize - t + i]
    BY <1>2, <1>3, <2>1 DEF Copied, g
  <2>3. g[BufferSize - t + i] = ila.hw.samples[i - 1]
    BY <1>2, <2>1
  <2>4. ila.hw.samples[i - 1] = taken[(i - 1) + 1]
    BY <2>1 DEF SampleInv, Sampling, t
  <2>. QED
    BY <2>1, <2>2, <2>3, <2>4
<1>5. r = taken
  <2>1. taken \in Seq(Nat) /\ taken = [i \in 1 .. t |-> taken[i]]
    BY DEF SampleInv, Sampling
  <2>. HIDE DEF t
  <2>. QED
    BY <1>4, <2>1
<1>6. rows' = taken
  BY <1>1, <1>2, <1>5
<1>. QED
  BY <1>1, <1>6 DEF PrintInv, Late

(* The dump begins with what is not yet sampled and ends with the latest    *)
(* sample.                                                                 *)
LEMMA OutputStep ==
  ASSUME ControlInv, SampleInv, PrintInv, Output
  PROVE  PrintInv'
<1>. DEFINE t == Len(taken)
            blank == [i \in 1 .. BufferSize - t |-> NoSample]
            d == [k \in 1 .. BufferSize |-> ila.hw.samples[(t + k - 1) % BufferSize]]
<1>1. /\ step = "output" /\ step' = "timer" /\ UNCHANGED <<dma, latest, taken, rows, ila>>
      /\ dump' = ila_output_data(ila, t, DumpEnd(t))
  BY DEF Output, Go, ila_number_samples, streamVars, SampleInv, Sampling
<1>2. t \in 1 .. BufferSize - 1 /\ taken \in Seq(Nat) /\ BufferSize \in Nat \ {0} /\ t \in Nat
  <2>1. t \in Index /\ taken \in Seq(Nat)
    BY DEF SampleInv, Sampling, IlaType, HwType
  <2>2. sutIn.nwords = Len(Words)
    BY <1>1 DEF SampleInv, Early
  <2>3. Len(Words) <= t
    BY <2>2 DEF SampleInv, Counting
  <2>. HIDE DEF t
  <2>. QED
    BY <2>1, <2>3, WordsFit DEF Index
<1>3. DumpEnd(t) = t - 1 /\ (((t - 1) - t) % BufferSize) + 1 = BufferSize
  <2>1. t - 1 \in 0 .. BufferSize - 1 /\ (t - 1) - t = 0 - 1
    BY <1>2
  <2>2. /\ (t - 1) % BufferSize = t - 1
        /\ (0 - 1) % BufferSize = BufferSize - 1
    <3>. HIDE DEF t
    <3>1. BufferSize \in Nat \ {0}
      BY <1>2
    <3>. QED
      BY <2>1, <3>1, Remainders, Zenon
  <2>3. DumpEnd(t) = (t - 1) % BufferSize
    BY DEF DumpEnd
  <2>4. ((t - 1) - t) % BufferSize = BufferSize - 1
    BY <2>1, <2>2, Zenon
  <2>5. BufferSize - 1 + 1 = BufferSize
    BY <1>2
  <2>. HIDE DEF t
  <2>. QED
    BY <2>2, <2>3, <2>4, <2>5
<1>4. dump' = d
  BY <1>1, <1>3 DEF ila_output_data
<1>5. /\ blank \in Seq(Nat) /\ Len(blank) = BufferSize - t
  BY <1>2 DEF NoSample
<1>6. /\ blank \o taken \in Seq(Nat) /\ Len(blank \o taken) = BufferSize
      /\ \A k \in 1 .. BufferSize :
           (blank \o taken)[k] = IF k <= BufferSize - t THEN NoSample
                                 ELSE taken[k - (BufferSize - t)]
  <2>1. /\ blank \o taken \in Seq(Nat) /\ Len(blank \o taken) = Len(blank) + t
        /\ \A k \in 1 .. Len(blank) + t :
             (blank \o taken)[k] = IF k <= Len(blank) THEN blank[k]
                                   ELSE taken[k - Len(blank)]
    BY <1>2, <1>5, ConcatProperties, SMTT(30)
  <2>2. (BufferSize - t) + t = BufferSize /\ \A k \in 1 .. BufferSize : k <= BufferSize - t =>
                                               blank[k] = NoSample
    BY <1>2
  <2>. HIDE DEF blank, t
  <2>. QED
    BY <1>5, <2>1, <2>2
<1>7. ASSUME NEW k \in 1 .. BufferSize
      PROVE  d[k] = IF k <= BufferSize - t THEN NoSample ELSE taken[k - (BufferSize - t)]
  <2>1. d[k] = ila.hw.samples[Around(t, k - 1)] /\ Around(t, k - 1) \in Index
    <3>1. k - 1 \in 0 .. BufferSize - 1 /\ t \in Index /\ t + k - 1 = t + (k - 1)
      BY <1>2 DEF Index
    <3>2. (t + (k - 1)) % BufferSize = Around(t, k - 1) /\ Around(t, k - 1) \in Index
      BY <3>1, AroundTheBuffer
    <3>. QED
      BY <3>1, <3>2
  <2>2. d[k] = IF Around(t, k - 1) < t THEN taken[Around(t, k - 1) + 1] ELSE NoSample
    BY <2>1 DEF SampleInv, Sampling
  <2>3. IF k <= BufferSize - t THEN ~(Around(t, k - 1) < t)
        ELSE Around(t, k - 1) < t /\ Around(t, k - 1) + 1 = k - (BufferSize - t)
    BY <1>2 DEF Around
  <2>. HIDE DEF d, t
  <2>. QED
    BY <2>2, <2>3
<1>8. d = blank \o taken
  <2>1. d = [k \in 1 .. BufferSize |-> d[k]]
    OBVIOUS
  <2>3. blank \o taken = [k \in 1 .. BufferSize |-> (blank \o taken)[k]]
    <3>. HIDE DEF blank
    <3>. DEFINE z == blank \o taken
    <3>1. z \in Seq(Nat) /\ Len(z) = BufferSize
      BY <1>6
    <3>. HIDE DEF z
    <3>2. z = [k \in 1 .. BufferSize |-> z[k]]
      BY <3>1
    <3>. QED
      BY <3>2 DEF z
  <2>2. \A k \in 1 .. BufferSize : d[k] = (blank \o taken)[k]
    BY <1>6, <1>7
  <2>. HIDE DEF d, blank
  <2>. QED
    BY <2>1, <2>2, <2>3
<1>9. PrintInv'
  <2>1. dump' = [i \in 1 .. BufferSize - Len(taken) |-> NoSample] \o taken
    BY <1>4, <1>8
  <2>2. rows = taken /\ latest \in Index
    BY <1>1 DEF PrintInv, Late
  <2>. HIDE DEF d, blank, t
  <2>. QED
    BY <1>1, <2>1, <2>2 DEF PrintInv
<1>. QED
  BY <1>9


(* The steps that leave what is printed and the DMA alone. *)
LEMMA PrintFrame ==
  ASSUME PrintInv, UNCHANGED <<latest, taken, rows, dump>>,
         \/ /\ step' = step
            /\ \/ step # "printing"
               \/ UNCHANGED dma /\ ila'.hw.index = ila.hw.index
                  /\ ila'.hw.samples = ila.hw.samples
         \/ step \notin Late \cup {"results"} /\ step' \notin Late \cup {"results", "printing"}
         \/ step = "results" /\ step' = "receive"
         \/ step \in {"receive", "receiving"} /\ step' \in {"receiving", "output"}
         \/ /\ step \in Late \ {"receive", "receiving", "output"}
            /\ step' \in Late \ {"receive", "receiving", "output"}
  PROVE  PrintInv'
BY DEF PrintInv, Late

---------------------------------------------------------------------------------
(* All steps *)

DataInv == SendInv /\ ReturnInv /\ SampleInv /\ PrintInv

(* The steps of main with the streams and the analyser keep their data in   *)
(* order.                                                                  *)
LEMMA DataStepMain ==
  ASSUME ControlInv, DataInv,
         Setup \/ Enable \/ StreamOut \/ Wait \/ Disable \/ PrintStart \/ PrintRows
               \/ StreamIn \/ Output
  PROVE  DataInv'
<1>. USE DEF DataInv
<1>1. CASE Setup
  <2>1. UNCHANGED <<streamVars, sut, latest, taken, rows, dump>> /\ step = "init" /\ step' = "write"
    BY <1>1 DEF Setup, Go
  <2>2. SendInv' /\ ReturnInv'
    BY <2>1, StreamFrame DEF Early
  <2>3. PrintInv'
    BY <2>1, PrintFrame DEF Late
  <2>. QED
    BY <1>1, <2>2, <2>3, SetupStep
<1>2. CASE Enable
  <2>1. UNCHANGED <<streamVars, sut, latest, taken, rows, dump>> /\ step = "enable" /\ step' = "stream"
    BY <1>2 DEF Enable, Go
  <2>2. SendInv' /\ ReturnInv'
    BY <2>1, StreamFrame
  <2>3. PrintInv'
    BY <2>1, PrintFrame DEF Late
  <2>. QED
    BY <1>2, <2>2, <2>3, MaskStep
<1>3. CASE StreamOut
  <2>1. /\ UNCHANGED <<sut, ila, trail, sutIn, latest, taken, rows, dump>>
        /\ \/ Go("stream", "last") /\ SendByDma
           \/ Go("last", "wait") /\ SendLast
    BY <1>3 DEF StreamOut, ilaVars, SendByDma, SendLast
  <2>2. SendInv' /\ ReturnInv'
    BY <2>1, SendByDmaStep, SendLastStep
  <2>3. SampleInv'
    BY <2>1, SampleFrame DEF Go, Watching
  <2>4. PrintInv'
    BY <2>1, PrintFrame DEF Go, Late
  <2>. QED
    BY <2>2, <2>3, <2>4
<1>4. CASE Wait
  <2>1. UNCHANGED <<streamVars, sut, latest, taken, rows, dump>> /\ step = "wait" /\ step' = "disable"
    BY <1>4 DEF Wait, Go, ilaVars
  <2>2. SendInv' /\ ReturnInv'
    BY <2>1, StreamFrame
  <2>3. PrintInv'
    BY <2>1, PrintFrame DEF Late
  <2>. QED
    BY <1>4, <2>2, <2>3, WaitStep
<1>5. CASE Disable
  <2>1. UNCHANGED <<streamVars, sut, latest, taken, rows, dump>> /\ step = "disable" /\ step' = "print"
    BY <1>5 DEF Disable, Go
  <2>2. SendInv' /\ ReturnInv'
    BY <2>1, StreamFrame
  <2>3. PrintInv'
    BY <2>1, PrintFrame DEF Late
  <2>. QED
    BY <1>5, <2>2, <2>3, MaskStep
<1>6. CASE PrintStart
  BY <1>6, PrintStartStep, PrintBegins
<1>7. CASE PrintRows
  <2>1. /\ UNCHANGED <<streamVars, sut, sutIn, ila, trail, taken>>
        /\ step = "printing" /\ step' = "results" /\ dma.left = 0
    BY <1>7 DEF PrintRows, Go, dma_transfer_ready, streamVars
  <2>2. SendInv' /\ ReturnInv'
    BY <2>1, StreamFrame
  <2>3. SampleInv'
    BY <2>1, SampleFrame DEF Early, Watching
  <2>. QED
    BY <1>7, <2>2, <2>3, PrintRowsStep
<1>8. CASE StreamIn
  <2>1. /\ UNCHANGED <<sut, ila, trail, sutIn, latest, taken, rows, dump>>
        /\ step \in {"receive", "receiving"} /\ step' \in {"receiving", "output"}
    BY <1>8 DEF StreamIn, ilaVars, ReceiveByDma, ReceiveDone, Go
  <2>2. SendInv' /\ ReturnInv'
    BY <1>8, ReceiveStep
  <2>3. SampleInv'
    BY <2>1, SampleFrame DEF Early, Watching
  <2>4. PrintInv'
    BY <2>1, PrintFrame
  <2>. QED
    BY <2>2, <2>3, <2>4
<1>9. CASE Output
  <2>1. /\ UNCHANGED <<streamVars, sut, sutIn, ila, trail, taken>>
        /\ step = "output" /\ step' = "timer"
    BY <1>9 DEF Output, Go, streamVars
  <2>2. SendInv' /\ ReturnInv'
    BY <2>1, StreamFrame DEF Late
  <2>3. SampleInv'
    BY <2>1, SampleFrame DEF Early, Watching
  <2>. QED
    BY <1>9, <2>2, <2>3, OutputStep
<1>. QED
  BY <1>1, <1>2, <1>3, <1>4, <1>5, <1>6, <1>7, <1>8, <1>9

(* So do the SUT and the hardware. *)
LEMMA DataStepOthers ==
  ASSUME ControlInv, DataInv, Sut \/ Hardware
  PROVE  DataInv'
<1>. USE DEF DataInv
<1>1. CASE SutStart
  <2>1. /\ UNCHANGED <<step, dma, ila, trail, latest, taken, rows, dump>>
        /\ sutIn' = [sutIn EXCEPT !.enabled = TRUE]
    BY <1>1 DEF SutStart, SutEnable, ilaVars
  <2>2. sutIn'.nwords = sutIn.nwords
    BY <2>1 DEF SendInv, SutInType
  <2>. QED
    BY <1>1, <2>1, <2>2, SutStartStep, SampleFrame, PrintFrame
<1>2. CASE SutRun
  <2>1. /\ UNCHANGED <<step, ila, trail, latest, taken, rows, dump>> /\ step = "results"
    BY <1>2 DEF SutRun, ilaVars
  <2>2. sutIn.nwords = Len(Words)
    BY <2>1 DEF SampleInv, Early
  <2>3. SendInv' /\ ReturnInv' /\ sutIn'.nwords = sutIn.nwords
    BY <1>2, <2>2, SutRunStep
  <2>. QED
    BY <2>1, <2>3, SampleFrame, PrintFrame
<1>3. CASE CrossSampled
  <2>1. /\ Cross /\ UNCHANGED <<step, sut, latest, rows, dump>> /\ Sample(Head(out.fifo))
    BY <1>3 DEF CrossSampled
  <2>2. SendInv' /\ ReturnInv' /\ sutIn.nwords \in 0 .. Len(Words) - 1
    BY <2>1, CrossStep
  <2>3. SampleInv'
    BY <1>3, CrossSampledStep
  <2>4. step \in Watching \cup Early
    BY <2>2, WordsFit DEF SampleInv, Watching
  <2>5. PrintInv'
    BY <2>1, <2>4 DEF PrintInv, Watching, Early, Late
  <2>. QED
    BY <2>2, <2>3, <2>5
<1>4. CASE TrailSampled
  <2>1. /\ UNCHANGED <<streamVars, step, sut, latest, rows, dump>> /\ Sample(Mark)
    BY <1>4 DEF TrailSampled
  <2>2. SendInv' /\ ReturnInv'
    BY <2>1, StreamFrame
  <2>3. SampleInv'
    BY <1>4, TrailSampledStep
  <2>4. CASE step \in Watching
    BY <2>1, <2>2, <2>3, <2>4 DEF PrintInv, Watching, Late
  <2>5. CASE step \notin Watching
    <3>1. ila' = ila /\ taken' = taken /\ dma' = dma
      BY <2>1, <2>5, NothingSampled DEF SampleInv, Sampling, streamVars
    <3>. QED
      BY <2>1, <2>2, <2>3, <3>1, PrintFrame
  <2>. QED
    BY <2>4, <2>5
<1>5. CASE MoveStream
  <2>1. /\ UNCHANGED <<step, sut, ila, trail, latest, taken, rows, dump>>
        /\ sutIn' = sutIn /\ (MoveOut \/ MoveIn)
    BY <1>5 DEF MoveStream, MoveOut, MoveIn, ilaVars
  <2>2. SendInv' /\ ReturnInv'
    BY <2>1, MoveOutStep, MoveInStep
  <2>3. SampleInv'
    BY <2>1, SampleFrame
  <2>4. step # "printing"
    BY <2>1 DEF MoveOut, MoveIn, ReturnInv
  <2>. QED
    BY <2>1, <2>2, <2>3, <2>4, PrintFrame
<1>6. CASE MoveSample
  BY <1>6, MoveSampleStep
<1>. QED
  BY <1>1, <1>2, <1>3, <1>4, <1>5, <1>6 DEF Sut, Hardware

(* The steps with the other peripherals leave the data of these alone. *)
LEMMA DataStep ==
  ASSUME ControlInv, DataInv, [Next]_vars
  PROVE  DataInv'
<1>1. ASSUME UNCHANGED <<streamVars, ilaVars, sut>>,
             \/ step' = step
             \/ step \in Early \ {"init", "enable"} /\ step' \in Early \ {"init"}
             \/ step = "results" /\ step' = "receive"
             \/ /\ step \in Late \ {"receive", "receiving", "output"}
                /\ step' \in Late \ {"receive", "receiving", "output"}
      PROVE  DataInv'
  <2>1. UNCHANGED <<sutIn, dma, ila, trail, latest, taken, rows, dump>>
    BY <1>1 DEF streamVars, ilaVars
  <2>2. SendInv' /\ ReturnInv'
    BY <1>1, StreamFrame DEF DataInv, Early, Late
  <2>3. SampleInv'
    BY <1>1, <2>1, SampleFrame DEF DataInv, Early, Late, Watching
  <2>4. PrintInv'
    BY <1>1, <2>1, PrintFrame DEF DataInv, Early, Late
  <2>. QED
    BY <2>2, <2>3, <2>4 DEF DataInv
<1>2. CASE UNCHANGED vars
  BY <1>1, <1>2 DEF vars
<1>3. CASE Write \/ pfsm_program \/ ila_monitor_program
  BY <1>1, <1>3 DEF Write, pfsm_program, ila_monitor_program, ProgramMachine, Go, Early
<1>4. CASE Results \/ TimerInit \/ TimerSample \/ TimerHigh \/ TimerLow \/ GpioTest
           \/ TestFails
  BY <1>1, <1>4 DEF Results, TimerInit, TimerSample, TimerHigh, TimerLow, GpioTest,
     TestFails, Go, Late
<1>5. CASE Tick
  BY <1>1, <1>5 DEF Tick
<1>. QED
  BY <1>2, <1>3, <1>4, <1>5, DataStepMain, DataStepOthers DEF Next, Main, Ended
---------------------------------------------------------------------------------
(* The invariant *)

Inv == ControlInv /\ RegInv /\ PfsmInv /\ TimerInv /\ DataInv

(* The invariant holds initially: nothing has been sent, sampled, written   *)
(* or programmed.                                                          *)
LEMMA InvInit == Init => Inv
<1>. SUFFICES ASSUME Init
              PROVE  Inv
  OBVIOUS
<1>1. ControlInv
  BY DEF Init, ControlInv, Steps, Order, Early, Late
<1>2. RegInv
  BY DEF Init, RegInv, Late
<1>3. PfsmInv
  <2>1. BufferBytes \in Nat
    BY BitstreamAssumption
  <2>2. buffer \in [1 .. BufferBytes -> Nat] /\ current.minor \in Machines
    BY DEF Init, Machines
  <2>3. DOMAIN machines = Machines /\ \A d \in Machines : machines[d] = Unprogrammed
    BY DEF Init
  <2>4. /\ Unprogrammed = [lut |-> Unprogrammed.lut, state |-> Unprogrammed.state]
        /\ DOMAIN Unprogrammed.lut = Table
    BY DEF Unprogrammed, Table
  <2>. QED
    BY <2>2, <2>3, <2>4 DEF Init, PfsmInv
<1>4. TimerInv
  BY CountAssumption DEF Init, TimerInv
<1>5. SendInv
  <2>1. Part(<<>>, 0)
    BY WordsFit, EmptySeq DEF Part
  <2>2. /\ out = [fifo |-> <<>>, mode |-> "swreg"]
        /\ sutIn = [fifo |-> <<>>, enabled |-> FALSE, nwords |-> 0]
        /\ step = "init" /\ sut = "boot"
    BY DEF Init, StreamsInit
  <2>. QED
    BY <2>1, <2>2, WordsFit, EmptySeq DEF SendInv, OutType, SutInType, Early
<1>6. ReturnInv
  <2>1. /\ in = [fifo |-> <<>>, mode |-> "swreg", nwords |-> 0]
        /\ dma = [direction |-> 0, interface |-> 0, left |-> 0, data |-> <<>>]
        /\ received = <<>> /\ step = "init" /\ sut = "boot"
    BY DEF Init, StreamsInit, NoTransfer
  <2>. QED
    BY <2>1, WordsFit, EmptySeq DEF ReturnInv, InType, DmaType, Late
<1>7. SampleInv
  <2>1. ila = Quiet({}) /\ trail = 0 /\ taken = <<>> /\ step = "init" /\ sutIn.nwords = 0
    BY DEF Init, StreamsInit, PowerUp, Quiet, QuietHw, NoSamples
  <2>2. /\ ila.hw.mask = {} /\ ila.hw.count = 0 /\ ila.hw.samples = NoSamples
        /\ ila \in IlaType
    <3>1. /\ ila = [type |-> {}, negate |-> {}, mask |-> {}, misc |-> {}, hw |-> QuietHw({})]
          /\ QuietHw({}) = [type |-> {}, negate |-> {}, mask |-> {}, misc |-> {},
                            samples |-> NoSamples, count |-> 0, index |-> 0]
      BY <2>1 DEF Quiet, QuietHw
    <3>2. NoSamples \in [Index -> Nat] /\ 0 \in Index
      BY WordsFit DEF NoSamples, Index, NoSample
    <3>3. QuietHw({}) \in HwType
      BY <3>1, <3>2 DEF HwType
    <3>. QED
      BY <3>1, <3>3 DEF IlaType
  <2>3. Sampling
    BY <2>1, <2>2, EmptySeq DEF Sampling, NoSamples
  <2>4. Counting
    BY <2>1, WordsFit, EmptySeq DEF Counting
  <2>. QED
    BY <2>1, <2>2, <2>3, <2>4 DEF SampleInv, Early, Watching
<1>8. PrintInv
  BY WordsFit DEF Init, PrintInv, Index, Late
<1>. QED
  BY <1>1, <1>2, <1>3, <1>4, <1>5, <1>6, <1>7, <1>8 DEF Inv, DataInv

(* Every step of main, of the SUT and of the hardware keeps the invariant.  *)
LEMMA InvStep == Inv /\ [Next]_vars => Inv'
<1>. SUFFICES ASSUME Inv, [Next]_vars
              PROVE  Inv'
  OBVIOUS
<1>. QED
  BY ControlStep, RegStep, PfsmStep, TimerStep, DataStep DEF Inv

(* The invariant of the verification under Linux. *)
THEOREM DevicesInvariant == Spec => []Inv
<1>. QED
  BY InvInit, InvStep, PTL DEF Spec

---------------------------------------------------------------------------------
(* What follows *)

(* Each state machine holds its own bitstream once both are programmed.     *)
THEOREM EachHasItsBitstream == Spec => []BitstreamsInPlace
<1>1. Inv => BitstreamsInPlace
  <2>. SUFFICES ASSUME Inv, After("monitor")
                PROVE  \A d \in Machines : InPlace(d)
    BY DEF BitstreamsInPlace, InPlace
  <2>1. step \notin {"init", "write", "pfsm", "monitor"}
    BY StepsAfter DEF Inv, ControlInv
  <2>. QED
    BY <2>1 DEF Inv, PfsmInv, Machines
<1>. QED
  BY <1>1, DevicesInvariant, PTL

(* The Tester gets back the words that it has sent, in their order. *)
THEOREM TheWordsComeBack == Spec => []WordsComeBack
<1>1. Inv => WordsComeBack
  BY StepsAfter DEF Inv, ControlInv, DataInv, ReturnInv, WordsComeBack
<1>. QED
  BY <1>1, DevicesInvariant, PTL

(* The samples printed are those taken, and the words come first.           *)
THEOREM TheRowsAreTheSamples == Spec => []RowsAreTheSamples
<1>1. Inv => RowsAreTheSamples
  <2>. SUFFICES ASSUME Inv, After("printing")
                PROVE  /\ rows = taken
                       /\ Len(rows) >= Len(Words) /\ SubSeq(rows, 1, Len(Words)) = Words
    BY DEF RowsAreTheSamples
  <2>1. step \in Late \cup {"results"}
    BY StepsAfter DEF Inv, ControlInv
  <2>2. rows = taken /\ taken \in Seq(Nat) /\ sutIn.nwords = Len(Words)
    BY <2>1 DEF Inv, DataInv, PrintInv, SampleInv, Sampling, Early, Late
  <2>3. Len(Words) <= Len(taken) /\ \A i \in 1 .. Len(Words) : taken[i] = Words[i]
    BY <2>2 DEF Inv, DataInv, SampleInv, Counting
  <2>4. ASSUME NEW s \in Seq(Nat), Len(Words) <= Len(s),
               \A i \in 1 .. Len(Words) : s[i] = Words[i]
        PROVE  Len(s) >= Len(Words) /\ SubSeq(s, 1, Len(Words)) = Words
    <3>1. /\ SubSeq(s, 1, Len(Words)) \in Seq(Nat)
          /\ Len(SubSeq(s, 1, Len(Words))) = Len(Words)
          /\ \A i \in 1 .. Len(Words) : SubSeq(s, 1, Len(Words))[i] = s[i]
      BY <2>4, WordsFit, SubSeqProperties
    <3>. QED
      BY <2>4, <3>1, WordsFit, SeqEqual
  <2>. QED
    BY <2>2, <2>3, <2>4
<1>. QED
  BY <1>1, DevicesInvariant, PTL

(* ila_data.bin is the whole buffer of the analyser, the oldest first.      *)
THEOREM TheDumpIsTheBuffer == Spec => []DumpIsTheBuffer
<1>1. Inv => DumpIsTheBuffer
  BY StepsAfter DEF Inv, ControlInv, DataInv, PrintInv, DumpIsTheBuffer
<1>. QED
  BY <1>1, DevicesInvariant, PTL

(* Each side reads what the other has written before.                       *)
THEOREM TheReadsAreTheWrites == Spec => []ReadsAreTheWrites
<1>1. Inv => ReadsAreTheWrites
  BY StepsAfter DEF Inv, ControlInv, RegInv, ReadsAreTheWrites
<1>. QED
  BY <1>1, DevicesInvariant, PTL

(* The two halves of the count are those of one value of the counter.       *)
THEOREM TheCountIsCoherent == Spec => []CountIsCoherent
<1>1. Inv => CountIsCoherent
  <2>. SUFFICES ASSUME Inv, After("low")
                PROVE  began <= count /\ count <= timer.counter
    BY DEF CountIsCoherent
  <2>1. step \in {"gpio", "end"}
    BY StepsAfter DEF Inv, ControlInv
  <2>. QED
    BY <2>1, CountAssumption DEF Inv, TimerInv
<1>. QED
  BY <1>1, DevicesInvariant, PTL

(* The types; no FIFO overflows and no cursor leaves the buffer.            *)
THEOREM TypesAreCorrect == Spec => []TypeOK
<1>1. Inv => TypeOK
  <2>. SUFFICES ASSUME Inv
                PROVE  TypeOK
    OBVIOUS
  <2>1. step \in Steps /\ sut \in {"boot", "ready", "done"}
    BY DEF Inv, ControlInv
  <2>2. ila \in IlaType /\ latest \in Index /\ trail \in 0 .. Trail
    BY DEF Inv, DataInv, SampleInv, Sampling, Counting, PrintInv
  <2>3. /\ \A r \in Registers \ {"misc"} :
             ila[r] \subseteq Triggers /\ ila.hw[r] \subseteq Triggers
        /\ ila.misc \subseteq 0 .. 5 /\ ila.hw.misc \subseteq 0 .. 5
        /\ {ila.hw.count, ila.hw.index, latest} \subseteq Index
    BY <2>2 DEF IlaType, HwType, Registers
  <2>4. Len(buffer) = BufferBytes /\ current.minor \in Machines /\ DOMAIN machines = Machines
    BY BitstreamAssumption DEF Inv, PfsmInv
  <2>5. Len(out.fifo) <= FifoDepth
    <3>1. Part(out.fifo, sutIn.nwords)
      BY DEF Inv, DataInv, SendInv
    <3>. QED
      BY <3>1, WordsFit, LenProperties, SMTT(30) DEF Part
  <2>6. Len(in.fifo) <= FifoDepth /\ dma.left \in 0 .. BufferSize
    <3>1. in.fifo \in Seq(Nat) /\ Len(in.fifo) <= Len(Words) /\ dma.left \in 0 .. BufferSize
      BY DEF Inv, DataInv, ReturnInv, InType, DmaType
    <3>. QED
      BY <3>1, WordsFit, LenProperties
  <2>7. /\ timer.counter \in 0 .. MaxCount
        /\ {count, began} \subseteq 0 .. MaxCount
    BY DEF Inv, TimerInv
  <2>. QED
    BY <2>1, <2>2, <2>3, <2>4, <2>5, <2>6, <2>7 DEF TypeOK
<1>. QED
  BY <1>1, DevicesInvariant, PTL
=================================================================================
