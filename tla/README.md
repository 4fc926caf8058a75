# Verification of the IOb-SoC-SUT verification set-up

The repository builds a System Under Test (SUT), a RISC-V system with an
accelerator and peripherals, and a second system, the Tester, that verifies it.
The two run separate programs and are connected by a serial line (UART0 of the
SUT, UART1 of the Tester), an AXI stream, Ethernet, GPIO and a register file.
The hand-written protocol logic of the repository is in the programs at the two
ends of the serial line; beside them there are the libraries with which the Tester
under Linux uses its peripherals, and a Linux driver for the register file of the
SUT. These are what the modules model.

Paths: BOOT is `software/src/iob_soc_sut_boot.c`, FW is
`software/src/iob_soc_sut_firmware.c`, TFW is
`submodules/TESTER/software/src/iob_soc_tester_firmware.c`, TV is
`.../rootfs-overlay/root/tester_verification/tester_verification.c` (the Tester
program for Linux, next to its `iob-uart16550.c` and the peripheral libraries),
DRV is `software/linux/drivers/iob_soc_sut_main.c`; all are under `src/`.

## Inventory

| Component | Source | State | Operations | Status |
|---|---|---|---|---|
| Serial line, UARTs | `iob-uart16550.c/.h`, external library uart16550 | receive FIFO and transmitter of each side | init, putc, puts, getc, sendstr, delivery of a byte | `Link` |
| SUT boot loader, rendezvous | BOOT 125-150 | phase, index of the matching loop | enquire, poll, match | `Handshake` |
| SUT boot loader, loading | BOOT 63-123 and 150-232, recvfile | job, sizes, memory, names and addresses of the configuration | request, size, data, parse | `MemConfig`, `Relay` |
| Tester, rendezvous and relay | TFW 627-677, 808-845; TV 654-697, 770-830 | phase, name and content buffers, relay count | await ENQ, greet, FRX, name, fetch, ACK | `Handshake`, `Relay` |
| SUT firmware | FW | mode, command, configuration of the accelerator, arena, registers | mode, log, setup, command loop | `Framing`, `Exercise` |
| Tester, exercise of the SUT | TFW, TV | suite, verdicts, reading loops | stream, mode, log, tests, end | `Framing`, `Exercise` |
| Known-answer tests, Tester's arena | TFW 103-131 and 280-625, TV 78-643 and 857-909 | text cursor, arena and its marks, tally, selected UART | PushFile, search and decode, send, receive, compare, release, report | `TestVectors` |
| SUT Linux driver | DRV | registration steps, open lock, seek position | load, unload, probe, remove, open, release, read, write, llseek | `SutDriver` |
| Logic analyser library | `iob-ila-user.c`, TV 719-725, 766-815, 952-958, 1014-1042 | copies of the registers, sample buffer, cursor | init, reset, triggers, circular mode, count, cursor, dump | `Ila`, `Devices` |
| State machine library | `iob-pfsm-user.c`, TV 984-1012 | globals of the machine in use, table of each machine | init, program, reset | `Pfsm`, `Devices` |
| Streams and DMA | `iob-dma-user.c`, `iob-axistream-*-user.c`, TV 1045-1101, FW 376-407 | FIFOs and modes, transfer under way | send, transfer, loop back, receive | `Streams`, `Devices` |
| Registers, GPIO, timer | `iob-soc-sut-user.c`, `iob-gpio-user.c`, `iob-timer-user.c` | registers, pins, counter and its sample | write, read, sample, read in halves | `Devices` |
| SPI flash test | `micropython_spi_test.py` | flash content, status | erase, program, read | not modelled |
| Console script | `minicom_tester.txt` | terminal log position | answer file requests | not modelled |
| System generators | `iob_soc_sut.py`, `iob_soc_tester.py` | none at run time | - | not modelled |
| FPGA wrappers | `hardware/fpga/**.v` | wiring | - | not modelled |
| Ethernet, Versat, crypto libraries | submodules without sources | - | - | external: a flag, a parameter |

### How they interact, what is hard

Everything but the registers, the pins and the stream goes through one serial line
**without flow control and without timeouts**. A byte that arrives when the 16-byte FIFO is full is lost; a program
that waits for a byte that was lost waits for ever. Both sides print, configure
hardware or talk to the console between two reads. The line carries in turn:
enquiries, boot messages of Linux and the acknowledge text; file requests, sizes
and contents; texts, binary messages and single-letter commands. No framing
byte is escaped.

The behaviours a test hardly reaches, listed line by line under `hazards` in
`PROJECT.json`, fall in these groups, with the properties that matter:

* *rendezvous*: either program may start first; the acknowledge must be found in
  whatever Linux printed before it, and never be missed by a matching loop that
  does not back up (`AckIsGenuine`, `AckNeverMissed`, `Rendezvous`);
* *loading*: the request can lose bytes in the Tester's FIFO; no wrong file and no
  wrong byte may result, and the SUT must never be sent a byte it is not polling for
  (`RightFile`, `ImplementsFileService`, `ImageIsComplete`, `SutNeverOverruns`);
* *configuration parsing*: a loop with five variables that survive from one line
  to the next and two unchecked indices (`FilesAreTheEntries`, `FitsTheArrays`);
* *phases of the verification*: both sides must agree which kind of Tester it is,
  stay in step through binary data that contains control codes and command
  letters, and reach their ends (`ModeIsAgreed`, `InStep`, `ImplementsSession`,
  `ResultsAreThere`, `Completes`);
* *state kept across commands*: accelerator configuration and arena
  (`ImplementsSession`, `ArenaFits`);
* *known-answer tests*: one arena holds the file that is parsed, what is decoded
  from it and the answers, which are received over the start of that very file; a
  file may break off anywhere, and on bare metal one library serves two UARTs
  (`TextAheadIsIntact`, `InputsAreTheRecords`, `TallyIsOfTheFile`,
  `BytesGoToTheirLine`);
* *peripherals*: registers that cannot be read back, globals shared by two state
  machines, a stream sent half by DMA and half by software, samples that still
  arrive while they are counted and copied, a counter read in two halves
  (`RowsAreTheSamples`, `DumpIsTheBuffer`, `BitstreamsInPlace`, `WordsComeBack`,
  `ReadsAreTheWrites`, `CountIsCoherent`, `Completes` of `Devices`);
* *verdicts*: what counts as a good test (`VerdictsAreRight`);
* *driver*: six resources taken one by one, each of which may fail, while files are
  opened and the module is unloaded (`ReleasedOnce`, `NothingLeaks`,
  `ProbeSucceedsWhole`, `LockIsTheOpener`, `UnloadsUnused`).

## The modules

```
Link -------- Handshake ---- MCHandshake
   \--------- Framing ------ Relay ---- MCRelay
                    \          |\ INSTANCE MemConfig ---- MemConfigLoop ---- MCMemConfig
                     \         \- INSTANCE FileService   (abstract)
                      \----- Exercise - MCExercise
                               \- INSTANCE Session       (abstract)

TestVectors - MCTestVectors

Ila -----\
Pfsm -----+-- Devices - MCDevices
Streams -/

SutDriver --- MCSutDriver
```

The proofs about a module `M` are in `M_proofs`, which extends it: there is one for
`Framing` with `Link` (`Link_proofs`, whose lemmas those of `Handshake`, `Relay` and
`Exercise` use), `Handshake`, `Relay`, `MemConfigLoop`, `Exercise`, `TestVectors`,
`Devices` and `SutDriver`.

**Link** is the line: `rx[p]` is the receive FIFO of side `p`, `tx[p]` what `p` has
put and the line has not delivered. `Transmit` delivers the oldest byte, appends
it if there is room and drops it otherwise; a receiver that is polling at that
moment never overruns, because its read empties the FIFO faster than the line
fills it. `uart16550_putc` waits for the transmitter, so a program goes on only when
at most `InFlight` bytes are under way (`Idle`). On the Linux side `write`
returns when the bytes are in the kernel's buffer, so the Linux runs use an
`InFlight` larger than any message. `Reinit` (`uart16550_init`) may or may not
discard the FIFO: the library is not in the repository, so both are allowed.

**Handshake** is the rendezvous: `sut` follows the two loops of BOOT 136-151,
`matched` is their `i`; the Tester either awaits an ENQ (`TstAwait`) or greets
blindly (`TstGreetBlind`, the wait is commented out in TV); `LinuxBootMessage`
is the text Linux prints on the line first. `heard` and `noise` are history
variables for the properties and the proofs.

**MemConfig** is the parser `compute_mem_load_txt` as a step function on the record
of its local variables; `Turns` gives the variables after each character of a text,
`Parse` those at its end. **MemConfigLoop** runs it one character per step on a text
written from `entries`; `HexValue` and `Values` say what the digits of an address
mean, independently of the parser. `digit` keeps its value as `hexDecimal` does, `outside` records
a write beyond an array, and addresses are taken modulo `AddrMod` (2^32).

**Relay** is the transfer of files: `SutRequest`, `SutSize`, `SutData` and
`SutReceived` are `uart16550_recvfile` and the loop of `console_get_files` around
it; `TstPrint` to `TstAck` are `relay_file_transfer_to_sut`, which `main` calls
twice. The Tester prints between two relays (`TstPrint`) and does not poll.

**Framing** has the three formats of data on the line and the loops that read them,
as functions from the state of a reader and a byte to the next state:
`SmallStep` (`receive_small_string`), `LargeStep` (`receive_large_data`), `FileStep`
(the Tester's side of `uart16550_sendfile`).

**Exercise** is the verification after the firmware has started. The SUT actions
follow `main` and its command loop (FW 284-370); the Tester actions
follow `main` of TFW or TV, which differ in the mode text, the Ethernet transfer,
the newline of `print_ila_samples` and the McEliece form. What the accelerator
answers is the parameter `Replies`.

**FileService** and **Session** are what loading and verification promise when the
line, the framing, the parser and the Tester's phases are forgotten. `FileService`
stores the configuration and then the files it lists, in order, each byte at its
address, and writes nothing else; a request may take for ever. `Relay` implements
it (`ImplementsFileService`) under the mapping of `Service`: a file is being stored
while the boot loader is in "size" or "data"; memory, position and the list of what
was loaded are the boot loader's own. `Session` is a remote call: the Tester calls,
the SUT executes each test once, on that test's messages and an accelerator prepared
for it, the verdict is the comparison with that answer, and the SUT stops only
after the Tester has closed. `Exercise` implements it (`ImplementsSession`);
`SessionClient` and `SessionServer` map the phases, all those before the first
test to "start". The line, the reader states and `test.log` map to nothing: that
is the point of the refinement.

**TestVectors** is the Tester's side of a test before and after the line: `PushFile`,
the parser (`Find`, `NotFound`: SearchAndAdvance, ParseNumber, HexStringToHex and the
early exits), what is sent (`Send`), the answer (`ReceiveSmall` at the start of the
arena, as the code does, `ReceiveLarge` where the arena has room), the comparison
and the release (`Judge`, PopArena) and the report. A cell of `mem` holds a label, a
number, a hexadecimal byte, a raw byte or anything else, so that text and decoded
bytes, which share the memory, are told apart. The variable `linux` selects one of
the two programs: their McEliece tests differ, and only on bare metal are there two
UARTs behind one base address (`base`, `Restored`); `routed` records what was put on
which. `asked` and `answered` are history variables.

**Ila**, **Pfsm** and **Streams** are the libraries of the logic analyser, the state
machines and the streams with their DMA. The first two have no variables: a
function of the library is an operator from the state of library and hardware to
the next one, named as in the source. **Devices** composes them with the registers,
the GPIO and the timer into `main` of TV, one action per call (a call that waits is
two, so that the hardware can go on in between), the part of FW that uses the same
devices (`SutStart`, `SutRun`), and the hardware: words cross to the SUT and are
sampled (`CrossSampled`), the analyser's monitor samples some more (`TrailSampled`),
the DMA moves a word (`MoveStream`, `MoveSample`), the counter runs (`Tick`). The
serial line appears only in the two points where one program waits for the other.

**SutDriver** is the driver DRV. `ProbeStep` and `ProbeFail` are one step of probe
each, because the device can be opened between two of them; `Undo` says what
the labels at its end release. `held` is what the driver's single static structure
holds, `mapped` the registers, which the kernel unmaps itself; `misused` records a
resource that was taken twice or released when it was not held. Loading,
unbinding, and file operations of several processes interleave with the
probes. `answer` keeps the three numbers of the last read or write: bytes asked
for, returned and moved.

## Runs

| Run | What varies | What it shows |
|---|---|---|
| `handshake_linux` | every boot text of up to 4 characters of the acknowledge and newlines, any interleaving | the match is genuine and never missed |
| `handshake_bare` | start order, enquiries overrunning a FIFO of 3 | the two always find each other |
| `mem_config` | every configuration of 1 to 3 lines over two names and three addresses, with and without final newline | names, addresses and count are those written; arrays are not left |
| `relay_overrun` | FIFO of 3, the Tester prints at any time, consoles with one and two files, programs made of control codes, decoy files named like cut requests | the transfer may stall, but no wrong file is fetched, and what is stored is what `FileService` stores |
| `relay_prompt` | as above with one file and a Tester that reads in time; also a program of 258 bytes, as large as the Tester's buffer | the image is complete and both sides finish |
| `exercise_bare` | all ordered suites of up to 3 tests, messages of control codes and command letters | in step, arena, results in time, no state in which both wait; the two programs implement `Session` |
| `exercise_linux` | the Linux Tester, both comparisons that are complete, an accelerator that may answer wrongly | the SUT takes the Tester for the right kind, verdicts are right, both finish |
| `exercise_aes_verdict` (violation) | AES block wrong in its last byte | counts as good |
| `test_vectors` | both programs; for each kind of test every file of up to two records (three for McEliece), the last one cut after any field; right and wrong answers | the arena holds, nothing still needed is overwritten, tests and report are those of the file, bytes go to the right UART |
| `devices` | every interleaving of main, SUT, DMA, stream, monitor and counter; the tests of timer and GPIO may fail | bitstreams, words, samples, registers and count arrive as they were; the program ends |
| `driver` | two processes, two devices, every failure that probe reports, unbinding and unloading at any time | resources, lock and module stay in order |
| `driver_half_probed` (violation) | the failures that probe does not report as well | a device is bound to a driver that holds nothing |

Deadlock is checked except in `relay_overrun`, where a lost byte really leaves both
programs waiting. In the `exercise` runs the FIFO of the Tester has two bytes and
overruns whenever it does not read; `exercise_bare` states safety, with deadlock
checked, and `exercise_linux` completion. `driver`
uses symmetry on processes and on devices; it checks no temporal property.

### Bounds and why they are enough

* The acknowledge text is `TeT` and the noise four bytes: a loop that keeps one
  index is wrong only on overlaps of the text with itself; `TeT` has one, and four
  characters plus the newline hold every partial match followed by the text. The
  proofs drop this bound.
* FIFOs of 1 to 3 bytes stand for 16: losses depend on a burst being longer than
  the FIFO, and every printed text is at least as long as the FIFO
  (`TextAssumption`), as the real texts are.
* Programs and messages of up to three bytes put the control codes that matter to
  a reader (NUL, ACK, FRX; STX, ETX, EOT and the command letters) at the first, a
  middle and the last position. Sizes are four bytes as in the code; the program of
  258 bytes in `relay_prompt` has a size of two non-zero bytes.
* Three configuration lines reach the first, a middle and the last line; four rows
  are what the array has.
* Suites of three tests reach every change of command and a command repeated.
* In `test_vectors` two different records of each kind, and both orders of them, are
  what a stale value needs to be noticed; three McEliece records are one more than
  the bare-metal program tests. A file may be followed by a shorter one, and be empty.
  The arena has 76 cells, the least with which the run passes, so that anything kept
  too long overflows it.
* In `devices` the stream has its four words; a trail of two samples can be cut by
  the disabling of the triggers before, within and after it. The first bitstream is
  longer than its table, the second also than the file buffer; the words of an
  entry number one and two. The low half of the counter wraps at 2.
* In the driver two processes and two devices are the least number with a
  conflict; seeks by one and by the size of the region reach both ends of it, and
  counts up to 5 are below, at and above every register's width.

### Fairness

Weak fairness of the SUT's program, of the Tester's program and of each direction
of the line. A program is one thread that runs whenever it is not blocked on a
read, and the UART sends whenever it holds a byte; neither is ever disabled by
the other side for good. No fairness is assumed between alternatives of one
program, and none for Linux's boot messages. In `Devices` the main program, the
SUT and the hardware as a whole are weakly fair: every hardware action empties
something that only a program fills, so none can starve another for ever. The
counter needs no fairness.

### Assumptions

* The line is raw: the start-up script of the Tester's Linux sets it with `stty raw`.
* The SUT has initialised its UART before the Tester's Linux sends anything, and
  its FIFO has room for the boot messages that arrive while it still sends
  enquiries together with the greeting (`FifoAssumption`).
* `Prompt`: in `relay_prompt` the Tester, and in the `exercise` runs the SUT, reads
  before its FIFO is full. Nothing in the code ensures it. `relay_overrun` shows what
  remains true of loading without it; in `exercise` the SUT does not read while it
  configures the accelerator, and a message cut there could be taken for anything.
* `DelayIsEnough`: the fixed delay of the Tester before it sends the mode covers
  the start of the SUT's firmware. Nothing in the code ensures it either; with the
  mutant `NoDelay` the mode is lost and the run `exercise_linux` does not complete.
* `HeaderAssumption`: the header of a file of test vectors is longer than a small
  answer in hexadecimal; a small answer is received over it. `char` is unsigned, as it
  is on RISC-V.
* `FilesAssumption`: all records of a file but the last are complete, and values have
  the sizes of the algorithm; `AnswersAssumption`: the SUT answers with messages of
  the sizes that are compared, or longer ones where the Tester reads a part;
  `ArenaAssumption`: each test alone fits the arena behind the text of its file.
* `FifoAssumption` (of `Streams`): a FIFO holds the words of the stream;
  `SampleAssumption`: all samples that can be taken fit in the analyser's buffer, as
  4 words and 7 samples of the monitor fit in 16, and main waits for as many samples
  as there are words; `BitstreamAssumption`: a bitstream
  has at least the bytes of its table.
* File names are printable; on bare metal a program fits in the Tester's buffer
  (a larger one is undefined behaviour: `BufferAssumption`). The Tester's buffer and
  `test.log` have at most 2^30 bytes, so that a size is not negative in four bytes.
* The configuration is well formed and fits the arrays: reading it gives the names
  and addresses of the console's entries (`ConfigAssumption` of `Relay`, which
  `ParseListsTheEntries` proves of every text that `EntriesAssumption` and
  `TailsAssumption` of `MemConfigLoop` admit: one line per entry, a name without a
  blank, hexadecimal digits, the last newline may be missing).
* The messages and answers of a suite have the form of their command
  (`SuitesAssumption` of `Exercise`).
* The console always answers for a file it has; for one it does not have the
  Tester waits.
* Probes of different devices follow one another. A probe that returns 0 binds the
  device; otherwise the kernel unmaps its registers. The generated function that
  removes the sysfs attributes also removes the device: it is the only call in the
  clean-up that can. `class_create` and `device_create` report failure by NULL, as
  the driver expects. Processes do not share files.
* The boot texts of Linux do not contain the acknowledge text.

## Proofs

The runs check small instances. TLAPS checks the following for every value of the
constants that the named assumptions of the modules admit: every text, size, suite,
console, FIFO depth. Hypotheses beyond these assumptions are named with the theorem;
the runs of the same module have instances that satisfy them. Each proof finds an
inductive invariant, one step per action; the properties follow from it. TLC has
checked each invariant on the run of its module before it was proved.

**The line** (`Link_proofs`): what each operation does to the stream between the two
programs (taking and delivering a byte leave the concatenation of FIFO and line as it
was, and nothing is lost while a receiver polls), and what the readers of `Framing`
return when the bytes they are given are a frame, whatever the content of it is.

**Rendezvous** (`Handshake_proofs`): `TypeCorrect`, `Genuine` (`AckIsGenuine`) and
`NeverMissed` (`AckNeverMissed`). Both look only at the end of the stream and are not
inductive. `Inv` says where every byte is: what the SUT has read, what is in its
FIFO and what is on the line are together exactly what the Tester has sent (`Stream
= Sent`): boot messages, then the greeting once it has been sent; before the SUT
matches, nothing has been read (`QuietBefore`), so the FIFO, by `FifoAssumption`,
loses nothing; the boot messages do not contain the text (`NoiseIsHarmless`); the
last `matched` bytes read are the first `matched` of the text (`MatchedIsRead`); and
since the newline of the greeting was read, `matched` is everything read after it
(`MatchedIsAll`). The last conjunct is where the newline matters: it resets the
loop, so that the missing back-up is harmless.

**Configuration** (`MemConfigLoop_proofs`): `FilesOfTheEntries` (`FilesAreTheEntries`)
and `TheArraysAreLargeEnough` (`FitsTheArrays`) for any number of lines, names and
addresses of any length; `ReturnsWithAllFiles`: at the end every line has been read
with its whole address; `ParseListsTheEntries`: what `Relay` assumes of its
configurations. The invariant `Reading` says that the rows are those of the first
entries and that the loop stands at some character of the name (`InName`) or of the
address (`InAddr`) of the next one, whose digits so far have the value in the array.
The text and the values are recursive functions; what they are is proved by
induction. The library's induction theorems take an operator, which no prover at hand
instantiates; `SetInduction` replaces them by a theorem about sets, from the
well-foundedness of the subsets of a finite set, and `RecursiveFunction` gives the
equations of a function so defined.

**Loading** (`Relay_proofs`): `TypeCorrect`, `TheRightFile` (`RightFile`) and `NoByteLost`
(`SutNeverOverruns`) with no hypothesis, also where the Tester's FIFO overruns;
`LoadingIsFileService` (`ImplementsFileService`, step by step) if every file fits the
Tester's buffer (`FilesFit`: the Linux program cuts a larger one);
`TheImageIsComplete` (`ImageIsComplete`) if moreover every listed file exists and no two
overlap in memory (`Apart`). `Inv` has the types, the books of what was loaded
(`Books`), the stored configuration (`ConfigStored`) and `Phase`, one formula for each
phase of a transfer (`Waiting`, `Requested`, `Naming`, `Fetching`, `Sizing`, `Acked`,
`Storing`, and `Early` after a cut request): what is on the line, which part of it may
have been lost, and how far both readers are. The crux is that a request that was cut
has lost either the byte that starts a name or the one that ends it, so that the
Tester waits rather than fetch another file.

**Verification** (`Exercise_proofs`), if the SUT reads before its FIFO is full
(`"sut" \in Prompt`): `ExerciseTypes`, `TheModeIsAgreed` (`ModeIsAgreed`), `TheyStayInStep`
(`InStep`), `TheResultsAreThere` (`ResultsAreThere`), and `TheyImplementSession`
(`ImplementsSession`, step by step); `TheArenaSuffices` (`ArenaFits`) if each
test fits the arena alone (`TestsFitTheArena`); `TheVerdictsAreRight` (`VerdictsAreRight`)
if no test compares by halves only (`TestsCompareInFull`: without it the finding on AES
is a counterexample). `Phase` has again one formula per phase, from
`Starting` to `Closing`. In the phase of a test (`Calling`) the stream is always the rest
of the messages that are due, from wherever the reader of the SUT is, then those of
the answer: `More` describes that rest, and the lemmas on `LargeStep` show that no byte in
it can be taken for a control code.

**Known-answer tests** (`TestVectors_proofs`), for files of any number of records, any
answers and both programs, under the assumptions of the module only: `TypeCorrect`,
with it that no sequence of tests leaves the arena, `TheTextIsIntact`
(`TextAheadIsIntact`), `TheInputsAreTheRecords` (`InputsAreTheRecords`),
`TheTallyIsOfTheFile` (`TallyIsOfTheFile`) and `TheBytesGoToTheirLine`
(`BytesGoToTheirLine`). The program knows a position in a text and a mark in the
arena; the properties speak of records. `Inv` relates the two: `Place` is the address
of each label of each record, `Reads` and `Decodes` say what was found and decoded when
the cursor is behind a given field and how much of the arena that takes (`Held`),
`Received` where the answer is in hexadecimal, `TextHeld` that only the header is ever
overwritten, and `Counted`, `Recorded` and `Reported` that the tally is that of the records
passed. The crux is `Search`, which runs to the end of the text: the next label of its
kind is found to be the one of the field at hand (`Upcoming`), or none is when the
record breaks off, because no value contains a label and the last record only may
be cut. The text and the stored items are recursive functions (`Joined`, `Storing`),
treated by `SetInduction` as above.

**Peripherals** (`Devices_proofs`): `TypesAreCorrect`, `EachHasItsBitstream`
(`BitstreamsInPlace`), `TheWordsComeBack` (`WordsComeBack`), `TheRowsAreTheSamples`
(`RowsAreTheSamples`), `TheDumpIsTheBuffer` (`DumpIsTheBuffer`), `TheReadsAreTheWrites`
(`ReadsAreTheWrites`) and `TheCountIsCoherent` (`CountIsCoherent`), under the
assumptions of the modules only. The invariant has a part for each peripheral: the
order of the two programs (`ControlInv`), registers and pins (`RegInv`), the state
machines (`PfsmInv`), the timer (`TimerInv`: the sample, not the running counter, is
what the two reads see), and the way of the words (`DataInv`), where words to be sent,
in the FIFOs and received are always the words of the stream, in their order, and
the samples taken are in the buffer where the cursor says.

**Driver** (`SutDriver_proofs`), for any processes, devices and registers:
`TypeCorrect`, `Exclusive` (`LockIsTheOpener`) and `Unused` (`UnloadsUnused`) with
no further assumption; `Once`, `NothingLeft` and `Whole` (`ReleasedOnce`,
`NothingLeaks`, `ProbeSucceedsWhole`) for failures that probe reports; `Mapped`
(`RegistersMapped`) if moreover devices leave only with the module and probe does
not fail after the device was created. The inductive invariant `Resources` says
that a running probe holds exactly what `Undo` of its next step would release,
and that between probes the driver holds nothing or everything for one device,
whose pointer is set, so that no second probe starts.

Only model-checked: the liveness properties (`Rendezvous`, `AllFilesFound`, and
`Completes` of `Relay`, `Exercise` and `Devices`), as the prover does not reason about
fairness and ENABLED.

## Findings

* The AES test compares 16 of the 32 characters of a block (`exercise_aes_verdict`;
  TFW and TV line 497), while its report prints all 32.
* When the class or the device cannot be created, probe of the driver cleans up
  and returns 0 (`driver_half_probed`; DRV lines 109-122), so that the kernel takes
  the device for bound and removes everything a second time later.

Seen while modelling, without a run of their own: a program larger than 150000
bytes is truncated by the Linux Tester without a message (TV 676); after an unbind
the driver refuses every device, because its pointer is not reset (DRV 67, 150);
its read returns the count asked for, not the bytes copied (DRV 233-240);
`iob_soc_sut_get_reg(5)` reads the file of register 4 (`iob-soc-sut-user.c` 33); the
Linux Tester writes to its serial port after it has closed it (TV 923 and 961); the
number of bytes it reports for a state machine is that of the table, whatever was
received or written (TV 990, `iob-pfsm-user.c` 111), and a bitstream that is too short
is completed with what the buffer held; once the analyser's buffer has wrapped only
the samples from its start to the latest are printed (TV 1035);
`ila_output_everything`, which nothing calls, would not end: its last call asks for
an index that the loop never reaches (`iob-ila-user.c` 248).

## Not modelled

Generators and wrappers have no behaviour at run time. The contents of the
external submodules are represented by parameters. Not represented:

* failures of `read`, `write`, `rz` and `fopen` on the Linux side, whose results the
  code does not act upon, and of the sysfs files other than those of the timer and
  the GPIO, on which `main` returns; whether the serial port is open;
* the branches of BOOT for a system without a Tester and for the simulation of Linux;
* functions of the peripheral libraries that no program calls;
* the peripherals on the bare-metal Tester, which uses them in the same order as
  the Linux program through libraries that are not in the repository, and its
  Ethernet and shared-memory sections;
* the SPI flash test, a straight sequence of calls of an external library, and the
  console script, whose requests the consoles of `Relay` and `TestVectors` answer.

Hazards of the code that the properties do not cover, because an assumption or a
bound of their run excludes them, or because the code has nothing against them:

* a SUT that initialises its UART after the Tester's Linux has greeted;
* a configuration of more than one program, of which the Tester relays only the
  first, and one that leaves the arrays: a fifth line, a name of 50 characters;
* a program larger than the Tester's buffer;
* a delay too short for the start of the firmware (`DelayIsEnough`);
* a message that overruns the SUT's FIFO while it configures the accelerator
  (`InStep` and `ImplementsSession` hold if the SUT is in `Prompt`);
* more than 16 words in the stream, and a buffer of the analyser that has wrapped;
* an access to registers that an unbind has unmapped under an open file;
* `class_create` and `device_create` as a current kernel has them: they return an
  error pointer, which the driver, that tests for NULL, would take for success.

## Plan

1. `Link`, `Handshake`: rendezvous, with proofs. Done.
2. `MemConfig`, `MemConfigLoop`, `Relay`: loading; `FileService`, its abstract
   specification, with proofs. Done.
3. `Framing`, `Exercise`: verification; `Session`, its abstract specification, with
   proofs. Done.
4. `SutDriver`: the Linux driver, with proofs. Done.
5. `TestVectors`: the known-answer tests and the Tester's arena, with proofs. Done.
6. `Ila`, `Pfsm`, `Streams`, `Devices`: the peripherals, with proofs. Done.
7. Left: an abstract specification of the known-answer tests, a tally over a list of
   records, implemented by `TestVectors` for each file; and `Exercise` without the
   hypothesis on `Prompt` for what survives an overrun, as `Relay` has it.
