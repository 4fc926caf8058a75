-------------------------------- MODULE Exercise --------------------------------
(***************************************************************************)
(* The verification itself, after the SUT has started its firmware         *)
(* (iob_soc_sut_firmware.c) and the Tester has loaded it                   *)
(* (iob_soc_tester_firmware.c, or tester_verification.c under Linux).      *)
(*                                                                         *)
(* The Tester sends words on the AXI stream and tells the SUT whether it   *)
(* runs Linux; the SUT prints, writes its registers, returns the words and *)
(* sends test.log and an ENQ.  Then the SUT executes the commands of the   *)
(* Tester on its accelerator, one after the other, until the Tester ends   *)
(* the loop.                                                               *)
(***************************************************************************)
EXTENDS Framing

CONSTANTS
  TesterLinux,   \* TRUE: the Tester runs Linux, FALSE: bare metal
  Prompt,        \* sides assumed to read before their FIFO is full
  TextLen,       \* bytes of the messages printed before a control code
  Log,           \* content of test.log
  Suites,        \* the lists of tests tried: sequences of [op, inputs, expected]
  Replies(_, _, _),  \* Replies(op, config, inputs): what the accelerator may answer
  ArenaSize,     \* InitArena of the SUT (2 MB)
  KeyBytes       \* what a McEliece command takes from the arena for its keys

SHA   == 97
AES   == 98
MCE   == 99
SHORT == 100
Ops == {SHA, AES, MCE, SHORT}

ASSUME ExerciseAssumption ==
  /\ TesterLinux \in BOOLEAN
  /\ Prompt \subseteq Side
  /\ Log \in Seq(Byte)
  /\ Len(Log) <= 2 ^ 30   \* a size is sent as four bytes
  /\ ArenaSize \in Nat
  /\ KeyBytes \in Nat

(* The messages before the ENQ and before a control code are longer than   *)
(* the FIFO.                                                               *)
ASSUME TextAssumption == TextLen \in Nat /\ TextLen >= Depth["tst"]

TXT == 46
Text == [k \in 1 .. TextLen |-> TXT]

(* "TESTER_RUN_LINUX", "TESTER_RUN_BAREMETAL" and "test.log" *)
ModeLinux == <<82, 76>>
ModeBare  == <<82, 66>>
LogName   == <<108>>

(* messages that a command reads, and the form of its answer *)
InputCount(op) == IF op = AES THEN 2 ELSE 1
ReplyCount(op) == CASE op = MCE -> 2 [] op = SHORT -> 4 [] OTHER -> 1
IsSmall(op) == op \in {SHA, AES}

(* n messages; what a command may be answered with: a small string is text, *)
(* in hexadecimal digits, and fits its frame.                              *)
Messages(n, ms) ==
  ms \in Seq(Seq(Byte)) /\ Len(ms) = n /\ \A k \in 1 .. n : Len(ms[k]) <= 2 ^ 30

IsAnswer(op, ms) ==
  /\ Messages(ReplyCount(op), ms)
  /\ IsSmall(op) => Len(ms[1]) <= 255 /\ \A i \in 1 .. Len(ms[1]) : ms[1][i] # ETX

ASSUME SuitesAssumption ==
  \A s \in Suites :
    /\ s \in Seq([op : Ops, inputs : Seq(Seq(Byte)), expected : Seq(Seq(Byte))])
    /\ \A k \in 1 .. Len(s) :
         /\ Messages(InputCount(s[k].op), s[k].inputs)
         /\ \A c \in Ops \cup {0} : \A answer \in Replies(s[k].op, c, s[k].inputs) :
              IsAnswer(s[k].op, answer)

(* start, and then the messages *)
Frames(start, ms) ==
  LET f[k \in 0 .. Len(ms)] ==
        IF k = 0 THEN start ELSE f[k - 1] \o LargeFrame(ms[k])
  IN  f[Len(ms)]

VARIABLES
  sut,       \* where the firmware is
  linux,     \* tester_run_linux
  op,        \* ch: the command being executed
  last,      \* lastActivated: 0 or the last command
  config,    \* what the accelerator is configured for
  inputs,    \* the messages of the command received
  arena,     \* used bytes of the arena of the SUT
  regs,      \* REG3, REG4 and REG5 have been written
  tst,       \* where the Tester is
  suite,     \* the tests of the Tester
  done,      \* tests: number of tests performed
  verdicts,  \* for each test performed: does it count as good
  answers,   \* the messages of the answer received
  history,   \* history: for each test performed, the answer of the accelerator
  eth,       \* the file sent over Ethernet
  axis,      \* the words of the AXI stream
  reader     \* reader[p]: the reading loop p is in

sutVars == <<sut, linux, op, last, config, inputs, arena, regs>>
tstVars == <<tst, suite, done, verdicts, answers>>
world   == <<eth, axis>>
vars == <<rx, tx, reader, sutVars, tstVars, world, history>>

SutStates == {"init", "phy", "mode", "eth", "log", "setup", "command",
              "configure", "receive", "compute", "end"}
TstStates == {"stream", "mode", "eth", "log", "enq", "test", "reply",
              "final", "end"}

TypeOK ==
  /\ LinkTypeOK
  /\ reader \in [Side -> Reader]
  /\ sut \in SutStates
  /\ linux \in BOOLEAN
  /\ op \in Byte
  /\ last \in Byte
  /\ config \in Ops \cup {0}
  /\ inputs \in Seq(Seq(Byte))
  /\ arena \in Nat
  /\ regs \in BOOLEAN
  /\ tst \in TstStates
  /\ suite \in Suites
  /\ done \in 0 .. Len(suite)
  /\ verdicts \in Seq(BOOLEAN)
  /\ answers \in Seq(Seq(Byte))
  /\ history \in Seq(Seq(Seq(Byte)))
  /\ eth \in {"none", "sent", "received"}
  /\ axis \in {"none", "sent", "returned", "skipped"}

(* The boot loader has put its last messages and started the firmware. *)
Init ==
  /\ rx = [p \in Side |-> <<>>]
  /\ tx = [p \in Side |-> IF p = "sut" THEN Text ELSE <<>>]
  /\ reader = [p \in Side |-> NewReader]
  /\ sut = "init"
  /\ linux = FALSE
  /\ op = 0
  /\ last = 0
  /\ config = 0
  /\ inputs = <<>>
  /\ arena = 0
  /\ regs = FALSE
  /\ tst = "stream"
  /\ suite \in Suites
  /\ done = 0
  /\ verdicts = <<>>
  /\ answers = <<>>
  /\ history = <<>>
  /\ eth = "none"
  /\ axis = "none"

(* p reads a byte in its reading loop, whose state becomes r *)
Read(p, r) ==
  /\ TakeByte(p)
  /\ reader' = [reader EXCEPT ![p] = r]

---------------------------------------------------------------------------------
(* The firmware of the SUT *)

(* uart16550_txwait of the boot loader, then uart16550_init of the firmware *)
SutInit ==
  /\ sut = "init"
  /\ tx["sut"] = <<>>
  /\ sut' = "phy"
  /\ Reinit("sut")
  /\ UNCHANGED <<tx, reader, linux, op, last, config, inputs, arena, regs,
                 tstVars, world, history>>

(* eth_wait_phy_rst returns *)
SutPhy ==
  /\ sut = "phy"
  /\ sut' = "mode"
  /\ UNCHANGED <<rx, tx, reader, linux, op, last, config, inputs, arena, regs,
                 tstVars, world, history>>

(* The mode of the Tester.  An unknown text counts as bare metal. *)
SutMode ==
  /\ sut = "mode"
  /\ Readable("sut")
  /\ LET r == SmallStep(reader["sut"], Head(rx["sut"])) IN
     IF Finished(r)
       THEN /\ Read("sut", NewReader)
            /\ linux' = (r.data = ModeLinux)
            /\ sut' = IF linux' THEN "log" ELSE "eth"
            /\ Put("sut", Text)
       ELSE Read("sut", r) /\ UNCHANGED <<linux, sut, tx>>
  /\ UNCHANGED <<op, last, config, inputs, arena, regs, tstVars, world, history>>

(* eth_rcv_file *)
SutEth ==
  /\ sut = "eth"
  /\ Idle("sut")
  /\ eth = "sent"
  /\ eth' = "received"
  /\ sut' = "log"
  /\ UNCHANGED <<rx, tx, reader, linux, op, last, config, inputs, arena, regs,
                 tstVars, axis, history>>

(* Mutant of SutLog: the registers are not written. *)
SutLogNoRegisters ==
  /\ sut = "log"
  /\ Idle("sut")
  /\ axis' = IF axis = "sent" THEN "returned" ELSE "skipped"
  /\ Put("sut", Text \o FileFrame(LogName, Log) \o Text \o <<ENQ>>)
  /\ sut' = "setup"
  /\ UNCHANGED <<rx, reader, linux, op, last, config, inputs, arena, regs, tstVars,
                 eth, history>>

(* The messages, the registers, the AXI stream loopback (which is skipped  *)
(* when the queue is empty), test.log and the ENQ.                         *)
SutLog ==
  /\ sut = "log"
  /\ Idle("sut")
  /\ regs' = TRUE
  /\ axis' = IF axis = "sent" THEN "returned" ELSE "skipped"
  /\ Put("sut", Text \o FileFrame(LogName, Log) \o Text \o <<ENQ>>)
  /\ sut' = "setup"
  /\ UNCHANGED <<rx, reader, linux, op, last, config, inputs, arena, tstVars,
                 eth, history>>

(* versat_init and InitArena *)
SutSetup ==
  /\ sut = "setup"
  /\ Idle("sut")
  /\ last' = 0
  /\ arena' = 0
  /\ sut' = "command"
  /\ UNCHANGED <<rx, tx, reader, linux, op, config, inputs, regs, tstVars,
                 world, history>>

(* the head of the command loop: ETX and what is no command end it *)
SutCommand ==
  /\ sut = "command"
  /\ Readable("sut")
  /\ TakeByte("sut")
  /\ op' = Head(rx["sut"])
  /\ inputs' = <<>>
  /\ IF op' \in Ops
       THEN sut' = "configure" /\ UNCHANGED tx
       ELSE sut' = "end" /\ Put("sut", <<EOT>>)
  /\ UNCHANGED <<reader, linux, last, config, arena, regs, tstVars, world, history>>

(* Mutant of SutConfigure: the accelerator is configured only once. *)
SutConfigureOnce ==
  /\ sut = "configure"
  /\ config' = IF last = 0 /\ op \in {SHA, AES} THEN op ELSE config
  /\ last' = op
  /\ sut' = "receive"
  /\ UNCHANGED <<rx, tx, reader, linux, op, inputs, arena, regs, tstVars,
                 world, history>>

(* The accelerator is configured when the command differs from the last    *)
(* one; the UART is not read meanwhile.                                    *)
SutConfigure ==
  /\ sut = "configure"
  /\ config' = IF last # op /\ op \in {SHA, AES} THEN op ELSE config
  /\ last' = op
  /\ sut' = "receive"
  /\ UNCHANGED <<rx, tx, reader, linux, op, inputs, arena, regs, tstVars,
                 world, history>>

(* what PushBytes takes from the arena for a message and its terminator *)
Aligned(n) == ((n + 3) \div 4) * 4

(* one byte of a message of the command *)
SutReceive ==
  /\ sut = "receive"
  /\ Readable("sut")
  /\ LET r == LargeStep(reader["sut"], Head(rx["sut"])) IN
     IF Finished(r)
       THEN /\ Read("sut", NewReader)
            /\ inputs' = Append(inputs, r.data)
            /\ arena' = arena + Aligned(r.size + 1)
            /\ sut' = IF Len(inputs') = InputCount(op) THEN "compute" ELSE sut
       ELSE Read("sut", r) /\ UNCHANGED <<inputs, arena, sut>>
  /\ UNCHANGED <<tx, linux, op, last, config, regs, tstVars, world, history>>

ReplyFrames(answer) ==
  IF IsSmall(op) THEN SmallFrame(answer[1], 255)
  ELSE Frames(<<>>, answer)

(* Mutant of SutCompute: the memory of the command is not released. *)
SutComputeNoPop ==
  /\ sut = "compute"
  /\ \E answer \in Replies(op, config, inputs) :
       /\ Put("sut", ReplyFrames(answer))
       /\ history' = Append(history, answer)
  /\ IF IsSmall(op) THEN UNCHANGED config ELSE config' \in {config, op}
  /\ sut' = "command"
  /\ UNCHANGED <<rx, reader, linux, op, last, inputs, arena, regs, tstVars, world>>

(* The accelerator computes the answer, which is sent; the memory of the   *)
(* command is released.  A McEliece command may leave the accelerator in   *)
(* a configuration of its own.                                             *)
SutCompute ==
  /\ sut = "compute"
  /\ \E answer \in Replies(op, config, inputs) :
       /\ Put("sut", ReplyFrames(answer))
       /\ history' = Append(history, answer)
  /\ IF IsSmall(op) THEN UNCHANGED config ELSE config' \in {config, op}
  /\ arena' = 0
  /\ sut' = "command"
  /\ UNCHANGED <<rx, reader, linux, op, last, inputs, regs, tstVars, world>>

---------------------------------------------------------------------------------
(* The Tester *)

(* send_axistream, after a delay *)
TstStream ==
  /\ tst = "stream"
  /\ axis' = "sent"
  /\ tst' = "mode"
  /\ UNCHANGED <<rx, tx, reader, sutVars, suite, done, verdicts, answers, eth, history>>

(* Mutant of DelayIsEnough: there is no delay. *)
NoDelay == TRUE

(* The mode.  The delay before it is meant to cover the start of the       *)
(* firmware, including the reset of the Ethernet PHY.  print_ila_samples   *)
(* of the Linux program sends a newline on the line first.                 *)
DelayIsEnough == sut \notin {"init", "phy"}

TstMode ==
  /\ tst = "mode"
  /\ DelayIsEnough
  /\ IF TesterLinux
       THEN tst' = "log" /\ Put("tst", <<NL>> \o SmallFrame(ModeLinux, 255))
       ELSE tst' = "eth" /\ Put("tst", SmallFrame(ModeBare, 255))
  /\ UNCHANGED <<rx, reader, sutVars, suite, done, verdicts, answers, world, history>>

(* bare metal: messages to the console and eth_send_file *)
TstEth ==
  /\ tst = "eth"
  /\ Idle("tst")
  /\ eth' = "sent"
  /\ tst' = "log"
  /\ UNCHANGED <<rx, tx, reader, sutVars, suite, done, verdicts, answers, axis, history>>

(* the messages of the SUT and test.log, up to the end of its content *)
TstLog ==
  /\ tst = "log"
  /\ Readable("tst")
  /\ LET r == FileStep(reader["tst"], Head(rx["tst"])) IN
     IF Finished(r)
       THEN Read("tst", NewReader) /\ tst' = "enq"
       ELSE Read("tst", r) /\ UNCHANGED tst
  /\ UNCHANGED <<tx, sutVars, suite, done, verdicts, answers, world, history>>

(* everything up to the ENQ *)
TstEnq ==
  /\ tst = "enq"
  /\ Readable("tst")
  /\ TakeByte("tst")
  /\ tst' = IF Head(rx["tst"]) = ENQ THEN "test" ELSE tst
  /\ UNCHANGED <<tx, reader, sutVars, suite, done, verdicts, answers, world, history>>

TestFrames(t) == Frames(<<t.op>>, t.inputs)

(* the command and the messages of the next test *)
TstTest ==
  /\ tst = "test"
  /\ done < Len(suite)
  /\ Put("tst", TestFrames(suite[done + 1]))
  /\ answers' = <<>>
  /\ tst' = "reply"
  /\ UNCHANGED <<rx, reader, sutVars, suite, done, verdicts, world, history>>

Half(s) == SubSeq(s, 1, Len(s) \div 2)

(* Mutant of Agree: half of every message is compared. *)
AgreeByHalves(o, answer, expected) ==
  \A k \in 1 .. Len(expected) : Half(answer[k]) = Half(expected[k])

(* The comparison of a test: 16 of the 32 characters of an AES block, half *)
(* of the characters of a McEliece key, all characters otherwise.          *)
Agree(o, answer, expected) ==
  IF o \in {AES, MCE}
  THEN \A k \in 1 .. Len(expected) : Half(answer[k]) = Half(expected[k])
  ELSE answer = expected

(* a byte of the answer; after its last message the test is judged *)
TstReply ==
  /\ tst = "reply"
  /\ Readable("tst")
  /\ LET t == suite[done + 1]
         c == Head(rx["tst"])
         r == IF IsSmall(t.op) THEN SmallStep(reader["tst"], c)
                               ELSE LargeStep(reader["tst"], c)
     IN
     IF Finished(r)
       THEN /\ Read("tst", NewReader)
            /\ answers' = Append(answers, r.data)
            /\ IF Len(answers') = ReplyCount(t.op)
                 THEN /\ verdicts' = Append(verdicts, Agree(t.op, answers', t.expected))
                      /\ done' = done + 1
                      /\ tst' = "test"
                 ELSE UNCHANGED <<verdicts, done, tst>>
       ELSE Read("tst", r) /\ UNCHANGED <<answers, verdicts, done, tst>>
  /\ UNCHANGED <<tx, sutVars, suite, world, history>>

(* ETX for the loop of the SUT; uart16550_finish sends EOT *)
TstFinish ==
  /\ tst = "test"
  /\ done = Len(suite)
  /\ Put("tst", <<ETX, EOT>>)
  /\ tst' = "final"
  /\ UNCHANGED <<rx, reader, sutVars, suite, done, verdicts, answers, world, history>>

(* the registers and the AXI stream are read *)
TstFinal ==
  /\ tst = "final"
  /\ Idle("tst")
  /\ tst' = "end"
  /\ UNCHANGED <<rx, tx, reader, sutVars, suite, done, verdicts, answers, world, history>>

---------------------------------------------------------------------------------
Polling(p) ==
  /\ Idle(p)
  /\ IF p = "sut" THEN sut \in {"mode", "command", "receive"}
                  ELSE tst \in {"log", "enq", "reply"}

Deliver(p) ==
  /\ Transmit(p, Polling(Other(p)) \/ Other(p) \in Prompt)
  /\ UNCHANGED <<reader, sutVars, tstVars, world, history>>

Terminated == sut = "end" /\ tst = "end" /\ UNCHANGED vars

SutNext ==
  \/ SutInit \/ SutPhy \/ SutMode \/ SutEth \/ SutLog \/ SutSetup
  \/ SutCommand \/ SutConfigure \/ SutReceive \/ SutCompute

TstNext ==
  \/ TstStream \/ TstMode \/ TstEth \/ TstLog \/ TstEnq
  \/ TstTest \/ TstReply \/ TstFinish \/ TstFinal

Next ==
  \/ SutNext
  \/ TstNext
  \/ \E p \in Side : Deliver(p)
  \/ Terminated

Fairness ==
  /\ WF_vars(SutNext)
  /\ WF_vars(TstNext)
  /\ \A p \in Side : WF_vars(Deliver(p))

Spec == Init /\ [][Next]_vars

FairSpec == Spec /\ Fairness

---------------------------------------------------------------------------------
(* Properties *)

(* The SUT takes the branch for the kind of Tester it is connected to: the *)
(* other branch would wait for Ethernet frames that never come.            *)
ModeIsAgreed ==
  sut \notin {"init", "phy", "mode"} => linux = TesterLinux

(* Whenever the Tester is about to send a command the SUT is waiting for   *)
(* one (or about to) and no byte is left on the line: neither a control    *)
(* code in test.log nor one in an answer lets the two fall out of step.    *)
InStep ==
  tst = "test" =>
    /\ sut \in {"setup", "command"}
    /\ \A p \in Side : rx[p] = <<>> /\ tx[p] = <<>>

(* A test counts as good exactly if the accelerator gave the expected      *)
(* answer.                                                                 *)
VerdictsAreRight ==
  /\ Len(verdicts) = done
  /\ \A k \in 1 .. done : verdicts[k] <=> history[k] = suite[k].expected

(* However many commands are executed, the arena of the SUT has room for   *)
(* the messages and the keys of the current one.                           *)
ArenaFits ==
  sut = "compute" =>
    arena + (IF IsSmall(op) THEN 0 ELSE KeyBytes) <= ArenaSize

(* When the Tester reads the registers and the AXI stream of the SUT, they *)
(* have been written.                                                      *)
ResultsAreThere == tst = "end" => regs /\ axis = "returned"

(* The two programs implement Session: every test is executed exactly      *)
(* once, on its own messages and configuration, and judged by its own      *)
(* answer, although commands, messages and answers share an unframed line  *)
(* with texts and test.log.                                                *)
SessionClient ==
  CASE tst = "test" -> "idle"
    [] tst = "reply" -> "waiting"
    [] tst \in {"final", "end"} -> "closed"
    [] OTHER -> "start"

SessionServer ==
  CASE sut \in {"setup", "command", "configure", "receive", "compute"} -> "serving"
    [] sut = "end" -> "closed"
    [] OTHER -> "start"

(* McEliece configures the accelerator itself *)
ConfigFor(o, c) == IsSmall(o) => c = o

Calls == INSTANCE Session WITH
  Configs <- Ops \cup {0},
  Prepared <- ConfigFor,
  client <- SessionClient,
  server <- SessionServer,
  executed <- history

ImplementsSession == Calls!Spec

(* Both programs reach their ends, all tests performed. *)
Completes == <>(sut = "end" /\ tst = "end" /\ done = Len(suite))
=================================================================================
