--------------------------------- MODULE Relay ----------------------------------
(***************************************************************************)
(* Loading the program of the SUT.  The boot loader asks for               *)
(* iob_soc_sut_mem.config and then for each file listed in it              *)
(* (uart16550_recvfile); the Tester reads each request from the line,      *)
(* fetches the file from the console and passes it on                      *)
(* (relay_file_transfer_to_sut), twice.                                    *)
(*                                                                         *)
(* The Tester prints messages between two requests and does not read the   *)
(* line meanwhile, so its FIFO may overrun.                                *)
(***************************************************************************)
EXTENDS Framing
LOCAL INSTANCE TLC

CONSTANTS
  Consoles,     \* the consoles tried: records [files, entries], files[n] the
                \* content of the file named n, entries the [name, addr]
                \* records that the configuration file of this console lists
  ConfigName,   \* "../iob_soc_sut_mem.config"
  RootFs,       \* "rootfs.cpio.gz"
  MaxFiles, MaxName, AddrMod,   \* of MemConfig
  MemSize,      \* bytes of external memory represented
  TextLen,      \* bytes of the messages printed before each request
  TesterLinux,  \* TRUE: tester_verification.c, FALSE: the bare-metal Tester
  FirmwareMax,  \* SUT_FIRMWARE_SIZE: the Tester's buffer for a file
  Prompt        \* TRUE: the Tester is assumed to read before its FIFO is full

MC == INSTANCE MemConfig

ASSUME RelayAssumption ==
  /\ \A c \in Consoles :
       /\ ConfigName \in DOMAIN c.files
       /\ DOMAIN c.files \subseteq Seq(Byte)
       /\ \A n \in DOMAIN c.files : c.files[n] \in Seq(Byte)
  /\ MaxFiles \in Nat \ {0} /\ AddrMod \in Nat \ {0}
  /\ MemSize \in Nat \ {0}
  /\ FirmwareMax \in 0 .. 2 ^ 30   \* a size is sent as four bytes
  /\ TesterLinux \in BOOLEAN
  /\ Prompt \in BOOLEAN

(* File names are printable, also those that are only listed. *)
Printable(n) == \A i \in 1 .. Len(n) : n[i] >= 32

ASSUME PrintableAssumption ==
  \A c \in Consoles :
    /\ \A n \in DOMAIN c.files : Printable(n)
    /\ \A k \in 1 .. Len(c.entries) : Printable(c.entries[k].name)

(* "IOb-UART: requesting to receive file\n" is longer than a FIFO. *)
ASSUME TextAssumption == TextLen \in Nat /\ TextLen >= Depth["tst"]

(* The bare-metal Tester has no bound on what it receives: a larger file   *)
(* writes past its buffer, which is undefined.                             *)
ASSUME BufferAssumption ==
  ~TesterLinux =>
    \A c \in Consoles : \A n \in DOMAIN c.files : Len(c.files[n]) <= FirmwareMax

TXT == 46

(* Mutant of Text: nothing is printed before a request. *)
NoText == <<>>

Text == [k \in 1 .. TextLen |-> TXT]

VARIABLES
  console,  \* the console the Tester is connected to; external
  sut,      \* where the boot loader is
  job,      \* number of the file it is loading: 0 is the configuration
  listed,   \* result of compute_mem_load_txt
  count,    \* bytes of the size received
  size,     \* file_size of uart16550_recvfile
  got,      \* bytes of the file received
  mem,      \* external memory, by offset from EXT_MEM
  loaded,   \* history: the files received, with the sizes returned
  tst,      \* where the Tester is
  relays,   \* calls of relay_file_transfer_to_sut that have returned
  tname,    \* file_name_buffer
  tbuf      \* file_content_buffer

sutVars == <<sut, job, listed, count, size, got, mem, loaded>>
tstVars == <<tst, relays, tname, tbuf>>
vars == <<rx, tx, console, sutVars, tstVars>>

Files == console.files

(* compute_mem_load_txt: the names and the addresses *)
NoFiles == [files |-> <<>>, addrs |-> <<>>]
ReadConfig(bytes) ==
  LET p == MC!Parse(bytes) IN [files |-> p.files, addrs |-> p.addrs]

Listing(c) ==
  [files |-> [k \in 1 .. Len(c.entries) |-> c.entries[k].name],
   addrs |-> [k \in 1 .. Len(c.entries) |-> c.entries[k].addr]]

(* The configuration of a console is a text that lists its entries (those  *)
(* of MemConfigLoop are), no more than there are rows, and it is received  *)
(* whole.                                                                  *)
ASSUME ConfigAssumption ==
  \A c \in Consoles :
    LET config == c.files[ConfigName] IN
    /\ c.entries \in Seq([name : Seq(Byte), addr : 0 .. AddrMod - 1])
    /\ Len(c.entries) <= MaxFiles
    /\ Len(config) <= MemSize /\ Len(config) <= FirmwareMax
    /\ ReadConfig(config) = Listing(c)

(* Mutant of JobAddr: every file is stored where the configuration was. *)
AlwaysBase(k) == 0

JobName(k)  == IF k = 0 THEN ConfigName ELSE listed.files[k]
JobAddr(k)  == IF k = 0 THEN 0 ELSE listed.addrs[k]

SutStates == {"request", "size", "data", "done"}
TstStates == {"print", "frx", "name", "fetch", "ack", "done"}

TypeOK ==
  /\ LinkTypeOK
  /\ console \in Consoles
  /\ sut \in SutStates
  /\ job \in 0 .. MaxFiles
  /\ listed \in [files : Seq(Seq(Byte)), addrs : Seq(0 .. AddrMod - 1)]
  /\ count \in 0 .. 4
  /\ size \in Nat
  /\ got \in 0 .. size
  /\ mem \in [0 .. MemSize - 1 -> Byte]
  /\ loaded \in Seq([name : Seq(Byte), addr : Nat, size : Nat])
  /\ tst \in TstStates
  /\ relays \in 0 .. 2
  /\ tname \in Seq(Byte)
  /\ tbuf \in Seq(Byte)

(* The handshake is over.  Enquiries may be left in the FIFO of the Tester *)
(* and the boot loader has put its welcome messages.                       *)
Init ==
  /\ rx \in [Side -> {<<>>, <<255, ENQ>>}]
  /\ rx["sut"] = <<>>
  /\ tx = [p \in Side |-> IF p = "sut" THEN Text ELSE <<>>]
  /\ console \in Consoles
  /\ sut = "request"
  /\ job = 0
  /\ listed = NoFiles
  /\ count = 0
  /\ size = 0
  /\ got = 0
  /\ mem = [a \in 0 .. MemSize - 1 |-> 0]
  /\ loaded = <<>>
  /\ tst = "print"
  /\ relays = 0
  /\ tname = <<>>
  /\ tbuf = <<>>

---------------------------------------------------------------------------------
(* The boot loader: uart16550_recvfile *)

(* Mutant of Request: the message follows the request. *)
RequestFirst(n) == <<FRX>> \o n \o <<NUL>> \o Text

Request(n) == Text \o <<FRX>> \o n \o <<NUL>>

(* Mutant of SutRequest: the bytes received are counted from the last file. *)
SutRequestKeepsGot ==
  /\ sut = "request"
  /\ Idle("sut")
  /\ Put("sut", Request(JobName(job)))
  /\ sut' = "size"
  /\ count' = 0
  /\ size' = 0
  /\ UNCHANGED <<rx, job, listed, got, mem, loaded, tstVars, console>>

(* the message, FRX and the name with its terminator *)
SutRequest ==
  /\ sut = "request"
  /\ Idle("sut")
  /\ Put("sut", Request(JobName(job)))
  /\ sut' = "size"
  /\ count' = 0
  /\ size' = 0
  /\ got' = 0
  /\ UNCHANGED <<rx, job, listed, mem, loaded, tstVars, console>>

(* one byte of the size, least significant first; the ACK after the fourth *)
SutSize ==
  /\ sut = "size"
  /\ Readable("sut")
  /\ TakeByte("sut")
  /\ size' = size + Head(rx["sut"]) * 256 ^ count
  /\ count' = count + 1
  /\ IF count' = 4
       THEN sut' = "data" /\ Put("sut", <<ACK>>)
       ELSE UNCHANGED <<sut, tx>>
  /\ UNCHANGED <<job, listed, got, mem, loaded, tstVars, console>>

(* one byte of the content, written to memory *)
SutData ==
  /\ sut = "data"
  /\ got < size
  /\ Readable("sut")
  /\ TakeByte("sut")
  /\ mem' = [mem EXCEPT ![JobAddr(job) + got] = Head(rx["sut"])]
  /\ got' = got + 1
  /\ UNCHANGED <<tx, sut, job, listed, count, size, loaded, tstVars, console>>

HasRootFs(l) == \E k \in 1 .. Len(l.files) : l.files[k] = RootFs

(* recvfile returns.  The configuration is parsed; after the last file the *)
(* boot loader prints its last message, and ends the transmission if the   *)
(* files contain a root file system.                                       *)
SutReceived ==
  /\ sut = "data"
  /\ got = size
  /\ Idle("sut")
  /\ listed' = IF job = 0
                 THEN ReadConfig([k \in 1 .. size |-> mem[k - 1]])
                 ELSE listed
  /\ loaded' = Append(loaded, [name |-> JobName(job), addr |-> JobAddr(job),
                               size |-> size])
  /\ IF job < Len(listed'.files)
       THEN /\ sut' = "request"
            /\ job' = job + 1
            /\ Put("sut", Text)
       ELSE /\ sut' = "done"
            /\ job' = job
            /\ Put("sut", Text \o IF HasRootFs(listed') THEN <<EOT>> ELSE <<>>)
  /\ UNCHANGED <<rx, count, size, got, mem, tstVars, console>>

---------------------------------------------------------------------------------
(* The Tester: relay_file_transfer_to_sut *)

(* the messages to the console before the request is awaited *)
TstPrint ==
  /\ tst = "print"
  /\ Idle("tst")
  /\ tst' = "frx"
  /\ UNCHANGED <<rx, tx, relays, tname, tbuf, sutVars, console>>

(* everything up to FRX is dropped *)
TstFrx ==
  /\ tst = "frx"
  /\ Readable("tst")
  /\ TakeByte("tst")
  /\ IF Head(rx["tst"]) = FRX
       THEN tst' = "name" /\ tname' = <<>>
       ELSE UNCHANGED <<tst, tname>>
  /\ UNCHANGED <<tx, relays, tbuf, sutVars, console>>

(* the name, up to its terminator *)
TstName ==
  /\ tst = "name"
  /\ Readable("tst")
  /\ TakeByte("tst")
  /\ IF Head(rx["tst"]) = NUL
       THEN tst' = "fetch" /\ UNCHANGED tname
       ELSE tname' = Append(tname, Head(rx["tst"])) /\ UNCHANGED tst
  /\ UNCHANGED <<tx, relays, tbuf, sutVars, console>>

(* Mutant of Received: the buffer keeps a terminator. *)
ReceivedAsString(content) ==
  IF TesterLinux /\ Len(content) >= FirmwareMax
  THEN SubSeq(content, 1, FirmwareMax - 1)
  ELSE content

(* The Linux program reads at most SUT_FIRMWARE_SIZE bytes of the file. *)
Received(content) ==
  IF TesterLinux /\ Len(content) > FirmwareMax
  THEN SubSeq(content, 1, FirmwareMax)
  ELSE content

(* The file is obtained from the console, under the name received, and its *)
(* size is sent.  A name the console does not know leaves the Tester       *)
(* waiting for the console.                                                *)
TstFetch ==
  /\ tst = "fetch"
  /\ tname \in DOMAIN Files
  /\ tbuf' = Received(Files[tname])
  /\ Put("tst", SizeBytes(Len(tbuf')))
  /\ tst' = "ack"
  /\ UNCHANGED <<rx, relays, tname, sutVars, console>>

(* the content, once the ACK is there; main calls the relay twice *)
TstAck ==
  /\ tst = "ack"
  /\ Readable("tst")
  /\ TakeByte("tst")
  /\ IF Head(rx["tst"]) = ACK
       THEN /\ Put("tst", tbuf)
            /\ relays' = relays + 1
            /\ tst' = IF relays' = 2 THEN "done" ELSE "print"
       ELSE UNCHANGED <<tx, relays, tst>>
  /\ UNCHANGED <<tname, tbuf, sutVars, console>>

---------------------------------------------------------------------------------
Polling(p) ==
  /\ Idle(p)
  /\ IF p = "sut" THEN sut \in {"size", "data"} ELSE tst \in {"frx", "name", "ack"}

Deliver(p) ==
  /\ Transmit(p, Polling(Other(p)) \/ (Prompt /\ p = "sut"))
  /\ UNCHANGED <<sutVars, tstVars, console>>

Terminated == sut = "done" /\ tst = "done" /\ UNCHANGED vars

SutNext == SutRequest \/ SutSize \/ SutData \/ SutReceived

TstNext == TstPrint \/ TstFrx \/ TstName \/ TstFetch \/ TstAck

Next ==
  \/ SutNext
  \/ TstNext
  \/ \E p \in Side : Deliver(p)
  \/ Terminated

Fairness ==
  /\ WF_vars(SutNext)
  /\ WF_vars(TstNext)
  /\ \A p \in Side : WF_vars(Deliver(p))

Spec == Init /\ [][Next]_vars

FairSpec == Spec /\ Fairness

---------------------------------------------------------------------------------
(* Properties *)

(* The file the Tester fetches is the one the SUT is waiting for, even     *)
(* when bytes of the request were lost while the Tester was printing: a    *)
(* request is received whole or not at all.                                *)
RightFile ==
  tst = "fetch" => sut = "size" /\ count = 0 /\ tname = JobName(job)

(* The SUT never loses a byte: the Tester only sends while it is polling. *)
SutNeverOverruns ==
  [][ tx["tst"] # <<>> /\ tx'["tst"] = Tail(tx["tst"]) =>
        Len(rx'["sut"]) = Len(rx["sut"]) + 1 ]_vars

(* When the boot loader starts the program, memory holds every file listed *)
(* in the configuration at the address listed for it.                      *)
ImageIsComplete ==
  sut = "done" =>
    \A k \in 1 .. Len(console.entries) :
      LET e == console.entries[k]
      IN  \A j \in 1 .. Len(Files[e.name]) :
            mem[e.addr + j - 1] = Files[e.name][j]

(* Loading implements FileService, whatever the line loses: relay, parser  *)
(* and boot loader together store the configuration and then exactly the   *)
(* files that it lists, in its order, whole and at their addresses, and    *)
(* never write anything else.                                              *)
Service == INSTANCE FileService WITH busy <- sut \in {"size", "data"}

ImplementsFileService == Service!Spec

(* When nothing is lost, the whole program is loaded and both go on. *)
Completes == <>(sut = "done" /\ tst = "done")
=================================================================================
