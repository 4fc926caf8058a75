------------------------------- MODULE SutDriver --------------------------------
(***************************************************************************)
(* The Linux driver of the register file of the SUT                        *)
(* (iob_soc_sut_main.c): loading and unloading the module, probe and       *)
(* remove, and the file operations of its character device.  The probe     *)
(* takes its resources one by one, and other processes run in between.     *)
(*                                                                         *)
(* The kernel, and the generated functions that create and remove the      *)
(* sysfs attributes, are not in this repository and are modelled from how  *)
(* the driver calls them.  A probe that returns 0 leaves its device bound  *)
(* to the driver; any other result lets the kernel unmap the registers     *)
(* (devm).  Probes follow one another.                                     *)
(***************************************************************************)
EXTENDS Integers, FiniteSets

CONSTANTS
  Procs,      \* processes that use the character device
  Devs,       \* platform devices that match the driver
  Failing,    \* the steps of probe that may fail
  HotUnbind,  \* TRUE: devices are also unbound while the module stays
  ReadRegs,   \* address -> bytes, of the registers that can be read
  WriteRegs,  \* address -> bytes, of the registers that can be written
  RegSize,    \* regsize: bytes of the region
  AddrSpace,  \* 1 << IOB_SOC_SUT_SWREG_ADDR_W
  MaxCount    \* bound on the count of a read or a write

Steps == {"region", "chrdev", "cdev", "class", "device", "attrs"}

ASSUME DriverAssumption ==
  /\ Failing \subseteq Steps
  /\ HotUnbind \in BOOLEAN
  /\ RegSize \in Nat \ {0}
  /\ AddrSpace \in Nat
  /\ MaxCount \in Nat
  /\ DOMAIN ReadRegs \subseteq 0 .. RegSize - 1
  /\ DOMAIN WriteRegs \subseteq 0 .. RegSize - 1
  /\ \A a \in DOMAIN ReadRegs : ReadRegs[a] \in Nat
  /\ \A a \in DOMAIN WriteRegs : WriteRegs[a] \in Nat

VARIABLES
  module,   \* the module: not there, there, or being unloaded
  step,     \* the step of the running probe, "idle" if there is none
  dev,      \* the device it probes; regbase is that of this device
  bound,    \* the devices bound to the driver
  mapped,   \* the devices whose registers are mapped
  held,     \* what iob_soc_sut_data holds besides the registers
  device,   \* iob_soc_sut_data.device is not NULL
  misused,  \* history: something was taken twice or released when not held
  locked,   \* iob_soc_sut_mutex
  open,     \* the processes that have the character device open
  pos,      \* f_pos of their files
  answer    \* the last read or write: bytes asked for, returned and moved
            \* from or to the caller

probeVars == <<module, step, dev, bound, mapped, held, device, misused>>
fileVars == <<locked, open, pos, answer>>
vars == <<probeVars, fileVars>>

Error == -1

Answer(call, asked, returned, moved) ==
  [call |-> call, asked |-> asked, returned |-> returned, moved |-> moved]

TypeOK ==
  /\ module \in {"out", "in", "going"}
  /\ step \in Steps \cup {"idle"}
  /\ dev \in Devs
  /\ bound \subseteq Devs
  /\ mapped \subseteq Devs
  /\ held \subseteq Steps \ {"region"}
  /\ device \in BOOLEAN
  /\ misused \in BOOLEAN
  /\ locked \in BOOLEAN
  /\ open \subseteq Procs
  /\ pos \in [Procs -> 0 .. RegSize]
  /\ answer \in [call : {"none", "read", "write"}, asked : Nat,
                  returned : Int, moved : Nat]

Init ==
  /\ module = "out"
  /\ step = "idle"
  /\ dev \in Devs
  /\ bound = {}
  /\ mapped = {}
  /\ held = {}
  /\ device = FALSE
  /\ misused = FALSE
  /\ locked = FALSE
  /\ open = {}
  /\ pos = [p \in Procs |-> 0]
  /\ answer = Answer("none", 0, 0, 0)

Take(r) == held' = held \cup {r} /\ misused' = (misused \/ r \in held)

Release(rs) == held' = held \ rs /\ misused' = (misused \/ ~(rs \subseteq held))

---------------------------------------------------------------------------------
(* Module and probe *)

(* insmod: the static data of the driver is zero *)
Insmod ==
  /\ module = "out"
  /\ module' = "in"
  /\ device' = FALSE
  /\ UNCHANGED <<step, dev, bound, mapped, held, misused, fileVars>>

(* The first test of probe: one device only, and after that -ENODEV. *)
ProbeRefuse(d) ==
  /\ module = "in"
  /\ step = "idle"
  /\ d \in Devs \ bound
  /\ device
  /\ UNCHANGED vars

(* Mutant of ProbeStart: the test is missing. *)
ProbeStartAny(d) ==
  /\ module = "in"
  /\ step = "idle"
  /\ d \in Devs \ bound
  /\ step' = "region"
  /\ dev' = d
  /\ UNCHANGED <<module, bound, mapped, held, device, misused, fileVars>>

ProbeStart(d) ==
  /\ module = "in"
  /\ step = "idle"
  /\ d \in Devs \ bound
  /\ ~device
  /\ step' = "region"
  /\ dev' = d
  /\ UNCHANGED <<module, bound, mapped, held, device, misused, fileVars>>

After(s) ==
  CASE s = "region" -> "chrdev"
    [] s = "chrdev" -> "cdev"
    [] s = "cdev"   -> "class"
    [] s = "class"  -> "device"
    [] s = "device" -> "attrs"
    [] s = "attrs"  -> "idle"

(* a step that succeeds; after the last one probe returns 0 *)
ProbeStep ==
  /\ step \in Steps
  /\ step' = After(step)
  /\ IF step = "region"
       THEN mapped' = mapped \cup {dev} /\ UNCHANGED <<held, misused>>
       ELSE Take(step) /\ UNCHANGED mapped
  /\ device' = (device \/ step = "device")
  /\ bound' = IF step = "attrs" THEN bound \cup {dev} ELSE bound
  /\ UNCHANGED <<module, dev, fileVars>>

(* Mutant of Undo: the jump for the device goes past class_destroy. *)
UndoOneShort(s) ==
  CASE s \in {"region", "chrdev"} -> {}
    [] s = "cdev"   -> {"chrdev"}
    [] s = "class"  -> {"chrdev"}
    [] s = "device" -> {"chrdev", "cdev"}
    [] s = "attrs"  -> {"chrdev", "cdev", "device"}

(* what the labels release after the failure of step s; the function that  *)
(* removes the attributes also removes the device                          *)
Undo(s) ==
  CASE s \in {"region", "chrdev"} -> {}
    [] s = "cdev"   -> {"chrdev"}
    [] s = "class"  -> {"chrdev", "cdev"}
    [] s = "device" -> {"chrdev", "cdev", "class"}
    [] s = "attrs"  -> {"chrdev", "cdev", "class", "device"}

(* class_create and device_create do not set result, which is still 0. *)
Unreported == {"class", "device"}

(* a step that fails; data.device keeps its value *)
ProbeFail ==
  /\ step \in Failing
  /\ step' = "idle"
  /\ Release(Undo(step))
  /\ IF step \in Unreported
       THEN bound' = bound \cup {dev} /\ UNCHANGED mapped
       ELSE mapped' = mapped \ {dev} /\ UNCHANGED bound
  /\ UNCHANGED <<module, dev, device, fileVars>>

(* Mutant of Remove: the character device stays. *)
RemoveNoCdev(d) ==
  /\ d \in bound
  /\ bound' = bound \ {d}
  /\ mapped' = mapped \ {d}
  /\ Release({"attrs", "device", "class", "chrdev"})
  /\ UNCHANGED <<step, dev, device, fileVars>>

(* remove, and then the kernel unmaps the registers; data.device keeps its *)
(* value                                                                   *)
Remove(d) ==
  /\ d \in bound
  /\ bound' = bound \ {d}
  /\ mapped' = mapped \ {d}
  /\ Release({"attrs", "device", "class", "cdev", "chrdev"})
  /\ UNCHANGED <<step, dev, device, fileVars>>

Unbind(d) == HotUnbind /\ module = "in" /\ step = "idle" /\ Remove(d) /\ UNCHANGED module

(* Mutant of NotInUse: the operations do not name their owner. *)
NoOwner == TRUE

(* owner = THIS_MODULE: the kernel does not unload while a file is open *)
NotInUse == open = {}

(* rmmod removes the bound devices and then the module *)
Rmmod ==
  /\ module = "in"
  /\ step = "idle"
  /\ NotInUse
  /\ module' = "going"
  /\ UNCHANGED <<step, dev, bound, mapped, held, device, misused, fileVars>>

RmmodRemove(d) == module = "going" /\ Remove(d) /\ UNCHANGED module

RmmodDone ==
  /\ module = "going"
  /\ bound = {}
  /\ module' = "out"
  /\ UNCHANGED <<step, dev, bound, mapped, held, device, misused, fileVars>>

---------------------------------------------------------------------------------
(* File operations *)

(* The device node exists; a second opener gets -EBUSY. *)
OpenBusy(p) ==
  /\ p \in Procs \ open
  /\ module = "in"
  /\ {"cdev", "device"} \subseteq held
  /\ locked
  /\ UNCHANGED vars

(* Mutant of Open: the result of mutex_trylock is ignored. *)
OpenAnyway(p) ==
  /\ p \in Procs \ open
  /\ module = "in"
  /\ {"cdev", "device"} \subseteq held
  /\ locked' = TRUE
  /\ open' = open \cup {p}
  /\ pos' = [pos EXCEPT ![p] = 0]
  /\ UNCHANGED <<probeVars, answer>>

Open(p) ==
  /\ p \in Procs \ open
  /\ module = "in"
  /\ {"cdev", "device"} \subseteq held
  /\ ~locked
  /\ locked' = TRUE
  /\ open' = open \cup {p}
  /\ pos' = [pos EXCEPT ![p] = 0]
  /\ UNCHANGED <<probeVars, answer>>

(* iob_soc_sut_release *)
Close(p) ==
  /\ p \in open
  /\ locked' = FALSE
  /\ open' = open \ {p}
  /\ UNCHANGED <<probeVars, pos, answer>>

(* Mutant of Valid: a position before the region is not refused. *)
ValidAbove(new) == new <= RegSize

(* the position just after the region is valid *)
Valid(new) == new \in 0 .. RegSize

(* Whence: SEEK_SET, SEEK_CUR, SEEK_END.  An invalid position is refused   *)
(* and changes nothing.                                                    *)
Seek(p) ==
  /\ p \in open
  /\ \E from \in {0, pos[p], AddrSpace}, offset \in {-RegSize, -1, 0, 1, RegSize} :
       /\ Valid(from + offset)
       /\ pos' = [pos EXCEPT ![p] = from + offset]
  /\ UNCHANGED <<probeVars, locked, open, answer>>

Smaller(m, n) == IF m < n THEN m ELSE n

(* read and pread: f_pos, or any other position, is used and not changed;  *)
(* copy_to_user may fail                                                   *)
Read(p) ==
  /\ p \in open
  /\ \E at \in {pos[p]} \cup DOMAIN ReadRegs, count \in 0 .. MaxCount :
       IF at \notin DOMAIN ReadRegs
       THEN answer' = Answer("read", count, 0, 0)
       ELSE \/ answer' = Answer("read", count, count, Smaller(ReadRegs[at], count))
            \/ answer' = Answer("read", count, Error, 0)
  /\ UNCHANGED <<probeVars, locked, open, pos>>

(* write and pwrite: the width of the register is taken from the caller,   *)
(* whatever the count                                                      *)
Write(p) ==
  /\ p \in open
  /\ \E at \in {pos[p]} \cup DOMAIN WriteRegs, count \in 0 .. MaxCount :
       IF at \notin DOMAIN WriteRegs
       THEN answer' = Answer("write", count, 0, 0)
       ELSE \/ answer' = Answer("write", count, count, WriteRegs[at])
            \/ answer' = Answer("write", count, Error, 0)
  /\ UNCHANGED <<probeVars, locked, open, pos>>

---------------------------------------------------------------------------------
Loading == Insmod \/ Rmmod \/ RmmodDone \/ \E d \in Devs : Unbind(d) \/ RmmodRemove(d)

Probing == ProbeStep \/ ProbeFail \/ \E d \in Devs : ProbeRefuse(d) \/ ProbeStart(d)

Using ==
  \E p \in Procs : Open(p) \/ OpenBusy(p) \/ Close(p) \/ Seek(p) \/ Read(p) \/ Write(p)

Next == Loading \/ Probing \/ Using

Spec == Init /\ [][Next]_vars

---------------------------------------------------------------------------------
(* Properties *)

(* At most one process has the device open, and the lock is held exactly   *)
(* while one has: an unbind, a failed probe or a second opener between     *)
(* neither frees the lock nor leaves it behind.                            *)
LockIsTheOpener ==
  /\ locked <=> open # {}
  /\ \A p, q \in open : p = q

(* No resource is taken a second time before it was released, or released  *)
(* while it is not held, over any sequence of probes, failures and         *)
(* removes.                                                                *)
ReleasedOnce == ~misused

(* When no device is bound or being probed, the driver holds nothing: a    *)
(* probe that fails at any step, and a remove, give back everything.       *)
NothingLeaks == step = "idle" /\ bound = {} => held = {} /\ mapped = {}

(* The module is not unloaded, and its devices are not removed with it,    *)
(* while one of its operations may run: not even if a file was opened      *)
(* during a probe, or survived an unbind.                                  *)
UnloadsUnused == module # "in" => open = {}

(* As long as a file is open the registers that its reads and writes       *)
(* access are mapped.  An unbind under an open file, and a probe that      *)
(* fails after the device was created, break this.                         *)
RegistersMapped == open # {} => dev \in mapped

(* A bound device is a usable one: a probe that returns 0 holds every      *)
(* resource.                                                               *)
ProbeSucceedsWhole ==
  step = "idle" /\ bound # {} => held = Steps \ {"region"} /\ device
=================================================================================
