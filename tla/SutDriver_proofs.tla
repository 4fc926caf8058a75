----------------------------- MODULE SutDriver_proofs ---------------------------
(***************************************************************************)
(* Proofs about the Linux driver, for any processes, devices and           *)
(* registers.  What concerns its resources is proved for failures that     *)
(* probe reports: the two that it does not report break it.                *)
(***************************************************************************)
EXTENDS SutDriver, TLAPS

(* An answer has the types of the variable. *)
LEMMA AnswerType ==
  ASSUME NEW c \in {"none", "read", "write"}, NEW a \in Nat, NEW r \in Int, NEW m \in Nat
  PROVE  Answer(c, a, r, m) \in [call : {"none", "read", "write"}, asked : Nat,
                                 returned : Int, moved : Nat]
BY DEF Answer

(* The types of the variables: in particular no sequence of seeks leaves    *)
(* the region of the registers.                                            *)
THEOREM TypeCorrect == Spec => []TypeOK
<1>1. Init => TypeOK
  <2> SUFFICES ASSUME Init PROVE TypeOK
    OBVIOUS
  <2>1. pos \in [Procs -> 0 .. RegSize]
    BY DriverAssumption DEF Init
  <2>2. answer \in [call : {"none", "read", "write"}, asked : Nat,
                    returned : Int, moved : Nat]
    BY AnswerType DEF Init
  <2> QED
    BY <2>1, <2>2 DEF Init, TypeOK
<1>2. TypeOK /\ [Next]_vars => TypeOK'
  <2> SUFFICES ASSUME TypeOK, [Next]_vars PROVE TypeOK'
    OBVIOUS
  <2>1. CASE Insmod
    BY <2>1 DEF Insmod, TypeOK, fileVars
  <2>2. CASE Rmmod \/ RmmodDone
    BY <2>2 DEF Rmmod, RmmodDone, TypeOK, fileVars
  <2>3. ASSUME NEW d \in Devs, Unbind(d) \/ RmmodRemove(d) PROVE TypeOK'
    BY <2>3 DEF Unbind, RmmodRemove, Remove, Release, TypeOK, fileVars
  <2>4. CASE ProbeStep
    BY <2>4 DEF ProbeStep, After, Take, Steps, TypeOK, fileVars
  <2>5. CASE ProbeFail
    BY <2>5 DEF ProbeFail, Release, Steps, TypeOK, fileVars
  <2>6. ASSUME NEW d \in Devs, ProbeRefuse(d) \/ ProbeStart(d) PROVE TypeOK'
    BY <2>6 DEF ProbeRefuse, ProbeStart, Steps, TypeOK, fileVars, vars, probeVars
  <2>7. ASSUME NEW p \in Procs, Open(p) \/ OpenBusy(p) \/ Close(p) PROVE TypeOK'
    <3>1. 0 \in 0 .. RegSize
      BY DriverAssumption
    <3>2. pos' \in [Procs -> 0 .. RegSize]
      BY <2>7, <3>1 DEF Open, OpenBusy, Close, TypeOK, fileVars, vars
    <3> QED
      BY <2>7, <3>2 DEF Open, OpenBusy, Close, TypeOK, fileVars, vars, probeVars
  <2>8. ASSUME NEW p \in Procs, Seek(p) PROVE TypeOK'
    <3>1. pos' \in [Procs -> 0 .. RegSize]
      BY <2>8 DEF Seek, Valid, TypeOK
    <3> QED
      BY <2>8, <3>1 DEF Seek, TypeOK, probeVars
  <2>9. ASSUME NEW p \in Procs, Read(p) PROVE TypeOK'
    <3>1. PICK at \in {pos[p]} \cup DOMAIN ReadRegs, count \in 0 .. MaxCount :
            IF at \notin DOMAIN ReadRegs
            THEN answer' = Answer("read", count, 0, 0)
            ELSE \/ answer' = Answer("read", count, count, Smaller(ReadRegs[at], count))
                 \/ answer' = Answer("read", count, Error, 0)
      BY <2>9 DEF Read
    <3>2. count \in Nat /\ Error \in Int
      BY DriverAssumption DEF Error
    <3>3. at \in DOMAIN ReadRegs => Smaller(ReadRegs[at], count) \in Nat
      BY <3>2, DriverAssumption DEF Smaller
    <3>4. answer' \in [call : {"none", "read", "write"}, asked : Nat,
                       returned : Int, moved : Nat]
      BY <3>1, <3>2, <3>3, AnswerType
    <3> QED
      BY <2>9, <3>4 DEF Read, TypeOK, probeVars
  <2>10. ASSUME NEW p \in Procs, Write(p) PROVE TypeOK'
    <3>1. PICK at \in {pos[p]} \cup DOMAIN WriteRegs, count \in 0 .. MaxCount :
            IF at \notin DOMAIN WriteRegs
            THEN answer' = Answer("write", count, 0, 0)
            ELSE \/ answer' = Answer("write", count, count, WriteRegs[at])
                 \/ answer' = Answer("write", count, Error, 0)
      BY <2>10 DEF Write
    <3>2. count \in Nat /\ Error \in Int
      BY DriverAssumption DEF Error
    <3>3. at \in DOMAIN WriteRegs => WriteRegs[at] \in Nat
      BY DriverAssumption
    <3>4. CASE at \notin DOMAIN WriteRegs
      BY <2>10, <3>1, <3>2, <3>4, AnswerType DEF Write, TypeOK, probeVars
    <3>5. CASE at \in DOMAIN WriteRegs
      <4>1. \/ answer' = Answer("write", count, count, WriteRegs[at])
            \/ answer' = Answer("write", count, Error, 0)
        BY <3>1, <3>5
      <4>2. answer' \in [call : {"none", "read", "write"}, asked : Nat,
                         returned : Int, moved : Nat]
        BY <4>1, <3>2, <3>3, <3>5, AnswerType
      <4> QED
        BY <2>10, <4>2 DEF Write, TypeOK, probeVars
    <3> QED
      BY <3>4, <3>5
  <2>11. CASE UNCHANGED vars
    BY <2>11 DEF vars, probeVars, fileVars, TypeOK
  <2> QED
    BY <2>1, <2>2, <2>3, <2>4, <2>5, <2>6, <2>7, <2>8, <2>9, <2>10, <2>11
       DEF Next, Loading, Probing, Using
<1> QED
  BY <1>1, <1>2, PTL DEF Spec

(* One opener at a time, and the lock is held exactly while there is one:   *)
(* the mutex of the driver, over opens, closes, probes and removes.        *)
THEOREM Exclusive == Spec => []LockIsTheOpener
<1>1. Init => LockIsTheOpener
  BY DEF Init, LockIsTheOpener
<1>2. LockIsTheOpener /\ [Next]_vars => LockIsTheOpener'
  <2> SUFFICES ASSUME LockIsTheOpener, [Next]_vars PROVE LockIsTheOpener'
    OBVIOUS
  <2>1. CASE Loading
    BY <2>1 DEF Loading, Insmod, Rmmod, RmmodDone, Unbind, RmmodRemove, Remove,
                fileVars, LockIsTheOpener
  <2>2. CASE Probing
    BY <2>2 DEF Probing, ProbeStep, ProbeFail, ProbeRefuse, ProbeStart, vars,
                fileVars, LockIsTheOpener
  <2>3. ASSUME NEW p \in Procs, Open(p) PROVE LockIsTheOpener'
    BY <2>3 DEF Open, LockIsTheOpener
  <2>4. ASSUME NEW p \in Procs, Close(p) PROVE LockIsTheOpener'
    BY <2>4 DEF Close, LockIsTheOpener
  <2>5. ASSUME NEW p \in Procs, OpenBusy(p) \/ Seek(p) \/ Read(p) \/ Write(p)
        PROVE  LockIsTheOpener'
    BY <2>5 DEF OpenBusy, Seek, Read, Write, vars, fileVars, LockIsTheOpener
  <2>6. CASE UNCHANGED vars
    BY <2>6 DEF vars, fileVars, LockIsTheOpener
  <2> QED
    BY <2>1, <2>2, <2>3, <2>4, <2>5, <2>6 DEF Next, Using
<1> QED
  BY <1>1, <1>2, PTL DEF Spec

---------------------------------------------------------------------------------
(* What a bound device holds. *)
Everything == Steps \ {"region"}

(* The running probe holds exactly what its next failure would release.     *)
ProbeHolds ==
  step # "idle" =>
    /\ module = "in"
    /\ bound = {}
    /\ held = Undo(step)
    /\ mapped = IF step = "region" THEN {} ELSE {dev}
    /\ device <=> step = "attrs"

(* Between probes the driver holds nothing, or everything for one device.   *)
IdleHolds ==
  step = "idle" =>
    \/ bound = {} /\ held = {} /\ mapped = {}
    \/ /\ bound = {dev}
       /\ held = Everything
       /\ mapped = {dev}
       /\ device
       /\ module # "out"

(* The inductive invariant of the resources. *)
Resources ==
  /\ step \in Steps \cup {"idle"}
  /\ misused = FALSE
  /\ ProbeHolds
  /\ IdleHolds

(* The resources of the driver are kept in order by every step, when probe  *)
(* reports its failures.                                                   *)
LEMMA ResourcesNext ==
  ASSUME Failing \cap Unreported = {}, Resources, [Next]_vars
  PROVE  Resources'
<1>1. CASE Insmod
  BY <1>1 DEF Insmod, Resources, ProbeHolds, IdleHolds
<1>2. CASE Rmmod \/ RmmodDone
  BY <1>2 DEF Rmmod, RmmodDone, Resources, ProbeHolds, IdleHolds
<1>3. ASSUME NEW d \in Devs, Unbind(d) \/ RmmodRemove(d) PROVE Resources'
  <2>1. Remove(d)
    BY <1>3 DEF Unbind, RmmodRemove
  <2>2. step = "idle" /\ bound = {dev} /\ held = Everything /\ mapped = {dev} /\ d = dev
    BY <1>3, <2>1 DEF Remove, Unbind, RmmodRemove, Resources, ProbeHolds, IdleHolds
  <2>3. Everything = {"attrs", "device", "class", "cdev", "chrdev"}
    BY DEF Everything, Steps
  <2>4. bound' = {} /\ mapped' = {} /\ held' = {} /\ misused' = FALSE /\ step' = "idle"
    BY <2>1, <2>2, <2>3 DEF Remove, Release, Resources
  <2> QED
    BY <2>4 DEF Resources, ProbeHolds, IdleHolds
<1>4. CASE ProbeStep
  <2>1. step \in Steps /\ step # "idle"
    BY <1>4 DEF ProbeStep, Steps
  <2>2. /\ module = "in" /\ bound = {} /\ held = Undo(step)
        /\ mapped = IF step = "region" THEN {} ELSE {dev}
        /\ device <=> step = "attrs"
    BY <2>1 DEF Resources, ProbeHolds
  <2>3. CASE step = "attrs"
    BY <1>4, <2>2, <2>3
       DEF ProbeStep, Take, After, Undo, Steps, Everything, Resources, ProbeHolds, IdleHolds
  <2>4. CASE step # "attrs"
    BY <1>4, <2>1, <2>2, <2>4
       DEF ProbeStep, Take, After, Undo, Steps, Resources, ProbeHolds, IdleHolds
  <2> QED
    BY <2>3, <2>4
<1>5. CASE ProbeFail
  <2>1. step \in Steps /\ step # "idle" /\ step \notin Unreported
    BY <1>5, DriverAssumption DEF ProbeFail, Steps
  <2>2. bound = {} /\ held = Undo(step) /\ mapped \subseteq {dev}
    BY <2>1 DEF Resources, ProbeHolds
  <2> QED
    BY <1>5, <2>1, <2>2 DEF ProbeFail, Release, Resources, ProbeHolds, IdleHolds
<1>6. ASSUME NEW d \in Devs, ProbeRefuse(d) \/ ProbeStart(d) PROVE Resources'
  BY <1>6 DEF ProbeRefuse, ProbeStart, vars, probeVars, Undo, Steps, Resources,
              ProbeHolds, IdleHolds
<1>7. CASE Using
  BY <1>7 DEF Using, Open, OpenBusy, Close, Seek, Read, Write, vars, probeVars,
              Resources, ProbeHolds, IdleHolds
<1>8. CASE UNCHANGED vars
  BY <1>8 DEF vars, probeVars, Resources, ProbeHolds, IdleHolds
<1> QED
  BY <1>1, <1>2, <1>3, <1>4, <1>5, <1>6, <1>7, <1>8 DEF Next, Loading, Probing

(* The inductive invariant holds in every run in which probe reports its    *)
(* failures.                                                               *)
LEMMA ResourcesInvariant ==
  ASSUME Failing \cap Unreported = {}
  PROVE  Spec => []Resources
<1>1. Init => Resources
  BY DEF Init, Resources, ProbeHolds, IdleHolds
<1>2. Resources /\ [Next]_vars => Resources'
  BY ResourcesNext
<1> QED
  BY <1>1, <1>2, PTL DEF Spec

(* No resource is taken twice, or released when it is not held.             *)
THEOREM Once ==
  ASSUME Failing \cap Unreported = {}
  PROVE  Spec => []ReleasedOnce
<1>1. Resources => ReleasedOnce
  BY DEF Resources, ReleasedOnce
<1> QED
  BY <1>1, ResourcesInvariant, PTL

(* A failed probe and a remove give back everything. *)
THEOREM NothingLeft ==
  ASSUME Failing \cap Unreported = {}
  PROVE  Spec => []NothingLeaks
<1>1. Resources => NothingLeaks
  BY DEF Resources, IdleHolds, NothingLeaks
<1> QED
  BY <1>1, ResourcesInvariant, PTL

(* A device that is bound has all its resources. *)
THEOREM Whole ==
  ASSUME Failing \cap Unreported = {}
  PROVE  Spec => []ProbeSucceedsWhole
<1>1. Resources => ProbeSucceedsWhole
  BY DEF Resources, IdleHolds, ProbeSucceedsWhole, Everything
<1> QED
  BY <1>1, ResourcesInvariant, PTL

---------------------------------------------------------------------------------
(* While a file is open a module is loaded and a device is there.           *)
OpenHasDevice ==
  open # {} =>
    /\ module = "in"
    /\ step = "attrs" \/ (step = "idle" /\ bound # {})

(* A file can be opened only when the device has been created. *)
LEMMA OpenWhenCreated ==
  ASSUME Resources, module = "in", {"cdev", "device"} \subseteq held
  PROVE  step = "attrs" \/ (step = "idle" /\ bound # {})
<1>1. "device" \in held
  OBVIOUS
<1>2. CASE step = "idle"
  BY <1>1, <1>2 DEF Resources, IdleHolds
<1>3. CASE step # "idle"
  BY <1>1, <1>3 DEF Resources, ProbeHolds, Undo, Steps
<1> QED
  BY <1>2, <1>3

(* The registers stay mapped under an open file, provided that devices      *)
(* leave only with the module and that probe does not fail after the       *)
(* device was created.                                                     *)
THEOREM Mapped ==
  ASSUME Failing \cap {"class", "device", "attrs"} = {}, ~HotUnbind
  PROVE  Spec => []RegistersMapped
<1>1. Failing \cap Unreported = {}
  BY DEF Unreported
<1>2. Init => OpenHasDevice
  BY DEF Init, OpenHasDevice
<1>3. Resources /\ OpenHasDevice /\ [Next]_vars => OpenHasDevice'
  <2> SUFFICES ASSUME Resources, OpenHasDevice, [Next]_vars PROVE OpenHasDevice'
    OBVIOUS
  <2>1. CASE Insmod \/ Rmmod \/ RmmodDone
    BY <2>1 DEF Insmod, Rmmod, RmmodDone, NotInUse, fileVars, OpenHasDevice
  <2>2. ASSUME NEW d \in Devs, Unbind(d) \/ RmmodRemove(d) PROVE OpenHasDevice'
    BY <2>2 DEF Unbind, RmmodRemove, Remove, fileVars, OpenHasDevice
  <2>3. CASE ProbeStep
    BY <2>3 DEF ProbeStep, After, Steps, fileVars, OpenHasDevice
  <2>4. CASE ProbeFail
    BY <2>4 DEF ProbeFail, fileVars, OpenHasDevice, DriverAssumption
  <2>5. ASSUME NEW d \in Devs, ProbeRefuse(d) \/ ProbeStart(d) PROVE OpenHasDevice'
    <3>1. CASE ProbeRefuse(d)
      BY <3>1 DEF ProbeRefuse, vars, probeVars, fileVars, OpenHasDevice
    <3>2. CASE ProbeStart(d)
      BY <3>2 DEF ProbeStart, Resources, IdleHolds, fileVars, OpenHasDevice
    <3> QED
      BY <2>5, <3>1, <3>2
  <2>6. ASSUME NEW p \in Procs, Open(p) PROVE OpenHasDevice'
    BY <2>6, OpenWhenCreated DEF Open, probeVars, OpenHasDevice
  <2>7. ASSUME NEW p \in Procs, Close(p) \/ OpenBusy(p) \/ Seek(p) \/ Read(p) \/ Write(p)
        PROVE  OpenHasDevice'
    BY <2>7 DEF Close, OpenBusy, Seek, Read, Write, vars, fileVars, probeVars, OpenHasDevice
  <2>8. CASE UNCHANGED vars
    BY <2>8 DEF vars, fileVars, probeVars, OpenHasDevice
  <2> QED
    BY <2>1, <2>2, <2>3, <2>4, <2>5, <2>6, <2>7, <2>8
       DEF Next, Loading, Probing, Using
<1>4. Resources /\ OpenHasDevice => RegistersMapped
  BY DEF Resources, OpenHasDevice, ProbeHolds, IdleHolds, RegistersMapped
<1> QED
  BY <1>1, <1>2, <1>3, <1>4, ResourcesInvariant, PTL DEF Spec

(* The module is not unloaded under an open file. *)
THEOREM Unused == Spec => []UnloadsUnused
<1>1. Init => UnloadsUnused
  BY DEF Init, UnloadsUnused
<1>2. UnloadsUnused /\ [Next]_vars => UnloadsUnused'
  BY DEF Next, Loading, Probing, Using, Insmod, Rmmod, RmmodDone, NotInUse, Unbind,
         RmmodRemove, Remove, ProbeStep, ProbeFail, ProbeRefuse, ProbeStart, Open,
         OpenBusy, Close, Seek, Read, Write, vars, probeVars, fileVars, UnloadsUnused
<1> QED
  BY <1>1, <1>2, PTL DEF Spec
=================================================================================
