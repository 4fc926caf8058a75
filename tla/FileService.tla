------------------------------ MODULE FileService -------------------------------
(***************************************************************************)
(* What loading promises, without the serial line, the Tester or the       *)
(* parser: first the configuration and then every file that it lists, in   *)
(* its order, is stored byte by byte at its address, whole, and nothing    *)
(* else is ever written.  A request may take for ever.                     *)
(***************************************************************************)
EXTENDS Integers, Sequences

CONSTANTS
  ConfigName,   \* the name of the configuration
  MemSize       \* bytes of memory represented

VARIABLES
  console,   \* [files, entries]: the files by name, and the entries of the
             \* configuration, [name, addr]
  busy,      \* a file is being stored
  got,       \* bytes of it that have been stored
  mem,       \* the memory, by offset
  loaded     \* the files stored so far: [name, addr, size]

vars == <<console, busy, got, mem, loaded>>

(* the file to be stored after k others *)
Wanted(k) ==
  IF k = 0 THEN [name |-> ConfigName, addr |-> 0] ELSE console.entries[k]

Content == console.files[Wanted(Len(loaded)).name]

Init ==
  /\ busy = FALSE
  /\ got = 0
  /\ mem = [a \in 0 .. MemSize - 1 |-> 0]
  /\ loaded = <<>>

Ask ==
  /\ ~busy
  /\ Len(loaded) <= Len(console.entries)
  /\ busy' = TRUE
  /\ got' = 0
  /\ UNCHANGED <<console, mem, loaded>>

Store ==
  /\ busy
  /\ got < Len(Content)
  /\ mem' = [mem EXCEPT ![Wanted(Len(loaded)).addr + got] = Content[got + 1]]
  /\ got' = got + 1
  /\ UNCHANGED <<console, busy, loaded>>

Finish ==
  /\ busy
  /\ got = Len(Content)
  /\ busy' = FALSE
  /\ loaded' = Append(loaded, [name |-> Wanted(Len(loaded)).name,
                               addr |-> Wanted(Len(loaded)).addr,
                               size |-> Len(Content)])
  /\ UNCHANGED <<console, got, mem>>

Next == Ask \/ Store \/ Finish

Spec == Init /\ [][Next]_vars
=================================================================================
