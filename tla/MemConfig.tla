------------------------------- MODULE MemConfig --------------------------------
(***************************************************************************)
(* compute_mem_load_txt of the boot loader: the loop that reads            *)
(* iob_soc_sut_mem.config, a text with one line "name hexaddress" per file *)
(* to load, and fills the array of names and the array of addresses.       *)
(***************************************************************************)
EXTENDS Integers, Sequences

CONSTANTS
  MaxFiles,   \* rows of file_name_array and file_address_array (4)
  MaxName,    \* columns of file_name_array (50)
  AddrMod     \* addresses are computed modulo this (2^32)

ASSUME MemConfigAssumption ==
  /\ MaxFiles \in Nat \ {0}
  /\ MaxName \in Nat \ {0}
  /\ AddrMod \in Nat \ {0}

Newline == 10
Space == 32

(* Mutant of DigitValue: the upper-case digits count from 0. *)
UpperFromZero ==
  [c \in (48 .. 57) \cup (65 .. 70) \cup (97 .. 102) |->
     CASE c \in 48 .. 57 -> c - 48 [] c \in 65 .. 70 -> c - 65 [] OTHER -> c - 87]

(* the value of a hexadecimal digit, for the digits of either case *)
DigitValue ==
  [c \in (48 .. 57) \cup (65 .. 70) \cup (97 .. 102) |->
     CASE c \in 48 .. 57 -> c - 48 [] c \in 65 .. 70 -> c - 55 [] OTHER -> c - 87]

(* The variables of the loop.  name: the row being written; files, addrs:  *)
(* the completed rows and their addresses; digit: hexDecimal, which keeps  *)
(* its value from one character to the next; outside: an index has left    *)
(* one of the arrays, which the code does not check.                       *)
Start ==
  [state |-> "name", name |-> <<>>, files |-> <<>>, addrs |-> <<>>,
   digit |-> 0, outside |-> FALSE]

(* A character of a name, the terminating 0 included, is written at        *)
(* file_name_array[Len(files)][Len(name)].                                 *)
Outside(st) == Len(st.files) >= MaxFiles \/ Len(st.name) >= MaxName

(* Mutant of NameStep: the column is not reset after a name. *)
NameStepNoReset(st, c) ==
  IF c = Space
  THEN [st EXCEPT !.state = "addr",
                  !.files = Append(@, st.name),
                  !.addrs = Append(@, 0),
                  !.outside = @ \/ Outside(st)]
  ELSE [st EXCEPT !.name = Append(@, c), !.outside = @ \/ Outside(st)]

NameStep(st, c) ==
  IF c = Space
  THEN [st EXCEPT !.state = "addr", !.name = <<>>,
                  !.files = Append(@, st.name),
                  !.addrs = Append(@, 0),
                  !.outside = @ \/ Outside(st)]
  ELSE [st EXCEPT !.name = Append(@, c), !.outside = @ \/ Outside(st)]

(* Mutant of AddrStep: the end of the line is taken for a digit. *)
AddrStepNoNewline(st, c) ==
  LET d == IF c \in DOMAIN DigitValue THEN DigitValue[c] ELSE st.digit
  IN  [st EXCEPT !.digit = d, !.addrs[Len(st.addrs)] = (@ * 16 + d) % AddrMod]

(* A character that is no digit is reported, and the previous digit is     *)
(* used once more.                                                         *)
AddrStep(st, c) ==
  LET d == IF c \in DOMAIN DigitValue THEN DigitValue[c] ELSE st.digit
  IN  IF c = Newline
      THEN [st EXCEPT !.state = "name"]
      ELSE [st EXCEPT !.digit = d,
                      !.addrs[Len(st.addrs)] = (@ * 16 + d) % AddrMod]

(* one turn of the loop *)
Step(st, c) == IF st.state = "name" THEN NameStep(st, c) ELSE AddrStep(st, c)

(* the whole loop, for the modules that only need its result: the variables *)
(* after each turn, and at the end                                         *)
Turns(text) ==
  LET f[n \in 0 .. Len(text)] == IF n = 0 THEN Start ELSE Step(f[n - 1], text[n])
  IN  f

Parse(text) == Turns(text)[Len(text)]
=================================================================================
