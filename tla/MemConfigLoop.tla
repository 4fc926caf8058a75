------------------------------ MODULE MemConfigLoop -----------------------------
(* The loop of compute_mem_load_txt, one character per step, over texts     *)
(* written by the rules of the file: one line "name address" per file.     *)
EXTENDS MemConfig

CONSTANTS
  Entries,   \* the lists of entries tried: sequences of [name, addr, value] records,
             \* addr the digits that write the number value
  Tails      \* what may follow the last line

(* the characters that stand for the numbers 0 to 15, of either case *)
Figures(v) == IF v < 10 THEN {48 + v} ELSE {55 + v, 87 + v}

HexDigits == UNION {Figures(v) : v \in 0 .. 15}
HexValue  == [c \in HexDigits |-> CHOOSE v \in 0 .. 15 : c \in Figures(v)]

(* the numbers that the first n digits write, from the most significant on *)
Values(digits) ==
  LET v[n \in 0 .. Len(digits)] ==
        IF n = 0 THEN 0 ELSE v[n - 1] * 16 + HexValue[digits[n]]
  IN  v

(* A name has no space, an address has digits only, and the value is that   *)
(* of its digits.                                                          *)
ASSUME EntriesAssumption ==
  \A es \in Entries :
    /\ es \in Seq([name : Seq(Nat), addr : Seq(HexDigits), value : Nat]) \ {<<>>}
    /\ \A k \in 1 .. Len(es) :
         /\ \A c \in 1 .. Len(es[k].name) : es[k].name[c] # Space
         /\ es[k].value = Values(es[k].addr)[Len(es[k].addr)]

ASSUME TailsAssumption == Tails \subseteq {<<>>, <<Newline>>}

VARIABLES
  entries,   \* the entries the text was written from
  text,      \* the bytes of the file
  i,         \* the loop counter
  st         \* the other variables of the loop

vars == <<entries, text, i, st>>

Line(e) == e.name \o <<Space>> \o e.addr

(* the texts of the first n entries: their lines, separated by newlines *)
Texts(es) ==
  LET f[n \in 0 .. Len(es)] ==
        IF n = 0 THEN <<>>
                 ELSE (f[n - 1] \o IF n = 1 THEN <<>> ELSE <<Newline>>) \o Line(es[n])
  IN  f

Written(es) == Texts(es)[Len(es)]

Init ==
  /\ entries \in Entries
  /\ \E t \in Tails : text = Written(entries) \o t
  /\ i = 0
  /\ st = Start

Read ==
  /\ i < Len(text)
  /\ i' = i + 1
  /\ st' = Step(st, text[i + 1])
  /\ UNCHANGED <<entries, text>>

Return == i = Len(text) /\ UNCHANGED vars

Next == Read \/ Return

Spec == Init /\ [][Next]_vars /\ WF_vars(Read)

---------------------------------------------------------------------------------
(* A finished line: the address of the last file is complete. *)
FinishedFiles ==
  IF st.state = "addr" /\ i < Len(text) THEN Len(st.files) - 1 ELSE Len(st.files)

(* At every turn of the loop the files read so far are those of the first  *)
(* lines, with their own names and the values of their own addresses: no   *)
(* digit, name or count of a line leaks into the next one.                 *)
FilesAreTheEntries ==
  /\ Len(st.files) <= Len(entries)
  /\ Len(st.addrs) = Len(st.files)
  /\ \A k \in 1 .. Len(st.files) : st.files[k] = entries[k].name
  /\ \A k \in 1 .. FinishedFiles : st.addrs[k] = entries[k].value % AddrMod

(* A file of at most MaxFiles lines with names that leave room for their   *)
(* terminator is read without leaving the arrays.                          *)
FitsTheArrays ==
  ( /\ Len(entries) <= MaxFiles
    /\ \A k \in 1 .. Len(entries) : Len(entries[k].name) < MaxName )
  => ~st.outside

(* The loop returns the file count of the text. *)
AllFilesFound == <>(i = Len(text) /\ Len(st.files) = Len(entries))
=================================================================================
