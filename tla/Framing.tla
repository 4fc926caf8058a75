-------------------------------- MODULE Framing ---------------------------------
(***************************************************************************)
(* The three formats in which the SUT and the Tester pass data over the    *)
(* line once the firmware runs, and the loops that read them, one byte at  *)
(* a time.  The content of a large message or of a file is binary: it may  *)
(* hold any control code.                                                  *)
(***************************************************************************)
EXTENDS Link

(* Mutant of SizeBytes: most significant first. *)
SizeBytesBig(n) == [k \in 1 .. 4 |-> (n \div 256 ^ (4 - k)) % 256]

(* send_int, and the size in uart16550_sendfile: least significant first *)
SizeBytes(n) == [k \in 1 .. 4 |-> (n \div 256 ^ (k - 1)) % 256]

(* A small string is cut off after SmallMax (255) bytes. *)
SmallFrame(s, SmallMax) ==
  <<STX>> \o SubSeq(s, 1, IF Len(s) < SmallMax THEN Len(s) ELSE SmallMax) \o <<ETX>>

LargeFrame(d) == <<STX>> \o SizeBytes(Len(d)) \o d \o <<ETX>>

FileFrame(name, d) == <<FTX>> \o name \o <<NUL>> \o SizeBytes(Len(d)) \o d

(* A reading loop: where it is, the bytes of the size seen, the size and   *)
(* the data.  "got": the loop has returned.                                *)
Reader == [at : {"mark", "name", "size", "data", "end", "got"},
           count : 0 .. 4, size : Nat, data : Seq(Byte)]

NewReader == [at |-> "mark", count |-> 0, size |-> 0, data |-> <<>>]

Finished(r) == r.at = "got"

(* Mutant of SmallStep: whatever comes first is taken for the STX. *)
SmallStepNoMark(r, c) ==
  CASE r.at = "mark" -> [r EXCEPT !.at = "data"]
    [] r.at = "data" /\ c = ETX -> [r EXCEPT !.at = "got"]
    [] r.at = "data" /\ c # ETX -> [r EXCEPT !.data = Append(@, c)]
    [] OTHER -> r

(* receive_small_string: getc_until(STX), then everything up to ETX *)
SmallStep(r, c) ==
  CASE r.at = "mark" /\ c = STX -> [r EXCEPT !.at = "data"]
    [] r.at = "data" /\ c = ETX -> [r EXCEPT !.at = "got"]
    [] r.at = "data" /\ c # ETX -> [r EXCEPT !.data = Append(@, c)]
    [] OTHER -> r

(* Mutant of SizeStep: a size of five bytes; the shift count wraps at 32. *)
SizeStepFive(r, c, next) ==
  LET n == r.size + c * 256 ^ (r.count % 4) IN
  [r EXCEPT !.size = n, !.count = @ + 1,
            !.at = IF r.count < 4 THEN "size" ELSE IF n = 0 THEN next ELSE "data"]

(* receive_int, then after the fourth byte either the data or what is next *)
SizeStep(r, c, next) ==
  LET n == r.size + c * 256 ^ r.count IN
  [r EXCEPT !.size = n, !.count = @ + 1,
            !.at = IF r.count < 3 THEN "size" ELSE IF n = 0 THEN next ELSE "data"]

DataStep(r, c, next) ==
  [r EXCEPT !.data = Append(@, c),
            !.at = IF Len(r.data) + 1 = r.size THEN next ELSE "data"]

(* receive_large_data: getc_until(STX), the size, that many bytes, then    *)
(* getc_until(ETX)                                                         *)
LargeStep(r, c) ==
  CASE r.at = "mark" /\ c = STX -> [r EXCEPT !.at = "size"]
    [] r.at = "size" -> SizeStep(r, c, "end")
    [] r.at = "data" -> DataStep(r, c, "end")
    [] r.at = "end" /\ c = ETX -> [r EXCEPT !.at = "got"]
    [] OTHER -> r

(* Mutant of FileStep: the content is not read. *)
FileStepNameOnly(r, c) ==
  CASE r.at = "mark" /\ c = FTX -> [r EXCEPT !.at = "name"]
    [] r.at = "name" /\ c = NUL -> [r EXCEPT !.at = "got"]
    [] OTHER -> r

(* The Tester's handling of uart16550_sendfile: everything up to FTX is    *)
(* stored as a message of the SUT, the name is skipped, and as many bytes  *)
(* as the size says are read                                               *)
FileStep(r, c) ==
  CASE r.at = "mark" /\ c = FTX -> [r EXCEPT !.at = "name"]
    [] r.at = "name" /\ c = NUL -> [r EXCEPT !.at = "size"]
    [] r.at = "size" -> SizeStep(r, c, "got")
    [] r.at = "data" -> DataStep(r, c, "got")
    [] OTHER -> r
=================================================================================
