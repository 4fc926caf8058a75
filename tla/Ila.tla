---------------------------------- MODULE Ila -----------------------------------
(***************************************************************************)
(* The library of the logic analyser (iob-ila-user.c) and the analyser.    *)
(* The registers cannot be read back: the library keeps a copy of each,    *)
(* changes a bit of the copy and writes the whole register.  A value is    *)
(* the record of the copies with the analyser in "hw"; a register is the   *)
(* set of its bits that are 1.                                             *)
(***************************************************************************)
EXTENDS Integers, Sequences

CONSTANTS
  BufferSize,   \* ILA0_BUFFER_SIZE, samples
  Triggers      \* the triggers

ASSUME BufferAssumption == BufferSize \in Nat \ {0}

RST == 0
CIRCULAR == 2
DELAY_TRIGGER == 3
DELAY_SIGNAL == 4
REDUCE_AND == 5

NoSample == 0
Index == 0 .. BufferSize - 1

Registers == {"type", "negate", "mask", "misc"}

(* after power-up the registers are zero and nothing is sampled *)
PowerUp ==
  [type |-> {}, negate |-> {}, mask |-> {}, misc |-> {},
   hw |-> [type |-> {}, negate |-> {}, mask |-> {}, misc |-> {},
           samples |-> [i \in Index |-> NoSample], count |-> 0, index |-> 0]]

(* Mutant of setBit: a bit that was set stays set. *)
setBitOr(bits, b, value) == IF value THEN bits \cup {b} ELSE bits

setBit(bits, b, value) == IF value THEN bits \cup {b} ELSE bits \ {b}

(* The analyser: a soft reset empties the buffer and clears the triggers. *)
Written(hw, r, value) ==
  LET w == [hw EXCEPT ![r] = value] IN
  IF r = "misc" /\ RST \in value
  THEN [w EXCEPT !.type = {}, !.negate = {}, !.mask = {}, !.count = 0,
                 !.samples = [i \in Index |-> NoSample]]
  ELSE w

(* A trigger fires with value v on the signals: the sample is stored while  *)
(* a trigger is enabled, and in circular mode the oldest is replaced.      *)
Sampled(hw, v) ==
  LET room == CIRCULAR \in hw.misc \/ hw.count < BufferSize IN
  IF hw.mask = {} \/ RST \in hw.misc \/ ~room THEN hw
  ELSE [hw EXCEPT !.samples[hw.count % BufferSize] = v,
                  !.count = IF CIRCULAR \in hw.misc THEN (@ + 1) % BufferSize ELSE @ + 1]

(* the copy of register r is written *)
Flush(ila, r) == [ila EXCEPT !.hw = Written(ila.hw, r, ila[r])]

SetMisc(ila, b, value) == Flush([ila EXCEPT !.misc = setBit(@, b, value)], "misc")

ila_reset(ila) ==
  LET pulsed == SetMisc(SetMisc(ila, RST, TRUE), RST, FALSE)
  IN  Flush(Flush(Flush(pulsed, "type"), "mask"), "negate")

(* ila_set_time_offset(0) *)
NoTimeOffset(ila) ==
  Flush([ila EXCEPT !.misc = setBit(setBit(@, DELAY_TRIGGER, FALSE), DELAY_SIGNAL, FALSE)],
        "misc")

ila_init(ila) ==
  LET zero == [ila EXCEPT !.type = {}, !.negate = {}, !.mask = {}, !.misc = {}]
      z == Flush(Flush(Flush(Flush(zero, "type"), "negate"), "mask"), "misc")
  IN  ila_reset(SetMisc(NoTimeOffset(z), REDUCE_AND, FALSE))

ila_set_circular_buffer(ila, value) == SetMisc(ila, CIRCULAR, value)

ila_enable_all_triggers(ila) == Flush([ila EXCEPT !.mask = Triggers], "mask")

(* Mutant of ila_disable_all_triggers: the register is not written. *)
DisableCopyOnly(ila) == [ila EXCEPT !.mask = {}]

ila_disable_all_triggers(ila) == Flush([ila EXCEPT !.mask = {}], "mask")

ila_number_samples(ila) == ila.hw.count

ila_set_cursor(ila, i) == [ila EXCEPT !.hw.index = i]

(* Mutant of DumpEnd: the dump ends at the index of the latest sample. *)
DumpEndAtLatest(latest) == latest

(* the index at which main lets ila_output_data end; an unsigned remainder *)
DumpEnd(latest) == (latest - 1) % BufferSize

(* ila_output_data: the samples from start to end, round the buffer *)
ila_output_data(ila, start, end) ==
  LET n == ((end - start) % BufferSize) + 1 IN
  [k \in 1 .. n |-> ila.hw.samples[(start + k - 1) % BufferSize]]
=================================================================================
