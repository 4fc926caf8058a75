---------------------------------- MODULE Pfsm ----------------------------------
(***************************************************************************)
(* The library of the programmable state machines (iob-pfsm-user.c).  The  *)
(* parameters and the minor number of the machine in use are globals; a    *)
(* machine is programmed word by word from a buffer and then reset.        *)
(***************************************************************************)
EXTENDS Integers, Sequences

CONSTANTS
  MemoryWords,  \* entries below IOB_PFSM_MEM_WORD_SELECT_ADDR
  Selects       \* values of mem_word_select

NoWord == <<>>

(* a machine before it is programmed, in a state that follows from whatever *)
(* its table holds                                                         *)
Unprogrammed ==
  [lut |-> [e \in (0 .. MemoryWords - 1) \X Selects |-> NoWord], state |-> "any"]

(* Mutant of pfsm_init: the minor number is that of the first call. *)
KeepMinor(old, entries, words, minor) ==
  [entries |-> entries, words |-> words,
   minor |-> IF old.entries = 0 THEN minor ELSE old.minor]

(* The globals: entries is 1 << (input_w + state_w), and words the number  *)
(* of 32-bit words of an entry.                                            *)
pfsm_init(old, entries, words, minor) ==
  [entries |-> entries, words |-> words, minor |-> minor]

(* four bytes of the bitstream, the first one the most significant *)
Word(bitstream, at) == SubSeq(bitstream, at + 1, at + 4)

(* pfsm_bitstream_program: entry by entry and word by word (an entry above  *)
(* the memory is refused); in the end the machine is back in state 0       *)
Programmed(machine, g, bitstream) ==
  [lut |-> [e \in DOMAIN machine.lut |->
              IF e[1] < g.entries /\ e[2] < g.words
              THEN Word(bitstream, 4 * (e[1] * g.words + e[2]))
              ELSE machine.lut[e]],
   state |-> "reset"]
=================================================================================
