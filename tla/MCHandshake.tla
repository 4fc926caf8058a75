------------------------------ MODULE MCHandshake -------------------------------
(* Handshake for TLC.  The text is "TeT": it overlaps with itself, the      *)
(* worst case for a matching loop that does not back up.                   *)
EXTENDS Handshake

MCAck == <<84, 101, 84>>
MCNoise == {84, 101, NL}

(* The FIFO of the Tester is so short that enquiries overrun it. *)
MCDepth == [p \in Side |-> IF p = "sut" THEN 16 ELSE 3]
=================================================================================
