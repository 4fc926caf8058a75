------------------------------ MODULE MCSutDriver -------------------------------
(* SutDriver for TLC: two processes, two matching devices, and registers of *)
(* one, two and four bytes.                                                *)
EXTENDS SutDriver, TLC

CONSTANTS p1, p2, d1, d2

MCProcs == {p1, p2}
MCDevs == {d1, d2}

MCReadRegs == (0 :> 1) @@ (2 :> 2) @@ (4 :> 4)
MCWriteRegs == (0 :> 1) @@ (2 :> 2)

(* the failures that probe reports *)
MCReported == Steps \ Unreported

MCSymmetry == Permutations(MCProcs) \cup Permutations(MCDevs)
=================================================================================
