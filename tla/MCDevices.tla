------------------------------- MODULE MCDevices --------------------------------
(* Devices for TLC: the four words of the program, a trail of two samples   *)
(* and a buffer of eight; the file of the first state machine is longer    *)
(* than its table, that of the second also longer than the buffer.         *)
EXTENDS Devices

MCWords == <<11, 12, 13, 14>>
MCShapes == <<[entries |-> 2, words |-> 1], [entries |-> 2, words |-> 2]>>
MCBitstreams == <<[i \in 1 .. 9 |-> i], [i \in 1 .. 18 |-> 20 + i]>>
=================================================================================
