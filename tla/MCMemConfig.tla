------------------------------- MODULE MCMemConfig ------------------------------
(* Texts of up to three lines over two names and addresses of up to three   *)
(* digits in either case.                                                  *)
EXTENDS MemConfigLoop

MCNames == {<<97>>, <<97, 49>>}
(* 0, 1f and A9c *)
MCLines ==
  {[name |-> n, addr |-> <<48>>, value |-> 0] : n \in MCNames}
    \cup {[name |-> n, addr |-> <<49, 102>>, value |-> 31] : n \in MCNames}
    \cup {[name |-> n, addr |-> <<65, 57, 99>>, value |-> 2716] : n \in MCNames}
MCEntries == UNION {[1 .. n -> MCLines] : n \in 1 .. 3}
MCTails == {<<>>, <<Newline>>}
=================================================================================
