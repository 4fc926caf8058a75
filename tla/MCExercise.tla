------------------------------- MODULE MCExercise -------------------------------
(* Exercise for TLC.  Messages and keys are short strings of control codes  *)
(* and command letters; an answer may be wrong in its first or its last    *)
(* byte.                                                                   *)
EXTENDS Exercise

MCDepth == [p \in Side |-> 2]
MCLog == <<FTX, NUL, ENQ>>

(* Right(o, ms): the answer of an accelerator without faults *)
Right(o, ms) ==
  LET sum == LET f[k \in 0 .. Len(ms)] ==
                   IF k = 0 THEN 0 ELSE f[k - 1] + k * Len(ms[k]) IN f[Len(ms)]
  IN  CASE o = SHA   -> << <<65, 65 + sum>> >>
        [] o = AES   -> << <<66, 66 + sum>> >>
        [] o = MCE   -> << <<ETX, STX>>, <<ETX>> >>
        [] o = SHORT -> << <<STX>>, <<ETX>>, <<>>, <<AES>> >>

Wrong(o) ==
  CASE o = SHA   -> << <<65, 64>> >>
    [] o = AES   -> << <<66, 64>> >>
    [] o = MCE   -> << <<EOT, STX>>, <<ETX>> >>
    [] o = SHORT -> << <<STX>>, <<ETX>>, <<>>, <<SHA>> >>

(* An accelerator configured for another command answers nonsense. *)
MCReplies(o, cfg, ms) ==
  IF IsSmall(o) /\ cfg # o THEN {<< <<90>> >>} ELSE {Right(o, ms)}

MCFaulty(o, cfg, ms) == MCReplies(o, cfg, ms) \cup {Wrong(o)}

Test(o, ms) == [op |-> o, inputs |-> ms, expected |-> Right(o, ms)]

(* The Tester performs its SHA tests, then the AES tests, then those of     *)
(* McEliece, in their long form on bare metal and their short form under   *)
(* Linux.                                                                  *)
InOrder(s) == \A i, j \in 1 .. Len(s) : i < j => s[i].op <= s[j].op

SuitesOf(tests, n) ==
  {s \in UNION {[1 .. m -> tests] : m \in 0 .. n} : InOrder(s)}

ShaTests == {Test(SHA, <<<<>>>>), Test(SHA, <<<<ETX>>>>), Test(SHA, <<<<STX, SHA>>>>)}
AesTests == {Test(AES, <<<<ETX, STX>>, <<AES>>>>)}

MCBareSuites == SuitesOf(ShaTests \cup AesTests \cup {Test(MCE, <<<<STX>>>>)}, 3)

MCNoTests == {<<>>}

(* without the tests whose comparison is partial *)
MCFullSuites == SuitesOf(ShaTests \cup {Test(SHORT, <<<<ETX>>>>)}, 2)
MCAesSuites == SuitesOf(AesTests, 2)
=================================================================================
