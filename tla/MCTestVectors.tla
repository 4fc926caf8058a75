----------------------------- MODULE MCTestVectors ------------------------------
(* TestVectors for TLC.  Every record of a file is complete, except that the *)
(* last may break off after any of its fields.  Bytes are small numbers;   *)
(* the two values of a field that are tried differ in both bytes.          *)
EXTENDS TestVectors

(* the complete records tried: two different ones of each kind *)
Records(kind) ==
  CASE kind = "SHA" -> {<<<<0>>, <<0>>, <<4, 5, 6>>>>, <<<<8>>, <<7>>, <<1, 2, 3>>>>,
                        <<<<16>>, <<1, 2>>, <<3, 3, 3>>>>}
    [] kind = "AES" -> {<<<<0>>, <<1, 2>>, <<3, 4>>, <<5, 6>>>>,
                        <<<<1>>, <<2, 1>>, <<4, 3>>, <<6, 5>>>>}
    [] kind = "MCE" -> {<<<<0>>, <<1>>, <<2, 3>>, <<4, 5>>>>,
                        <<<<1>>, <<6>>, <<3, 2>>, <<5, 4>>>>}
    [] kind = "SHORT" -> {<<<<0>>, <<1>>, <<2>>, <<3>>, <<4>>, <<5>>>>,
                          <<<<1>>, <<6>>, <<3>>, <<2>>, <<5>>, <<4>>>>}

Beginnings(rec) == {SubSeq(rec, 1, n) : n \in 1 .. Len(rec)}

MaxRecords(kind) == IF kind = "MCE" THEN 3 ELSE 2

Whole(kind) == UNION {[1 .. m -> Records(kind)] : m \in 0 .. MaxRecords(kind) - 1}

MCFiles(kind) ==
  {<<>>} \cup {Append(r, b) : r \in Whole(kind), b \in UNION {Beginnings(rec) : rec \in Records(kind)}}

(* The answer that some record expects, whichever the inputs are, and one  *)
(* that is wrong at its end.                                               *)
ExpectedBy(kind, rec) ==
  LET n == CASE kind = "MCE" -> 2 [] kind = "SHORT" -> 4 [] OTHER -> 1 IN
  SubSeq(rec, Len(rec) - n + 1, Len(rec))

MCAnswers(kind, messages) == {ExpectedBy(kind, rec) : rec \in Records(kind)}
=================================================================================
