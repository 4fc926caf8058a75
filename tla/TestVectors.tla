------------------------------ MODULE TestVectors -------------------------------
(***************************************************************************)
(* The known-answer tests of the Tester (VersatCommonSHATests and its      *)
(* siblings, with main around them): a file of test vectors is received    *)
(* into an arena, searched for its labels, decoded into the same arena,    *)
(* sent to the SUT, and the answer, which is received into that arena as   *)
(* well, is compared with the text.  On bare metal one UART library        *)
(* serves the console and the SUT, whichever its base address selects.     *)
(*                                                                         *)
(* One cell of memory holds a label with its " = ", a number, a byte       *)
(* written in hexadecimal, a byte, or any other character.                 *)
(***************************************************************************)
EXTENDS Integers, Sequences, FiniteSetsExt

CONSTANTS
  Files(_),       \* Files(kind): the files tried; a file is a sequence of
                  \* records, a record the sequence of the values of its fields
  Answers(_, _),  \* Answers(kind, inputs): the messages the SUT may answer
  ArenaSize,      \* cells of InitArena
  Header,         \* cells of a file in front of its first record
  HashLen,        \* bytes of a digest
  KeyLen, BlockLen,  \* bytes of an AES key and block
  SeedLen,        \* bytes of a McEliece seed
  PublicLen, SecretLen,  \* bytes of the keys of McEliece
  PartLen         \* bytes of a part of a key in the short form

(* A small answer is received over the start of the file: the header of a  *)
(* file has to be longer.                                                  *)
ASSUME HeaderAssumption == Header > HashLen /\ Header > BlockLen

ASSUME SizeAssumption == 
  {ArenaSize, Header, HashLen, KeyLen, BlockLen, SeedLen, PublicLen, SecretLen, PartLen}
    \subseteq Nat \ {0}

Kinds == {"SHA", "AES", "MCE", "SHORT"}
IsSmall(kind) == kind \in {"SHA", "AES"}

(* the fields of a record, in the order in which they are searched *)
Field(label, role) == [label |-> label, role |-> role]
Fields(kind) ==
  CASE kind = "SHA" -> <<Field("LEN", "number"), Field("MSG", "input"),
                         Field("MD", "expected")>>
    [] kind = "AES" -> <<Field("COUNT", "number"), Field("KEY", "input"),
                         Field("PLAINTEXT", "input"), Field("CIPHERTEXT", "expected")>>
    [] kind = "MCE" -> <<Field("COUNT", "number"), Field("SEED", "input"),
                         Field("PK", "expected"), Field("SK", "expected")>>
    [] kind = "SHORT" -> <<Field("COUNT", "number"), Field("SEED", "input"),
                           Field("PK", "expected"), Field("PKL", "expected"),
                           Field("SK", "expected"), Field("SKL", "expected")>>

Label(l)  == <<"label", l>>
Number(n) == <<"number", n>>
Hex(b)    == <<"hex", b>>
Raw(b)    == <<"raw", b>>
Other     == <<"other", 0>>
End       == <<"end", 0>>

NULL == -1

VARIABLES
  linux,     \* which of the two Tester programs runs
  turn,      \* the file that main is at
  step,      \* what it does with it
  file,      \* its records
  mem,       \* the arena, and behind it the seed on the stack
  used,      \* used cells of the arena
  mark,      \* mark of main
  testMark,  \* mark of the current test
  content,   \* address of the text
  cursor,    \* ptr
  field,     \* the field searched next
  len,       \* the number of the record
  inputs,    \* the messages decoded: address and size
  expected,  \* addresses of the expected values, in the text
  result,    \* addresses of the messages received
  tally,     \* TestState
  tallies,   \* those printed
  asked,     \* history: the messages sent, for each test of the file
  answered,  \* history: the answers, for each test of the file
  base,      \* the UART selected: "console" or "sut"
  routed     \* history: what was put on which UART

arenaVars  == <<mem, used, mark, testMark>>
parserVars == <<content, cursor, field, len, inputs, expected>>
fileVars   == <<linux, turn, file>>
historyVars == <<asked, answered>>
vars == <<fileVars, step, arenaVars, parserVars, result, tally, tallies,
          historyVars, base, routed>>

Tests == <<"SHA", "AES", IF linux THEN "SHORT" ELSE "MCE">>
Kind  == Tests[turn]

NoTests == [tests |-> 0, good |-> 0, early |-> FALSE]

Stack  == ArenaSize
Memory == 0 .. ArenaSize + SeedLen
Write(m, at, cells) ==
  [a \in Memory |-> IF a \in at .. at + Len(cells) - 1 THEN cells[a - at + 1] ELSE m[a]]

Aligned(n) == ((n + 3) \div 4) * 4

(* Types.  What is in use never exceeds the arena, which is also the buffer *)
(* that files and answers are received into: each test and each file gives *)
(* back what it takes.                                                     *)
TypeOK ==
  /\ linux \in BOOLEAN
  /\ turn \in 1 .. 3
  /\ step \in {"file", "find", "send", "receive", "judge", "report", "finish", "end"}
  /\ DOMAIN mem = Memory
  /\ {used, mark, testMark, content} \subseteq 0 .. ArenaSize
  /\ cursor \in Memory
  /\ field \in 1 .. 6
  /\ len \in Nat
  /\ inputs \in Seq([at : Memory, size : Nat])
  /\ expected \in Seq(Memory)
  /\ result \in Seq(Memory)
  /\ tally \in [tests : Nat, good : Nat, early : BOOLEAN]
  /\ tallies \in Seq([tests : Nat, good : Nat, early : BOOLEAN])
  /\ base \in {"console", "sut"}

Init ==
  /\ linux \in BOOLEAN
  /\ turn = 1
  /\ step = "file"
  /\ file = <<>>
  /\ mem = [a \in Memory |-> Other]
  /\ used = 0
  /\ mark = 0
  /\ testMark = 0
  /\ content = 0
  /\ cursor = 0
  /\ field = 1
  /\ len = 0
  /\ inputs = <<>>
  /\ expected = <<>>
  /\ result = <<>>
  /\ tally = NoTests
  /\ tallies = <<>>
  /\ asked = <<>>
  /\ answered = <<>>
  /\ base = "sut"
  /\ routed = {}

---------------------------------------------------------------------------------
(* The UART: connect_terminal or connect_sut selects one, the bytes are    *)
(* put, restore_connection selects the one before.  The Linux program      *)
(* prints elsewhere.                                                       *)

(* Mutant of Restored: the connection is not restored. *)
NotRestored(last, now) == IF linux THEN last ELSE now

Restored(last, now) == last

PutText(what) ==
  /\ base' = Restored(base, "console")
  /\ routed' = routed \cup {<<what, "console">>}

Connected(kind) == IsSmall(kind)

(* A SHA or AES test connects to the SUT for its command; a McEliece test   *)
(* puts the letter on the UART that is selected.                            *)
PutCommand(kind) ==
  routed' = routed \cup
    {<<"command", IF Connected(kind) THEN "sut" ELSE base>>, <<"message", "sut">>}

---------------------------------------------------------------------------------
(* The file *)

(* a record as it is written: label, value and the end of the line *)
Line(f, value) ==
  <<Label(f.label)>>
  \o [i \in 1 .. Len(value) |-> IF f.role = "number" THEN Number(value[i]) ELSE Hex(value[i])]
  \o <<Other>>

(* b and the first n of the texts *)
Joined(b, texts) ==
  LET v[n \in 0 .. Len(texts)] == IF n = 0 THEN b ELSE v[n - 1] \o texts[n]
  IN  v

(* the first n fields of a record *)
Lines(kind, rec) == Joined(<<>>, [n \in 1 .. Len(rec) |-> Line(Fields(kind)[n], rec[n])])

Written(kind, rec) == Lines(kind, rec)[Len(rec)]

Blank == [i \in 1 .. Header |-> Other]

(* the header and the first n records *)
Texts(kind, records) ==
  Joined(Blank, [n \in 1 .. Len(records) |-> Written(kind, records[n])])

Text(kind, records) == Texts(kind, records)[Len(records)]

(* Only the last record of a file may break off, behind any of its fields.  *)
(* The values have the sizes of the algorithms; LEN is in bits, and the     *)
(* message of no bits is written as one byte.                              *)
ValueLen(kind, number) ==
  CASE kind = "SHA" -> <<1, IF number = 0 THEN 1 ELSE number \div 8, HashLen>>
    [] kind = "AES" -> <<1, KeyLen, BlockLen, BlockLen>>
    [] kind = "MCE" -> <<1, SeedLen, PublicLen, SecretLen>>
    [] kind = "SHORT" -> <<1, SeedLen, PartLen, PartLen, PartLen, PartLen>>

ASSUME FilesAssumption ==
  \A kind \in Kinds : \A records \in Files(kind) :
    /\ records \in Seq(Seq(Seq(Nat)))
    /\ \A n \in 1 .. Len(records) :
         /\ Len(records[n]) \in 1 .. Len(Fields(kind))
         /\ n < Len(records) => Len(records[n]) = Len(Fields(kind))
         /\ \A j \in 1 .. Len(records[n]) :
              Len(records[n][j]) = ValueLen(kind, records[n][1][1])[j]

(* Mutant of Terminated: the text is not terminated. *)
Unterminated(m, at) == m

(* content[file_size] = '\0' *)
Terminated(m, at) == Write(m, at, <<End>>)

(* PushFile: the file is received at the start of the arena, and the text  *)
(* is taken to be where the arena has room.                                *)
PushFile ==
  /\ step = "file"
  /\ \E records \in Files(Kind) :
       LET text == Text(Kind, records) IN
       /\ file' = records
       /\ mem' = Terminated(Write(mem, 0, text), used + Len(text))
       /\ used' = used + Aligned(Len(text) + 1)
  /\ PutText("request")
  /\ mark' = used
  /\ content' = used
  /\ cursor' = used
  /\ field' = 1
  /\ tally' = NoTests
  /\ asked' = <<>>
  /\ answered' = <<>>
  /\ step' = "find"
  /\ UNCHANGED <<linux, turn, testMark, len, inputs, expected, result, tallies>>

---------------------------------------------------------------------------------
(* The parser *)

(* SearchAndAdvance: strstr, up to the end of the string *)
Search(p, label) ==
  LET ends == {a \in p .. ArenaSize : mem[a] = End}
      stop == IF ends = {} THEN ArenaSize ELSE Min(ends)
      hits == {a \in p .. stop - 1 : mem[a] = Label(label)}
  IN  IF hits = {} THEN NULL ELSE Min(hits) + 1

ParseNumber(p) == IF mem[p][1] = "number" THEN mem[p][2] ELSE 0

(* HexStringToHex: up to what is no hexadecimal digit *)
Decoded(p) ==
  LET stop == Min({a \in p .. ArenaSize : mem[a][1] # "hex"}) IN
  [i \in 1 .. stop - p |-> Raw(mem[p + i - 1][2])]

(* what a message takes from the arena; LEN is in bits *)
Room(label) ==
  CASE label = "MSG" -> len
    [] label = "KEY" -> KeyLen + 1
    [] label = "PLAINTEXT" -> BlockLen + 1

(* The next label is not found: the tests of this file are over.  It is    *)
(* an error unless it is the first label of a record.                      *)
NotFound ==
  /\ step = "find"
  /\ Search(cursor, Fields(Kind)[field].label) = NULL
  /\ tally' = [tally EXCEPT !.early = field > 1]
  /\ step' = "report"
  /\ UNCHANGED <<fileVars, arenaVars, parserVars, result, tallies, historyVars,
                 base, routed>>

(* The next label is found, and what follows it is used as the program     *)
(* does: a number, a message decoded into the arena (a seed into an array  *)
(* on the stack), or the address of an expected value.                     *)
Find ==
  /\ step = "find"
  /\ LET f == Fields(Kind)[field]
         p == Search(cursor, f.label)
         at == IF f.label = "SEED" THEN Stack ELSE used
     IN
     /\ p # NULL
     /\ cursor' = p
     /\ testMark' = IF field = 1 THEN used ELSE testMark
     /\ len' = IF f.role = "number" THEN ParseNumber(p) ELSE len
     /\ inputs' = CASE f.role = "number" -> <<>>
                    [] f.role = "input" -> Append(inputs, [at |-> at, size |-> Len(Decoded(p))])
                    [] OTHER -> inputs
     /\ mem' = IF f.role = "input" THEN Write(mem, at, Decoded(p)) ELSE mem
     /\ used' = IF f.role = "input" /\ f.label # "SEED" THEN used + Aligned(Room(f.label)) ELSE used
     /\ expected' = CASE f.role = "number" -> <<>>
                      [] f.role = "expected" -> Append(expected, p)
                      [] OTHER -> expected
     /\ IF field = Len(Fields(Kind))
          THEN field' = 1 /\ step' = "send"
          ELSE field' = field + 1 /\ step' = "find"
  /\ UNCHANGED <<fileVars, mark, content, result, tally, tallies, historyVars, base, routed>>

---------------------------------------------------------------------------------
(* A test *)

(* Mutant of SizesSent: what was decoded is sent, whatever LEN says. *)
SizesDecoded == [k \in 1 .. Len(inputs) |-> inputs[k].size]

(* what is sent: for SHA the bytes decoded, unless LEN is 0; for AES and    *)
(* McEliece a fixed number of bytes                                        *)
SizesSent ==
  CASE Kind = "SHA" -> <<IF len = 0 THEN 0 ELSE inputs[1].size>>
    [] Kind = "AES" -> <<KeyLen, BlockLen>>
    [] OTHER -> <<SeedLen>>

Send ==
  /\ step = "send"
  /\ asked' = Append(asked,
       [k \in 1 .. Len(inputs) |->
          [i \in 1 .. SizesSent[k] |-> mem[inputs[k].at + i - 1][2]]])
  /\ PutCommand(Kind)
  /\ step' = "receive"
  /\ UNCHANGED <<fileVars, arenaVars, parserVars, result, tally, tallies, answered, base>>

(* PushBytes for items of these sizes, each with a terminator: what the      *)
(* arena has in use before the first and after each of them                *)
Addresses(u, sizes) ==
  LET a[k \in 0 .. Len(sizes)] ==
        IF k = 0 THEN u ELSE a[k - 1] + Aligned(sizes[k] + 1)
  IN  a

(* the memory before the first and after each of the items is stored *)
Storing(m, at, items) ==
  LET w[k \in 0 .. Len(items)] ==
        IF k = 0 THEN m ELSE Write(w[k - 1], at[k - 1], items[k] \o <<End>>)
  IN  w

Stored(m, at, items) == Storing(m, at, items)[Len(items)]

Sizes(items) == [k \in 1 .. Len(items) |-> Len(items[k])]

(* receive_small_string: the text is written at the start of the arena *)
ReceiveSmall(answer) ==
  LET text == [i \in 1 .. Len(answer) |-> Hex(answer[i])] IN
  /\ mem' = Write(mem, 0, text \o <<End>>)
  /\ used' = used + Aligned(Len(text) + 1)
  /\ result' = <<0>>

Parts(kind) ==
  IF kind = "MCE" THEN <<PublicLen, SecretLen>> ELSE <<PartLen, PartLen, PartLen, PartLen>>

(* Mutant of LargeAt: large messages are received like small ones. *)
LargeAtStart(u) == 0

(* receive_large_data: where the arena has room *)
LargeAt(u) == u

(* receive_large_data for each message, then its text in hexadecimal *)
ReceiveLarge(messages) ==
  LET n == Len(messages)
      raw == [k \in 1 .. n |-> [i \in 1 .. Len(messages[k]) |-> Raw(messages[k][i])]]
      at == Addresses(LargeAt(used), Sizes(messages))
      m == Stored(mem, at, raw)
      hex == [k \in 1 .. n |-> [i \in 1 .. Parts(Kind)[k] |-> Hex(m[at[k - 1] + i - 1][2])]]
      hexAt == Addresses(at[n], Parts(Kind))
  IN
  /\ mem' = Stored(m, hexAt, hex)
  /\ used' = hexAt[n]
  /\ result' = [k \in 1 .. n |-> hexAt[k - 1]]

(* The SUT answers a test with messages of the sizes that are compared, or   *)
(* with longer ones where the Tester reads only a part.                    *)
IsComplete(kind, rec) == Len(rec) = Len(Fields(kind))

InputsOf(kind, rec) ==
  CASE kind = "SHA" -> <<IF rec[1] = <<0>> THEN <<>> ELSE rec[2]>>
    [] kind = "AES" -> <<rec[2], rec[3]>>
    [] OTHER -> <<rec[2]>>

IsAnswer(kind, answer) ==
  /\ answer \in Seq(Seq(Nat))
  /\ CASE kind = "SHA" -> Len(answer) = 1 /\ Len(answer[1]) = HashLen
       [] kind = "AES" -> Len(answer) = 1 /\ Len(answer[1]) = BlockLen
       [] OTHER -> /\ Len(answer) = Len(Parts(kind))
                   /\ \A k \in 1 .. Len(answer) : Len(answer[k]) >= Parts(kind)[k]

ASSUME AnswersAssumption ==
  \A kind \in Kinds : \A records \in Files(kind) : \A n \in 1 .. Len(records) :
    IsComplete(kind, records[n]) =>
      \A answer \in Answers(kind, InputsOf(kind, records[n])) : IsAnswer(kind, answer)

(* Each test alone fits the arena behind the text of its file: what it      *)
(* decodes and what it receives.                                           *)
InputRoom(kind, rec) ==
  CASE kind = "SHA" -> Aligned(rec[1][1])
    [] kind = "AES" -> Aligned(KeyLen + 1) + Aligned(BlockLen + 1)
    [] OTHER -> 0

TestEnd(kind, u, answer) ==
  LET n == Len(answer) IN
  IF IsSmall(kind) THEN u + Aligned(Len(answer[1]) + 1)
                   ELSE Addresses(Addresses(u, Sizes(answer))[n], Parts(kind))[n]

ASSUME ArenaAssumption ==
  \A kind \in Kinds : \A records \in Files(kind) :
    LET start == Aligned(Len(Text(kind, records)) + 1) IN
    /\ start <= ArenaSize
    /\ \A n \in 1 .. Len(records) :
         /\ start + InputRoom(kind, records[n]) <= ArenaSize
         /\ IsComplete(kind, records[n]) =>
              \A answer \in Answers(kind, InputsOf(kind, records[n])) :
                TestEnd(kind, start + InputRoom(kind, records[n]), answer) <= ArenaSize

Receive ==
  /\ step = "receive"
  /\ \E answer \in Answers(Kind, asked[Len(asked)]) :
       /\ answered' = Append(answered, answer)
       /\ IF IsSmall(Kind) THEN ReceiveSmall(answer[1]) ELSE ReceiveLarge(answer)
  /\ step' = "judge"
  /\ UNCHANGED <<fileVars, mark, testMark, parserVars, tally, tallies, asked, base, routed>>

(* the bytes compared: of an AES block and of the long keys one half *)
Compared(kind) ==
  CASE kind = "SHA" -> <<HashLen>>
    [] kind = "AES" -> <<BlockLen \div 2>>
    [] kind = "MCE" -> <<PublicLen \div 2, SecretLen \div 2>>
    [] kind = "SHORT" -> Parts(kind)

(* McEliece on bare metal: two tests *)
Enough(kind, tests) == kind = "MCE" /\ tests >= 2

(* Mutant of Released: the memory is not released. *)
NotReleased(u, m) == u

(* PopArena *)
Released(u, m) == m

(* The answer is compared with the text; the memory of the test is          *)
(* released.  A test that fails is printed.                                *)
Judge ==
  /\ step = "judge"
  /\ LET good == \A k \in 1 .. Len(expected) : \A i \in 0 .. Compared(Kind)[k] - 1 :
                   mem[result[k] + i] = mem[expected[k] + i]
     IN
     /\ tally' = [tally EXCEPT !.tests = @ + 1, !.good = @ + (IF good THEN 1 ELSE 0)]
     /\ IF good THEN UNCHANGED <<base, routed>> ELSE PutText("text")
  /\ used' = Released(used, testMark)
  /\ step' = IF Enough(Kind, tally'.tests) THEN "report" ELSE "find"
  /\ UNCHANGED <<fileVars, mem, mark, testMark, parserVars, result, tallies, historyVars>>

(* The result is printed and the memory of the file released. *)
Report ==
  /\ step = "report"
  /\ tallies' = Append(tallies, tally)
  /\ PutText("text")
  /\ used' = Released(used, mark)
  /\ IF turn = 3 THEN step' = "finish" /\ UNCHANGED turn
                 ELSE step' = "file" /\ turn' = turn + 1
  /\ UNCHANGED <<linux, file, mem, mark, testMark, parserVars, result, tally, historyVars>>

(* the ETX that ends the loop of the SUT, on the UART that is selected *)
Finish ==
  /\ step = "finish"
  /\ routed' = routed \cup {<<"end", base>>}
  /\ step' = "end"
  /\ UNCHANGED <<fileVars, arenaVars, parserVars, result, tally, tallies, historyVars, base>>

Ended == step = "end" /\ UNCHANGED vars

Next ==
  \/ PushFile \/ NotFound \/ Find \/ Send \/ Receive \/ Judge \/ Report \/ Finish
  \/ Ended

Spec == Init /\ [][Next]_vars

---------------------------------------------------------------------------------
(* Properties *)

Testing == step \in {"find", "send", "receive", "judge", "report"}

(* what the files say *)
ExpectedOf(rec) ==
  LET n == Len(Compared(Kind)) IN SubSeq(rec, Len(rec) - n + 1, Len(rec))

PassesWith(rec, answer) ==
  \A k \in 1 .. Len(Compared(Kind)) : \A i \in 1 .. Compared(Kind)[k] :
    answer[k][i] = ExpectedOf(rec)[k][i]

(* Nothing that is decoded or received overwrites the text that is still   *)
(* to be read, the expected values of the current test included, although  *)
(* small answers are received over the start of the very same file.        *)
TextAheadIsIntact ==
  Testing /\ file # <<>> =>
    LET text == Text(Kind, file)
        unread == IF step = "judge" THEN expected[1] ELSE cursor
    IN
    \A i \in 1 .. Len(text) : content + i - 1 >= unread => mem[content + i - 1] = text[i]

(* The n-th test of a file sends the messages of its n-th record, and not  *)
(* what an earlier record, answer or file has left in the arena.           *)
InputsAreTheRecords ==
  Testing => \A n \in 1 .. Len(asked) : asked[n] = InputsOf(Kind, file[n])

(* What is reported of a file follows from its records and the answers     *)
(* alone: each complete record is tested once (on bare metal, two of       *)
(* McEliece), it is good if the compared part of its answer is right, and  *)
(* a record that breaks off is an early exit.                              *)
TallyIsOfTheFile ==
  step = "report" =>
    LET complete == {n \in 1 .. Len(file) : IsComplete(Kind, file[n])}
        due == IF Kind = "MCE" /\ Cardinality(complete) > 2 THEN 1 .. 2 ELSE complete
    IN
    /\ tally.tests = Cardinality(due)
    /\ tally.good = Cardinality({n \in due : PassesWith(file[n], answered[n])})
    /\ tally.early <=> complete # 1 .. Len(file) /\ ~Enough(Kind, tally.tests)

(* On bare metal, where one library serves two UARTs, no byte goes to the  *)
(* wrong one; a McEliece command and the end are put on whichever UART is  *)
(* selected when their turn comes.                                         *)
BytesGoToTheirLine ==
  \A r \in routed :
    r[2] = IF r[1] \in {"command", "message", "end"} THEN "sut" ELSE "console"
=================================================================================
