---------------------------- MODULE Exercise_proofs -----------------------------
(* What the verification guarantees for every suite of tests, every content *)
(* of test.log, every answer of the accelerator and every depth of the     *)
(* FIFOs, provided that the SUT reads before its own FIFO is full.          *)
EXTENDS Exercise, Link_proofs

Early == {"init", "phy", "mode", "eth", "log"}

(* The messages after the first k, as a stream: a command and an answer have *)
(* at most four.                                                           *)
Frame(ms, k) == LargeFrame(ms[k])

More(ms, k) ==
  IF k >= Len(ms) THEN <<>>
  ELSE Cat(Frame(ms, k + 1),
           IF k + 1 >= Len(ms) THEN <<>>
           ELSE Cat(Frame(ms, k + 2),
                    IF k + 2 >= Len(ms) THEN <<>>
                    ELSE Cat(Frame(ms, k + 3),
                             IF k + 3 >= Len(ms) THEN <<>>
                             ELSE Cat(Frame(ms, k + 4), <<>>))))

(* What the first k messages take from the arena. *)
Taken(ms, k) ==
  CASE k = 0 -> 0
    [] k = 1 -> Aligned(Len(ms[1]) + 1)
    [] OTHER -> Aligned(Len(ms[1]) + 1) + Aligned(Len(ms[2]) + 1)

---------------------------------------------------------------------------------
(* The inductive invariant: what is on the line in each phase *)

ModeText == IF TesterLinux THEN ModeLinux ELSE ModeBare

(* The test that the Tester performs. *)
Current == suite[done + 1]

(* No test has been performed. *)
Fresh == done = 0 /\ history = <<>>

(* The SUT waits for a command, or is about to. *)
Sitting == sut \in {"setup", "command"} /\ reader["sut"] = NewReader

(* The Tester has not told the mode. *)
Starting ==
  tst \in {"stream", "mode"} =>
    /\ sut \in {"init", "phy", "mode"}
    /\ Back = <<>> /\ reader["sut"] = NewReader
    /\ eth = "none"
    /\ axis = IF tst = "stream" THEN "none" ELSE "sent"

(* Until test.log the SUT sends texts only, without FTX. *)
Greeting ==
  sut \in Early =>
    /\ tst \in {"stream", "mode", "eth", "log"}
    /\ reader["tst"] = NewReader
    /\ Free(Ahead, FTX)
    /\ Fresh
    /\ tst \in {"eth", "log"} => axis = "sent" /\ sut \in {"mode", "eth", "log"}
    /\ tst = "eth" => eth = "none" /\ ~TesterLinux

(* The mode is on its way; the newline of the Linux program is skipped. *)
Moding ==
  sut = "mode" /\ tst \in {"eth", "log"} =>
    \/ TesterLinux /\ reader["sut"] = NewReader /\ Back = <<NL>> \o SmallFrame(ModeText, 255)
    \/ SmallReading(reader["sut"], ModeText, Back)

Agreed ==
  sut \notin {"init", "phy", "mode"} => linux = TesterLinux

Reporting ==
  sut \in {"eth", "log"} =>
    /\ tst \in {"eth", "log"} /\ Back = <<>> /\ reader["sut"] = NewReader
    /\ sut = "log" => tst = "log"

Reported ==
  sut \notin Early => regs /\ axis = "returned" /\ tst \notin {"stream", "mode", "eth"}

(* test.log is on its way. *)
Logging ==
  sut \notin Early /\ tst = "log" =>
    /\ Sitting /\ Back = <<>> /\ Fresh
    /\ FileReading(reader["tst"], LogName, Log, Text \o <<ENQ>>, Ahead)

Enquiring ==
  tst = "enq" =>
    /\ Sitting /\ Back = <<>> /\ Fresh /\ reader["tst"] = NewReader
    /\ Preceded(Ahead, ENQ, <<ENQ>> \o <<>>)

Ready ==
  tst = "test" =>
    /\ Sitting /\ Back = <<>> /\ Ahead = <<>> /\ reader["tst"] = NewReader
    /\ Len(history) = done

(* The command and its messages are on their way, or the SUT computes. *)
Commanding ==
  /\ sut \in {"setup", "command"} => Back = TestFrames(Current) /\ reader["sut"] = NewReader
  /\ sut = "configure" =>
       /\ op = Current.op /\ inputs = <<>> /\ reader["sut"] = NewReader
       /\ Back = More(Current.inputs, 0)
  /\ sut = "receive" =>
       /\ op = Current.op /\ (IsSmall(op) => config = op)
       /\ \E k \in 0 .. InputCount(op) - 1 :
            /\ inputs = SubSeq(Current.inputs, 1, k)
            /\ arena = Taken(Current.inputs, k)
            /\ LargeReading(reader["sut"], Current.inputs[k + 1], More(Current.inputs, k + 1), Back)
  /\ sut = "compute" =>
       /\ op = Current.op /\ (IsSmall(op) => config = op)
       /\ inputs = Current.inputs /\ arena = Taken(inputs, Len(inputs))
       /\ Back = <<>> /\ reader["sut"] = NewReader

(* The Tester's loop r reads the message of the answer a after the first k. *)
AnswerReading(o, a, k, r, s) ==
  IF IsSmall(o) THEN SmallReading(r, a[k + 1], s)
  ELSE LargeReading(r, a[k + 1], More(a, k + 1), s)

(* The answer is on its way. *)
Answering ==
  /\ sut = "command" /\ Back = <<>> /\ reader["sut"] = NewReader
  /\ IsAnswer(Current.op, history[done + 1])
  /\ \E k \in 0 .. ReplyCount(Current.op) - 1 :
       /\ answers = SubSeq(history[done + 1], 1, k)
       /\ AnswerReading(Current.op, history[done + 1], k, reader["tst"], Ahead)

Calling ==
  tst = "reply" =>
    /\ done < Len(suite) /\ sut \in {"setup", "command", "configure", "receive", "compute"}
    /\ Len(history) = done =>
         Commanding /\ reader["tst"] = NewReader /\ Ahead = <<>> /\ answers = <<>>
    /\ Len(history) # done => Answering

Closing ==
  tst \in {"final", "end"} =>
    /\ done = Len(suite) /\ Len(history) = done
    /\ sut \in {"setup", "command", "end"}
    /\ sut # "end" => Back = <<ETX, EOT>>

(* The SUT works only on a command, and ends only when it is told to. *)
Working ==
  /\ sut \in {"configure", "receive", "compute"} => tst = "reply" /\ Len(history) = done
  /\ sut = "end" => tst \in {"final", "end"}
  /\ sut \in {"command", "configure"} => arena = 0
  /\ sut \in {"receive", "compute"} => last = op
  /\ last \in {SHA, AES} => config = last

(* One verdict per test performed, one more answer while it is on its way. *)
Books ==
  /\ Len(verdicts) = done
  /\ Len(history) \in {done, done + 1}
  /\ \A k \in 1 .. done : verdicts[k] = Agree(suite[k].op, history[k], suite[k].expected)

Phase ==
  /\ Starting /\ Greeting /\ Moding /\ Agreed /\ Reporting /\ Reported
  /\ Logging /\ Enquiring /\ Ready /\ Calling /\ Closing /\ Working

Inv == TypeOK /\ Books /\ Phase

---------------------------------------------------------------------------------
(* Commands, messages and answers as streams *)

(* The definition by recursion of a stream of messages is that of its parts. *)
LEMMA FramesUnfold ==
  ASSUME NEW b, NEW ms, NEW n \in 1 .. 4, Len(ms) = n,
         NEW v1, NEW v2, NEW v3, NEW v4,
         v1 = Cat(b, Frame(ms, 1)), v2 = Cat(v1, Frame(ms, 2)),
         v3 = Cat(v2, Frame(ms, 3)), v4 = Cat(v3, Frame(ms, 4))
  PROVE  Frames(b, ms) = IF n = 1 THEN v1 ELSE IF n = 2 THEN v2 ELSE IF n = 3 THEN v3 ELSE v4
<1> DEFINE f[k \in 0 .. Len(ms)] ==
             IF k = 0 THEN b ELSE f[k - 1] \o LargeFrame(ms[k])
           P(h) == h = [k \in 0 .. Len(ms) |-> IF k = 0 THEN b ELSE h[k - 1] \o LargeFrame(ms[k])]
           Q(h) == h = [k \in 0 .. Len(ms) |-> IF k = 0 THEN b ELSE Cat(h[k - 1], Frame(ms, k))]
           g == [k \in 0 .. Len(ms) |->
                   IF k = 0 THEN b ELSE IF k = 1 THEN v1 ELSE IF k = 2 THEN v2
                   ELSE IF k = 3 THEN v3 ELSE v4]
<1>1. Q(g)
  <2>1. ASSUME NEW k \in 0 .. Len(ms)
        PROVE  g[k] = IF k = 0 THEN b ELSE Cat(g[k - 1], Frame(ms, k))
    <3>0. k = 0 \/ k = 1 \/ k = 2 \/ k = 3 \/ k = 4
      OBVIOUS
    <3>1. CASE k = 0
      BY <3>1
    <3>2. CASE k = 1
      BY <3>2
    <3>3. CASE k = 2
      BY <3>3
    <3>4. CASE k = 3
      BY <3>4
    <3>5. CASE k = 4
      BY <3>5
    <3> QED
      BY <3>0, <3>1, <3>2, <3>3, <3>4, <3>5
  <2> QED
    BY <2>1
<1>2. \A h : P(h) = Q(h)
  BY Zenon DEF Cat, Frame
<1>3. f = CHOOSE h : P(h)
  BY Zenon
<1> HIDE DEF f, P, g
<1>4. Q(f)
  BY <1>1, <1>2, <1>3
<1>5. f[Len(ms)] = IF n = 1 THEN v1 ELSE IF n = 2 THEN v2 ELSE IF n = 3 THEN v3 ELSE v4
  <2>1. f[0] = b
    BY <1>4
  <2>2. f[1] = v1
    BY <1>4, <2>1
  <2>3. n >= 2 => f[2] = v2
    BY <1>4, <2>2
  <2>4. n >= 3 => f[3] = v3
    BY <1>4, <2>3
  <2>5. n >= 4 => f[4] = v4
    BY <1>4, <2>4
  <2> QED
    BY <2>2, <2>3, <2>4, <2>5
<1> QED
  BY <1>5 DEF f, Frames


(* The messages that follow are the next one and those after it. *)
LEMMA MoreUnfolds ==
  ASSUME NEW n \in 1 .. 4, NEW ms, Messages(n, ms)
  PROVE  /\ ms \in Seq(Seq(Byte)) /\ Len(ms) = n
         /\ More(ms, n) = <<>>
         /\ \A k \in 0 .. n : More(ms, k) \in Seq(Byte)
         /\ \A k \in 0 .. n - 1 :
              /\ ms[k + 1] \in Seq(Byte) /\ Len(ms[k + 1]) <= 2 ^ 30
              /\ Frame(ms, k + 1) \in Seq(Byte)
              /\ More(ms, k) = Cat(Frame(ms, k + 1), More(ms, k + 1))
<1>1. /\ ms \in Seq(Seq(Byte)) /\ Len(ms) = n
      /\ \A k \in 1 .. n : ms[k] \in Seq(Byte) /\ Len(ms[k]) <= 2 ^ 30
  BY ElementOfSeq DEF Messages
<1>2. \A k \in 1 .. n : Frame(ms, k) \in Seq(Byte)
  <2> SUFFICES ASSUME NEW k \in 1 .. n PROVE LargeFrame(ms[k]) \in Seq(Byte)
    BY DEF Frame
  <2>1. ms[k] \in Seq(Byte) /\ Len(ms[k]) <= 2 ^ 30 /\ <<>> \in Seq(Byte)
    BY <1>1, EmptySeq
  <2> QED
    BY <2>1, LargeParts
<1>3. More(ms, n) = <<>>
  BY <1>1 DEF More
<1>4. ASSUME NEW k \in 0 .. n - 1
      PROVE  More(ms, k) = Cat(Frame(ms, k + 1), More(ms, k + 1))
  <2>1. k = 0 \/ k = 1 \/ k = 2 \/ k = 3
    OBVIOUS
  <2> QED
    BY <1>1, <2>1 DEF More
<1>5. /\ \A a, b \in Seq(Byte) : Cat(a, b) \in Seq(Byte)
      /\ <<>> \in Seq(Byte)
  BY CatFacts, EmptySeq
<1>6. ASSUME NEW k \in 0 .. n - 1, More(ms, k + 1) \in Seq(Byte)
      PROVE  More(ms, k) \in Seq(Byte)
  <2>1. k + 1 \in 1 .. n
    OBVIOUS
  <2> QED
    BY <1>2, <1>4, <1>5, <1>6, <2>1
<1>7. \A k \in 0 .. n : More(ms, k) \in Seq(Byte)
  <2>1. More(ms, n) \in Seq(Byte)
    BY <1>3, <1>5
  <2>2. n >= 1 /\ More(ms, n - 1) \in Seq(Byte)
    BY <1>6, <2>1
  <2>3. n >= 2 => More(ms, n - 2) \in Seq(Byte)
    BY <1>6, <2>2
  <2>4. n >= 3 => More(ms, n - 3) \in Seq(Byte)
    BY <1>6, <2>3
  <2>5. n >= 4 => More(ms, n - 4) \in Seq(Byte)
    BY <1>6, <2>4
  <2> QED
    BY <2>1, <2>2, <2>3, <2>4, <2>5
<1>8. ASSUME NEW k \in 0 .. n - 1
      PROVE  /\ ms[k + 1] \in Seq(Byte) /\ Len(ms[k + 1]) <= 2 ^ 30
             /\ Frame(ms, k + 1) \in Seq(Byte)
  <2>1. k + 1 \in 1 .. n
    OBVIOUS
  <2> QED
    BY <1>1, <1>2, <2>1
<1> QED
  BY <1>1, <1>3, <1>4, <1>7, <1>8

(* The parts of a stream of messages are the messages that follow its start. *)
LEMMA FramesAreMore ==
  ASSUME NEW b \in Seq(Byte), NEW n \in 1 .. 4, NEW ms, Messages(n, ms)
  PROVE  Frames(b, ms) = Cat(b, More(ms, 0))
<1>1. PICK v1, v2, v3, v4 : /\ v1 = Cat(b, Frame(ms, 1)) /\ v2 = Cat(v1, Frame(ms, 2))
                            /\ v3 = Cat(v2, Frame(ms, 3)) /\ v4 = Cat(v3, Frame(ms, 4))
  OBVIOUS
<1>2. /\ Len(ms) = n /\ More(ms, n) = <<>>
      /\ \A k \in 0 .. n : More(ms, k) \in Seq(Byte)
      /\ \A k \in 0 .. n - 1 : /\ Frame(ms, k + 1) \in Seq(Byte)
                               /\ More(ms, k) = Cat(Frame(ms, k + 1), More(ms, k + 1))
  BY MoreUnfolds
<1>3. ASSUME NEW v \in Seq(Byte), NEW k \in 0 .. n - 1
      PROVE  /\ Cat(v, More(ms, k)) = Cat(Cat(v, Frame(ms, k + 1)), More(ms, k + 1))
             /\ Cat(v, Frame(ms, k + 1)) \in Seq(Byte)
  <2>1. k + 1 \in 0 .. n
    OBVIOUS
  <2>2. Frame(ms, k + 1) \in Seq(Byte) /\ More(ms, k + 1) \in Seq(Byte)
    BY <1>2, <2>1
  <2> QED
    BY <1>2, <2>2, CatFacts
<1>4. \A v \in Seq(Byte) : Cat(v, <<>>) = v
  BY ConcatEmptySeq DEF Cat
<1>5. v1 \in Seq(Byte) /\ Cat(b, More(ms, 0)) = Cat(v1, More(ms, 1))
  <2>1. 0 \in 0 .. n - 1 /\ 0 + 1 = 1
    OBVIOUS
  <2> QED
    BY <1>1, <1>3, <2>1
<1>6. n >= 2 => v2 \in Seq(Byte) /\ Cat(v1, More(ms, 1)) = Cat(v2, More(ms, 2))
  <2>1. n >= 2 => 1 \in 0 .. n - 1 /\ 1 + 1 = 2
    OBVIOUS
  <2> QED
    BY <1>1, <1>3, <1>5, <2>1
<1>7. n >= 3 => v3 \in Seq(Byte) /\ Cat(v2, More(ms, 2)) = Cat(v3, More(ms, 3))
  <2>1. n >= 3 => 2 \in 0 .. n - 1 /\ 2 + 1 = 3
    OBVIOUS
  <2> QED
    BY <1>1, <1>3, <1>6, <2>1
<1>8. n >= 4 => v4 \in Seq(Byte) /\ Cat(v3, More(ms, 3)) = Cat(v4, More(ms, 4))
  <2>1. n >= 4 => 3 \in 0 .. n - 1 /\ 3 + 1 = 4
    OBVIOUS
  <2> QED
    BY <1>1, <1>3, <1>7, <2>1
<1>9. (IF n = 1 THEN v1 ELSE IF n = 2 THEN v2 ELSE IF n = 3 THEN v3 ELSE v4)
        = Cat(b, More(ms, 0))
  <2>1. CASE n = 1
    BY <2>1, <1>2, <1>4, <1>5
  <2>2. CASE n = 2
    BY <2>2, <1>2, <1>4, <1>5, <1>6
  <2>3. CASE n = 3
    BY <2>3, <1>2, <1>4, <1>5, <1>6, <1>7
  <2>4. CASE n = 4
    BY <2>4, <1>2, <1>4, <1>5, <1>6, <1>7, <1>8
  <2> QED
    BY <2>1, <2>2, <2>3, <2>4
<1>10. Frames(b, ms) = IF n = 1 THEN v1 ELSE IF n = 2 THEN v2 ELSE IF n = 3 THEN v3 ELSE v4
  BY <1>1, <1>2, FramesUnfold, ZenonT(30)
<1> QED
  BY <1>9, <1>10


(* The test that the Tester performs: its command, its messages and what it *)
(* may be answered with.                                                    *)
LEMMA CurrentTest ==
  ASSUME TypeOK, done < Len(suite)
  PROVE  /\ done \in Nat /\ done + 1 \in 1 .. Len(suite) /\ suite \in Suites
         /\ Current.op \in Ops /\ Current.op \in Byte
         /\ InputCount(Current.op) \in 1 .. 2 /\ ReplyCount(Current.op) \in 1 .. 4
         /\ Messages(InputCount(Current.op), Current.inputs)
         /\ \A c \in Ops \cup {0} : \A answer \in Replies(Current.op, c, Current.inputs) :
              IsAnswer(Current.op, answer)
         /\ TestFrames(Current) = <<Current.op>> \o More(Current.inputs, 0)
         /\ TestFrames(Current) \in Seq(Byte)
         /\ More(Current.inputs, 0) \in Seq(Byte)
<1> DEFINE k == done + 1
           t == suite[k]
<1>1. suite \in Suites /\ done \in 0 .. Len(suite)
  BY DEF TypeOK
<1>2. /\ suite \in Seq([op : Ops, inputs : Seq(Seq(Byte)), expected : Seq(Seq(Byte))])
      /\ \A i \in 1 .. Len(suite) :
           /\ Messages(InputCount(suite[i].op), suite[i].inputs)
           /\ \A c \in Ops \cup {0} : \A answer \in Replies(suite[i].op, c, suite[i].inputs) :
                IsAnswer(suite[i].op, answer)
  BY <1>1, SuitesAssumption
<1>3. Len(suite) \in Nat
  BY <1>2, LenProperties
<1>4. done \in Nat /\ k \in 1 .. Len(suite)
  BY <1>1, <1>3
<1>5. t \in [op : Ops, inputs : Seq(Seq(Byte)), expected : Seq(Seq(Byte))]
  BY <1>2, <1>4, ElementOfSeq
<1>6. t.op \in Ops
  BY <1>5
<1>7. /\ Messages(InputCount(t.op), t.inputs)
      /\ \A c \in Ops \cup {0} : \A answer \in Replies(t.op, c, t.inputs) : IsAnswer(t.op, answer)
  BY <1>2, <1>4
<1>8. t.op \in Byte /\ InputCount(t.op) \in 1 .. 2 /\ ReplyCount(t.op) \in 1 .. 4
  BY <1>6 DEF Ops, SHA, AES, MCE, SHORT, Byte, InputCount, ReplyCount
<1> HIDE DEF t
<1>9. <<t.op>> \in Seq(Byte) /\ InputCount(t.op) \in 1 .. 4
  BY <1>8
<1>10. TestFrames(t) = Cat(<<t.op>>, More(t.inputs, 0))
  BY <1>7, <1>9, FramesAreMore DEF TestFrames
<1>11. More(t.inputs, 0) \in Seq(Byte)
  BY <1>7, <1>8, <1>9, MoreUnfolds
<1>12. TestFrames(t) \in Seq(Byte)
  BY <1>9, <1>10, <1>11, CatFacts
<1>13. TestFrames(t) = <<t.op>> \o More(t.inputs, 0)
  BY <1>10 DEF Cat
<1> QED
  BY <1>1, <1>4, <1>6, <1>7, <1>8, <1>11, <1>12, <1>13 DEF t, Current

(* The answer as a stream. *)
LEMMA AnswerFrames ==
  ASSUME NEW a, op \in Ops, IsAnswer(op, a)
  PROVE  /\ ReplyCount(op) \in 1 .. 4 /\ Messages(ReplyCount(op), a)
         /\ a \in Seq(Seq(Byte))
         /\ ReplyFrames(a) \in Seq(Byte)
         /\ IsSmall(op) => /\ ReplyCount(op) = 1 /\ a[1] \in Seq(Byte) /\ Free(a[1], ETX)
                           /\ ReplyFrames(a) = <<STX>> \o (a[1] \o <<ETX>>)
         /\ ~IsSmall(op) => ReplyFrames(a) = LargeFrame(a[1]) \o More(a, 1)
<1>1. ReplyCount(op) \in 1 .. 4 /\ Messages(ReplyCount(op), a) /\ (IsSmall(op) => ReplyCount(op) = 1)
  BY DEF Ops, SHA, AES, MCE, SHORT, ReplyCount, IsAnswer, IsSmall
<1>2. /\ a \in Seq(Seq(Byte)) /\ 0 \in 0 .. ReplyCount(op) - 1 /\ 0 + 1 = 1
      /\ More(a, 0) \in Seq(Byte) /\ a[1] \in Seq(Byte) /\ Frame(a, 1) \in Seq(Byte)
      /\ More(a, 0) = Cat(Frame(a, 1), More(a, 1))
  <2>1. 0 \in 0 .. ReplyCount(op) /\ 0 \in 0 .. ReplyCount(op) - 1 /\ 0 + 1 = 1
    BY <1>1
  <2> QED
    BY <1>1, <2>1, MoreUnfolds
<1>3. ASSUME IsSmall(op)
      PROVE  /\ Free(a[1], ETX) /\ ReplyFrames(a) \in Seq(Byte)
             /\ ReplyFrames(a) = <<STX>> \o (a[1] \o <<ETX>>)
  <2>1. Len(a[1]) <= 255 /\ Free(a[1], ETX)
    BY <1>3 DEF IsAnswer, Free
  <2>2. ReplyFrames(a) = SmallFrame(a[1], 255)
    BY <1>3 DEF ReplyFrames
  <2> QED
    BY <1>2, <2>1, <2>2, SmallParts, ZenonT(30)
<1>4. ASSUME ~IsSmall(op)
      PROVE  /\ ReplyFrames(a) \in Seq(Byte)
             /\ ReplyFrames(a) = LargeFrame(a[1]) \o More(a, 1)
  <2>1. <<>> \in Seq(Byte)
    BY EmptySeq
  <2>2. Frames(<<>>, a) = Cat(<<>>, More(a, 0))
    BY <1>1, <2>1, FramesAreMore
  <2>3. Cat(<<>>, More(a, 0)) = More(a, 0)
    BY <1>2, ConcatEmptySeq DEF Cat
  <2>4. ReplyFrames(a) = More(a, 0)
    BY <1>4, <2>2, <2>3 DEF ReplyFrames
  <2> QED
    BY <1>2, <2>4 DEF Cat, Frame
<1> QED
  BY <1>1, <1>2, <1>3, <1>4

(* The texts between the messages hold no control code. *)
LEMMA TextFacts ==
  /\ Text \in Seq(Byte) /\ Free(Text, FTX) /\ Free(Text, ENQ)
  /\ <<ENQ>> \in Seq(Byte) /\ Text \o <<ENQ>> \in Seq(Byte)
  /\ <<EOT>> \in Seq(Byte) /\ <<ETX, EOT>> \in Seq(Byte)
  /\ LogName \in Seq(Byte) /\ Free(LogName, NUL)
  /\ Log \in Seq(Byte) /\ Len(Log) <= 2 ^ 30
  /\ FileFrame(LogName, Log) \in Seq(Byte)
<1>1. TextLen \in Nat /\ Log \in Seq(Byte) /\ Len(Log) <= 2 ^ 30
  BY TextAssumption, ExerciseAssumption
<1>2. Text \in Seq(Byte) /\ Len(Text) = TextLen /\ \A i \in 1 .. TextLen : Text[i] = TXT
  BY <1>1, IsASeq DEF Text, TXT, Byte
<1>3. Free(Text, FTX) /\ Free(Text, ENQ)
  BY <1>2 DEF Free, TXT, FTX, ENQ
<1>4. <<ENQ>> \in Seq(Byte) /\ <<EOT>> \in Seq(Byte) /\ <<ETX, EOT>> \in Seq(Byte)
  BY DEF ENQ, EOT, ETX, Byte
<1>5. LogName \in Seq(Byte) /\ Free(LogName, NUL)
  BY DEF LogName, Free, NUL, Byte
<1>6. <<>> \in Seq(Byte)
  BY EmptySeq
<1>7. FileFrame(LogName, Log) \in Seq(Byte)
  BY <1>1, <1>5, <1>6, FileParts
<1> QED
  BY <1>1, <1>2, <1>3, <1>4, <1>5, <1>7, BytesConcat

(* The two modes are different short texts. *)
LEMMA ModeFacts ==
  /\ ModeText \in Seq(Byte) /\ Free(ModeText, ETX)
  /\ SmallFrame(ModeText, 255) = <<STX>> \o (ModeText \o <<ETX>>)
  /\ SmallFrame(ModeText, 255) \in Seq(Byte)
  /\ (ModeText = ModeLinux) = TesterLinux
  /\ <<NL>> \in Seq(Byte) /\ NL \in Byte
<1>1. TesterLinux \in BOOLEAN
  BY ExerciseAssumption
<1>2. /\ ModeLinux \in Seq(Byte) /\ Len(ModeLinux) = 2
      /\ ModeBare \in Seq(Byte) /\ Len(ModeBare) = 2
  BY DEF ModeLinux, ModeBare, Byte
<1>3. Free(ModeLinux, ETX) /\ Free(ModeBare, ETX)
  BY DEF ModeLinux, ModeBare, Free, ETX
<1>4. ModeLinux # ModeBare
  <2>1. ModeLinux[2] = 76 /\ ModeBare[2] = 66
    BY DEF ModeLinux, ModeBare
  <2> QED
    BY <2>1
<1>5. ModeText \in Seq(Byte) /\ Free(ModeText, ETX) /\ Len(ModeText) <= 255
  BY <1>2, <1>3 DEF ModeText
<1>6. (ModeText = ModeLinux) = TesterLinux
  BY <1>1, <1>4 DEF ModeText
<1>7. <<NL>> \in Seq(Byte) /\ NL \in Byte
  BY DEF NL, Byte
<1> QED
  BY <1>5, <1>6, <1>7, SmallParts


---------------------------------------------------------------------------------
(* The invariant holds initially. *)
LEMMA InvInit == Init => Inv
<1> SUFFICES ASSUME Init PROVE Inv
  OBVIOUS
<1>1. /\ rx = [p \in Side |-> <<>>] /\ tx = [p \in Side |-> IF p = "sut" THEN Text ELSE <<>>]
      /\ <<>> \in Seq(Byte) /\ Text \in Seq(Byte)
  BY TextFacts, EmptySeq DEF Init
<1>2. LinkTypeOK
  BY <1>1 DEF LinkTypeOK
<1>3. suite \in Suites /\ Len(suite) \in Nat
  BY SuitesAssumption, LenProperties DEF Init
<1>4. TypeOK
  <2>1. /\ <<>> \in Seq(Seq(Byte)) /\ <<>> \in Seq(BOOLEAN) /\ <<>> \in Seq(Seq(Seq(Byte)))
    BY EmptySeq
  <2>2. reader \in [Side -> Reader]
    BY NewReaderType DEF Init
  <2>3. 0 \in Byte /\ 0 \in Nat /\ 0 \in 0 .. Len(suite)
    BY <1>3 DEF Byte
  <2> QED
    BY <1>2, <1>3, <2>1, <2>2, <2>3 DEF Init, TypeOK, SutStates, TstStates
<1>5. Back = <<>> /\ Ahead = Text
  BY <1>1, ConcatEmptySeq DEF Back, Ahead, Side
<1>6. Books
  BY EmptySeq DEF Init, Books
<1>7. Starting /\ Greeting
  BY <1>5, TextFacts DEF Init, Starting, Greeting, Fresh, Early, Side
<1>8. /\ Moding /\ Agreed /\ Reporting /\ Reported /\ Logging /\ Enquiring /\ Ready
      /\ Calling /\ Closing /\ Working
  BY DEF Init, Early, Moding, Agreed, Reporting, Reported, Logging, Enquiring, Ready,
         Calling, Closing, Working, SHA, AES
<1> QED
  BY <1>4, <1>6, <1>7, <1>8 DEF Inv, Phase

(* uart16550_init discards nothing: the Tester has not sent anything yet. *)
LEMMA SutInitKeeps ==
  ASSUME Inv, SutInit
  PROVE  Inv'
<1>1. TypeOK /\ Books /\ LinkTypeOK /\ Phase
  BY DEF Inv, TypeOK
<1>2. /\ sut = "init" /\ sut' = "phy" /\ Reinit("sut")
      /\ UNCHANGED <<tx, reader, linux, op, last, config, inputs, arena, regs,
                     suite, done, verdicts, answers, tst, eth, axis, history>>
  BY DEF SutInit, tstVars, world
<1>3. tst \in {"stream", "mode"} /\ Back = <<>> /\ rx["sut"] = <<>> /\ tx["tst"] = <<>>
  BY <1>1, <1>2, StreamTypes DEF Phase, Greeting, Starting, Early
<1>4. /\ rx' \in [Side -> Seq(Byte)] /\ rx'["sut"] = <<>> /\ rx'["tst"] = rx["tst"]
  BY <1>1, <1>2, <1>3, StreamTypes, ReinitType DEF Side
<1>5. Back' = Back /\ Ahead' = Ahead
  BY <1>2, <1>3, <1>4 DEF Back, Ahead
<1>6. TypeOK'
  BY <1>1, <1>2, <1>4 DEF TypeOK, LinkTypeOK, SutStates
<1>7. Books'
  BY <1>1, <1>2 DEF Books
<1>8. Starting' /\ Greeting'
  BY <1>1, <1>2, <1>3, <1>5 DEF Phase, Starting, Greeting, Fresh, Early
<1>9. /\ Moding' /\ Agreed' /\ Reporting' /\ Reported' /\ Logging' /\ Enquiring' /\ Ready'
      /\ Calling' /\ Closing' /\ Working'
  BY <1>1, <1>2, <1>3, <1>5 DEF Phase, Early, Moding, Agreed, Reporting, Reported, Logging,
     Enquiring, Ready, Calling, Closing, Working
<1> QED
  BY <1>6, <1>7, <1>8, <1>9 DEF Inv, Phase

(* The PHY is out of reset. *)
LEMMA SutPhyKeeps ==
  ASSUME Inv, SutPhy
  PROVE  Inv'
<1>1. TypeOK /\ Books /\ Phase
  BY DEF Inv
<1>2. /\ sut = "phy" /\ sut' = "mode"
      /\ UNCHANGED <<rx, tx, reader, linux, op, last, config, inputs, arena, regs,
                     suite, done, verdicts, answers, tst, eth, axis, history>>
  BY DEF SutPhy, tstVars, world
<1>3. tst \in {"stream", "mode"} /\ Back = <<>>
  BY <1>1, <1>2 DEF Phase, Greeting, Starting, Early
<1>4. Back' = Back /\ Ahead' = Ahead
  BY <1>2 DEF Back, Ahead
<1>5. TypeOK'
  BY <1>1, <1>2 DEF TypeOK, LinkTypeOK, SutStates
<1>6. Books'
  BY <1>1, <1>2 DEF Books
<1>7. Starting' /\ Greeting'
  BY <1>1, <1>2, <1>3, <1>4 DEF Phase, Starting, Greeting, Fresh, Early
<1>8. /\ Moding' /\ Agreed' /\ Reporting' /\ Reported' /\ Logging' /\ Enquiring' /\ Ready'
      /\ Calling' /\ Closing' /\ Working'
  BY <1>1, <1>2, <1>3, <1>4 DEF Phase, Early, Moding, Agreed, Reporting, Reported, Logging,
     Enquiring, Ready, Calling, Closing, Working
<1> QED
  BY <1>5, <1>6, <1>7, <1>8 DEF Inv, Phase

(* A byte of the mode: the SUT takes the mode of the Tester. *)
LEMMA SutModeKeeps ==
  ASSUME Inv, SutMode
  PROVE  Inv'
<1> DEFINE r == SmallStep(reader["sut"], Head(rx["sut"]))
<1>1. TypeOK /\ Books /\ Phase /\ LinkTypeOK
  BY DEF Inv, TypeOK
<1>2. /\ sut = "mode" /\ Readable("sut") /\ TakeByte("sut")
      /\ reader' = [reader EXCEPT !["sut"] = IF Finished(r) THEN NewReader ELSE r]
      /\ IF Finished(r)
         THEN /\ linux' = (r.data = ModeLinux)
              /\ sut' = IF linux' THEN "log" ELSE "eth"
              /\ Put("sut", Text)
         ELSE UNCHANGED <<linux, sut, tx>>
      /\ UNCHANGED <<op, last, config, inputs, arena, regs,
                     suite, done, verdicts, answers, tst, eth, axis, history>>
  BY DEF SutMode, Read, tstVars, world
<1> HIDE DEF r
<1>3. /\ rx' \in [Side -> Seq(Byte)] /\ rx'["tst"] = rx["tst"]
      /\ Back # <<>> /\ r = SmallStep(reader["sut"], Head(Back))
      /\ tx'["tst"] = tx["tst"] => Back' = Tail(Back)
  BY <1>1, <1>2, SutReads DEF r
<1>4. Back \in Seq(Byte) /\ "sut" \in Side /\ "tst" \in Side /\ Ahead \in Seq(Byte)
  BY <1>1, StreamTypes
<1>5. /\ tst \in {"eth", "log"} /\ reader["tst"] = NewReader /\ Free(Ahead, FTX) /\ Fresh
      /\ axis = "sent" /\ (tst = "eth" => eth = "none" /\ ~TesterLinux)
  BY <1>1, <1>2, <1>3 DEF Phase, Greeting, Starting, Early
<1>6. /\ tx' \in [Side -> Seq(Byte)] /\ tx'["tst"] = tx["tst"]
      /\ Ahead' = IF Finished(r) THEN Ahead \o Text ELSE Ahead
  <2>1. CASE Finished(r)
    BY <1>1, <1>2, <1>3, <2>1, SutPuts, TextFacts
  <2>2. CASE ~Finished(r)
    BY <1>1, <1>2, <1>3, <2>2 DEF LinkTypeOK, Ahead
  <2> QED
    BY <2>1, <2>2
<1>7. /\ r \in Reader
      /\ \/ Finished(r) /\ r.data = ModeText /\ Back' = <<>>
         \/ ~Finished(r) /\ SmallReading(r, ModeText, Back')
  <2>1. CASE /\ TesterLinux /\ reader["sut"] = NewReader
             /\ Back = <<NL>> \o SmallFrame(ModeText, 255)
    <3>1. Head(Back) = NL /\ Tail(Back) = SmallFrame(ModeText, 255)
      BY <2>1, ModeFacts, FirstByte
    <3>2. r = NewReader
      BY <1>3, <2>1, <3>1, NewReaderType DEF SmallStep, NL, STX
    <3> QED
      BY <1>3, <1>6, <3>1, <3>2, NewReaderType, ModeFacts DEF SmallReading
  <2>2. CASE SmallReading(reader["sut"], ModeText, Back)
    <3>1. ModeText \in Seq(Byte) /\ Free(ModeText, ETX)
      BY ModeFacts
    <3>2. LET q == SmallStep(reader["sut"], Head(Back)) IN
          /\ q \in Reader
          /\ \/ Finished(q) /\ q.data = ModeText /\ Tail(Back) = <<>>
             \/ ~Finished(q) /\ SmallReading(q, ModeText, Tail(Back))
      BY <1>3, <1>4, <2>2, <3>1, SmallReads
    <3> QED
      BY <1>3, <1>6, <3>2
  <2> QED
    BY <1>1, <1>2, <1>5, <2>1, <2>2 DEF Phase, Moding
<1>8. /\ reader' \in [Side -> Reader] /\ reader'["tst"] = NewReader
      /\ reader'["sut"] = IF Finished(r) THEN NewReader ELSE r
  BY <1>1, <1>2, <1>4, <1>5, <1>7, NewReaderType DEF TypeOK
<1>9. CASE Finished(r)
  <2>1. linux' = TesterLinux /\ linux' \in BOOLEAN
    BY <1>2, <1>7, <1>9, ModeFacts, ExerciseAssumption
  <2>2. sut' \in {"eth", "log"} /\ (sut' = "log" <=> TesterLinux)
    BY <1>2, <1>9, <2>1
  <2>3. TypeOK'
    BY <1>1, <1>2, <1>3, <1>6, <1>8, <2>1, <2>2 DEF TypeOK, LinkTypeOK, SutStates
  <2>4. Books'
    BY <1>1, <1>2 DEF Books
  <2>5. Free(Ahead', FTX)
    BY <1>4, <1>5, <1>6, <1>9, TextFacts, FreeStays
  <2>6. Starting' /\ Greeting' /\ Reporting' /\ Agreed'
    BY <1>2, <1>5, <1>7, <1>8, <1>9, <2>1, <2>2, <2>5
       DEF Starting, Greeting, Reporting, Agreed, Fresh, Early
  <2>7. /\ Moding' /\ Reported' /\ Logging' /\ Enquiring' /\ Ready'
        /\ Calling' /\ Closing' /\ Working'
    BY <1>1, <1>2, <1>5, <2>2 DEF Phase, Early, Moding, Reported, Logging,
       Enquiring, Ready, Calling, Closing, Working
  <2> QED
    BY <2>3, <2>4, <2>6, <2>7 DEF Inv, Phase
<1>10. CASE ~Finished(r)
  <2>1. sut' = sut /\ linux' = linux
    BY <1>2, <1>10
  <2>2. TypeOK'
    BY <1>1, <1>2, <1>3, <1>6, <1>8, <2>1 DEF TypeOK, LinkTypeOK
  <2>3. Books'
    BY <1>1, <1>2 DEF Books
  <2>4. Starting' /\ Greeting' /\ Moding'
    BY <1>1, <1>2, <1>5, <1>6, <1>7, <1>8, <1>10, <2>1
       DEF Starting, Greeting, Moding, Fresh, Early
  <2>5. /\ Reporting' /\ Agreed' /\ Reported' /\ Logging' /\ Enquiring' /\ Ready'
        /\ Calling' /\ Closing' /\ Working'
    BY <1>1, <1>2, <1>5, <2>1 DEF Phase, Early, Reporting, Agreed, Reported, Logging,
       Enquiring, Ready, Calling, Closing, Working
  <2> QED
    BY <2>2, <2>3, <2>4, <2>5 DEF Inv, Phase
<1> QED
  BY <1>9, <1>10

(* The file arrives over Ethernet. *)
LEMMA SutEthKeeps ==
  ASSUME Inv, SutEth
  PROVE  Inv'
<1>1. TypeOK /\ Books /\ Phase
  BY DEF Inv
<1>2. /\ sut = "eth" /\ sut' = "log" /\ eth = "sent" /\ eth' = "received"
      /\ UNCHANGED <<rx, tx, reader, linux, op, last, config, inputs, arena, regs,
                     suite, done, verdicts, answers, tst, axis, history>>
  BY DEF SutEth, tstVars
<1>3. tst = "log" /\ Back = <<>>
  BY <1>1, <1>2 DEF Phase, Greeting, Reporting, Early
<1>4. Back' = Back /\ Ahead' = Ahead
  BY <1>2 DEF Back, Ahead
<1>5. TypeOK'
  BY <1>1, <1>2 DEF TypeOK, LinkTypeOK, SutStates
<1>6. Books'
  BY <1>1, <1>2 DEF Books
<1>7. Starting' /\ Greeting' /\ Reporting' /\ Agreed'
  BY <1>1, <1>2, <1>3, <1>4 DEF Phase, Starting, Greeting, Reporting, Agreed, Fresh, Early
<1>8. /\ Moding' /\ Reported' /\ Logging' /\ Enquiring' /\ Ready'
      /\ Calling' /\ Closing' /\ Working'
  BY <1>1, <1>2, <1>3, <1>4 DEF Phase, Early, Moding, Reported, Logging,
     Enquiring, Ready, Calling, Closing, Working
<1> QED
  BY <1>5, <1>6, <1>7, <1>8 DEF Inv, Phase

(* What the SUT sends after the mode: texts, test.log, a text and an ENQ. *)
LEMMA LogStream ==
  ASSUME NEW s \in Seq(Byte), Free(s, FTX)
  PROVE  LET bytes == Text \o FileFrame(LogName, Log) \o Text \o <<ENQ>> IN
         /\ bytes \in Seq(Byte)
         /\ FileReading(NewReader, LogName, Log, Text \o <<ENQ>>, s \o bytes)
<1> DEFINE t == Text
           f == FileFrame(LogName, Log)
           e == <<ENQ>>
<1>1. t \in Seq(Byte) /\ f \in Seq(Byte) /\ e \in Seq(Byte) /\ Free(t, FTX)
  BY TextFacts
<1> HIDE DEF t, f, e
<1>2. /\ Cat(s, Cat(Cat(Cat(t, f), t), e)) = Cat(Cat(s, t), Cat(f, Cat(t, e)))
      /\ Cat(Cat(Cat(t, f), t), e) \in Seq(Byte) /\ Cat(s, t) \in Seq(Byte)
  <2>1. /\ Cat(t, f) \in Seq(Byte) /\ Cat(t, e) \in Seq(Byte) /\ Cat(s, t) \in Seq(Byte)
        /\ Cat(Cat(t, f), t) \in Seq(Byte) /\ Cat(f, Cat(t, e)) \in Seq(Byte)
    BY <1>1, CatFacts
  <2>2. Cat(Cat(Cat(t, f), t), e) = Cat(Cat(t, f), Cat(t, e))
    BY <1>1, <2>1, CatFacts
  <2>3. Cat(Cat(t, f), Cat(t, e)) = Cat(t, Cat(f, Cat(t, e)))
    BY <1>1, <2>1, CatFacts
  <2>4. Cat(s, Cat(t, Cat(f, Cat(t, e)))) = Cat(Cat(s, t), Cat(f, Cat(t, e)))
    BY <1>1, <2>1, CatFacts
  <2> QED
    BY <1>1, <2>1, <2>2, <2>3, <2>4, CatFacts
<1>3. Free(Cat(s, t), FTX)
  BY <1>1, FreeStays DEF Cat
<1>4. Preceded(Cat(s, Cat(Cat(Cat(t, f), t), e)), FTX, Cat(f, Cat(t, e)))
  BY <1>2, <1>3, Zenon DEF Preceded, Cat
<1>5. Preceded(s \o (((t \o f) \o t) \o e), FTX, f \o (t \o e)) /\ ((t \o f) \o t) \o e \in Seq(Byte)
  BY <1>2, <1>4, Zenon DEF Cat
<1> QED
  BY <1>5, Zenon DEF FileReading, t, f, e

(* The SUT reports: the registers and the AXI stream are written before the  *)
(* Tester can see the end of test.log.                                      *)
LEMMA SutLogKeeps ==
  ASSUME Inv, SutLog
  PROVE  Inv'
<1> DEFINE bytes == Text \o FileFrame(LogName, Log) \o Text \o <<ENQ>>
<1>1. TypeOK /\ Books /\ Phase /\ LinkTypeOK
  BY DEF Inv, TypeOK
<1>2. /\ sut = "log" /\ sut' = "setup" /\ regs' = TRUE
      /\ axis' = IF axis = "sent" THEN "returned" ELSE "skipped"
      /\ Put("sut", bytes)
      /\ UNCHANGED <<rx, reader, linux, op, last, config, inputs, arena,
                     suite, done, verdicts, answers, tst, eth, history>>
  BY DEF SutLog, tstVars
<1>3. /\ tst = "log" /\ Back = <<>> /\ reader["sut"] = NewReader /\ reader["tst"] = NewReader
      /\ Free(Ahead, FTX) /\ Fresh /\ axis = "sent"
  BY <1>1, <1>2 DEF Phase, Greeting, Reporting, Early
<1>4. /\ bytes \in Seq(Byte)
      /\ FileReading(NewReader, LogName, Log, Text \o <<ENQ>>, Ahead \o bytes)
  BY <1>1, <1>3, LogStream, StreamTypes
<1> HIDE DEF bytes
<1>5. tx' \in [Side -> Seq(Byte)] /\ Ahead' = Ahead \o bytes /\ Back' = Back
  BY <1>1, <1>2, <1>4, SutPuts
<1>6. TypeOK'
  BY <1>1, <1>2, <1>3, <1>5 DEF TypeOK, LinkTypeOK, SutStates
<1>7. Books'
  BY <1>1, <1>2 DEF Books
<1>8. Logging'
  BY <1>2, <1>3, <1>4, <1>5 DEF Logging, Sitting, Fresh, Early
<1>9. /\ Starting' /\ Greeting' /\ Moding' /\ Agreed' /\ Reporting' /\ Reported'
      /\ Enquiring' /\ Ready' /\ Calling' /\ Closing' /\ Working'
  BY <1>1, <1>2, <1>3 DEF Phase, Early, Starting, Greeting, Moding, Agreed, Reporting,
     Reported, Enquiring, Ready, Calling, Closing, Working
<1> QED
  BY <1>6, <1>7, <1>8, <1>9 DEF Inv, Phase

(* The accelerator and the arena are set up. *)
LEMMA SutSetupKeeps ==
  ASSUME Inv, SutSetup
  PROVE  Inv'
<1>1. TypeOK /\ Books /\ Phase
  BY DEF Inv
<1>2. /\ sut = "setup" /\ sut' = "command" /\ last' = 0 /\ arena' = 0
      /\ UNCHANGED <<rx, tx, reader, linux, op, config, inputs, regs,
                     suite, done, verdicts, answers, tst, eth, axis, history>>
  BY DEF SutSetup, tstVars, world
<1>3. Back' = Back /\ Ahead' = Ahead
  BY <1>2 DEF Back, Ahead
<1>4. TypeOK'
  BY <1>1, <1>2 DEF TypeOK, LinkTypeOK, SutStates, Byte
<1>5. Books'
  BY <1>1, <1>2 DEF Books
<1>6. /\ Starting' /\ Greeting' /\ Moding' /\ Agreed' /\ Reporting' /\ Reported'
      /\ Logging' /\ Enquiring' /\ Ready'
  BY <1>1, <1>2, <1>3 DEF Phase, Early, Starting, Greeting, Moding, Agreed, Reporting,
     Reported, Logging, Enquiring, Ready, Sitting, Fresh
<1>7. Calling'
  BY <1>1, <1>2, <1>3 DEF Phase, Calling, Commanding, Answering, Current
<1>8. Closing' /\ Working'
  BY <1>1, <1>2, <1>3 DEF Phase, Closing, Working, SHA, AES
<1> QED
  BY <1>4, <1>5, <1>6, <1>7, <1>8 DEF Inv, Phase

(* The head of the command loop finds the command of the current test, or    *)
(* the end of the verification.                                            *)
LEMMA SutCommandKeeps ==
  ASSUME Inv, SutCommand
  PROVE  Inv'
<1>1. TypeOK /\ Books /\ Phase /\ LinkTypeOK
  BY DEF Inv, TypeOK
<1>2. /\ sut = "command" /\ Readable("sut") /\ TakeByte("sut")
      /\ op' = Head(rx["sut"]) /\ inputs' = <<>>
      /\ IF op' \in Ops THEN sut' = "configure" /\ UNCHANGED tx
                        ELSE sut' = "end" /\ Put("sut", <<EOT>>)
      /\ UNCHANGED <<reader, linux, last, config, arena, regs,
                     suite, done, verdicts, answers, tst, eth, axis, history>>
  BY DEF SutCommand, tstVars, world
<1>3. /\ rx' \in [Side -> Seq(Byte)] /\ rx'["tst"] = rx["tst"]
      /\ Back # <<>> /\ op' = Head(Back) /\ op' \in Byte
      /\ tx'["tst"] = tx["tst"] => Back' = Tail(Back)
  BY <1>1, <1>2, SutReads
<1>4. /\ tx' \in [Side -> Seq(Byte)] /\ tx'["tst"] = tx["tst"]
      /\ op' \in Ops => Ahead' = Ahead
  <2>1. CASE op' \in Ops
    BY <1>1, <1>2, <1>3, <2>1 DEF LinkTypeOK, Ahead
  <2>2. CASE op' \notin Ops
    BY <1>1, <1>2, <1>3, <2>2, SutPuts, TextFacts
  <2> QED
    BY <2>1, <2>2
<1>5. TypeOK'
  <2>1. inputs' \in Seq(Seq(Byte))
    BY <1>2, EmptySeq
  <2> QED
    BY <1>1, <1>2, <1>3, <1>4, <2>1 DEF TypeOK, LinkTypeOK, SutStates
<1>6. Books'
  BY <1>1, <1>2 DEF Books
<1>7. regs /\ axis = "returned" /\ linux = TesterLinux /\ tst \in {"reply", "final", "end"}
  BY <1>1, <1>2, <1>3 DEF Phase, Reported, Agreed, Logging, Enquiring, Ready, Early, TypeOK, TstStates
<1>8. CASE tst = "reply"
  <2>1. /\ done < Len(suite) /\ Len(history) = done
        /\ Commanding /\ reader["tst"] = NewReader /\ Ahead = <<>> /\ answers = <<>>
    BY <1>1, <1>3, <1>8 DEF Phase, Calling, Answering
  <2>2. /\ Back = <<Current.op>> \o More(Current.inputs, 0) /\ Current.op \in Ops
        /\ Current.op \in Byte /\ More(Current.inputs, 0) \in Seq(Byte)
        /\ reader["sut"] = NewReader
    BY <1>1, <1>2, <2>1, CurrentTest DEF Commanding
  <2>3. op' = Current.op /\ Back' = More(Current.inputs, 0)
    BY <1>3, <1>4, <2>2, FirstByte
  <2>4. sut' = "configure" /\ Ahead' = <<>>
    BY <1>2, <1>4, <2>1, <2>2, <2>3
  <2>5. Commanding'
    BY <1>2, <2>2, <2>3, <2>4 DEF Commanding, Current
  <2>6. Calling'
    BY <1>2, <1>8, <2>1, <2>4, <2>5 DEF Calling
  <2>7. Working'
    BY <1>1, <1>2, <1>8, <2>1, <2>4 DEF Phase, Working
  <2>8. /\ Starting' /\ Greeting' /\ Moding' /\ Agreed' /\ Reporting' /\ Reported'
        /\ Logging' /\ Enquiring' /\ Ready' /\ Closing'
    BY <1>2, <1>7, <1>8, <2>4 DEF Early, Starting, Greeting, Moding, Agreed, Reporting,
       Reported, Logging, Enquiring, Ready, Closing
  <2> QED
    BY <1>5, <1>6, <2>6, <2>7, <2>8 DEF Inv, Phase
<1>9. CASE tst \in {"final", "end"}
  <2>1. done = Len(suite) /\ Len(history) = done /\ Back = <<ETX, EOT>>
    BY <1>1, <1>2, <1>9 DEF Phase, Closing
  <2>2. op' = ETX
    BY <1>3, <2>1
  <2>3. sut' = "end"
    BY <1>2, <2>2 DEF Ops, SHA, AES, MCE, SHORT, ETX
  <2>4. Closing' /\ Working'
    BY <1>1, <1>2, <1>9, <2>1, <2>3 DEF Phase, Closing, Working
  <2>5. /\ Starting' /\ Greeting' /\ Moding' /\ Agreed' /\ Reporting' /\ Reported'
        /\ Logging' /\ Enquiring' /\ Ready' /\ Calling'
    BY <1>2, <1>7, <1>9, <2>3 DEF Early, Starting, Greeting, Moding, Agreed, Reporting,
       Reported, Logging, Enquiring, Ready, Calling
  <2> QED
    BY <1>5, <1>6, <2>4, <2>5 DEF Inv, Phase
<1> QED
  BY <1>7, <1>8, <1>9

(* The accelerator is configured for the command. *)
LEMMA SutConfigureKeeps ==
  ASSUME Inv, SutConfigure
  PROVE  Inv'
<1>1. TypeOK /\ Books /\ Phase
  BY DEF Inv
<1>2. /\ sut = "configure" /\ sut' = "receive" /\ last' = op
      /\ config' = IF last # op /\ op \in {SHA, AES} THEN op ELSE config
      /\ UNCHANGED <<rx, tx, reader, linux, op, inputs, arena, regs,
                     suite, done, verdicts, answers, tst, eth, axis, history>>
  BY DEF SutConfigure, tstVars, world
<1>3. Back' = Back /\ Ahead' = Ahead
  BY <1>2 DEF Back, Ahead
<1>4. /\ tst = "reply" /\ Len(history) = done /\ done < Len(suite) /\ arena = 0
      /\ Commanding /\ reader["tst"] = NewReader /\ Ahead = <<>> /\ answers = <<>>
  BY <1>1, <1>2 DEF Phase, Working, Calling
<1>5. /\ op = Current.op /\ inputs = <<>> /\ reader["sut"] = NewReader
      /\ Back = More(Current.inputs, 0)
  BY <1>2, <1>4 DEF Commanding
<1>6. op \in {SHA, AES} => config' = op
  BY <1>1, <1>2 DEF Phase, Working
<1>7. TypeOK'
  BY <1>1, <1>2, <1>6 DEF TypeOK, LinkTypeOK, SutStates, Ops
<1>8. Books'
  BY <1>1, <1>2 DEF Books
<1>9. Calling'
  <2>1. LargeReading(NewReader, Current.inputs[1], More(Current.inputs, 1), Back)
    <3> DEFINE n == InputCount(Current.op)
    <3>1. n \in 1 .. 4 /\ n \in 1 .. 2 /\ Messages(n, Current.inputs)
      BY <1>1, <1>4, CurrentTest
    <3> HIDE DEF n
    <3>2. 0 \in 0 .. n - 1 /\ 0 + 1 = 1
      BY <3>1
    <3>3. More(Current.inputs, 0) = Cat(Frame(Current.inputs, 1), More(Current.inputs, 1))
      BY <3>1, <3>2, MoreUnfolds
    <3> QED
      BY <1>5, <3>3, Zenon DEF LargeReading, Cat, Frame
  <2>2. inputs = SubSeq(Current.inputs, 1, 0) /\ arena = Taken(Current.inputs, 0)
    BY <1>4, <1>5 DEF Taken
  <2>3. 0 \in 0 .. InputCount(op) - 1 /\ 0 + 1 = 1
    BY DEF InputCount
  <2>4. \E k \in 0 .. InputCount(op) - 1 :
          /\ inputs = SubSeq(Current.inputs, 1, k)
          /\ arena = Taken(Current.inputs, k)
          /\ LargeReading(NewReader, Current.inputs[k + 1], More(Current.inputs, k + 1), Back)
    BY <2>1, <2>2, <2>3
  <2>5. Commanding'
    BY <1>2, <1>3, <1>5, <1>6, <2>4 DEF Commanding, Current, IsSmall
  <2> QED
    BY <1>2, <1>3, <1>4, <2>5 DEF Calling
<1>10. Working'
  BY <1>2, <1>4, <1>6 DEF Working
<1>11. /\ Starting' /\ Greeting' /\ Moding' /\ Agreed' /\ Reporting' /\ Reported'
       /\ Logging' /\ Enquiring' /\ Ready' /\ Closing'
  BY <1>1, <1>2, <1>4 DEF Phase, Early, Starting, Greeting, Moding, Agreed, Reporting,
     Reported, Logging, Enquiring, Ready, Closing
<1> QED
  BY <1>7, <1>8, <1>9, <1>10, <1>11 DEF Inv, Phase

(* The messages received so far, and one more. *)
LEMMA MessagesSoFar ==
  ASSUME NEW ms \in Seq(Seq(Byte))
  PROVE  /\ Len(ms) \in Nat /\ SubSeq(ms, 1, Len(ms)) = ms /\ SubSeq(ms, 1, 0) = <<>>
         /\ \A k \in 0 .. Len(ms) : SubSeq(ms, 1, k) \in Seq(Seq(Byte)) /\ Len(SubSeq(ms, 1, k)) = k
         /\ \A k \in 0 .. Len(ms) - 1 :
              Append(SubSeq(ms, 1, k), ms[k + 1]) = SubSeq(ms, 1, k + 1)
<1>1. Len(ms) \in Nat /\ SubSeq(ms, 1, Len(ms)) = ms /\ SubSeq(ms, 1, 0) = <<>>
  BY LenProperties, SubSeqFull, SubSeqEmpty
<1>2. ASSUME NEW k \in 0 .. Len(ms)
      PROVE  /\ SubSeq(ms, 1, k) \in Seq(Seq(Byte)) /\ Len(SubSeq(ms, 1, k)) = k
             /\ \A i \in 1 .. k : SubSeq(ms, 1, k)[i] = ms[i]
  <2>1. \A i \in 1 .. k : ms[i] \in Seq(Byte)
    BY <1>1, ElementOfSeq
  <2>2. /\ SubSeq(ms, 1, k) \in Seq(Seq(Byte))
        /\ Len(SubSeq(ms, 1, k)) = IF 1 <= k THEN k - 1 + 1 ELSE 0
        /\ \A i \in 1 .. k - 1 + 1 : SubSeq(ms, 1, k)[i] = ms[1 + i - 1]
    BY <1>1, <2>1, SubSeqProperties
  <2>3. k - 1 + 1 = k /\ \A i \in 1 .. k : 1 + i - 1 = i
    BY <1>1
  <2> QED
    BY <1>1, <2>2, <2>3
<1>3. ASSUME NEW k \in 0 .. Len(ms) - 1
      PROVE  Append(SubSeq(ms, 1, k), ms[k + 1]) = SubSeq(ms, 1, k + 1)
  <2> DEFINE s == SubSeq(ms, 1, k)
             a == Append(s, ms[k + 1])
             t == SubSeq(ms, 1, k + 1)
  <2>1. k \in 0 .. Len(ms) /\ k + 1 \in 0 .. Len(ms) /\ k + 1 \in 1 .. Len(ms) /\ k \in Nat
    BY <1>1
  <2>2. ms[k + 1] \in Seq(Byte)
    BY <2>1, ElementOfSeq
  <2>3. /\ s \in Seq(Seq(Byte)) /\ Len(s) = k /\ \A i \in 1 .. k : s[i] = ms[i]
        /\ t \in Seq(Seq(Byte)) /\ Len(t) = k + 1 /\ \A i \in 1 .. k + 1 : t[i] = ms[i]
    BY <1>2, <2>1
  <2> HIDE DEF s, t
  <2>4. /\ a \in Seq(Seq(Byte)) /\ Len(a) = k + 1 /\ a[k + 1] = ms[k + 1]
        /\ \A i \in 1 .. k : a[i] = s[i]
    BY <2>2, <2>3, AppendProperties
  <2>5. ASSUME NEW i \in 1 .. k + 1 PROVE a[i] = t[i]
    <3>1. i \in 1 .. k \/ i = k + 1
      BY <2>1
    <3> QED
      BY <2>3, <2>4, <3>1
  <2> HIDE DEF a
  <2>6. a = t
    BY <2>3, <2>4, <2>5, SeqEqual
  <2> QED
    BY <2>6 DEF a, s, t
<1> QED
  BY <1>1, <1>2, <1>3

(* A message that follows is read from its start. *)
LEMMA NextMessage ==
  ASSUME NEW n \in 1 .. 4, NEW ms, Messages(n, ms), NEW k \in 0 .. n - 1
  PROVE  /\ LargeReading(NewReader, ms[k + 1], More(ms, k + 1), More(ms, k))
         /\ ms[k + 1] \in Seq(Byte) /\ Len(ms[k + 1]) <= 2 ^ 30
         /\ More(ms, k + 1) \in Seq(Byte)
<1>1. /\ ms[k + 1] \in Seq(Byte) /\ Len(ms[k + 1]) <= 2 ^ 30
      /\ More(ms, k) = Cat(Frame(ms, k + 1), More(ms, k + 1))
  BY MoreUnfolds
<1>2. More(ms, k + 1) \in Seq(Byte)
  <2>1. k + 1 \in 0 .. n
    OBVIOUS
  <2> QED
    BY <2>1, MoreUnfolds
<1>3. LargeReading(NewReader, ms[k + 1], More(ms, k + 1), More(ms, k))
  BY <1>1, Zenon DEF LargeReading, Cat, Frame
<1> QED
  BY <1>1, <1>2, <1>3

(* A byte of a message of the command. *)
LEMMA SutReceiveKeeps ==
  ASSUME Inv, SutReceive
  PROVE  Inv'
<1> DEFINE r == LargeStep(reader["sut"], Head(rx["sut"]))
           ms == Current.inputs
           n == InputCount(op)
<1>1. TypeOK /\ Books /\ Phase /\ LinkTypeOK
  BY DEF Inv, TypeOK
<1>2. /\ sut = "receive" /\ Readable("sut") /\ TakeByte("sut")
      /\ reader' = [reader EXCEPT !["sut"] = IF Finished(r) THEN NewReader ELSE r]
      /\ IF Finished(r)
         THEN /\ inputs' = Append(inputs, r.data)
              /\ arena' = arena + Aligned(r.size + 1)
              /\ sut' = IF Len(inputs') = n THEN "compute" ELSE sut
         ELSE UNCHANGED <<inputs, arena, sut>>
      /\ UNCHANGED <<tx, linux, op, last, config, regs,
                     suite, done, verdicts, answers, tst, eth, axis, history>>
  BY DEF SutReceive, Read, tstVars, world
<1>3. /\ tst = "reply" /\ Len(history) = done /\ done < Len(suite) /\ last = op
      /\ Commanding /\ reader["tst"] = NewReader /\ Ahead = <<>> /\ answers = <<>>
  BY <1>1, <1>2 DEF Phase, Working, Calling
<1>4. PICK k \in 0 .. n - 1 :
         /\ inputs = SubSeq(ms, 1, k) /\ arena = Taken(ms, k)
         /\ LargeReading(reader["sut"], ms[k + 1], More(ms, k + 1), Back)
  BY <1>2, <1>3 DEF Commanding
<1>5. op = Current.op /\ (IsSmall(op) => config = op)
  BY <1>2, <1>3 DEF Commanding
<1>6. n \in 1 .. 2 /\ n \in 1 .. 4 /\ Messages(n, ms) /\ k \in 0 .. 1 /\ k + 1 \in 0 .. n
  <2>1. n \in 1 .. 2 /\ Messages(n, ms)
    BY <1>1, <1>3, <1>5, CurrentTest
  <2> QED
    BY <2>1, <1>4
<1> HIDE DEF r, ms, n
<1>7. ms \in Seq(Seq(Byte)) /\ Len(ms) = n /\ More(ms, n) = <<>>
  BY <1>6, MoreUnfolds
<1>8. /\ rx' \in [Side -> Seq(Byte)] /\ Ahead' = Ahead
      /\ Back # <<>> /\ r = LargeStep(reader["sut"], Head(Back)) /\ Back' = Tail(Back)
      /\ Back \in Seq(Byte) /\ "sut" \in Side /\ "tst" \in Side
  BY <1>1, <1>2, SutReads, StreamTypes DEF r, Ahead
<1>9. /\ r \in Reader
      /\ \/ Finished(r) /\ r.data = ms[k + 1] /\ r.size = Len(ms[k + 1]) /\ Back' = More(ms, k + 1)
         \/ ~Finished(r) /\ LargeReading(r, ms[k + 1], More(ms, k + 1), Back')
  <2>1. ms[k + 1] \in Seq(Byte) /\ Len(ms[k + 1]) <= 2 ^ 30 /\ More(ms, k + 1) \in Seq(Byte)
    BY <1>4, <1>6, NextMessage
  <2>2. LET q == LargeStep(reader["sut"], Head(Back)) IN
        /\ q \in Reader
        /\ \/ Finished(q) /\ q.data = ms[k + 1] /\ q.size = Len(ms[k + 1]) /\ Tail(Back) = More(ms, k + 1)
           \/ ~Finished(q) /\ LargeReading(q, ms[k + 1], More(ms, k + 1), Tail(Back))
    BY <1>4, <1>8, <2>1, LargeReads
  <2> QED
    BY <1>8, <2>2
<1>10. /\ reader' \in [Side -> Reader] /\ reader'["tst"] = NewReader
       /\ reader'["sut"] = IF Finished(r) THEN NewReader ELSE r
  BY <1>1, <1>2, <1>3, <1>8, <1>9, NewReaderType DEF TypeOK
<1>11. Current' = Current /\ Current'.inputs = ms
  BY <1>2 DEF Current, ms
<1>12. Books'
  BY <1>1, <1>2 DEF Books
<1>13. CASE Finished(r)
  <2>1. /\ inputs' = SubSeq(ms, 1, k + 1) /\ Len(inputs') = k + 1 /\ inputs' \in Seq(Seq(Byte))
    <3>1. k \in 0 .. Len(ms) - 1 /\ k + 1 \in 0 .. Len(ms)
      BY <1>4, <1>6, <1>7
    <3>2. /\ Append(SubSeq(ms, 1, k), ms[k + 1]) = SubSeq(ms, 1, k + 1)
          /\ SubSeq(ms, 1, k + 1) \in Seq(Seq(Byte)) /\ Len(SubSeq(ms, 1, k + 1)) = k + 1
      BY <1>7, <3>1, MessagesSoFar
    <3>3. inputs' = Append(SubSeq(ms, 1, k), ms[k + 1])
      BY <1>2, <1>4, <1>9, <1>13
    <3> QED
      BY <3>2, <3>3
  <2>2. arena' = Taken(ms, k + 1) /\ arena' \in Nat
    <3>1. arena' = Taken(ms, k) + Aligned(Len(ms[k + 1]) + 1)
      BY <1>2, <1>4, <1>9, <1>13
    <3>2. Len(ms[k + 1]) \in Nat
      BY <1>4, <1>6, NextMessage, LenProperties
    <3>3. Aligned(Len(ms[k + 1]) + 1) \in Nat
      <4>1. \A z \in Nat : ((z + 1 + 3) \div 4) * 4 \in Nat
        OBVIOUS
      <4> QED
        BY <3>2, <4>1 DEF Aligned
    <3>4. CASE k = 0
      BY <3>1, <3>3, <3>4 DEF Taken
    <3>5. CASE k = 1
      <4>1. arena \in Nat
        BY <1>1 DEF TypeOK
      <4> QED
        BY <1>4, <3>1, <3>3, <3>5, <4>1 DEF Taken
    <3> QED
      BY <1>6, <3>4, <3>5
  <2>3. sut' \in {"receive", "compute"} /\ (sut' = "compute" <=> k + 1 = n)
    BY <1>2, <1>13, <2>1
  <2>4. TypeOK'
    BY <1>1, <1>2, <1>8, <1>10, <2>1, <2>2, <2>3 DEF TypeOK, LinkTypeOK, SutStates
  <2>5. Commanding'
    <3>1. CASE sut' = "receive"
      <4>1. k + 1 \in 0 .. n - 1
        BY <1>4, <1>6, <2>3, <3>1
      <4>2. LargeReading(NewReader, ms[(k + 1) + 1], More(ms, (k + 1) + 1), More(ms, k + 1))
        BY <1>6, <4>1, NextMessage
      <4>3. \E j \in 0 .. n - 1 :
               /\ inputs' = SubSeq(ms, 1, j) /\ arena' = Taken(ms, j)
               /\ LargeReading(reader'["sut"], ms[j + 1], More(ms, j + 1), Back')
        <5> WITNESS k + 1 \in 0 .. n - 1
        <5> QED
          BY <1>9, <1>10, <1>13, <2>1, <2>2, <4>2
      <4> QED
        BY <1>2, <1>5, <1>11, <3>1, <4>3 DEF Commanding, IsSmall, n, ms
    <3>2. CASE sut' = "compute"
      <4>1. inputs' = ms /\ arena' = Taken(inputs', Len(inputs')) /\ Back' = <<>>
        BY <1>7, <1>9, <1>13, <2>1, <2>2, <2>3, <3>2, MessagesSoFar
      <4> QED
        BY <1>2, <1>5, <1>10, <1>11, <1>13, <3>2, <4>1 DEF Commanding, IsSmall, ms
    <3> QED
      BY <2>3, <3>1, <3>2
  <2>6. Calling' /\ Working'
    BY <1>2, <1>3, <1>1, <1>8, <1>10, <2>3, <2>5 DEF Calling, Phase, Working
  <2>7. /\ Starting' /\ Greeting' /\ Moding' /\ Agreed' /\ Reporting' /\ Reported'
        /\ Logging' /\ Enquiring' /\ Ready' /\ Closing'
    BY <1>1, <1>2, <1>3, <2>3 DEF Phase, Early, Starting, Greeting, Moding, Agreed, Reporting,
       Reported, Logging, Enquiring, Ready, Closing
  <2> QED
    BY <1>12, <2>4, <2>6, <2>7 DEF Inv, Phase
<1>14. CASE ~Finished(r)
  <2>1. inputs' = inputs /\ arena' = arena /\ sut' = sut
    BY <1>2, <1>14
  <2>2. TypeOK'
    BY <1>1, <1>2, <1>8, <1>10, <2>1 DEF TypeOK, LinkTypeOK
  <2>3. Commanding'
    <3>1. \E j \in 0 .. n - 1 :
             /\ inputs' = SubSeq(ms, 1, j) /\ arena' = Taken(ms, j)
             /\ LargeReading(reader'["sut"], ms[j + 1], More(ms, j + 1), Back')
      <4> WITNESS k \in 0 .. n - 1
      <4> QED
        BY <1>4, <1>9, <1>10, <1>14, <2>1
    <3> QED
      BY <1>2, <1>5, <1>11, <2>1, <3>1 DEF Commanding, IsSmall, n, ms
  <2>4. Calling' /\ Working'
    BY <1>2, <1>3, <1>1, <1>8, <1>10, <2>1, <2>3 DEF Calling, Phase, Working
  <2>5. /\ Starting' /\ Greeting' /\ Moding' /\ Agreed' /\ Reporting' /\ Reported'
        /\ Logging' /\ Enquiring' /\ Ready' /\ Closing'
    BY <1>1, <1>2, <1>3, <2>1 DEF Phase, Early, Starting, Greeting, Moding, Agreed, Reporting,
       Reported, Logging, Enquiring, Ready, Closing
  <2> QED
    BY <1>12, <2>2, <2>4, <2>5 DEF Inv, Phase
<1> QED
  BY <1>13, <1>14

(* The answer of the accelerator goes to the Tester; the memory of the       *)
(* command is released.                                                    *)
LEMMA SutComputeKeeps ==
  ASSUME Inv, SutCompute
  PROVE  Inv'
<1>1. TypeOK /\ Books /\ Phase /\ LinkTypeOK
  BY DEF Inv, TypeOK
<1>2. /\ sut = "compute" /\ sut' = "command" /\ arena' = 0
      /\ IF IsSmall(op) THEN UNCHANGED config ELSE config' \in {config, op}
      /\ UNCHANGED <<rx, reader, linux, op, last, inputs, regs,
                     suite, done, verdicts, answers, tst, eth, axis>>
  BY DEF SutCompute, tstVars, world
<1>3. PICK a \in Replies(op, config, inputs) :
        Put("sut", ReplyFrames(a)) /\ history' = Append(history, a)
  BY DEF SutCompute
<1>4. /\ tst = "reply" /\ Len(history) = done /\ done < Len(suite) /\ last = op
      /\ Commanding /\ reader["tst"] = NewReader /\ Ahead = <<>> /\ answers = <<>>
  BY <1>1, <1>2 DEF Phase, Working, Calling
<1>5. /\ op = Current.op /\ inputs = Current.inputs /\ Back = <<>> /\ reader["sut"] = NewReader
  BY <1>2, <1>4 DEF Commanding
<1>6. op \in Ops /\ IsAnswer(op, a) /\ done \in Nat
  <2>1. /\ Current.op \in Ops /\ done \in Nat
        /\ \A c \in Ops \cup {0} : \A answer \in Replies(Current.op, c, Current.inputs) :
             IsAnswer(Current.op, answer)
    BY <1>1, <1>4, CurrentTest
  <2> QED
    BY <1>1, <1>3, <1>5, <2>1 DEF TypeOK
<1>7. /\ ReplyCount(op) \in 1 .. 4 /\ Messages(ReplyCount(op), a) /\ a \in Seq(Seq(Byte))
      /\ ReplyFrames(a) \in Seq(Byte)
      /\ IsSmall(op) => ReplyFrames(a) = <<STX>> \o (a[1] \o <<ETX>>)
      /\ ~IsSmall(op) => ReplyFrames(a) = LargeFrame(a[1]) \o More(a, 1)
  BY <1>6, AnswerFrames
<1>8. /\ tx' \in [Side -> Seq(Byte)] /\ Ahead' = Ahead \o ReplyFrames(a) /\ Back' = <<>>
  BY <1>1, <1>2, <1>3, <1>5, <1>7, SutPuts
<1>9. Ahead' = ReplyFrames(a)
  BY <1>4, <1>7, <1>8, ConcatEmptySeq
<1>10. /\ history' \in Seq(Seq(Seq(Byte))) /\ Len(history') = done + 1
       /\ history'[done + 1] = a /\ \A k \in 1 .. done : history'[k] = history[k]
  <2>1. history \in Seq(Seq(Seq(Byte))) /\ a \in Seq(Seq(Byte))
    BY <1>1, <1>7 DEF TypeOK
  <2>2. /\ Append(history, a) \in Seq(Seq(Seq(Byte))) /\ Len(Append(history, a)) = Len(history) + 1
        /\ Append(history, a)[Len(history) + 1] = a
        /\ \A k \in 1 .. Len(history) : Append(history, a)[k] = history[k]
    BY <2>1, AppendProperties
  <2> QED
    BY <1>3, <1>4, <2>2
<1>11. TypeOK'
  <2>1. config' \in Ops \cup {0}
    BY <1>1, <1>2, <1>6 DEF TypeOK
  <2>2. arena' \in Nat
    BY <1>2
  <2> QED
    BY <1>1, <1>2, <1>8, <1>10, <2>1, <2>2 DEF TypeOK, LinkTypeOK, SutStates
<1>12. Books'
  BY <1>1, <1>2, <1>6, <1>10 DEF Books
<1>13. Answering'
  <2>1. AnswerReading(op, a, 0, NewReader, Ahead')
    <3>1. 0 + 1 = 1
      OBVIOUS
    <3> QED
      BY <1>7, <1>9, <3>1, Zenon DEF AnswerReading, SmallReading, LargeReading
  <2>2. 0 \in 0 .. ReplyCount(op) - 1 /\ answers = SubSeq(a, 1, 0)
    BY <1>4, <1>7
  <2>3. \E k \in 0 .. ReplyCount(op) - 1 :
           answers' = SubSeq(a, 1, k) /\ AnswerReading(op, a, k, reader'["tst"], Ahead')
    BY <1>2, <1>4, <2>1, <2>2
  <2>4. Current' = Current
    BY <1>2 DEF Current
  <2> QED
    BY <1>2, <1>5, <1>6, <1>8, <1>10, <2>3, <2>4 DEF Answering
<1>14. Calling'
  BY <1>2, <1>4, <1>6, <1>10, <1>13 DEF Calling
<1>15. Working'
  BY <1>1, <1>2, <1>4 DEF Phase, Working, IsSmall
<1>16. /\ Starting' /\ Greeting' /\ Moding' /\ Agreed' /\ Reporting' /\ Reported'
       /\ Logging' /\ Enquiring' /\ Ready' /\ Closing'
  BY <1>1, <1>2, <1>4 DEF Phase, Early, Starting, Greeting, Moding, Agreed, Reporting,
     Reported, Logging, Enquiring, Ready, Closing
<1> QED
  BY <1>11, <1>12, <1>14, <1>15, <1>16 DEF Inv, Phase

---------------------------------------------------------------------------------
(* The actions of the Tester *)

(* The words of the AXI stream are sent. *)
LEMMA TstStreamKeeps ==
  ASSUME Inv, TstStream
  PROVE  Inv'
<1>1. TypeOK /\ Books /\ Phase
  BY DEF Inv
<1>2. /\ tst = "stream" /\ tst' = "mode" /\ axis' = "sent"
      /\ UNCHANGED <<rx, tx, reader, sut, linux, op, last, config, inputs, arena, regs,
                     suite, done, verdicts, answers, eth, history>>
  BY DEF TstStream, sutVars
<1>3. sut \in {"init", "phy", "mode"} /\ Back' = Back /\ Ahead' = Ahead
  BY <1>1, <1>2 DEF Phase, Starting, Back, Ahead
<1>4. TypeOK'
  BY <1>1, <1>2 DEF TypeOK, LinkTypeOK, TstStates
<1>5. Books'
  BY <1>1, <1>2 DEF Books
<1>6. /\ Starting' /\ Greeting' /\ Moding' /\ Agreed' /\ Reporting' /\ Reported'
      /\ Logging' /\ Enquiring' /\ Ready' /\ Calling' /\ Closing' /\ Working'
  BY <1>1, <1>2, <1>3 DEF Phase, Early, Fresh, Starting, Greeting, Moding, Agreed, Reporting,
     Reported, Logging, Enquiring, Ready, Calling, Closing, Working
<1> QED
  BY <1>4, <1>5, <1>6 DEF Inv, Phase

(* The Tester tells the mode when the SUT is ready to read it. *)
LEMMA TstModeKeeps ==
  ASSUME Inv, TstMode
  PROVE  Inv'
<1> DEFINE bytes == IF TesterLinux THEN <<NL>> \o SmallFrame(ModeText, 255)
                    ELSE SmallFrame(ModeText, 255)
<1>1. TypeOK /\ Books /\ Phase /\ LinkTypeOK
  BY DEF Inv, TypeOK
<1>2. /\ tst = "mode" /\ sut \notin {"init", "phy"}
      /\ tst' = IF TesterLinux THEN "log" ELSE "eth"
      /\ Put("tst", bytes)
      /\ UNCHANGED <<rx, reader, sut, linux, op, last, config, inputs, arena, regs,
                     suite, done, verdicts, answers, eth, axis, history>>
  BY DEF TstMode, DelayIsEnough, sutVars, world, ModeText
<1>3. /\ sut = "mode" /\ Back = <<>> /\ reader["sut"] = NewReader /\ eth = "none" /\ axis = "sent"
  BY <1>1, <1>2 DEF Phase, Starting
<1>4. /\ SmallFrame(ModeText, 255) \in Seq(Byte)
      /\ SmallFrame(ModeText, 255) = <<STX>> \o (ModeText \o <<ETX>>)
      /\ <<NL>> \in Seq(Byte) /\ bytes \in Seq(Byte)
  <2>1. <<NL>> \in Seq(Byte) /\ SmallFrame(ModeText, 255) \in Seq(Byte)
    BY ModeFacts
  <2>2. <<NL>> \o SmallFrame(ModeText, 255) \in Seq(Byte)
    BY <2>1, BytesConcat
  <2> QED
    BY <2>1, <2>2, ModeFacts
<1> HIDE DEF bytes
<1>5. tx' \in [Side -> Seq(Byte)] /\ Back' = Back \o bytes /\ Ahead' = Ahead
  BY <1>1, <1>2, <1>4, TesterPuts
<1>6. Back' = bytes
  BY <1>3, <1>4, <1>5, ConcatEmptySeq
<1>7. Moding'
  <2>1. reader'["sut"] = NewReader
    BY <1>2, <1>3
  <2>2. CASE TesterLinux
    <3>1. Back' = <<NL>> \o SmallFrame(ModeText, 255)
      BY <1>6, <2>2 DEF bytes
    <3> QED
      BY <2>1, <2>2, <3>1 DEF Moding
  <2>3. CASE ~TesterLinux
    <3>1. SmallReading(reader'["sut"], ModeText, Back')
      BY <1>4, <1>6, <2>1, <2>3, Zenon DEF bytes, SmallReading
    <3> QED
      BY <3>1 DEF Moding
  <2> QED
    BY <2>2, <2>3
<1>8. TypeOK'
  BY <1>1, <1>2, <1>5 DEF TypeOK, LinkTypeOK, TstStates
<1>9. Books'
  BY <1>1, <1>2 DEF Books
<1>10. /\ Starting' /\ Greeting' /\ Agreed' /\ Reporting' /\ Reported'
       /\ Logging' /\ Enquiring' /\ Ready' /\ Calling' /\ Closing' /\ Working'
  BY <1>1, <1>2, <1>3, <1>5 DEF Phase, Early, Fresh, Starting, Greeting, Agreed, Reporting,
     Reported, Logging, Enquiring, Ready, Calling, Closing, Working
<1> QED
  BY <1>7, <1>8, <1>9, <1>10 DEF Inv, Phase

(* The file is sent over Ethernet. *)
LEMMA TstEthKeeps ==
  ASSUME Inv, TstEth
  PROVE  Inv'
<1>1. TypeOK /\ Books /\ Phase
  BY DEF Inv
<1>2. /\ tst = "eth" /\ tst' = "log" /\ eth' = "sent"
      /\ UNCHANGED <<rx, tx, reader, sut, linux, op, last, config, inputs, arena, regs,
                     suite, done, verdicts, answers, axis, history>>
  BY DEF TstEth, sutVars
<1>3. sut \in {"mode", "eth"} /\ Back' = Back /\ Ahead' = Ahead
  BY <1>1, <1>2 DEF Phase, Greeting, Reporting, Reported, Early, Back, Ahead, TypeOK
<1>4. TypeOK'
  BY <1>1, <1>2 DEF TypeOK, LinkTypeOK, TstStates
<1>5. Books'
  BY <1>1, <1>2 DEF Books
<1>6. /\ Starting' /\ Greeting' /\ Moding' /\ Agreed' /\ Reporting' /\ Reported'
      /\ Logging' /\ Enquiring' /\ Ready' /\ Calling' /\ Closing' /\ Working'
  BY <1>1, <1>2, <1>3 DEF Phase, Early, Fresh, Starting, Greeting, Moding, Agreed, Reporting,
     Reported, Logging, Enquiring, Ready, Calling, Closing, Working
<1> QED
  BY <1>4, <1>5, <1>6 DEF Inv, Phase

(* A byte of the messages of the SUT or of test.log: only the start of the   *)
(* file ends the messages, and only its size ends the content.              *)
LEMMA TstLogKeeps ==
  ASSUME Inv, TstLog
  PROVE  Inv'
<1> DEFINE r == FileStep(reader["tst"], Head(rx["tst"]))
           more == Text \o <<ENQ>>
<1>1. TypeOK /\ Books /\ Phase /\ LinkTypeOK
  BY DEF Inv, TypeOK
<1>2. /\ tst = "log" /\ Readable("tst") /\ TakeByte("tst")
      /\ reader' = [reader EXCEPT !["tst"] = IF Finished(r) THEN NewReader ELSE r]
      /\ tst' = IF Finished(r) THEN "enq" ELSE "log"
      /\ UNCHANGED <<tx, sut, linux, op, last, config, inputs, arena, regs,
                     suite, done, verdicts, answers, eth, axis, history>>
  BY DEF TstLog, Read, sutVars, world
<1>3. /\ rx' \in [Side -> Seq(Byte)] /\ Back' = Back
      /\ Ahead # <<>> /\ r = FileStep(reader["tst"], Head(Ahead)) /\ Ahead' = Tail(Ahead)
      /\ Ahead \in Seq(Byte) /\ "sut" \in Side /\ "tst" \in Side
  BY <1>1, <1>2, TesterReads, StreamTypes DEF r, Back
<1> HIDE DEF r
<1>4. reader'["sut"] = reader["sut"] /\ reader'["tst"] = IF Finished(r) THEN NewReader ELSE r
  BY <1>1, <1>2, <1>3 DEF TypeOK
<1>5. Books'
  BY <1>1, <1>2 DEF Books
<1>6. CASE sut \in Early
  <2>1. reader["tst"] = NewReader /\ Free(Ahead, FTX) /\ Fresh
    BY <1>1, <1>6 DEF Phase, Greeting
  <2>2. Head(Ahead) # FTX
    <3>1. Len(Ahead) >= 1 /\ Head(Ahead) = Ahead[1]
      BY <1>3, EmptySeq, LenProperties
    <3> QED
      BY <2>1, <3>1 DEF Free
  <2>3. r = NewReader /\ ~Finished(r)
    BY <1>3, <2>1, <2>2, NewReaderType DEF FileStep
  <2>4. Free(Ahead', FTX)
    BY <1>3, <2>1, FreeStays
  <2>5. reader' \in [Side -> Reader] /\ reader'["tst"] = NewReader /\ tst' = tst
    BY <1>1, <1>2, <1>4, <2>3, NewReaderType DEF TypeOK
  <2>6. TypeOK'
    BY <1>1, <1>2, <1>3, <2>5 DEF TypeOK, LinkTypeOK
  <2>7. Starting' /\ Greeting'
    BY <1>1, <1>2, <2>1, <2>4, <2>5 DEF Phase, Starting, Greeting, Fresh
  <2>8. /\ Moding' /\ Agreed' /\ Reporting' /\ Reported'
        /\ Logging' /\ Enquiring' /\ Ready' /\ Calling' /\ Closing' /\ Working'
    BY <1>1, <1>2, <1>3, <1>4, <1>6, <2>5 DEF Phase, Moding, Agreed, Reporting,
       Reported, Logging, Enquiring, Ready, Calling, Closing, Working
  <2> QED
    BY <1>5, <2>6, <2>7, <2>8 DEF Inv, Phase
<1>7. CASE sut \notin Early
  <2>1. /\ Sitting /\ Back = <<>> /\ Fresh
        /\ FileReading(reader["tst"], LogName, Log, more, Ahead)
    BY <1>1, <1>2, <1>7 DEF Phase, Logging
  <2>2. /\ LogName \in Seq(Byte) /\ Free(LogName, NUL) /\ Log \in Seq(Byte)
        /\ Len(Log) <= 2 ^ 30 /\ more \in Seq(Byte)
    BY TextFacts
  <2> HIDE DEF more
  <2>3. /\ r \in Reader
        /\ \/ Finished(r) /\ Ahead' = more
           \/ ~Finished(r) /\ FileReading(r, LogName, Log, more, Ahead')
    <3>1. LET q == FileStep(reader["tst"], Head(Ahead)) IN
          /\ q \in Reader
          /\ \/ Finished(q) /\ Tail(Ahead) = more
             \/ ~Finished(q) /\ FileReading(q, LogName, Log, more, Tail(Ahead))
      BY <1>3, <2>1, <2>2, FileReads
    <3> QED
      BY <1>3, <3>1
  <2>4. reader' \in [Side -> Reader] /\ Sitting' /\ Fresh'
    BY <1>1, <1>2, <1>4, <2>1, <2>3, NewReaderType DEF TypeOK, Sitting, Fresh
  <2>5. TypeOK'
    BY <1>1, <1>2, <1>3, <2>4 DEF TypeOK, LinkTypeOK, TstStates
  <2>6. Logging'
    BY <1>2, <1>3, <1>4, <2>1, <2>3, <2>4 DEF Logging, more
  <2>7. Enquiring'
    <3> SUFFICES ASSUME Finished(r)
                 PROVE  Preceded(Ahead', ENQ, <<ENQ>> \o <<>>) /\ reader'["tst"] = NewReader
      BY <1>2, <1>3, <2>1, <2>4 DEF Enquiring
    <3>1. Ahead' = Text \o <<ENQ>>
      BY <2>3 DEF more
    <3>2. Text \in Seq(Byte) /\ Free(Text, ENQ) /\ <<ENQ>> \in Seq(Byte)
      BY TextFacts
    <3>3. <<ENQ>> \o <<>> = <<ENQ>>
      BY <3>2, ConcatEmptySeq
    <3> QED
      BY <1>4, <3>1, <3>2, <3>3, Zenon DEF Preceded
  <2>8. /\ Starting' /\ Greeting' /\ Moding' /\ Agreed' /\ Reporting' /\ Reported'
        /\ Ready' /\ Calling' /\ Closing' /\ Working'
    BY <1>1, <1>2, <1>7, <2>1 DEF Phase, Early, Sitting, Starting, Greeting, Moding, Agreed, Reporting,
       Reported, Ready, Calling, Closing, Working
  <2> QED
    BY <1>5, <2>5, <2>6, <2>7, <2>8 DEF Inv, Phase
<1> QED
  BY <1>6, <1>7

(* The ENQ of the SUT, and nothing after it. *)
LEMMA TstEnqKeeps ==
  ASSUME Inv, TstEnq
  PROVE  Inv'
<1>1. TypeOK /\ Books /\ Phase /\ LinkTypeOK
  BY DEF Inv, TypeOK
<1>2. /\ tst = "enq" /\ Readable("tst") /\ TakeByte("tst")
      /\ tst' = IF Head(rx["tst"]) = ENQ THEN "test" ELSE tst
      /\ UNCHANGED <<tx, reader, sut, linux, op, last, config, inputs, arena, regs,
                     suite, done, verdicts, answers, eth, axis, history>>
  BY DEF TstEnq, sutVars, world
<1>3. /\ rx' \in [Side -> Seq(Byte)] /\ Back' = Back
      /\ Head(rx["tst"]) = Head(Ahead) /\ Ahead' = Tail(Ahead)
  BY <1>1, <1>2, TesterReads DEF Back
<1>4. /\ Sitting /\ Back = <<>> /\ Fresh /\ reader["tst"] = NewReader
      /\ Preceded(Ahead, ENQ, <<ENQ>> \o <<>>)
  BY <1>1, <1>2 DEF Phase, Enquiring
<1>5. /\ Head(Ahead) = ENQ => Ahead' = <<>>
      /\ Head(Ahead) # ENQ => Preceded(Ahead', ENQ, <<ENQ>> \o <<>>)
  <2>1. <<>> \in Seq(Byte) /\ ENQ \in Byte
    BY EmptySeq DEF ENQ, Byte
  <2> QED
    BY <1>3, <1>4, <2>1, PrecededReads
<1>6. TypeOK'
  BY <1>1, <1>2, <1>3 DEF TypeOK, LinkTypeOK, TstStates
<1>7. Books'
  BY <1>1, <1>2 DEF Books
<1>8. Sitting' /\ Fresh' /\ Len(history') = done'
  BY <1>2, <1>4, EmptySeq DEF Sitting, Fresh
<1>9. Enquiring' /\ Ready'
  BY <1>2, <1>3, <1>4, <1>5, <1>8 DEF Enquiring, Ready
<1>10. /\ Starting' /\ Greeting' /\ Moding' /\ Agreed' /\ Reporting' /\ Reported'
       /\ Logging' /\ Calling' /\ Closing' /\ Working'
  BY <1>1, <1>2, <1>4 DEF Phase, Early, Sitting, Starting, Greeting, Moding, Agreed, Reporting,
     Reported, Logging, Calling, Closing, Working
<1> QED
  BY <1>6, <1>7, <1>9, <1>10 DEF Inv, Phase

(* The next test is sent to an SUT that waits for a command. *)
LEMMA TstTestKeeps ==
  ASSUME Inv, TstTest
  PROVE  Inv'
<1>1. TypeOK /\ Books /\ Phase /\ LinkTypeOK
  BY DEF Inv, TypeOK
<1>2. /\ tst = "test" /\ tst' = "reply" /\ done < Len(suite)
      /\ Put("tst", TestFrames(Current)) /\ answers' = <<>>
      /\ UNCHANGED <<rx, reader, sut, linux, op, last, config, inputs, arena, regs,
                     suite, done, verdicts, eth, axis, history>>
  BY DEF TstTest, sutVars, world, Current
<1>3. /\ Sitting /\ Back = <<>> /\ Ahead = <<>> /\ reader["tst"] = NewReader
      /\ Len(history) = done
  BY <1>1, <1>2 DEF Phase, Ready
<1>4. TestFrames(Current) \in Seq(Byte)
  BY <1>1, <1>2, CurrentTest
<1>5. tx' \in [Side -> Seq(Byte)] /\ Back' = Back \o TestFrames(Current) /\ Ahead' = Ahead
  BY <1>1, <1>2, <1>4, TesterPuts
<1>6. Back' = TestFrames(Current) /\ Current' = Current
  BY <1>2, <1>3, <1>4, <1>5, ConcatEmptySeq DEF Current
<1>7. TestFrames(Current)' = TestFrames(Current)
  BY <1>6 DEF TestFrames
<1>8. Commanding'
  BY <1>2, <1>3, <1>6, <1>7 DEF Commanding, Sitting
<1>9. Calling'
  BY <1>2, <1>3, <1>5, <1>8 DEF Calling, Sitting
<1>10. TypeOK'
  <2>1. answers' \in Seq(Seq(Byte))
    BY <1>2, EmptySeq
  <2> QED
    BY <1>1, <1>2, <1>5, <2>1 DEF TypeOK, LinkTypeOK, TstStates
<1>11. Books'
  BY <1>1, <1>2 DEF Books
<1>12. /\ Starting' /\ Greeting' /\ Moding' /\ Agreed' /\ Reporting' /\ Reported'
       /\ Logging' /\ Enquiring' /\ Ready' /\ Closing' /\ Working'
  BY <1>1, <1>2, <1>3 DEF Phase, Early, Sitting, Starting, Greeting, Moding, Agreed, Reporting,
     Reported, Logging, Enquiring, Ready, Closing, Working
<1> QED
  BY <1>9, <1>10, <1>11, <1>12 DEF Inv, Phase

(* The Tester receives the messages of an answer, one after the other. *)
LEMMA AnswerReads ==
  ASSUME NEW o \in Ops, NEW a, IsAnswer(o, a), NEW k \in 0 .. ReplyCount(o) - 1, NEW r,
         NEW s \in Seq(Byte), s # <<>>, AnswerReading(o, a, k, r, s)
  PROVE  LET q == IF IsSmall(o) THEN SmallStep(r, Head(s)) ELSE LargeStep(r, Head(s)) IN
         /\ q \in Reader
         /\ \/ /\ Finished(q) /\ q.data = a[k + 1]
               /\ k + 1 = ReplyCount(o) => Tail(s) = <<>>
               /\ k + 1 # ReplyCount(o) => AnswerReading(o, a, k + 1, NewReader, Tail(s))
            \/ ~Finished(q) /\ AnswerReading(o, a, k, q, Tail(s))
<1> DEFINE n == ReplyCount(o)
           q == IF IsSmall(o) THEN SmallStep(r, Head(s)) ELSE LargeStep(r, Head(s))
<1>1. n \in 1 .. 4 /\ Messages(n, a) /\ (IsSmall(o) => n = 1)
  BY DEF Ops, SHA, AES, MCE, SHORT, ReplyCount, IsAnswer, IsSmall
<1>2. k \in 0 .. n - 1
  OBVIOUS
<1> HIDE DEF n
<1>3. /\ a[k + 1] \in Seq(Byte) /\ Len(a[k + 1]) <= 2 ^ 30 /\ More(a, k + 1) \in Seq(Byte)
      /\ More(a, n) = <<>>
  BY <1>1, <1>2, NextMessage, MoreUnfolds
<1>4. CASE IsSmall(o)
  <2>1. k = 0 /\ k + 1 = n /\ k + 1 = 1
    BY <1>1, <1>2, <1>4
  <2>2. Free(a[k + 1], ETX) /\ SmallReading(r, a[k + 1], s)
    BY <1>4, <2>1 DEF IsAnswer, Free, AnswerReading
  <2>3. LET p == SmallStep(r, Head(s)) IN
        /\ p \in Reader
        /\ \/ Finished(p) /\ p.data = a[k + 1] /\ Tail(s) = <<>>
           \/ ~Finished(p) /\ SmallReading(p, a[k + 1], Tail(s))
    BY <1>3, <2>2, SmallReads
  <2> QED
    BY <1>4, <2>1, <2>3 DEF AnswerReading, n
<1>5. CASE ~IsSmall(o)
  <2>1. LargeReading(r, a[k + 1], More(a, k + 1), s)
    BY <1>5 DEF AnswerReading
  <2>2. LET p == LargeStep(r, Head(s)) IN
        /\ p \in Reader
        /\ \/ Finished(p) /\ p.data = a[k + 1] /\ p.size = Len(a[k + 1]) /\ Tail(s) = More(a, k + 1)
           \/ ~Finished(p) /\ LargeReading(p, a[k + 1], More(a, k + 1), Tail(s))
    BY <1>3, <2>1, LargeReads
  <2>3. q = LargeStep(r, Head(s))
    BY <1>5
  <2> HIDE DEF q
  <2>4. CASE Finished(q)
    <3>1. q \in Reader /\ q.data = a[k + 1] /\ Tail(s) = More(a, k + 1)
      BY <2>2, <2>3, <2>4
    <3>2. k + 1 = n => Tail(s) = <<>>
      BY <1>3, <3>1
    <3>3. k + 1 # n => AnswerReading(o, a, k + 1, NewReader, Tail(s))
      <4> SUFFICES ASSUME k + 1 # n
                   PROVE  LargeReading(NewReader, a[(k + 1) + 1], More(a, (k + 1) + 1), Tail(s))
        BY <1>5 DEF AnswerReading
      <4>1. k + 1 \in 0 .. n - 1
        BY <1>1, <1>2
      <4> QED
        BY <1>1, <3>1, <4>1, NextMessage
    <3> QED
      BY <2>4, <3>1, <3>2, <3>3 DEF q, n
  <2>5. CASE ~Finished(q)
    BY <1>5, <2>2, <2>3, <2>5 DEF AnswerReading, q
  <2> QED
    BY <2>4, <2>5
<1> QED
  BY <1>4, <1>5

(* A byte of the answer.  With its last byte the line is empty again, and   *)
(* the verdict is that on the answer of this test.                          *)
LEMMA TstReplyKeeps ==
  ASSUME Inv, TstReply
  PROVE  Inv'
<1> DEFINE t == Current
           a == history[done + 1]
           n == ReplyCount(t.op)
           r == IF IsSmall(t.op) THEN SmallStep(reader["tst"], Head(rx["tst"]))
                                 ELSE LargeStep(reader["tst"], Head(rx["tst"]))
<1>1. TypeOK /\ Books /\ Phase /\ LinkTypeOK
  BY DEF Inv, TypeOK
<1>2. /\ tst = "reply" /\ Readable("tst") /\ TakeByte("tst")
      /\ reader' = [reader EXCEPT !["tst"] = IF Finished(r) THEN NewReader ELSE r]
      /\ IF Finished(r)
         THEN /\ answers' = Append(answers, r.data)
              /\ IF Len(answers') = n
                 THEN /\ verdicts' = Append(verdicts, Agree(t.op, answers', t.expected))
                      /\ done' = done + 1
                      /\ tst' = "test"
                 ELSE UNCHANGED <<verdicts, done, tst>>
         ELSE UNCHANGED <<answers, verdicts, done, tst>>
      /\ UNCHANGED <<tx, sut, linux, op, last, config, inputs, arena, regs,
                     suite, eth, axis, history>>
  BY DEF TstReply, Read, sutVars, world, Current
<1>3. /\ rx' \in [Side -> Seq(Byte)] /\ Back' = Back
      /\ Ahead # <<>> /\ Head(rx["tst"]) = Head(Ahead) /\ Ahead' = Tail(Ahead)
      /\ Ahead \in Seq(Byte) /\ "sut" \in Side /\ "tst" \in Side
  BY <1>1, <1>2, TesterReads, StreamTypes DEF Back
<1>4. /\ done < Len(suite) /\ Len(history) = done + 1 /\ Answering
  BY <1>1, <1>2, <1>3 DEF Phase, Calling, Books
<1>5. PICK k \in 0 .. n - 1 :
         answers = SubSeq(a, 1, k) /\ AnswerReading(t.op, a, k, reader["tst"], Ahead)
  BY <1>4 DEF Answering
<1>6. /\ sut = "command" /\ Back = <<>> /\ reader["sut"] = NewReader /\ IsAnswer(t.op, a)
  BY <1>4 DEF Answering
<1>7. /\ t.op \in Ops /\ n \in 1 .. 4 /\ done \in Nat /\ Len(suite) \in Nat
      /\ done + 1 \in 0 .. Len(suite)
  <2>1. t.op \in Ops /\ n \in 1 .. 4 /\ done \in Nat /\ done + 1 \in 1 .. Len(suite) /\ suite \in Suites
    BY <1>1, <1>4, CurrentTest
  <2>2. Len(suite) \in Nat
    BY <2>1, SuitesAssumption, LenProperties
  <2> QED
    BY <2>1, <2>2
<1>8. LET q == IF IsSmall(t.op) THEN SmallStep(reader["tst"], Head(Ahead))
                                ELSE LargeStep(reader["tst"], Head(Ahead)) IN
      /\ q \in Reader
      /\ \/ /\ Finished(q) /\ q.data = a[k + 1]
            /\ k + 1 = n => Tail(Ahead) = <<>>
            /\ k + 1 # n => AnswerReading(t.op, a, k + 1, NewReader, Tail(Ahead))
         \/ ~Finished(q) /\ AnswerReading(t.op, a, k, q, Tail(Ahead))
  BY <1>3, <1>5, <1>6, <1>7, AnswerReads
<1>9. /\ r \in Reader
      /\ \/ /\ Finished(r) /\ r.data = a[k + 1]
            /\ k + 1 = n => Ahead' = <<>>
            /\ k + 1 # n => AnswerReading(t.op, a, k + 1, NewReader, Ahead')
         \/ ~Finished(r) /\ AnswerReading(t.op, a, k, r, Ahead')
  BY <1>3, <1>8
<1>10. /\ a \in Seq(Seq(Byte)) /\ Len(a) = n
  <2>1. Messages(n, a)
    BY <1>6 DEF IsAnswer
  <2> QED
    BY <2>1 DEF Messages
<1> HIDE DEF r, n, a, t
<1>11. /\ reader' \in [Side -> Reader] /\ reader'["sut"] = NewReader
       /\ reader'["tst"] = IF Finished(r) THEN NewReader ELSE r
  BY <1>1, <1>2, <1>3, <1>6, <1>9, NewReaderType DEF TypeOK
<1>12. CASE Finished(r)
  <2>1. /\ answers' = SubSeq(a, 1, k + 1) /\ Len(answers') = k + 1 /\ answers' \in Seq(Seq(Byte))
    <3>1. k \in 0 .. Len(a) - 1 /\ k + 1 \in 0 .. Len(a)
      BY <1>5, <1>7, <1>10
    <3>2. /\ Append(SubSeq(a, 1, k), a[k + 1]) = SubSeq(a, 1, k + 1)
          /\ SubSeq(a, 1, k + 1) \in Seq(Seq(Byte)) /\ Len(SubSeq(a, 1, k + 1)) = k + 1
      BY <1>10, <3>1, MessagesSoFar
    <3>3. answers' = Append(SubSeq(a, 1, k), a[k + 1])
      BY <1>2, <1>5, <1>9, <1>12
    <3> QED
      BY <3>2, <3>3
  <2>2. CASE k + 1 = n
    <3>1. answers' = a
      BY <1>10, <2>1, <2>2, MessagesSoFar
    <3>2. /\ verdicts' = Append(verdicts, Agree(t.op, a, t.expected))
          /\ done' = done + 1 /\ tst' = "test"
      BY <1>2, <1>12, <2>1, <2>2, <3>1
    <3>3. /\ verdicts \in Seq(BOOLEAN) /\ Len(verdicts) = done
          /\ \A i \in 1 .. done : verdicts[i] = Agree(suite[i].op, history[i], suite[i].expected)
      BY <1>1 DEF TypeOK, Books
    <3>4. Agree(t.op, a, t.expected) \in BOOLEAN
      BY DEF Agree
    <3>5. /\ verdicts' \in Seq(BOOLEAN) /\ Len(verdicts') = done + 1
          /\ verdicts'[done + 1] = Agree(t.op, a, t.expected)
          /\ \A i \in 1 .. done : verdicts'[i] = verdicts[i]
      <4> DEFINE v == Agree(t.op, a, t.expected)
      <4> HIDE DEF v
      <4>1. /\ Append(verdicts, v) \in Seq(BOOLEAN) /\ Len(Append(verdicts, v)) = done + 1
            /\ Append(verdicts, v)[done + 1] = v
            /\ \A i \in 1 .. done : Append(verdicts, v)[i] = verdicts[i]
        BY <3>3, <3>4, AppendProperties DEF v
      <4> QED
        BY <3>2, <4>1 DEF v
    <3>6. Books'
      <4>1. \A i \in 1 .. done + 1 :
               verdicts'[i] = Agree(suite[i].op, history[i], suite[i].expected)
        <5> SUFFICES ASSUME NEW i \in 1 .. done + 1
                     PROVE  verdicts'[i] = Agree(suite[i].op, history[i], suite[i].expected)
          OBVIOUS
        <5>1. i \in 1 .. done \/ i = done + 1
          BY <1>7
        <5>2. CASE i \in 1 .. done
          BY <3>3, <3>5, <5>2
        <5>3. CASE i = done + 1
          BY <3>5, <5>3, Zenon DEF t, a, Current
        <5> QED
          BY <5>1, <5>2, <5>3
      <4> QED
        BY <1>2, <1>4, <1>7, <3>2, <3>5, <4>1, Zenon DEF Books
    <3>7. TypeOK'
      BY <1>1, <1>2, <1>3, <1>7, <1>11, <2>1, <3>2, <3>5 DEF TypeOK, LinkTypeOK, TstStates
    <3>8. Ready'
      BY <1>2, <1>3, <1>4, <1>6, <1>9, <1>11, <1>12, <2>2, <3>2 DEF Ready, Sitting
    <3>9. /\ Starting' /\ Greeting' /\ Moding' /\ Agreed' /\ Reporting' /\ Reported'
          /\ Logging' /\ Enquiring' /\ Calling' /\ Closing' /\ Working'
      BY <1>1, <1>2, <1>6, <3>2 DEF Phase, Early, Starting, Greeting, Moding, Agreed, Reporting,
         Reported, Logging, Enquiring, Calling, Closing, Working
    <3> QED
      BY <3>6, <3>7, <3>8, <3>9 DEF Inv, Phase
  <2>3. CASE k + 1 # n
    <3>1. UNCHANGED <<verdicts, done, tst>>
      BY <1>2, <1>12, <2>1, <2>3
    <3>2. k + 1 \in 0 .. n - 1
      BY <1>5, <1>7, <2>3
    <3>3. Answering'
      <4>1. \E j \in 0 .. n - 1 :
               answers' = SubSeq(a, 1, j) /\ AnswerReading(t.op, a, j, reader'["tst"], Ahead')
        <5> WITNESS k + 1 \in 0 .. n - 1
        <5> QED
          BY <1>9, <1>11, <1>12, <2>1, <2>3
      <4>2. Current' = Current
        BY <1>2, <3>1 DEF Current
      <4> QED
        BY <1>2, <1>3, <1>6, <1>11, <3>1, <4>1, <4>2 DEF Answering, a, t, n
    <3>4. Books'
      BY <1>1, <1>2, <3>1 DEF Books
    <3>5. TypeOK'
      BY <1>1, <1>2, <1>3, <1>11, <2>1, <3>1 DEF TypeOK, LinkTypeOK
    <3>6. Calling'
      BY <1>2, <1>4, <1>6, <1>7, <3>1, <3>3 DEF Calling
    <3>7. /\ Starting' /\ Greeting' /\ Moding' /\ Agreed' /\ Reporting' /\ Reported'
          /\ Logging' /\ Enquiring' /\ Ready' /\ Closing' /\ Working'
      BY <1>1, <1>2, <1>6, <3>1 DEF Phase, Early, Starting, Greeting, Moding, Agreed, Reporting,
         Reported, Logging, Enquiring, Ready, Closing, Working
    <3> QED
      BY <3>4, <3>5, <3>6, <3>7 DEF Inv, Phase
  <2> QED
    BY <2>2, <2>3
<1>13. CASE ~Finished(r)
  <2>1. UNCHANGED <<answers, verdicts, done, tst>>
    BY <1>2, <1>13
  <2>2. Answering'
    <3>1. \E j \in 0 .. n - 1 :
             answers' = SubSeq(a, 1, j) /\ AnswerReading(t.op, a, j, reader'["tst"], Ahead')
      <4> WITNESS k \in 0 .. n - 1
      <4> QED
        BY <1>5, <1>9, <1>11, <1>13, <2>1
    <3>2. Current' = Current
      BY <1>2, <2>1 DEF Current
    <3> QED
      BY <1>2, <1>3, <1>6, <1>11, <2>1, <3>1, <3>2 DEF Answering, a, t, n
  <2>3. Books'
    BY <1>1, <1>2, <2>1 DEF Books
  <2>4. TypeOK'
    BY <1>1, <1>2, <1>3, <1>11, <2>1 DEF TypeOK, LinkTypeOK
  <2>5. Calling'
    BY <1>2, <1>4, <1>6, <1>7, <2>1, <2>2 DEF Calling
  <2>6. /\ Starting' /\ Greeting' /\ Moding' /\ Agreed' /\ Reporting' /\ Reported'
        /\ Logging' /\ Enquiring' /\ Ready' /\ Closing' /\ Working'
    BY <1>1, <1>2, <1>6, <2>1 DEF Phase, Early, Starting, Greeting, Moding, Agreed, Reporting,
       Reported, Logging, Enquiring, Ready, Closing, Working
  <2> QED
    BY <2>3, <2>4, <2>5, <2>6 DEF Inv, Phase
<1> QED
  BY <1>12, <1>13

(* ETX ends the loop of the SUT. *)
LEMMA TstFinishKeeps ==
  ASSUME Inv, TstFinish
  PROVE  Inv'
<1>1. TypeOK /\ Books /\ Phase /\ LinkTypeOK
  BY DEF Inv, TypeOK
<1>2. /\ tst = "test" /\ tst' = "final" /\ done = Len(suite) /\ Put("tst", <<ETX, EOT>>)
      /\ UNCHANGED <<rx, reader, sut, linux, op, last, config, inputs, arena, regs,
                     suite, done, verdicts, answers, eth, axis, history>>
  BY DEF TstFinish, sutVars, world
<1>3. Sitting /\ Back = <<>> /\ Len(history) = done
  BY <1>1, <1>2 DEF Phase, Ready
<1>4. <<ETX, EOT>> \in Seq(Byte)
  BY TextFacts
<1>5. tx' \in [Side -> Seq(Byte)] /\ Back' = Back \o <<ETX, EOT>>
  BY <1>1, <1>2, <1>4, TesterPuts
<1>6. Back' = <<ETX, EOT>>
  BY <1>3, <1>4, <1>5, ConcatEmptySeq
<1>7. TypeOK'
  BY <1>1, <1>2, <1>5 DEF TypeOK, LinkTypeOK, TstStates
<1>8. Books'
  BY <1>1, <1>2 DEF Books
<1>9. Closing'
  BY <1>2, <1>3, <1>6 DEF Closing, Sitting
<1>10. /\ Starting' /\ Greeting' /\ Moding' /\ Agreed' /\ Reporting' /\ Reported'
       /\ Logging' /\ Enquiring' /\ Ready' /\ Calling' /\ Working'
  BY <1>1, <1>2, <1>3 DEF Phase, Early, Sitting, Starting, Greeting, Moding, Agreed, Reporting,
     Reported, Logging, Enquiring, Ready, Calling, Working
<1> QED
  BY <1>7, <1>8, <1>9, <1>10 DEF Inv, Phase

(* The registers and the AXI stream are read. *)
LEMMA TstFinalKeeps ==
  ASSUME Inv, TstFinal
  PROVE  Inv'
<1>1. TypeOK /\ Books /\ Phase
  BY DEF Inv
<1>2. /\ tst = "final" /\ tst' = "end"
      /\ UNCHANGED <<rx, tx, reader, sut, linux, op, last, config, inputs, arena, regs,
                     suite, done, verdicts, answers, eth, axis, history>>
  BY DEF TstFinal, sutVars, world
<1>3. Back' = Back
  BY <1>2 DEF Back
<1>4. TypeOK'
  BY <1>1, <1>2 DEF TypeOK, LinkTypeOK, TstStates
<1>5. Books'
  BY <1>1, <1>2 DEF Books
<1>6. /\ Starting' /\ Greeting' /\ Moding' /\ Agreed' /\ Reporting' /\ Reported'
      /\ Logging' /\ Enquiring' /\ Ready' /\ Calling' /\ Closing' /\ Working'
  BY <1>1, <1>2, <1>3 DEF Phase, Early, Starting, Greeting, Moding, Agreed, Reporting,
     Reported, Logging, Enquiring, Ready, Calling, Closing, Working
<1> QED
  BY <1>4, <1>5, <1>6 DEF Inv, Phase

---------------------------------------------------------------------------------
(* The line *)

(* A delivered byte changes nothing but where it waits. *)
LEMMA DeliveredKeeps ==
  ASSUME Inv, LinkTypeOK', Ahead' = Ahead, Back' = Back,
         UNCHANGED <<reader, sutVars, tstVars, world, history>>
  PROVE  Inv'
<1>1. TypeOK /\ Books /\ Phase
  BY DEF Inv
<1>2. UNCHANGED <<reader, sut, linux, op, last, config, inputs, arena, regs, tst,
                  suite, done, verdicts, answers, eth, axis, history>>
  BY DEF sutVars, tstVars, world
<1>3. TypeOK'
  BY <1>1, <1>2 DEF TypeOK
<1>4. Books'
  BY <1>1, <1>2 DEF Books
<1>5. Current' = Current /\ TestFrames(Current)' = TestFrames(Current)
  BY <1>2 DEF Current, TestFrames
<1>6. /\ Starting' /\ Greeting' /\ Moding' /\ Agreed' /\ Reporting' /\ Reported'
      /\ Closing' /\ Working'
  BY <1>1, <1>2 DEF Phase, Early, Fresh, Starting, Greeting, Moding, Agreed, Reporting,
     Reported, Closing, Working
<1>7. Sitting' = Sitting /\ Fresh' = Fresh
  BY <1>2 DEF Sitting, Fresh
<1>8. Logging' /\ Enquiring' /\ Ready'
  BY <1>1, <1>2, <1>7 DEF Phase, Early, Logging, Enquiring, Ready
<1>9. Calling'
  <2>1. Commanding => Commanding'
    BY <1>2, <1>5 DEF Commanding, IsSmall
  <2>2. Answering => Answering'
    BY <1>2, <1>5 DEF Answering
  <2> QED
    BY <1>1, <1>2, <2>1, <2>2 DEF Phase, Calling
<1> QED
  BY <1>3, <1>4, <1>6, <1>8, <1>9 DEF Inv, Phase

(* The SUT reads every byte of the Tester. *)
LEMMA DeliverToSutKeeps ==
  ASSUME Inv, Deliver("tst"), "sut" \in Prompt
  PROVE  Inv'
<1>1. LinkTypeOK
  BY DEF Inv, TypeOK
<1>2. /\ Transmit("tst", Polling("sut") \/ "sut" \in Prompt)
      /\ UNCHANGED <<reader, sutVars, tstVars, world, history>>
  BY DEF Deliver, Other
<1>3. LinkTypeOK' /\ Back' = Back /\ Ahead' = Ahead
  BY <1>1, <1>2, LineToSut
<1> QED
  BY <1>2, <1>3, DeliveredKeeps

(* A byte of the SUT may be lost, but only before the Tester has told the    *)
(* mode, while it sends the file over Ethernet, or after the last test:      *)
(* otherwise the Tester has sent everything and reads.                      *)
LEMMA DeliverToTesterKeeps ==
  ASSUME Inv, Deliver("sut")
  PROVE  Inv'
<1>1. TypeOK /\ Books /\ Phase /\ LinkTypeOK
  BY DEF Inv, TypeOK
<1>2. /\ Transmit("sut", Polling("tst") \/ "tst" \in Prompt)
      /\ UNCHANGED <<reader, sutVars, tstVars, world, history>>
  BY DEF Deliver, Other
<1>3. UNCHANGED <<reader, sut, linux, op, last, config, inputs, arena, regs, tst,
                  suite, done, verdicts, answers, eth, axis, history>>
  BY <1>2 DEF sutVars, tstVars, world
<1>4. /\ LinkTypeOK' /\ Back' = Back
      /\ \/ Ahead' = Ahead
         \/ /\ ~Polling("tst") /\ tx["sut"] # <<>>
            /\ Ahead' = rx["tst"] \o Tail(tx["sut"])
  BY <1>1, <1>2, LineToTester
<1>5. CASE Ahead' = Ahead
  BY <1>2, <1>4, <1>5, DeliveredKeeps
<1>6. CASE ~Polling("tst") /\ tx["sut"] # <<>> /\ Ahead' = rx["tst"] \o Tail(tx["sut"])
  <2>1. TypeOK'
    BY <1>1, <1>3, <1>4 DEF TypeOK
  <2>2. Books'
    BY <1>1, <1>3 DEF Books
  <2>3. CASE sut \in Early
    <3>1. tst \in {"stream", "mode", "eth", "log"} /\ Free(Ahead, FTX)
      BY <1>1, <2>3 DEF Phase, Greeting
    <3>2. Free(Ahead', FTX)
      BY <1>1, <1>6, <3>1, StreamTypes, FreeStays DEF Ahead
    <3>3. /\ Starting' /\ Greeting' /\ Moding' /\ Agreed' /\ Reporting' /\ Reported'
          /\ Logging' /\ Enquiring' /\ Ready' /\ Calling' /\ Closing' /\ Working'
      BY <1>1, <1>3, <1>4, <2>3, <3>1, <3>2 DEF Phase, Early, Fresh, Starting, Greeting, Moding,
         Agreed, Reporting, Reported, Logging, Enquiring, Ready, Calling, Closing, Working
    <3> QED
      BY <2>1, <2>2, <3>3 DEF Inv, Phase
  <2>4. CASE sut \notin Early
    <3>1. Back = <<>> => tst \notin {"log", "enq", "reply"}
      <4> SUFFICES ASSUME Back = <<>>, tst \in {"log", "enq", "reply"} PROVE FALSE
        OBVIOUS
      <4>1. tx["tst"] = <<>>
        BY <1>1, StreamTypes
      <4>2. Idle("tst")
        BY <4>1, EmptySeq, LinkAssumption DEF Idle
      <4> QED
        BY <1>6, <4>2 DEF Polling
    <3>2. Ahead # <<>>
      BY <1>1, <1>6, StreamTypes
    <3>3. tst \in {"final", "end"}
      BY <1>1, <2>4, <3>1, <3>2
         DEF Phase, Reported, Logging, Enquiring, Ready, Calling, Answering, TypeOK, TstStates
    <3>4. /\ Starting' /\ Greeting' /\ Moding' /\ Agreed' /\ Reporting' /\ Reported'
          /\ Logging' /\ Enquiring' /\ Ready' /\ Calling' /\ Closing' /\ Working'
      BY <1>1, <1>3, <1>4, <2>4, <3>3 DEF Phase, Early, Starting, Greeting, Moding,
         Agreed, Reporting, Reported, Logging, Enquiring, Ready, Calling, Closing, Working
    <3> QED
      BY <2>1, <2>2, <3>4 DEF Inv, Phase
  <2> QED
    BY <2>3, <2>4
<1> QED
  BY <1>4, <1>5, <1>6

---------------------------------------------------------------------------------
(* Every step keeps the invariant, if the SUT reads every byte. *)
LEMMA InvNext ==
  ASSUME Inv, [Next]_vars, "sut" \in Prompt
  PROVE  Inv'
<1>1. CASE SutNext
  BY <1>1, SutInitKeeps, SutPhyKeeps, SutModeKeeps, SutEthKeeps, SutLogKeeps, SutSetupKeeps,
     SutCommandKeeps, SutConfigureKeeps, SutReceiveKeeps, SutComputeKeeps DEF SutNext
<1>2. CASE TstNext
  BY <1>2, TstStreamKeeps, TstModeKeeps, TstEthKeeps, TstLogKeeps, TstEnqKeeps,
     TstTestKeeps, TstReplyKeeps, TstFinishKeeps, TstFinalKeeps DEF TstNext
<1>3. CASE \E p \in Side : Deliver(p)
  BY <1>3, DeliverToSutKeeps, DeliverToTesterKeeps DEF Side
<1>4. CASE UNCHANGED vars
  <2>1. UNCHANGED <<rx, tx, reader, sutVars, tstVars, world, history>>
    BY <1>4 DEF vars
  <2>2. LinkTypeOK' /\ Ahead' = Ahead /\ Back' = Back
    BY <2>1 DEF Inv, TypeOK, LinkTypeOK, Ahead, Back
  <2> QED
    BY <2>1, <2>2, DeliveredKeeps
<1> QED
  BY <1>1, <1>2, <1>3, <1>4 DEF Next, Terminated

(* The inductive invariant of the verification. *)
THEOREM ExerciseInvariant ==
  ASSUME "sut" \in Prompt
  PROVE  Spec => []Inv
<1>1. Init => Inv
  BY InvInit
<1>2. Inv /\ [Next]_vars => Inv'
  BY InvNext
<1> QED
  BY <1>1, <1>2, PTL DEF Spec

(* Type correctness. *)
THEOREM ExerciseTypes ==
  ASSUME "sut" \in Prompt
  PROVE  Spec => []TypeOK
<1>1. Inv => TypeOK
  BY DEF Inv
<1> QED
  BY <1>1, ExerciseInvariant, PTL

(* The SUT takes the branch for the kind of Tester that it is connected to. *)
THEOREM TheModeIsAgreed ==
  ASSUME "sut" \in Prompt
  PROVE  Spec => []ModeIsAgreed
<1>1. Inv => ModeIsAgreed
  BY DEF Inv, Phase, Agreed, ModeIsAgreed
<1> QED
  BY <1>1, ExerciseInvariant, PTL

(* Before every command the SUT waits for one and the line is empty: no      *)
(* content of test.log and no answer makes the two programs fall out of step. *)
THEOREM TheyStayInStep ==
  ASSUME "sut" \in Prompt
  PROVE  Spec => []InStep
<1>1. Inv => InStep
  <2> SUFFICES ASSUME Inv, tst = "test"
               PROVE  /\ sut \in {"setup", "command"}
                      /\ \A p \in Side : rx[p] = <<>> /\ tx[p] = <<>>
    BY DEF InStep
  <2>1. Sitting /\ Back = <<>> /\ Ahead = <<>> /\ LinkTypeOK
    BY DEF Inv, Phase, Ready, TypeOK
  <2> QED
    BY <2>1, StreamTypes DEF Sitting, Side
<1> QED
  BY <1>1, ExerciseInvariant, PTL

(* The Tester reads the registers and the AXI stream after the SUT has       *)
(* written them.                                                            *)
THEOREM TheResultsAreThere ==
  ASSUME "sut" \in Prompt
  PROVE  Spec => []ResultsAreThere
<1>1. Inv => ResultsAreThere
  BY DEF Inv, Phase, Closing, Reported, Early, ResultsAreThere
<1> QED
  BY <1>1, ExerciseInvariant, PTL

(* The messages and the keys of every test fit the arena of the SUT. *)
TestsFitTheArena ==
  \A s \in Suites : \A k \in 1 .. Len(s) :
    Taken(s[k].inputs, Len(s[k].inputs)) + (IF IsSmall(s[k].op) THEN 0 ELSE KeyBytes)
      <= ArenaSize

(* If each test fits the arena alone, then any number of them does: the      *)
(* memory of a command is released before the next one.                     *)
THEOREM TheArenaSuffices ==
  ASSUME "sut" \in Prompt, TestsFitTheArena
  PROVE  Spec => []ArenaFits
<1>1. Inv => ArenaFits
  <2> SUFFICES ASSUME Inv, sut = "compute"
               PROVE  arena + (IF IsSmall(op) THEN 0 ELSE KeyBytes) <= ArenaSize
    BY DEF ArenaFits
  <2>1. done < Len(suite) /\ Commanding /\ TypeOK
    BY DEF Inv, Phase, Working, Calling
  <2>2. op = Current.op /\ inputs = Current.inputs /\ arena = Taken(inputs, Len(inputs))
    BY <2>1 DEF Commanding
  <2>3. suite \in Suites /\ done + 1 \in 1 .. Len(suite)
    BY <2>1, CurrentTest
  <2> QED
    BY <2>2, <2>3 DEF TestsFitTheArena, Current
<1> QED
  BY <1>1, ExerciseInvariant, PTL

(* No test compares its answers by halves only. *)
TestsCompareInFull ==
  \A s \in Suites : \A k \in 1 .. Len(s) : s[k].op \notin {AES, MCE}

(* A test without partial comparison counts as good exactly if the           *)
(* accelerator gave the expected answer to this very test.                  *)
THEOREM TheVerdictsAreRight ==
  ASSUME "sut" \in Prompt, TestsCompareInFull
  PROVE  Spec => []VerdictsAreRight
<1>1. Inv => VerdictsAreRight
  <2> SUFFICES ASSUME Inv
               PROVE  /\ Len(verdicts) = done
                      /\ \A k \in 1 .. done : verdicts[k] <=> history[k] = suite[k].expected
    BY DEF VerdictsAreRight
  <2>1. TypeOK /\ Books
    BY DEF Inv
  <2>2. Len(verdicts) = done
    BY <2>1 DEF Books
  <2>3. suite \in Suites /\ done \in 0 .. Len(suite) /\ Len(suite) \in Nat
    BY <2>1, SuitesAssumption, LenProperties DEF TypeOK
  <2>4. ASSUME NEW k \in 1 .. done PROVE verdicts[k] <=> history[k] = suite[k].expected
    <3>1. k \in 1 .. Len(suite)
      BY <2>3
    <3>2. suite[k].op \notin {AES, MCE}
      BY <2>3, <3>1 DEF TestsCompareInFull
    <3>3. Agree(suite[k].op, history[k], suite[k].expected) = (history[k] = suite[k].expected)
      BY <3>2 DEF Agree
    <3>4. verdicts[k] = Agree(suite[k].op, history[k], suite[k].expected)
      BY <2>1 DEF Books
    <3> QED
      BY <3>3, <3>4, Zenon
  <2> QED
    BY <2>2, <2>4
<1> QED
  BY <1>1, ExerciseInvariant, PTL

---------------------------------------------------------------------------------
(* Refinement *)

(* A step between two places in the same part of the session changes nothing *)
(* that it speaks of.                                                       *)
LEMMA SessionStutters ==
  ASSUME UNCHANGED <<suite, verdicts, history>>,
         SessionClient' = SessionClient, SessionServer' = SessionServer
  PROVE  UNCHANGED Calls!vars
BY DEF Calls!vars

(* What the steps of the SUT are in the session. *)
LEMMA SutIsServer ==
  ASSUME Inv, SutNext
  PROVE  Calls!Next \/ UNCHANGED Calls!vars
<1>1. TypeOK /\ Books /\ Phase
  BY DEF Inv
<1>2. CASE SutInit
  <2>1. UNCHANGED <<tst, suite, verdicts, history>> /\ sut = "init" /\ sut' = "phy"
    BY <1>2 DEF SutInit, tstVars
  <2> QED
    BY <2>1, SessionStutters DEF SessionClient, SessionServer
<1>3. CASE SutPhy
  <2>1. UNCHANGED <<tst, suite, verdicts, history>> /\ sut = "phy" /\ sut' = "mode"
    BY <1>3 DEF SutPhy, tstVars
  <2> QED
    BY <2>1, SessionStutters DEF SessionClient, SessionServer
<1>4. CASE SutMode
  <2>1. UNCHANGED <<tst, suite, verdicts, history>> /\ sut = "mode" /\ sut' \in {"mode", "log", "eth"}
    BY <1>4 DEF SutMode, tstVars
  <2> QED
    BY <2>1, SessionStutters DEF SessionClient, SessionServer
<1>5. CASE SutEth
  <2>1. UNCHANGED <<tst, suite, verdicts, history>> /\ sut = "eth" /\ sut' = "log"
    BY <1>5 DEF SutEth, tstVars
  <2> QED
    BY <2>1, SessionStutters DEF SessionClient, SessionServer
<1>6. CASE SutLog
  <2>1. UNCHANGED <<tst, suite, verdicts, history>> /\ sut = "log" /\ sut' = "setup"
    BY <1>6 DEF SutLog, tstVars
  <2>2. SessionServer = "start" /\ SessionServer' = "serving" /\ SessionClient' = SessionClient
    BY <2>1 DEF SessionClient, SessionServer
  <2>3. Calls!Serve
    BY <2>1, <2>2 DEF Calls!Serve
  <2> QED
    BY <2>3 DEF Calls!Next
<1>7. CASE SutSetup
  <2>1. UNCHANGED <<tst, suite, verdicts, history>> /\ sut = "setup" /\ sut' = "command"
    BY <1>7 DEF SutSetup, tstVars
  <2> QED
    BY <2>1, SessionStutters DEF SessionClient, SessionServer
<1>8. CASE SutCommand
  <2>1. UNCHANGED <<tst, suite, verdicts, history>> /\ sut = "command" /\ sut' \in {"configure", "end"}
    BY <1>8 DEF SutCommand, tstVars
  <2>2. CASE sut' = "configure"
    BY <2>1, <2>2, SessionStutters DEF SessionClient, SessionServer
  <2>3. CASE sut' = "end"
    <3>1. tst' \in {"final", "end"}
      BY <1>8, <2>3, SutCommandKeeps DEF Inv, Phase, Working
    <3>2. SessionClient = "closed" /\ SessionClient' = "closed"
      BY <2>1, <3>1 DEF SessionClient
    <3>3. SessionServer = "serving" /\ SessionServer' = "closed"
      BY <2>1, <2>3 DEF SessionServer
    <3>4. Calls!Stop
      BY <2>1, <3>2, <3>3 DEF Calls!Stop
    <3> QED
      BY <3>4 DEF Calls!Next
  <2> QED
    BY <2>1, <2>2, <2>3
<1>9. CASE SutConfigure
  <2>1. UNCHANGED <<tst, suite, verdicts, history>> /\ sut = "configure" /\ sut' = "receive"
    BY <1>9 DEF SutConfigure, tstVars
  <2> QED
    BY <2>1, SessionStutters DEF SessionClient, SessionServer
<1>10. CASE SutReceive
  <2>1. UNCHANGED <<tst, suite, verdicts, history>> /\ sut = "receive" /\ sut' \in {"receive", "compute"}
    BY <1>10 DEF SutReceive, tstVars
  <2> QED
    BY <2>1, SessionStutters DEF SessionClient, SessionServer
<1>11. CASE SutCompute
  <2>1. UNCHANGED <<tst, suite, verdicts>> /\ sut = "compute" /\ sut' = "command"
    BY <1>11 DEF SutCompute, tstVars
  <2>2. PICK a \in Replies(op, config, inputs) : history' = Append(history, a)
    BY <1>11 DEF SutCompute
  <2>3. tst = "reply" /\ Len(history) = done /\ Len(verdicts) = done /\ Commanding
    BY <1>1, <2>1 DEF Phase, Working, Calling, Books
  <2>4. /\ op = Current.op /\ inputs = Current.inputs /\ config \in Ops \cup {0}
        /\ ConfigFor(Current.op, config)
    BY <1>1, <2>1, <2>3 DEF Commanding, ConfigFor, TypeOK
  <2>5. /\ SessionServer = "serving" /\ SessionServer' = "serving"
        /\ SessionClient = "waiting" /\ SessionClient' = "waiting"
    BY <2>1, <2>3 DEF SessionClient, SessionServer
  <2>6. Current = suite[Len(history) + 1]
    BY <2>3 DEF Current
  <2>7. Calls!Execute
    BY <2>1, <2>2, <2>3, <2>4, <2>5, <2>6 DEF Calls!Execute
  <2> QED
    BY <2>7 DEF Calls!Next
<1> QED
  BY <1>2, <1>3, <1>4, <1>5, <1>6, <1>7, <1>8, <1>9, <1>10, <1>11 DEF SutNext

(* What the steps of the Tester are in the session. *)
LEMMA TesterIsClient ==
  ASSUME Inv, TstNext
  PROVE  Calls!Next \/ UNCHANGED Calls!vars
<1>1. TypeOK /\ Books /\ Phase
  BY DEF Inv
<1>2. CASE TstStream
  <2>1. UNCHANGED <<sut, suite, verdicts, history>> /\ tst = "stream" /\ tst' = "mode"
    BY <1>2 DEF TstStream, sutVars
  <2> QED
    BY <2>1, SessionStutters DEF SessionClient, SessionServer
<1>3. CASE TstMode
  <2>1. UNCHANGED <<sut, suite, verdicts, history>> /\ tst = "mode" /\ tst' \in {"log", "eth"}
    BY <1>3 DEF TstMode, sutVars
  <2> QED
    BY <2>1, SessionStutters DEF SessionClient, SessionServer
<1>4. CASE TstEth
  <2>1. UNCHANGED <<sut, suite, verdicts, history>> /\ tst = "eth" /\ tst' = "log"
    BY <1>4 DEF TstEth, sutVars
  <2> QED
    BY <2>1, SessionStutters DEF SessionClient, SessionServer
<1>5. CASE TstLog
  <2>1. UNCHANGED <<sut, suite, verdicts, history>> /\ tst = "log" /\ tst' \in {"log", "enq"}
    BY <1>5 DEF TstLog, sutVars
  <2> QED
    BY <2>1, SessionStutters DEF SessionClient, SessionServer
<1>6. CASE TstEnq
  <2>1. UNCHANGED <<sut, suite, verdicts, history>> /\ tst = "enq" /\ tst' \in {"enq", "test"}
    BY <1>6 DEF TstEnq, sutVars
  <2>2. CASE tst' = "enq"
    BY <2>1, <2>2, SessionStutters DEF SessionClient, SessionServer
  <2>3. CASE tst' = "test"
    <3>1. SessionServer = "serving" /\ SessionServer' = "serving"
      BY <1>1, <2>1 DEF Phase, Enquiring, Sitting, SessionServer
    <3>2. SessionClient = "start" /\ SessionClient' = "idle"
      BY <2>1, <2>3 DEF SessionClient
    <3>3. Calls!Connect
      BY <2>1, <3>1, <3>2 DEF Calls!Connect
    <3> QED
      BY <3>3 DEF Calls!Next
  <2> QED
    BY <2>1, <2>2, <2>3
<1>7. CASE TstTest
  <2>1. UNCHANGED <<sut, suite, verdicts, history>> /\ tst = "test" /\ tst' = "reply"
        /\ done < Len(suite)
    BY <1>7 DEF TstTest, sutVars
  <2>2. Len(verdicts) < Len(suite)
    BY <1>1, <2>1 DEF Books
  <2>3. /\ SessionClient = "idle" /\ SessionClient' = "waiting"
        /\ SessionServer' = SessionServer
    BY <2>1 DEF SessionClient, SessionServer
  <2>4. Calls!Call
    BY <2>1, <2>2, <2>3 DEF Calls!Call
  <2> QED
    BY <2>4 DEF Calls!Next
<1>8. CASE TstReply
  <2>1. UNCHANGED <<sut, suite, history>> /\ tst = "reply"
    BY <1>8 DEF TstReply, sutVars
  <2>2. CASE UNCHANGED <<verdicts, tst>>
    BY <2>1, <2>2, SessionStutters DEF SessionClient, SessionServer
  <2>3. CASE ~UNCHANGED <<verdicts, tst>>
    <3> DEFINE v == Agree(Current.op, answers', Current.expected)
               w == Agree(Current.op, history[done + 1], Current.expected)
    <3>1. /\ Readable("tst") /\ TakeByte("tst") /\ tst' = "test" /\ done' = done + 1
          /\ verdicts' = Append(verdicts, v)
      BY <1>8, <2>3 DEF TstReply, Read, Current
    <3>2. done \in Nat /\ Len(verdicts) = done /\ verdicts \in Seq(BOOLEAN)
      <4>1. suite \in Suites /\ done \in 0 .. Len(suite)
        BY <1>1 DEF TypeOK
      <4>2. Len(suite) \in Nat
        BY <4>1, SuitesAssumption, LenProperties
      <4> QED
        BY <1>1, <4>1, <4>2 DEF TypeOK, Books
    <3>3. v \in BOOLEAN
      BY DEF Agree
    <3>4. verdicts'[done + 1] = w
      <4>1. Books'
        BY <1>8, TstReplyKeeps DEF Inv
      <4>2. done + 1 \in 1 .. done'
        BY <3>1, <3>2
      <4>3. verdicts'[done + 1] = Agree(suite[done + 1].op, history[done + 1], suite[done + 1].expected)
        BY <2>1, <4>1, <4>2 DEF Books
      <4> QED
        BY <4>3 DEF Current
    <3>5. verdicts' = Append(verdicts, w)
      <4> HIDE DEF v, w
      <4>1. Append(verdicts, v)[done + 1] = v
        BY <3>2, <3>3, AppendProperties
      <4>2. v = w
        BY <3>1, <3>4, <4>1
      <4> QED
        BY <3>1, <4>2
    <3>6. Len(history) = Len(verdicts) + 1
      <4>1. Ahead # <<>>
        BY <1>1, <3>1, TesterReads DEF TypeOK
      <4> QED
        BY <1>1, <2>1, <3>2, <4>1 DEF Phase, Calling, Books
    <3>7. /\ SessionClient = "waiting" /\ SessionClient' = "idle"
          /\ SessionServer' = SessionServer
      BY <2>1, <3>1 DEF SessionClient, SessionServer
    <3>8. verdicts' = Append(verdicts, Agree(suite[Len(history)].op, history[Len(history)],
                                             suite[Len(history)].expected))
      BY <3>2, <3>5, <3>6 DEF Current
    <3>9. Calls!Return
      BY <2>1, <3>6, <3>7, <3>8 DEF Calls!Return
    <3> QED
      BY <3>9 DEF Calls!Next
  <2> QED
    BY <2>2, <2>3
<1>9. CASE TstFinish
  <2>1. UNCHANGED <<sut, suite, verdicts, history>> /\ tst = "test" /\ tst' = "final"
        /\ done = Len(suite)
    BY <1>9 DEF TstFinish, sutVars
  <2>2. Len(verdicts) = Len(suite)
    BY <1>1, <2>1 DEF Books
  <2>3. /\ SessionClient = "idle" /\ SessionClient' = "closed"
        /\ SessionServer' = SessionServer
    BY <2>1 DEF SessionClient, SessionServer
  <2>4. Calls!Close
    BY <2>1, <2>2, <2>3 DEF Calls!Close
  <2> QED
    BY <2>4 DEF Calls!Next
<1>10. CASE TstFinal
  <2>1. UNCHANGED <<sut, suite, verdicts, history>> /\ tst = "final" /\ tst' = "end"
    BY <1>10 DEF TstFinal, sutVars
  <2> QED
    BY <2>1, SessionStutters DEF SessionClient, SessionServer
<1> QED
  BY <1>2, <1>3, <1>4, <1>5, <1>6, <1>7, <1>8, <1>9, <1>10 DEF TstNext

(* The two programs implement Session: every test is executed exactly once,  *)
(* on its own messages, and judged by its own answer.                       *)
THEOREM TheyImplementSession ==
  ASSUME "sut" \in Prompt
  PROVE  Spec => ImplementsSession
<1>1. Init => Calls!Init
  BY DEF Init, Calls!Init, SessionClient, SessionServer
<1>2. Inv /\ [Next]_vars => [Calls!Next]_(Calls!vars)
  <2> SUFFICES ASSUME Inv, [Next]_vars
               PROVE  Calls!Next \/ UNCHANGED Calls!vars
    OBVIOUS
  <2>1. CASE SutNext
    BY <2>1, SutIsServer
  <2>2. CASE TstNext
    BY <2>2, TesterIsClient
  <2>3. CASE UNCHANGED <<sutVars, tstVars, world, history>>
    <3>1. UNCHANGED <<sut, tst, suite, verdicts, history>>
      BY <2>3 DEF sutVars, tstVars
    <3> QED
      BY <3>1, SessionStutters DEF SessionClient, SessionServer
  <2>4. CASE \E p \in Side : Deliver(p)
    BY <2>3, <2>4 DEF Deliver
  <2>5. CASE UNCHANGED vars
    BY <2>3, <2>5 DEF vars
  <2> QED
    BY <2>1, <2>2, <2>4, <2>5 DEF Next, Terminated
<1> QED
  BY <1>1, <1>2, ExerciseInvariant, PTL DEF Spec, ImplementsSession, Calls!Spec
=================================================================================
