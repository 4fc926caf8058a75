-------------------------------- MODULE Session ---------------------------------
(***************************************************************************)
(* What the verification promises, without the line, the framing and the   *)
(* phases before it: the Tester calls and the SUT serves.  Every test of   *)
(* the suite is executed exactly once, in order, on the messages of the    *)
(* test and by an accelerator prepared for it; a verdict is the comparison *)
(* of the expected answer with the answer that the SUT gave to this test;  *)
(* the SUT stops serving only when the Tester has closed.                  *)
(***************************************************************************)
EXTENDS Integers, Sequences

CONSTANTS
  Configs,          \* what the accelerator may be configured for
  Prepared(_, _),   \* Prepared(op, config): config is one for op
  Replies(_, _, _), \* Replies(op, config, inputs): what the accelerator may answer
  Agree(_, _, _)    \* Agree(op, answer, expected): the comparison of a test

VARIABLES
  suite,      \* the tests: a sequence of [op, inputs, expected]
  client,     \* "start", "idle", "waiting" or "closed"
  server,     \* "start", "serving" or "closed"
  executed,   \* the answers given, one per test executed
  verdicts    \* the verdicts, one per test returned

vars == <<suite, client, server, executed, verdicts>>

Init ==
  /\ client = "start"
  /\ server = "start"
  /\ executed = <<>>
  /\ verdicts = <<>>

Serve ==
  /\ server = "start"
  /\ server' = "serving"
  /\ UNCHANGED <<suite, client, executed, verdicts>>

Connect ==
  /\ client = "start"
  /\ server = "serving"
  /\ client' = "idle"
  /\ UNCHANGED <<suite, server, executed, verdicts>>

Call ==
  /\ client = "idle"
  /\ Len(verdicts) < Len(suite)
  /\ client' = "waiting"
  /\ UNCHANGED <<suite, server, executed, verdicts>>

Execute ==
  /\ client = "waiting"
  /\ server = "serving"
  /\ Len(executed) = Len(verdicts)
  /\ LET t == suite[Len(executed) + 1] IN
     \E c \in Configs : \E answer \in Replies(t.op, c, t.inputs) :
       /\ Prepared(t.op, c)
       /\ executed' = Append(executed, answer)
  /\ UNCHANGED <<suite, client, server, verdicts>>

Return ==
  /\ client = "waiting"
  /\ Len(executed) = Len(verdicts) + 1
  /\ LET t == suite[Len(executed)] IN
     verdicts' = Append(verdicts, Agree(t.op, executed[Len(executed)], t.expected))
  /\ client' = "idle"
  /\ UNCHANGED <<suite, server, executed>>

Close ==
  /\ client = "idle"
  /\ Len(verdicts) = Len(suite)
  /\ client' = "closed"
  /\ UNCHANGED <<suite, server, executed, verdicts>>

Stop ==
  /\ client = "closed"
  /\ server = "serving"
  /\ server' = "closed"
  /\ UNCHANGED <<suite, client, executed, verdicts>>

Next == Serve \/ Connect \/ Call \/ Execute \/ Return \/ Close \/ Stop

Spec == Init /\ [][Next]_vars
=================================================================================
