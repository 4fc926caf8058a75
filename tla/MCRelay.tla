--------------------------------- MODULE MCRelay --------------------------------
(* Relay for TLC.  The console has, besides the files that are asked for,   *)
(* files named like a request that lost its first or its last byte.  The   *)
(* program is any short string of control codes of the protocol.           *)
EXTENDS Relay, TLC

MCConfigName == <<99, 102>>     \* "cf"
MCProgram    == <<102, 119>>    \* "fw"
MCTree       == <<100>>         \* "d"

(* "fw 1\n", and "fw 1\nd 4" for two files *)
MCConfigOne == <<102, 119, 32, 49, 10>>
MCConfigTwo == <<102, 119, 32, 49, 10, 100, 32, 52>>

MCPrograms ==
  UNION {[1 .. n -> {NUL, ACK, FRX}] : n \in 0 .. 2} \cup {<<200, FRX, ACK>>}

MCFiles(config, program) ==
  (MCConfigName :> config)
    @@ (MCProgram :> program)
    @@ (MCTree :> <<FTX, EOT>>)
    @@ (<<102>> :> <<1, 1, 1>>)
    @@ (<<119>> :> <<2, 2>>)
    @@ (<<99>> :> <<3>>)

MCOne == <<[name |-> MCProgram, addr |-> 1]>>
MCTwo == MCOne \o <<[name |-> MCTree, addr |-> 4]>>

MCConsolesOne ==
  {[files |-> MCFiles(MCConfigOne, p), entries |-> MCOne] : p \in MCPrograms}
MCConsolesTwo ==
  MCConsolesOne \cup
    {[files |-> MCFiles(MCConfigTwo, p), entries |-> MCTwo] : p \in MCPrograms}

(* a program whose size takes two bytes and fills the Tester's buffer *)
MCLarge == 258

MCConsolesPrompt ==
  MCConsolesOne \cup
    {[files |-> MCFiles(MCConfigOne, [k \in 1 .. MCLarge |-> k % 256]), entries |-> MCOne]}

MCDepth == [p \in Side |-> IF p = "sut" THEN 1 ELSE 3]
=================================================================================
