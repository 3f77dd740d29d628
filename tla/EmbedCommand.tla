------------------------------ MODULE EmbedCommand ------------------------------
(***************************************************************************)
(* The embedding command of migrate and backfill: a child process that     *)
(* gets the texts on its standard input and answers with one vector per    *)
(* text on its standard output.  The parent writes everything, closes the  *)
(* pipe, and only then reads (write_all, drop, wait_with_output).          *)
(*                                                                         *)
(*   setup     the setting: how many texts, what the child does ("gather"  *)
(*             reads all before it writes, "stream" answers text by text), *)
(*             and whether the caller looks at the exit status             *)
(*   parent    "spawn", "writing", "closed", "ok", "error"                 *)
(*   toWrite   texts the parent has not written yet                        *)
(*   inPipe, outPipe   what is in the two pipes, at most PipeSize each     *)
(*   child     "run", "exited", "failed"; got, sent   its reads and writes *)
(*   collected vectors the parent has read                                 *)
(***************************************************************************)
EXTENDS Integers

CONSTANTS EmbedSetup, PipeSize

ASSUME EmbedAssumption ==
  /\ PipeSize \in Nat \ {0}
  /\ \A s \in EmbedSetup : /\ s.texts \in Nat /\ s.child \in {"gather", "stream"}
                           /\ s.status \in BOOLEAN

VARIABLES setup, parent, toWrite, inPipe, outPipe, child, got, sent, collected

childState == <<child, got, sent>>
embedVars == <<setup, parent, toWrite, inPipe, outPipe, childState, collected>>

EmbedInit ==
  /\ setup \in EmbedSetup /\ parent = "spawn" /\ toWrite = setup.texts
  /\ inPipe = 0 /\ outPipe = 0
  /\ child = "none" /\ got = 0 /\ sent = 0 /\ collected = 0

Spawn ==
  /\ parent = "spawn"
  /\ \/ parent' = "writing" /\ child' = "run"
     \/ parent' = "error" /\ UNCHANGED child
  /\ UNCHANGED <<setup, toWrite, inPipe, outPipe, got, sent, collected>>

(* write_all waits for room; a child that has gone makes it fail.          *)
WriteAll ==
  /\ parent = "writing" /\ toWrite > 0
  /\ \/ /\ child = "run" /\ inPipe < PipeSize
        /\ inPipe' = inPipe + 1 /\ toWrite' = toWrite - 1 /\ UNCHANGED parent
     \/ /\ child # "run"
        /\ parent' = "error" /\ UNCHANGED <<inPipe, toWrite>>
  /\ UNCHANGED <<setup, outPipe, childState, collected>>

CloseStdin ==
  /\ parent = "writing" /\ toWrite = 0
  /\ parent' = "closed"
  /\ UNCHANGED <<setup, toWrite, inPipe, outPipe, childState, collected>>

ReadStdout ==
  /\ parent = "closed" /\ outPipe > 0
  /\ outPipe' = outPipe - 1 /\ collected' = collected + 1
  /\ UNCHANGED <<setup, parent, toWrite, inPipe, childState>>

(* The answer is an array: it parses when the child wrote all of it.       *)
Accepted == (setup.status => child = "exited") /\ collected = setup.texts

Finish ==
  /\ parent = "closed" /\ outPipe = 0 /\ child # "run"
  /\ parent' = (IF Accepted THEN "ok" ELSE "error")
  /\ UNCHANGED <<setup, toWrite, inPipe, outPipe, childState, collected>>

--------------------------------------------------------------------------------
(* The child.                                                              *)
Eof == parent \in {"closed", "ok", "error"} /\ inPipe = 0

ChildRead ==
  /\ child = "run" /\ inPipe > 0
  /\ setup.child = "stream" => sent = got
  /\ inPipe' = inPipe - 1 /\ got' = got + 1
  /\ UNCHANGED <<setup, parent, toWrite, outPipe, child, sent, collected>>

ChildWrite ==
  /\ child = "run" /\ outPipe < PipeSize /\ sent < got
  /\ setup.child = "gather" => Eof
  /\ outPipe' = outPipe + 1 /\ sent' = sent + 1
  /\ UNCHANGED <<setup, parent, toWrite, inPipe, child, got, collected>>

ChildExit ==
  /\ child = "run" /\ Eof /\ sent = got
  /\ child' = "exited"
  /\ UNCHANGED <<setup, parent, toWrite, inPipe, outPipe, got, sent, collected>>

ChildFails ==
  /\ child = "run" /\ child' = "failed"
  /\ UNCHANGED <<setup, parent, toWrite, inPipe, outPipe, got, sent, collected>>

ParentStep == Spawn \/ WriteAll \/ CloseStdin \/ ReadStdout \/ Finish
ChildStep == ChildRead \/ ChildWrite \/ ChildExit
EmbedNext == ParentStep \/ ChildStep \/ ChildFails

(* Both processes are scheduled.                                           *)
EmbedFair == WF_embedVars(ParentStep) /\ WF_embedVars(ChildStep)

--------------------------------------------------------------------------------
(* The shape of the state; the pipes are bounded.                          *)
EmbedTypeOK ==
  /\ setup \in EmbedSetup /\ parent \in {"spawn", "writing", "closed", "ok", "error"}
  /\ inPipe \in 0 .. PipeSize /\ outPipe \in 0 .. PipeSize
  /\ child \in {"none", "run", "exited", "failed"}
  /\ toWrite + inPipe + got = setup.texts /\ outPipe + collected = sent /\ sent <= got

(* A result the caller goes on with has one vector per text, whenever the  *)
(* child died and whether or not its status is looked at.                  *)
EmbedWhole == parent = "ok" => collected = setup.texts /\ got = setup.texts

(* The call comes back when the command reads all its input before it      *)
(* answers, or when the answers, and the input left, fit in the pipes:     *)
(* with both pipes full parent and child would wait for each other.  What  *)
(* it comes back with is whole.                                            *)
EmbedReturns ==
  /\ parent = "writing" /\ (setup.child = "gather" \/ setup.texts <= 2 * PipeSize)
       ~> parent \in {"ok", "error"}
  /\ []EmbedWhole
================================================================================
