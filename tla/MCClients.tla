------------------------------- MODULE MCClients -------------------------------
(***************************************************************************)
(* The ways in, on small instances: calls of the C, Python and command     *)
(* line interfaces, the embedding command, the write buffers, the tokens   *)
(* of catalog requests and the branches of a Nessie server.  One of them   *)
(* moves at a time: focus, chosen at the start, says which; the others     *)
(* stay at their first states.                                             *)
(***************************************************************************)
EXTENDS ClientCalls, EmbedCommand, MemTable, Credentials, NessieBranches

CONSTANT Focus

VARIABLE focus

Of(kind, entries, exists, callbacks) ==
  [kind |-> kind, entries |-> entries, exists |-> exists, callbacks |-> callbacks,
   deferred |-> FALSE, calls |-> 3]
Asking(kind, entries, exists) == [Of(kind, entries, exists, FALSE) EXCEPT !.calls = 2]
Deferred(kind, entries) == [Of(kind, entries, TRUE, FALSE) EXCEPT !.deferred = TRUE, !.calls = 2]

Hosts ==
  { Of("jni", {"write", "compact", "decay", "create"}, TRUE, FALSE),
    Of("jni", {"write_ipc", "migrate", "delete_rows"}, TRUE, FALSE),
    Of("jni", {"write_multi", "backfill", "delete_where", "evolve", "add_vector"}, TRUE, FALSE),
    Of("jni", {"kof_search", "kof_write", "kof_info", "kof_compact", "info"}, TRUE, FALSE),
    Of("py", {"write", "compact", "decay", "create", "info"}, TRUE, FALSE),
    Of("py", {"write_ivf_pq", "delete_rows", "delete_where", "add_column", "rename_column"}, TRUE, FALSE),
    Of("py", {"write_multi", "migrate", "backfill", "add_vector"}, FALSE, TRUE),
    Of("cli", {"insert", "insert_multi", "create", "delete_where", "compact"}, FALSE, FALSE),
    Of("cli", {"insert", "decay", "migrate", "delete_rows", "evolve"}, TRUE, FALSE),
    Asking("jni", {"vector_search", "search", "search_text", "search_multimodal", "scan", "write"}, FALSE),
    Asking("py", {"search", "search_text", "search_with_data", "search_multimodal", "read_changes",
                  "write"}, FALSE),
    Asking("cli", {"insert", "add_vector", "backfill", "search", "search_text", "info",
                   "read_changes"}, TRUE),
    Deferred("jni", {"write", "compact"}), Deferred("py", {"write"}), Deferred("cli", {"insert"}) }

Commands == [texts : 0 .. 6, child : {"gather", "stream"}, status : BOOLEAN]

Auth(auth, catalog, calls, rotations, faults) ==
  [auth |-> auth, catalog |-> catalog, calls |-> calls, rotations |-> rotations,
   faults |-> faults]

Auths ==
  { Auth("oauth2", "rest", 3, 0, 0), Auth("oauth2", "nessie", 2, 0, 0),
    Auth("oauth2_provider", "rest", 2, 0, 1), Auth("bearer_provider", "rest", 3, 1, 1) }

mcVars == <<focus, clientVars, embedVars, memVars, credVars, branchVars>>

MCInit ==
  /\ focus \in Focus
  /\ ClientInit /\ (focus # "clients" => host = CHOOSE h \in Hosts : TRUE)
  /\ EmbedInit /\ (focus # "embed" => setup = CHOOSE s \in Commands : TRUE)
  /\ MemInit /\ (focus # "buffers" => memKind = "ring")
  /\ CredInit /\ (focus # "tokens" => credSetting = CHOOSE s \in Auths : TRUE)
  /\ BranchInit

MCNext ==
  \/ focus = "clients" /\ ClientNext
     /\ UNCHANGED <<focus, embedVars, memVars, credVars, branchVars>>
  \/ focus = "embed" /\ EmbedNext
     /\ UNCHANGED <<focus, clientVars, memVars, credVars, branchVars>>
  \/ focus = "buffers" /\ MemNext
     /\ UNCHANGED <<focus, clientVars, embedVars, credVars, branchVars>>
  \/ focus = "tokens" /\ CredNext
     /\ UNCHANGED <<focus, clientVars, embedVars, memVars, branchVars>>
  \/ focus = "branches" /\ BranchNext
     /\ UNCHANGED <<focus, clientVars, embedVars, memVars, credVars>>

(* ClientFair, EmbedFair and CredFair, for the part that moves.            *)
MCSpec ==
  /\ MCInit /\ [][MCNext]_mcVars
  /\ \A t \in Thread : WF_clientVars(focus = "clients" /\ ClientStep(t))
  /\ WF_embedVars(focus = "embed" /\ ParentStep) /\ WF_embedVars(focus = "embed" /\ ChildStep)
  /\ \A t \in Bearer : WF_credVars(focus = "tokens" /\ CredStep(t))

--------------------------------------------------------------------------------
(* Every part is in one of its states, and what is allocated, locked,      *)
(* buffered or in a pipe is accounted for.                                 *)
ClientsTypeOK ==
  ClientTypeOK /\ StringsAccounted /\ EmbedTypeOK /\ MemTypeOK /\ CredTypeOK /\ BranchTypeOK

(* Whoever calls in gets an answer: of an entry point, of the embedding    *)
(* command, of get_token.                                                  *)
ClientCallsReturn == CallsAnswered /\ EmbedReturns /\ CredReturns
================================================================================
