---------------------------- MODULE NessieBranches ----------------------------
(***************************************************************************)
(* The branches of a Nessie server (ailake-catalog/src/nessie.rs):         *)
(* create_branch, merge_branch and delete_branch each look a branch up     *)
(* (get_branch) and then send a request that names the head they saw, and  *)
(* other clients commit, merge and delete in between.  The hash of a head  *)
(* stands for the commits it leads back to, so here it is their sequence.  *)
(* The server is external: what it does with a request is taken from what  *)
(* the client sends and from the status codes it handles.                  *)
(*                                                                         *)
(*   branches     the server's references, name |-> head                   *)
(*   brancher     per caller: pc, the call, the hash it will send, and the *)
(*                last answer                                              *)
(*   headRead     per caller, what get_branch last returned (history)      *)
(*   deletedHeads the commits of heads that a delete_branch has read       *)
(*                (history)                                                *)
(*   omitted      an answer to get_branch had no hash (history)            *)
(***************************************************************************)
EXTENDS Integers, Sequences, Functions

CONSTANTS Brancher, Branch, default_branch, NoBranch, MaxCommits, MaxBranchCalls, MaxBranchFaults

ASSUME BranchAssumption ==
    /\ default_branch \in Branch /\ NoBranch \notin Branch
    /\ {MaxCommits, MaxBranchCalls, MaxBranchFaults} \subseteq Nat

VARIABLES branches, brancher, headRead, deletedHeads, omitted, made, branchCalls, branchFaults

branchVars == <<branches, brancher, headRead, deletedHeads, omitted, made, branchCalls,
                branchFaults>>

NoBranchCall == [op |-> "none", name |-> NoBranch, other |-> NoBranch]
AnyHash == <<0>>
NoHash == <<-1>>

BranchCall ==
    [op : {"create", "merge"}, name : Branch, other : Branch]
      \cup [op : {"delete"}, name : Branch, other : {NoBranch}]

BranchInit ==
    /\ branches = [b \in {default_branch} |-> <<>>]
    /\ brancher = [t \in Brancher |-> [pc |-> "idle", call |-> NoBranchCall, hash |-> NoHash,
                                       answer |-> "none"]]
    /\ headRead = [t \in Brancher |-> <<>>] /\ deletedHeads = {} /\ omitted = FALSE
    /\ made = 0 /\ branchCalls = 0 /\ branchFaults = 0

(* Another client commits to a branch.                                     *)
CommitOn(b) ==
    /\ b \in DOMAIN branches /\ made < MaxCommits
    /\ made' = made + 1 /\ branches' = [branches EXCEPT ![b] = Append(@, made + 1)]
    /\ UNCHANGED <<brancher, headRead, deletedHeads, omitted, branchCalls, branchFaults>>

(* create_branch and merge_branch look up where they take from,            *)
(* delete_branch the branch it deletes.                                    *)
Looked(call) == IF call.op = "delete" THEN call.name ELSE call.other

(* A branch that is not there is an error, for delete_branch as well.      *)
get_branch(call) ==
    IF Looked(call) \in DOMAIN branches THEN [pc |-> "send", answer |-> "none"]
    ELSE [pc |-> "idle", answer |-> "error"]

Expected_Wrong(call) ==
    IF Looked(call) \notin DOMAIN branches THEN NoHash
    ELSE IF call.op = "delete" THEN AnyHash ELSE branches[Looked(call)]

(* The hash of create's body, of merge's fromHash and delete's             *)
(* expectedHash: the head that get_branch returned.                        *)
Expected(call) ==
    IF Looked(call) \in DOMAIN branches THEN branches[Looked(call)] ELSE NoHash

(* An answer without a hash is not an error: the empty string is sent on,  *)
(* which asks for no particular head.                                      *)
LookUp(t, call) ==
    /\ brancher[t].pc = "idle" /\ branchCalls < MaxBranchCalls
    /\ branchCalls' = branchCalls + 1
    /\ \E hash \in {Expected(call), AnyHash} :
         LET found == get_branch(call)
             none == hash # Expected(call)
         IN  /\ none => found.pc = "send" /\ branchFaults < MaxBranchFaults
             /\ omitted' = (omitted \/ none)
             /\ branchFaults' = branchFaults + IF none THEN 1 ELSE 0
             /\ brancher' = [brancher EXCEPT ![t] = [pc |-> found.pc, call |-> call,
                                                    hash |-> hash, answer |-> found.answer]]
    /\ IF Looked(call) \in DOMAIN branches
       THEN /\ headRead' = [headRead EXCEPT ![t] = branches[Looked(call)]]
            /\ deletedHeads' = IF call.op = "delete"
                               THEN deletedHeads \cup Range(branches[call.name])
                               ELSE deletedHeads
       ELSE UNCHANGED <<headRead, deletedHeads>>
    /\ UNCHANGED <<branches, made>>

-----------------------------------------------------------------------------
(* The server's side of the second request: [branches, answer].            *)

Refused == [branches |-> branches, answer |-> "error"]
Granted(to) == [branches |-> to, answer |-> "ok"]
Reachable(hash, b) ==
    /\ b \in DOMAIN branches
    /\ hash = AnyHash \/ \E n \in 0 .. Len(branches[b]) : hash = SubSeq(branches[b], 1, n)
Hash(hash, b) == IF hash = AnyHash THEN branches[b] ELSE hash
With(b, head) == [x \in DOMAIN branches \cup {b} |-> IF x = b THEN head ELSE branches[x]]

create_branch(call, hash) ==
    IF call.name \in DOMAIN branches \/ ~Reachable(hash, call.other) THEN Refused
    ELSE Granted(With(call.name, Hash(hash, call.other)))

(* The commits of one head that another does not have, in their order.     *)
Missing(from, into) ==
    LET upTo[i \in 0 .. Len(from)] ==
          IF i = 0 THEN <<>>
          ELSE IF from[i] \in Range(into) THEN upTo[i - 1] ELSE Append(upTo[i - 1], from[i])
    IN  upTo[Len(from)]

(* The commits up to fromHash that the target does not have.               *)
merge_branch(call, hash) ==
    IF call.name \notin DOMAIN branches \/ ~Reachable(hash, call.other) THEN Refused
    ELSE LET into == branches[call.name]
         IN  Granted(With(call.name, into \o Missing(Hash(hash, call.other), into)))

(* A branch that has gone since get_branch is not an error (404).          *)
delete_branch(call, hash) ==
    IF call.name \notin DOMAIN branches THEN Granted(branches)
    ELSE IF hash \notin {AnyHash, branches[call.name]} THEN Refused
    ELSE Granted([b \in DOMAIN branches \ {call.name} |-> branches[b]])

Done(call, hash) ==
    CASE call.op = "create" -> create_branch(call, hash)
      [] call.op = "merge" -> merge_branch(call, hash)
      [] call.op = "delete" -> delete_branch(call, hash)

(* The answer may be lost, and the call fails although it was carried out. *)
Send(t) ==
    /\ brancher[t].pc = "send"
    /\ LET done == Done(brancher[t].call, brancher[t].hash) IN
         /\ branches' = done.branches
         /\ \E answer \in {done.answer, "error"} :
              /\ answer # done.answer => branchFaults < MaxBranchFaults
              /\ branchFaults' = branchFaults + IF answer # done.answer THEN 1 ELSE 0
              /\ brancher' = [brancher EXCEPT ![t].pc = "idle", ![t].answer = answer]
    /\ UNCHANGED <<headRead, deletedHeads, omitted, made, branchCalls>>

(* Either request fails on its way, or the caller goes away.               *)
SendFails(t) ==
    /\ brancher[t].pc = "send" /\ branchFaults < MaxBranchFaults
    /\ branchFaults' = branchFaults + 1
    /\ brancher' = [brancher EXCEPT ![t].pc = "idle", ![t].answer = "error"]
    /\ UNCHANGED <<branches, headRead, deletedHeads, omitted, made, branchCalls>>

BranchNext ==
    \/ \E b \in Branch : CommitOn(b)
    \/ \E t \in Brancher : Send(t) \/ SendFails(t) \/ \E call \in BranchCall : LookUp(t, call)

BranchSpec == BranchInit /\ [][BranchNext]_branchVars

-----------------------------------------------------------------------------
(* Properties.                                                             *)

(* A request is only sent with the hash of a head that get_branch has      *)
(* returned, and no commit is on a branch twice.                           *)
BranchTypeOK ==
    /\ \A b \in DOMAIN branches : b \in Branch /\ IsInjective(branches[b])
    /\ \A t \in Brancher : /\ brancher[t].pc \in {"idle", "send"}
                           /\ brancher[t].answer \in {"none", "ok", "error"}
                           /\ brancher[t].pc = "send" => brancher[t].hash # NoHash

(* delete_branch takes no commit along that its caller has not seen: every *)
(* commit is still on a branch, or was in a head that some delete_branch   *)
(* had read, however calls, commits and merges interleave and whichever    *)
(* answers are lost, as long as every answer of get_branch has a hash.     *)
UnseenCommitsStay ==
    ~omitted => \A c \in 1 .. made :
        c \in deletedHeads \/ \E b \in DOMAIN branches : c \in Range(branches[b])

(* A branch that create_branch makes, and what merge_branch adds, is what  *)
(* get_branch showed of the other branch, without later commits to it,     *)
(* again with a hash in every answer.                                      *)
BranchesAsRead ==
    [][\A t \in Brancher :
         LET call == brancher[t].call
             old == IF call.name \in DOMAIN branches THEN Range(branches[call.name]) ELSE {}
         IN  ~omitted /\ Send(t) /\ call.op \in {"create", "merge"} /\ branches' # branches =>
               Range(branches'[call.name]) = old \cup Range(headRead[t])]_branchVars

(* The expected hashes do what they are sent for: no commit is lost that   *)
(* nobody saw, and none taken over that was not read.                      *)
BranchesSafe == [](BranchTypeOK /\ UnseenCommitsStay) /\ BranchesAsRead
=============================================================================
