---------------------------- MODULE OccCatalogProofs ----------------------------
(***************************************************************************)
(* Proofs about OccCatalog, for any number of clients, requests and        *)
(* retries and for both guards: what callers are told is true, and the     *)
(* commit protocol implements TableLog as long as reads of manifest lists  *)
(* do not fail.                                                            *)
(*                                                                         *)
(* IInv holds whatever reads fail; StoreInv, which the refinement needs,   *)
(* only while none does.  Three kinds of steps matter: those that change   *)
(* no metadata, create_table, and the publication of a call's request.     *)
(***************************************************************************)
EXTENDS OccCatalog, TLAPS

(* The id of a call is its own, is in no metadata yet, and has no outcome. *)
Active(c) == pc[c] # "idle"

CallsInv ==
  \A c \in Client : Active(c) =>
    /\ req[c].op \in Op
    /\ req[c].id \in used
    /\ outcome[req[c].id] = "none"
    /\ \A k \in DOMAIN metadata : ~InTable(req[c].id, metadata[k])
    /\ \A d \in Client : Active(d) /\ d # c => req[d].id # req[c].id
    /\ pc[c] # "load" => base[c] \in DOMAIN metadata
    /\ pc[c] \in {"manifest", "list"} => req[c].op # "evolve"

TableInv ==
  /\ \A id \in Id \ used :
       outcome[id] = "none" /\ \A k \in DOMAIN metadata : ~InTable(id, metadata[k])
  /\ OutcomesTruthful

(* Metadata with the same last snapshot have the same snapshots.           *)
SameHead ==
  \A j, k \in DOMAIN metadata :
    LastSnapshot(metadata[j]) = LastSnapshot(metadata[k]) =>
      metadata[j].snapshots = metadata[k].snapshots

IInv == TypeOK /\ CallsInv /\ TableInv /\ SameHead

USE OccAssumption

LEMMA RequestType ==
  ASSUME TypeOK, NEW c \in Client
  PROVE  /\ req[c].op \in Op \cup {"none"}
         /\ req[c].id \in Id \cup {NoId}
         /\ req[c].files \in SUBSET Id
         /\ req[c].deletes \in SUBSET Id
BY DEF TypeOK, Request

LEMMA MetaType ==
  ASSUME TypeOK, NEW k \in DOMAIN metadata
  PROVE  /\ metadata[k].snapshots \in Seq(Id)
         /\ metadata[k].evolutions \in Seq(Id)
         /\ metadata[k] = [snapshots |-> metadata[k].snapshots,
                           evolutions |-> metadata[k].evolutions]
<1>1. metadata[k] \in Meta
  BY DEF TypeOK
<1> QED
  BY <1>1 DEF Meta

LEMMA ReturnType ==
  ASSUME TypeOK, NEW c \in Client, Active(c), CallsInv,
         NEW a \in {"ok", "unknown", "conflict", "not_found"}, Return(c, a)
  PROVE  /\ pc' \in [Client -> {"idle", "load", "manifest", "list", "swap"}]
         /\ req' \in [Client -> Request]
         /\ base' \in [Client -> Nat]
         /\ attempt' \in [Client -> Nat]
         /\ outcome' \in [Id -> {"none", "ok", "unknown", "conflict", "not_found"}]
<1>1. NoRequest \in Request
  BY DEF NoRequest, Request
<1> QED
  BY Zenon, <1>1 DEF Return, Goto, TypeOK

LEMMA StampedType ==
  ASSUME NEW paths \in SUBSET Id, NEW n \in Nat
  PROVE  Stamped(paths, n) \in SUBSET Entry
BY DEF Stamped, Entry

(* Under the guard, the metadata that a swap starts from is the current    *)
(* one, and it has the snapshots that the client has read.                 *)
LEMMA GuardedBase ==
  ASSUME TypeOK, CallsInv, SameHead, NEW c \in Client, pc[c] = "swap", Unchanged(c)
  PROVE  /\ pointer \in DOMAIN metadata
         /\ base[c] \in DOMAIN metadata
         /\ metadata[IF Guard = "location" THEN base[c] ELSE pointer] = metadata[pointer]
         /\ req[c].op # "evolve" => metadata[pointer].snapshots = metadata[base[c]].snapshots
<1>1. pointer \in DOMAIN metadata
  BY DEF TypeOK, Unchanged
<1>2. base[c] \in DOMAIN metadata
  BY DEF CallsInv, Active
<1>3. metadata[IF Guard = "location" THEN base[c] ELSE pointer] = metadata[pointer]
  BY DEF Unchanged
<1>4. ASSUME req[c].op # "evolve"
      PROVE  metadata[pointer].snapshots = metadata[base[c]].snapshots
  <2>1. CASE Guard = "location"
    BY <2>1 DEF Unchanged
  <2>2. CASE Guard = "refs"
    BY <1>1, <1>2, <1>4, <2>2 DEF Unchanged, SameHead
  <2> QED
    BY <2>1, <2>2
<1> QED
  BY <1>1, <1>2, <1>3, <1>4

--------------------------------------------------------------------------------
(* The new metadata of a swap.                                             *)
LEMMA AppliedMeta ==
  ASSUME TypeOK, NEW c \in Client, NEW m \in Meta, req[c].id \in Id
  PROVE  /\ Applied(c, m) \in Meta
         /\ req[c].op = "evolve" =>
              /\ Applied(c, m).snapshots = m.snapshots
              /\ Applied(c, m).evolutions = Append(m.evolutions, req[c].id)
         /\ req[c].op # "evolve" =>
              /\ Applied(c, m).snapshots = Append(m.snapshots, req[c].id)
              /\ Applied(c, m).evolutions = m.evolutions
<1>1. m.snapshots \in Seq(Id) /\ m.evolutions \in Seq(Id)
  BY DEF Meta
<1>2. Append(m.snapshots, req[c].id) \in Seq(Id) /\ Append(m.evolutions, req[c].id) \in Seq(Id)
  BY <1>1
<1> QED
  BY Zenon, <1>1, <1>2 DEF Applied, Meta

(* What a publishing step does to pointer and metadata.                    *)
LEMMA PublishStep ==
  ASSUME TypeOK, CallsInv, SameHead, NEW c \in Client, Publish(c)
  PROVE  /\ pointer \in DOMAIN metadata
         /\ Active(c) /\ req[c].id \in Id
         /\ pointer' = Len(metadata) + 1
         /\ metadata' = Append(metadata, Applied(c, metadata[pointer]))
         /\ metadata' \in Seq(Meta)
         /\ Applied(c, metadata[pointer]) \in Meta
         /\ metadata[pointer] \in Meta
         /\ manifest' = manifest /\ manifest_list' = manifest_list
         /\ used' = used /\ readFaults' = readFaults
<1>1. pc[c] = "swap" /\ Active(c) /\ Unchanged(c)
  BY DEF Publish, Active
<1>2. req[c].id \in Id
  BY <1>1 DEF CallsInv, TypeOK
<1>3. /\ pointer \in DOMAIN metadata
      /\ metadata[IF Guard = "location" THEN base[c] ELSE pointer] = metadata[pointer]
  BY <1>1, GuardedBase
<1>4. metadata[pointer] \in Meta
  BY <1>3 DEF TypeOK
<1>5. Applied(c, metadata[pointer]) \in Meta
  BY <1>2, <1>4, AppliedMeta
<1>6. metadata' = Append(metadata, Applied(c, metadata[pointer]))
  BY <1>3 DEF Publish, put_metadata
<1>7. metadata' \in Seq(Meta)
  BY <1>5, <1>6 DEF TypeOK
<1> QED
  BY <1>1, <1>2, <1>3, <1>4, <1>5, <1>6, <1>7 DEF Publish, store

(* Every step keeps the types.                                             *)
LEMMA TypeStep == IInv /\ [Next]_vars => TypeOK'
<1> SUFFICES ASSUME IInv, [Next]_vars PROVE TypeOK'
  OBVIOUS
<1>0. TypeOK /\ CallsInv /\ SameHead
  BY DEF IInv
<1>1. CASE create_table
  <2>1. [snapshots |-> <<>>, evolutions |-> <<>>] \in Meta
    BY DEF Meta
  <2> QED
    BY <1>0, <1>1, <2>1 DEF create_table, TypeOK, store
<1>2. CASE drop_table
  BY <1>0, <1>2 DEF drop_table, TypeOK, store
<1>3. ASSUME NEW c \in Client, Begin(c) PROVE TypeOK'
  <2>1. PICK op \in Op, id \in Id \ used, kept \in SUBSET ListedPaths :
          /\ used' = used \cup {id}
          /\ req' = [req EXCEPT ![c] =
                    [op |-> op, id |-> id,
                     files |-> IF op \in {"delete", "evolve"} THEN {} ELSE kept \cup {id},
                     deletes |-> IF op = "delete" THEN {id} ELSE {}]]
    BY Zenon, <1>3 DEF Begin
  <2>2. ListedPaths \in SUBSET Id
    <3> SUFFICES ASSUME Snapshots # <<>>
                 PROVE  {e.path : e \in list_files(Snapshots[Len(Snapshots)])} \in SUBSET Id
      BY DEF ListedPaths
    <3>1. pointer \in DOMAIN metadata /\ Snapshots = metadata[pointer].snapshots
      BY <1>0 DEF Snapshots, TypeOK
    <3>2. Snapshots[Len(Snapshots)] \in Id
      BY <1>0, <3>1, MetaType
    <3>3. manifest_list[Snapshots[Len(Snapshots)]] \in SUBSET Id
      BY <1>0, <3>2 DEF TypeOK
    <3>4. \A m \in Id : manifest[m].files \in SUBSET Entry
      BY <1>0 DEF TypeOK, Manifest
    <3>5. list_files(Snapshots[Len(Snapshots)]) \in SUBSET Entry
      BY <3>3, <3>4 DEF list_files
    <3> QED
      BY <3>5 DEF Entry
  <2>3. req' \in [Client -> Request]
    BY <1>0, <2>1, <2>2 DEF TypeOK, Request
  <2> QED
    BY <1>0, <1>3, <2>1, <2>3 DEF Begin, TypeOK, store, Goto
<1>4. ASSUME NEW c \in Client, Load(c) PROVE TypeOK'
  <2>0. Active(c)
    BY <1>4 DEF Load, Active
  <2>1. CASE pointer = 0
    <3>1. Return(c, "not_found") /\ UNCHANGED <<pointer, metadata, store, used, readFaults>>
      BY <1>4, <2>1 DEF Load
    <3> QED
      BY <1>0, <2>0, <3>1, ReturnType DEF TypeOK, store
  <2>2. CASE pointer # 0
    <3>1. /\ base' = [base EXCEPT ![c] = pointer]
          /\ Goto(c, IF req[c].op = "evolve" THEN "swap" ELSE "manifest")
          /\ UNCHANGED <<pointer, metadata, store, req, attempt, outcome, used, readFaults>>
      BY <1>4, <2>2 DEF Load
    <3>2. pc' \in [Client -> {"idle", "load", "manifest", "list", "swap"}]
      BY <1>0, <3>1 DEF Goto, TypeOK
    <3>3. base' \in [Client -> Nat]
      BY <1>0, <3>1 DEF TypeOK
    <3> QED
      BY <1>0, <3>1, <3>2, <3>3 DEF TypeOK, store
  <2> QED
    BY <2>1, <2>2
<1>5. ASSUME NEW c \in Client, PutManifest(c) PROVE TypeOK'
  <2>1. base[c] \in DOMAIN metadata /\ req[c].id \in Id
    BY <1>0, <1>5 DEF PutManifest, CallsInv, Active, TypeOK
  <2>2. seq(c) \in Nat
    BY <1>0, <2>1, MetaType DEF seq
  <2>3. [files |-> Stamped(req[c].files, seq(c)),
         deletes |-> Stamped(req[c].deletes, seq(c))] \in Manifest
    BY <1>0, <2>2, RequestType, StampedType DEF Manifest
  <2> QED
    BY <1>0, <1>5, <2>1, <2>3 DEF PutManifest, TypeOK, Goto
<1>6. ASSUME NEW c \in Client, PutManifestList(c) PROVE TypeOK'
  <2>1. base[c] \in DOMAIN metadata /\ req[c].id \in Id
    BY Zenon, <1>0, <1>6 DEF PutManifestList, CallsInv, Active, TypeOK
  <2>2. previous_manifests(c) \in SUBSET Id
    <3>1. metadata[base[c]].snapshots \in Seq(Id)
      BY <1>0, <2>1, MetaType
    <3> QED
      BY <1>0, <3>1 DEF previous_manifests, TypeOK
  <2>a. previous_manifests(c) \cup {req[c].id} \in SUBSET Id /\ {req[c].id} \in SUBSET Id
    BY <2>1, <2>2
  <2>b. PICK x \in SUBSET Id : manifest_list' = [manifest_list EXCEPT ![req[c].id] = x]
    BY <1>6, <2>a DEF PutManifestList
  <2>3. manifest_list' \in [Id -> SUBSET Id]
    BY Zenon, <1>0, <2>b DEF TypeOK
  <2>4. readFaults' \in Nat
    BY <1>0, <1>6 DEF PutManifestList, TypeOK
  <2> QED
    BY <1>0, <1>6, <2>3, <2>4 DEF PutManifestList, TypeOK, Goto
<1>7. ASSUME NEW c \in Client, Publish(c), NEW a \in {"ok", "unknown"}, Return(c, a)
      PROVE  TypeOK'
  <2>1. Active(c) /\ metadata' \in Seq(Meta) /\ pointer' = Len(metadata) + 1
        /\ Len(metadata') = Len(metadata) + 1 /\ Len(metadata) \in Nat
        /\ manifest' = manifest /\ manifest_list' = manifest_list
        /\ used' = used /\ readFaults' = readFaults
    BY <1>0, <1>7, PublishStep DEF TypeOK
  <2> QED
    BY <1>0, <1>7, <2>1, ReturnType DEF TypeOK
<1>8. ASSUME NEW c \in Client, Conflict(c) PROVE TypeOK'
  <2>0. Active(c) /\ AfterConflict(c)
        /\ UNCHANGED <<pointer, metadata, store, used, readFaults>>
    BY <1>8 DEF Conflict, Active
  <2>1. CASE Retry(c)
    BY <1>0, <2>0, <2>1 DEF Retry, TypeOK, store, Goto
  <2>2. CASE Return(c, "conflict")
    BY <1>0, <2>0, <2>2, ReturnType DEF TypeOK, store
  <2> QED
    BY <2>0, <2>1, <2>2 DEF AfterConflict
<1>9. ASSUME NEW c \in Client, Fail(c) PROVE TypeOK'
  <2>1. Active(c) /\ Return(c, "unknown")
        /\ UNCHANGED <<pointer, metadata, store, used, readFaults>>
    BY <1>9 DEF Fail, Active
  <2> QED
    BY <1>0, <2>1, ReturnType DEF TypeOK, store
<1>10. CASE UNCHANGED vars
  BY <1>0, <1>10 DEF vars, TypeOK
<1> QED
  BY <1>1, <1>2, <1>3, <1>4, <1>5, <1>6, <1>7, <1>8, <1>9, <1>10
     DEF Next, Step, Swap, SwapUnacknowledged

--------------------------------------------------------------------------------
LEMMA AppendedMetadata ==
  ASSUME TypeOK, NEW m \in Meta, metadata' = Append(metadata, m)
  PROVE  /\ DOMAIN metadata' = DOMAIN metadata \cup {Len(metadata) + 1}
         /\ \A k \in DOMAIN metadata : metadata'[k] = metadata[k]
         /\ metadata'[Len(metadata) + 1] = m
         /\ Len(metadata) + 1 \notin DOMAIN metadata
BY DEF TypeOK

LEMMA AppendedElements ==
  ASSUME NEW S, NEW s \in Seq(S), NEW e \in S, NEW x
  PROVE  (\E i \in DOMAIN Append(s, e) : Append(s, e)[i] = x)
           <=> (\E i \in DOMAIN s : s[i] = x) \/ x = e
<1>1. /\ DOMAIN Append(s, e) = DOMAIN s \cup {Len(s) + 1}
      /\ \A i \in DOMAIN s : Append(s, e)[i] = s[i]
      /\ Append(s, e)[Len(s) + 1] = e
      /\ Len(s) + 1 \notin DOMAIN s
  OBVIOUS
<1> QED
  BY <1>1

LEMMA AppendedDistinct ==
  ASSUME NEW S, NEW s \in Seq(S), NEW e \in S,
         \A i, j \in DOMAIN s : s[i] = s[j] => i = j,
         \A i \in DOMAIN s : s[i] # e
  PROVE  \A i, j \in DOMAIN Append(s, e) : Append(s, e)[i] = Append(s, e)[j] => i = j
<1>1. /\ DOMAIN Append(s, e) = DOMAIN s \cup {Len(s) + 1}
      /\ \A i \in DOMAIN s : Append(s, e)[i] = s[i]
      /\ Append(s, e)[Len(s) + 1] = e
  OBVIOUS
<1> QED
  BY <1>1

LEMMA AppliedTable ==
  ASSUME TypeOK, NEW c \in Client, NEW m \in Meta, req[c].id \in Id, NEW id
  PROVE  InTable(id, Applied(c, m)) <=> InTable(id, m) \/ id = req[c].id
<1>1. m.snapshots \in Seq(Id) /\ m.evolutions \in Seq(Id)
  BY DEF Meta
<1>2. CASE req[c].op = "evolve"
  <2>1. /\ Applied(c, m).snapshots = m.snapshots
        /\ Applied(c, m).evolutions = Append(m.evolutions, req[c].id)
    BY <1>2, AppliedMeta
  <2> QED
    BY <1>1, <2>1, AppendedElements DEF InTable
<1>3. CASE req[c].op # "evolve"
  <2>1. /\ Applied(c, m).snapshots = Append(m.snapshots, req[c].id)
        /\ Applied(c, m).evolutions = m.evolutions
    BY <1>3, AppliedMeta
  <2> QED
    BY <1>1, <2>1, AppendedElements DEF InTable
<1> QED
  BY <1>2, <1>3

LEMMA EmptyTable ==
  LET m == [snapshots |-> <<>>, evolutions |-> <<>>]
  IN  m \in Meta /\ \A id : ~InTable(id, m)
BY DEF Meta, InTable

(* The ids of calls stay apart, and out of the tables.                     *)
LEMMA CallsStep == IInv /\ [Next]_vars => CallsInv'
<1> SUFFICES ASSUME IInv, [Next]_vars PROVE CallsInv'
  OBVIOUS
<1>0. TypeOK /\ CallsInv /\ TableInv /\ SameHead
  BY DEF IInv
<1>a. ASSUME NEW c \in Client, Active(c), NEW a, Return(c, a),
             metadata' = metadata, used' = used
      PROVE  CallsInv'
  BY <1>0, <1>a DEF CallsInv, Active, Return, Goto, TypeOK
<1>1. CASE create_table
  <2>1. \A k \in DOMAIN metadata' : k \in DOMAIN metadata \/ \A id : ~InTable(id, metadata'[k])
    BY <1>0, <1>1, EmptyTable, AppendedMetadata DEF create_table
  <2>2. \A k \in DOMAIN metadata : k \in DOMAIN metadata' /\ metadata'[k] = metadata[k]
    BY <1>0, <1>1, EmptyTable, AppendedMetadata DEF create_table
  <2> QED
    BY ZenonT(40), <1>0, <1>1, <2>1, <2>2 DEF create_table, CallsInv, Active
<1>2. CASE drop_table
  BY <1>0, <1>2 DEF drop_table, CallsInv, Active
<1>3. ASSUME NEW c \in Client, Begin(c) PROVE CallsInv'
  <2>1. PICK op \in Op, id \in Id \ used :
          /\ used' = used \cup {id}
          /\ req'[c].op = op /\ req'[c].id = id
          /\ \A d \in Client : d # c => req'[d] = req[d]
    BY <1>0, <1>3 DEF Begin, TypeOK
  <2>2. /\ pc'[c] = "load"
        /\ \A d \in Client : d # c => pc'[d] = pc[d]
        /\ UNCHANGED <<metadata, base, outcome>>
    BY <1>0, <1>3 DEF Begin, Goto, TypeOK
  <2>3. outcome[id] = "none" /\ \A k \in DOMAIN metadata : ~InTable(id, metadata[k])
    BY <1>0 DEF TableInv
  <2> QED
    BY <1>0, <2>1, <2>2, <2>3 DEF CallsInv, Active
<1>4. ASSUME NEW c \in Client, Load(c) PROVE CallsInv'
  <2>0. Active(c)
    BY <1>4 DEF Load, Active
  <2>1. CASE pointer = 0
    BY <1>4, <1>a, <2>0, <2>1 DEF Load
  <2>2. CASE pointer # 0
    <3>1. pointer \in DOMAIN metadata
      BY <1>0, <2>2 DEF TypeOK
    <3> QED
      BY <1>0, <1>4, <2>0, <2>2, <3>1 DEF Load, TypeOK, Goto, CallsInv, Active
  <2> QED
    BY <2>1, <2>2
<1>5. ASSUME NEW c \in Client, PutManifest(c) PROVE CallsInv'
  BY <1>0, <1>5 DEF PutManifest, Goto, TypeOK, CallsInv, Active
<1>6. ASSUME NEW c \in Client, PutManifestList(c) PROVE CallsInv'
  BY <1>0, <1>6 DEF PutManifestList, Goto, TypeOK, CallsInv, Active
<1>7. ASSUME NEW c \in Client, Publish(c), NEW a, Return(c, a) PROVE CallsInv'
  <2>1. /\ Active(c) /\ req[c].id \in Id
        /\ metadata' = Append(metadata, Applied(c, metadata[pointer]))
        /\ Applied(c, metadata[pointer]) \in Meta
        /\ metadata[pointer] \in Meta /\ pointer \in DOMAIN metadata
        /\ used' = used
    BY <1>0, <1>7, PublishStep
  <2>2. \A id : (\A k \in DOMAIN metadata : ~InTable(id, metadata[k])) /\ id # req[c].id
                => \A k \in DOMAIN metadata' : ~InTable(id, metadata'[k])
    BY <1>0, <2>1, AppendedMetadata, AppliedTable
  <2>3. DOMAIN metadata \subseteq DOMAIN metadata'
    BY <1>0, <2>1, AppendedMetadata
  <2>4. \A d \in Client : Active(d)' => d # c /\ Active(d) /\ pc'[d] = pc[d]
                           /\ req'[d] = req[d] /\ base'[d] = base[d]
    BY <1>0, <1>7 DEF Return, Goto, Active, TypeOK
  <2>5. \A id : id # req[c].id => outcome'[id] = outcome[id]
    BY <1>0, <1>7 DEF Return, TypeOK
  <2> QED
    <3> SUFFICES ASSUME NEW d \in Client, Active(d)'
                 PROVE  /\ req'[d].op \in Op
                        /\ req'[d].id \in used'
                        /\ outcome'[req'[d].id] = "none"
                        /\ \A k \in DOMAIN metadata' : ~InTable(req'[d].id, metadata'[k])
                        /\ \A e \in Client : Active(e)' /\ e # d => req'[e].id # req'[d].id
                        /\ pc'[d] # "load" => base'[d] \in DOMAIN metadata'
                        /\ pc'[d] \in {"manifest", "list"} => req'[d].op # "evolve"
      BY DEF CallsInv, InTable
    <3>1. d # c /\ Active(d) /\ pc'[d] = pc[d] /\ req'[d] = req[d] /\ base'[d] = base[d]
      BY <2>4
    <3>2. /\ req[d].op \in Op /\ req[d].id \in used /\ outcome[req[d].id] = "none"
          /\ \A k \in DOMAIN metadata : ~InTable(req[d].id, metadata[k])
          /\ req[d].id # req[c].id
          /\ pc[d] # "load" => base[d] \in DOMAIN metadata
          /\ pc[d] \in {"manifest", "list"} => req[d].op # "evolve"
      BY <1>0, <2>1, <3>1 DEF CallsInv
    <3>3. \A e \in Client : Active(e)' /\ e # d => req'[e].id # req'[d].id
      BY <1>0, <2>4, <3>1 DEF CallsInv
    <3> QED
      BY ZenonT(40), <2>1, <2>2, <2>3, <2>5, <3>1, <3>2, <3>3
<1>8. ASSUME NEW c \in Client, Conflict(c) PROVE CallsInv'
  <2>1. CASE Retry(c)
    BY <1>0, <1>8, <2>1 DEF Conflict, Retry, Goto, TypeOK, CallsInv, Active
  <2>2. CASE Return(c, "conflict")
    BY <1>8, <1>a, <2>2 DEF Conflict, Active
  <2> QED
    BY <1>8, <2>1, <2>2 DEF Conflict, AfterConflict
<1>9. ASSUME NEW c \in Client, Fail(c) PROVE CallsInv'
  BY <1>9, <1>a DEF Fail, Active
<1>10. CASE UNCHANGED vars
  BY <1>0, <1>10 DEF vars, CallsInv, Active
<1> QED
  BY <1>1, <1>2, <1>3, <1>4, <1>5, <1>6, <1>7, <1>8, <1>9, <1>10
     DEF Next, Step, Swap, SwapUnacknowledged

--------------------------------------------------------------------------------
(* Every step either leaves the metadata alone, creates an empty table, or *)
(* publishes the request of an active call.                                *)
LEMMA MetadataSteps ==
  ASSUME IInv, [Next]_vars
  PROVE  \/ UNCHANGED metadata
         \/ create_table
         \/ \E c \in Client, a \in {"ok", "unknown"} : Publish(c) /\ Return(c, a)
BY Zenon DEF Next, vars, drop_table, Begin, Step, Load, PutManifest, PutManifestList, Swap,
       SwapUnacknowledged, Conflict, Fail

(* Ok follows a publication, and "conflict" or "not found" ends a call     *)
(* whose id is in no table.                                                *)
LEMMA OutcomeSteps ==
  ASSUME IInv, [Next]_vars
  PROVE  \/ UNCHANGED outcome
         \/ \E c \in Client, a \in {"unknown", "conflict", "not_found"} :
              Active(c) /\ Return(c, a) /\ UNCHANGED <<metadata, used>>
         \/ \E c \in Client, a \in {"ok", "unknown"} : Publish(c) /\ Return(c, a)
<1>1. CASE create_table \/ drop_table \/ UNCHANGED vars
  BY <1>1 DEF create_table, drop_table, vars
<1>2. ASSUME NEW c \in Client, Begin(c) \/ PutManifest(c) \/ PutManifestList(c)
      PROVE  UNCHANGED outcome
  BY <1>2 DEF Begin, PutManifest, PutManifestList
<1>3. ASSUME NEW c \in Client, Load(c)
      PROVE  UNCHANGED outcome \/ (Active(c) /\ Return(c, "not_found") /\ UNCHANGED <<metadata, used>>)
  BY <1>3 DEF Load, Active
<1>4. ASSUME NEW c \in Client, Conflict(c)
      PROVE  UNCHANGED outcome \/ (Active(c) /\ Return(c, "conflict") /\ UNCHANGED <<metadata, used>>)
  BY <1>4 DEF Conflict, AfterConflict, Retry, Active
<1>5. ASSUME NEW c \in Client, Fail(c)
      PROVE  Active(c) /\ Return(c, "unknown") /\ UNCHANGED <<metadata, used>>
  BY <1>5 DEF Fail, Active
<1> QED
  BY <1>1, <1>2, <1>3, <1>4, <1>5 DEF Next, Step, Swap, SwapUnacknowledged

LEMMA UsedGrows == ASSUME IInv, [Next]_vars PROVE used \subseteq used'
BY Zenon DEF Next, vars, create_table, drop_table, Begin, Step, Load, PutManifest,
       PutManifestList, Swap, SwapUnacknowledged, Publish, Conflict, Fail

(* The answers given stay true.                                            *)
LEMMA TableStep == IInv /\ [Next]_vars => TableInv'
<1> SUFFICES ASSUME IInv, [Next]_vars PROVE TableInv'
  OBVIOUS
<1>0. TypeOK /\ CallsInv /\ TableInv /\ SameHead
  BY DEF IInv
<1>u. used \subseteq used'
  BY UsedGrows
<1>1. CASE create_table
  <2> DEFINE m == [snapshots |-> <<>>, evolutions |-> <<>>]
  <2>1. /\ DOMAIN metadata' = DOMAIN metadata \cup {Len(metadata) + 1}
        /\ \A k \in DOMAIN metadata : metadata'[k] = metadata[k]
        /\ metadata'[Len(metadata) + 1] = m
    BY <1>0, <1>1, EmptyTable, AppendedMetadata DEF create_table
  <2>2. \A id : ~InTable(id, m)
    BY EmptyTable
  <2>3. m.snapshots = <<>>
    OBVIOUS
  <2>4. UNCHANGED <<outcome, used>>
    BY <1>1 DEF create_table
  <2> HIDE DEF m
  <2>5. \A id : (\E k \in DOMAIN metadata' : InTable(id, metadata'[k]))
                  <=> (\E k \in DOMAIN metadata : InTable(id, metadata[k]))
    BY <2>1, <2>2
  <2>6. \A k \in DOMAIN metadata' : \A i, j \in DOMAIN metadata'[k].snapshots :
          metadata'[k].snapshots[i] = metadata'[k].snapshots[j] => i = j
    BY <1>0, <2>1, <2>3 DEF TableInv, OutcomesTruthful
  <2> QED
    BY <1>0, <2>4, <2>5, <2>6 DEF TableInv, OutcomesTruthful, InTable
<1>2. ASSUME NEW c \in Client, NEW a \in {"unknown", "conflict", "not_found"},
             Active(c), Return(c, a), UNCHANGED <<metadata, used>>
      PROVE  TableInv'
  <2>1. req[c].id \in used /\ \A k \in DOMAIN metadata : ~InTable(req[c].id, metadata[k])
    BY <1>0, <1>2 DEF CallsInv
  <2>2. outcome' = [outcome EXCEPT ![req[c].id] = a]
    BY <1>2 DEF Return
  <2> QED
    BY <1>0, <1>2, <2>1, <2>2 DEF TableInv, OutcomesTruthful, TypeOK
<1>3. ASSUME NEW c \in Client, NEW a \in {"ok", "unknown"}, Publish(c), Return(c, a)
      PROVE  TableInv'
  <2> DEFINE m == metadata[pointer]
             n == Applied(c, metadata[pointer])
  <2>1. /\ Active(c) /\ req[c].id \in Id
        /\ metadata' = Append(metadata, n)
        /\ n \in Meta /\ m \in Meta /\ pointer \in DOMAIN metadata
        /\ used' = used
    BY <1>0, <1>3, PublishStep
  <2>2. /\ DOMAIN metadata' = DOMAIN metadata \cup {Len(metadata) + 1}
        /\ \A k \in DOMAIN metadata : metadata'[k] = metadata[k]
        /\ metadata'[Len(metadata) + 1] = n
    BY <1>0, <2>1, AppendedMetadata
  <2>3. \A id : InTable(id, n) <=> InTable(id, m) \/ id = req[c].id
    BY <1>0, <2>1, AppliedTable
  <2>4. outcome' = [outcome EXCEPT ![req[c].id] = a]
    BY <1>3 DEF Return
  <2>5. req[c].id \in used /\ \A k \in DOMAIN metadata : ~InTable(req[c].id, metadata[k])
    BY <1>0, <2>1 DEF CallsInv
  <2>6. \A id : (\E k \in DOMAIN metadata' : InTable(id, metadata'[k]))
                  <=> (\E k \in DOMAIN metadata : InTable(id, metadata[k])) \/ id = req[c].id
    BY <2>1, <2>2, <2>3
  <2>7. \A i, j \in DOMAIN n.snapshots : n.snapshots[i] = n.snapshots[j] => i = j
    <3>1. \A i, j \in DOMAIN m.snapshots : m.snapshots[i] = m.snapshots[j] => i = j
      BY <1>0, <2>1 DEF TableInv, OutcomesTruthful
    <3>2. \A i \in DOMAIN m.snapshots : m.snapshots[i] # req[c].id
      BY <2>1, <2>5 DEF InTable
    <3>3. m.snapshots \in Seq(Id)
      BY <2>1 DEF Meta
    <3>4. n.snapshots = m.snapshots \/ n.snapshots = Append(m.snapshots, req[c].id)
      BY <1>0, <2>1, AppliedMeta
    <3> HIDE DEF m, n
    <3>5. CASE n.snapshots = m.snapshots
      BY <3>1, <3>5
    <3>6. CASE n.snapshots = Append(m.snapshots, req[c].id)
      BY <2>1, <3>1, <3>2, <3>3, <3>6, AppendedDistinct
    <3> QED
      BY <3>4, <3>5, <3>6
  <2>8. \A k \in DOMAIN metadata' : \A i, j \in DOMAIN metadata'[k].snapshots :
          metadata'[k].snapshots[i] = metadata'[k].snapshots[j] => i = j
    BY <1>0, <2>2, <2>7 DEF TableInv, OutcomesTruthful
  <2>9. \A id \in Id : outcome'[id] = IF id = req[c].id THEN a ELSE outcome[id]
    BY <1>0, <2>4 DEF TypeOK
  <2>10. /\ \A id \in Id \ used' : outcome'[id] = "none"
                 /\ \A k \in DOMAIN metadata' : ~InTable(id, metadata'[k])
         /\ \A id \in Id :
              /\ outcome'[id] = "ok" => \E k \in DOMAIN metadata' : InTable(id, metadata'[k])
              /\ outcome'[id] \in {"conflict", "not_found"} =>
                   \A k \in DOMAIN metadata' : ~InTable(id, metadata'[k])
    <3> HIDE DEF m, n
    <3> QED
      BY <1>0, <1>3, <2>1, <2>5, <2>6, <2>9 DEF TableInv, OutcomesTruthful
  <2> QED
    BY <2>8, <2>10 DEF TableInv, OutcomesTruthful, InTable
<1>4. CASE UNCHANGED <<metadata, outcome>>
  BY <1>0, <1>u, <1>4 DEF TableInv, OutcomesTruthful, InTable
<1> QED
  BY <1>1, <1>2, <1>3, <1>4, MetadataSteps, OutcomeSteps

(* A commit brings a last snapshot that no other metadata has.             *)
LEMMA SameHeadStep == IInv /\ [Next]_vars => SameHead'
<1> SUFFICES ASSUME IInv, [Next]_vars PROVE SameHead'
  OBVIOUS
<1>0. TypeOK /\ CallsInv /\ TableInv /\ SameHead
  BY DEF IInv
<1>n. \A k \in DOMAIN metadata : LastSnapshot(metadata[k]) = NoId => metadata[k].snapshots = <<>>
  BY <1>0, MetaType DEF LastSnapshot
<1>1. CASE create_table
  <2> DEFINE m == [snapshots |-> <<>>, evolutions |-> <<>>]
  <2>1. /\ DOMAIN metadata' = DOMAIN metadata \cup {Len(metadata) + 1}
        /\ \A k \in DOMAIN metadata : metadata'[k] = metadata[k]
        /\ metadata'[Len(metadata) + 1] = m
    BY <1>0, <1>1, EmptyTable, AppendedMetadata DEF create_table
  <2>2. m.snapshots = <<>> /\ LastSnapshot(m) = NoId
    BY DEF LastSnapshot
  <2> HIDE DEF m
  <2> QED
    BY <1>0, <1>n, <2>1, <2>2 DEF SameHead
<1>2. ASSUME NEW c \in Client, NEW a \in {"ok", "unknown"}, Publish(c), Return(c, a)
      PROVE  SameHead'
  <2> DEFINE m == metadata[pointer]
             n == Applied(c, metadata[pointer])
  <2>1. /\ Active(c) /\ req[c].id \in Id
        /\ metadata' = Append(metadata, n)
        /\ n \in Meta /\ m \in Meta /\ pointer \in DOMAIN metadata
    BY <1>0, <1>2, PublishStep
  <2>2. /\ DOMAIN metadata' = DOMAIN metadata \cup {Len(metadata) + 1}
        /\ \A k \in DOMAIN metadata : metadata'[k] = metadata[k]
        /\ metadata'[Len(metadata) + 1] = n
    BY <1>0, <2>1, AppendedMetadata
  <2>3. \A k \in DOMAIN metadata : LastSnapshot(metadata[k]) = LastSnapshot(n) =>
          metadata[k].snapshots = n.snapshots
    <3>1. CASE req[c].op = "evolve"
      <4>1. n.snapshots = m.snapshots
        BY <1>0, <2>1, <3>1, AppliedMeta
      <4> QED
        BY <1>0, <2>1, <4>1 DEF SameHead, LastSnapshot
    <3>2. CASE req[c].op # "evolve"
      <4>1. n.snapshots = Append(m.snapshots, req[c].id) /\ m.snapshots \in Seq(Id)
        BY Zenon, <1>0, <2>1, <3>2, AppliedMeta DEF Meta
      <4>2. LastSnapshot(n) = req[c].id
        BY <2>1, <4>1 DEF LastSnapshot
      <4>3. \A k \in DOMAIN metadata : LastSnapshot(metadata[k]) # req[c].id
        <5> SUFFICES ASSUME NEW k \in DOMAIN metadata, LastSnapshot(metadata[k]) = req[c].id
                     PROVE  FALSE
          OBVIOUS
        <5>1. metadata[k].snapshots \in Seq(Id) /\ metadata[k].snapshots # <<>>
              /\ metadata[k].snapshots[Len(metadata[k].snapshots)] = req[c].id
          BY <1>0, <2>1, MetaType DEF LastSnapshot
        <5>2. Len(metadata[k].snapshots) \in DOMAIN metadata[k].snapshots
          BY <5>1
        <5> QED
          BY <1>0, <2>1, <5>1, <5>2 DEF CallsInv, InTable
      <4> QED
        BY <4>2, <4>3
    <3> QED
      BY <3>1, <3>2
  <2> HIDE DEF n
  <2> QED
    BY <1>0, <2>2, <2>3 DEF SameHead
<1>3. CASE UNCHANGED metadata
  BY <1>0, <1>3 DEF SameHead, LastSnapshot
<1> QED
  BY <1>1, <1>2, <1>3, MetadataSteps

--------------------------------------------------------------------------------
(* The protocol keeps IInv, whatever reads fail.                           *)
THEOREM ProtocolInductive == Spec => []IInv
<1>1. Init => IInv
  <2> SUFFICES ASSUME Init PROVE IInv
    OBVIOUS
  <2>1. TypeOK
    <3>1. NoRequest \in Request /\ NoEntries \in Manifest
      BY DEF NoRequest, Request, NoEntries, Manifest
    <3> QED
      BY <3>1 DEF Init, TypeOK
  <2>2. \A c \in Client : ~Active(c)
    BY Zenon DEF Init, Active
  <2>3. DOMAIN metadata = {}
    BY DEF Init
  <2> QED
    BY <2>1, <2>2, <2>3 DEF Init, IInv, CallsInv, TableInv, OutcomesTruthful, SameHead
<1>2. IInv /\ [Next]_vars => IInv'
  BY TypeStep, CallsStep, TableStep, SameHeadStep DEF IInv
<1> QED
  BY <1>1, <1>2, PTL DEF Spec

(* The catalog's records and every call in progress are well formed.       *)
THEOREM CatalogTypes == Spec => []TypeOK
<1>1. IInv => TypeOK
  BY DEF IInv
<1> QED
  BY <1>1, ProtocolInductive, PTL

(* commit_snapshot and evolve_schema answer truthfully: Ok means that the  *)
(* request is in the table's metadata, "retries exhausted" and "not found" *)
(* that it never got there, and no retry puts a snapshot in twice.         *)
THEOREM AnswersTruthful == Spec => []OutcomesTruthful
<1>1. IInv => OutcomesTruthful
  BY ZenonT(40) DEF IInv, TableInv
<1> QED
  BY <1>1, ProtocolInductive, PTL

--------------------------------------------------------------------------------
(* What the store holds, while no read of a manifest list fails: the       *)
(* manifest and the manifest list of a call that is about to swap are the  *)
(* ones its base calls for, and a published list names published manifests.*)
Published(id) ==
  \E k \in DOMAIN metadata : \E i \in DOMAIN metadata[k].snapshots :
    metadata[k].snapshots[i] = id

ManifestPut(c) ==
  pc[c] \in {"list", "swap"} /\ req[c].op # "evolve" =>
    manifest[req[c].id] = [files |-> Stamped(req[c].files, seq(c)),
                           deletes |-> Stamped(req[c].deletes, seq(c))]

ListPut(c) ==
  pc[c] = "swap" /\ req[c].op # "evolve" =>
    manifest_list[req[c].id] = previous_manifests(c) \cup {req[c].id}

StoreInv ==
  /\ \A c \in Client : ManifestPut(c) /\ ListPut(c)
  /\ \A id \in Id : Published(id) => \A m \in manifest_list[id] : Published(m)

(* A call touches no object of a published snapshot, nor of another call.  *)
LEMMA StoreFrame ==
  ASSUME IInv, [Next]_vars
  PROVE  /\ \A id \in Id : Published(id) =>
              manifest'[id] = manifest[id] /\ manifest_list'[id] = manifest_list[id]
         /\ \A d \in Client : Active(d) /\ pc'[d] = pc[d] /\ req'[d] = req[d] =>
              \/ pc[d] = "load"
              \/ /\ manifest'[req[d].id] = manifest[req[d].id]
                 /\ manifest_list'[req[d].id] = manifest_list[req[d].id]
<1>0. TypeOK /\ CallsInv
  BY Zenon DEF IInv
<1>1. ASSUME NEW c \in Client, PutManifest(c) \/ PutManifestList(c)
      PROVE  /\ Active(c) /\ pc'[c] # pc[c] /\ req[c].id \in Id /\ ~Published(req[c].id)
             /\ \A id \in Id : id # req[c].id =>
                  manifest'[id] = manifest[id] /\ manifest_list'[id] = manifest_list[id]
  <2>1. Active(c) /\ pc'[c] # pc[c]
    BY <1>0, <1>1 DEF PutManifest, PutManifestList, Active, Goto, TypeOK
  <2>2. req[c].id \in Id /\ ~Published(req[c].id)
    BY ZenonT(40), <1>0, <2>1 DEF CallsInv, TypeOK, Published, InTable
  <2>3. \A id \in Id : id # req[c].id =>
                  manifest'[id] = manifest[id] /\ manifest_list'[id] = manifest_list[id]
    BY <1>0, <1>1 DEF PutManifest, PutManifestList, TypeOK
  <2> QED
    BY ZenonT(40), <2>1, <2>2, <2>3
<1>2. CASE \E c \in Client : PutManifest(c) \/ PutManifestList(c)
  <2>1. PICK c \in Client : PutManifest(c) \/ PutManifestList(c)
    BY ZenonT(40), <1>2
  <2>2. \A d \in Client : Active(d) => req[d].id \in Id /\ (d # c => req[d].id # req[c].id)
    BY <1>0, <1>1, <2>1 DEF CallsInv, TypeOK
  <2> QED
    BY <1>1, <2>1, <2>2
<1>3. CASE UNCHANGED <<manifest, manifest_list>>
  BY <1>3
<1> QED
  BY <1>2, <1>3 DEF Next, vars, store, create_table, drop_table, Begin, Step, Load, Swap,
                    SwapUnacknowledged, Publish, Conflict, Fail

LEMMA PublishedGrows ==
  ASSUME IInv, [Next]_vars, NEW id
  PROVE  /\ Published(id) => Published(id)'
         /\ DOMAIN metadata \subseteq DOMAIN metadata'
         /\ \A k \in DOMAIN metadata : metadata'[k] = metadata[k]
<1>0. TypeOK /\ CallsInv /\ SameHead
  BY DEF IInv
<1>1. DOMAIN metadata \subseteq DOMAIN metadata' /\ \A k \in DOMAIN metadata : metadata'[k] = metadata[k]
  <2>1. CASE create_table
    BY <1>0, <2>1, EmptyTable, AppendedMetadata DEF create_table
  <2>2. CASE \E c \in Client : Publish(c)
    BY <1>0, <2>2, PublishStep, AppendedMetadata
  <2> QED
    BY <2>1, <2>2, MetadataSteps
<1> QED
  BY <1>1 DEF Published

(* A call that has loaded and stays where it is has the base it had.       *)
LEMMA CallFrame ==
  ASSUME IInv, [Next]_vars, NEW d \in Client, pc'[d] \in {"list", "swap"}
  PROVE  \/ pc'[d] = pc[d] /\ req'[d] = req[d] /\ base'[d] = base[d]
         \/ PutManifest(d) /\ pc'[d] = "list"
         \/ PutManifestList(d) /\ pc'[d] = "swap"
         \/ Load(d) /\ req'[d] = req[d] /\ req[d].op = "evolve"
<1>0. TypeOK
  BY Zenon DEF IInv
<1> DEFINE Mine(c) == Begin(c) \/ Step(c) \/ Fail(c)
           Same == pc'[d] = pc[d] /\ req'[d] = req[d] /\ base'[d] = base[d]
<1>1. ASSUME NEW c \in Client, Mine(c), c # d PROVE Same
  BY ZenonT(40), <1>0, <1>1 DEF TypeOK, Begin, Step, Load, PutManifest, PutManifestList, Swap, SwapUnacknowledged,
                    Publish, Conflict, AfterConflict, Retry, Fail, Return, Goto
<1>2. CASE Mine(d)
  BY ZenonT(40), <1>0, <1>2 DEF TypeOK, Begin, Step, Load, PutManifest, PutManifestList, Swap, SwapUnacknowledged,
                    Publish, Conflict, AfterConflict, Retry, Fail, Return, Goto
<1>3. CASE create_table \/ drop_table \/ UNCHANGED vars
  BY ZenonT(40), <1>3 DEF create_table, drop_table, vars
<1> QED
  BY <1>1, <1>2, <1>3 DEF Next


(* The base of a call, and what it inherits, are fixed once read.          *)
LEMMA BaseFrame ==
  ASSUME IInv, [Next]_vars, NEW d \in Client, Active(d), pc[d] # "load",
         req'[d] = req[d], base'[d] = base[d]
  PROVE  seq(d)' = seq(d) /\ previous_manifests(d)' = previous_manifests(d)
<1>0. TypeOK /\ CallsInv
  BY Zenon DEF IInv
<1>1. base[d] \in DOMAIN metadata /\ metadata'[base[d]] = metadata[base[d]]
  BY ZenonT(40), <1>0, PublishedGrows DEF CallsInv
<1>2. metadata[base[d]].snapshots \in Seq(Id)
  BY <1>0, <1>1, MetaType
<1>3. ASSUME metadata[base[d]].snapshots # <<>>
      PROVE  LET last == metadata[base[d]].snapshots[Len(metadata[base[d]].snapshots)]
             IN  manifest_list'[last] = manifest_list[last]
  <2>1. Len(metadata[base[d]].snapshots) \in DOMAIN metadata[base[d]].snapshots
    BY <1>2, <1>3
  <2> QED
    BY <1>1, <1>2, <2>1, StoreFrame DEF Published
<1> QED
  BY ZenonT(40), <1>1, <1>2, <1>3 DEF seq, previous_manifests

LEMMA StoreStep ==
  ASSUME MaxReadFaults = 0, IInv, StoreInv, [Next]_vars PROVE StoreInv'
<1>0. TypeOK /\ CallsInv /\ SameHead /\ TypeOK'
  BY Zenon, TypeStep DEF IInv
<1>1. ASSUME NEW d \in Client, pc'[d] \in {"list", "swap"}, req'[d].op # "evolve"
      PROVE  ManifestPut(d)' /\ ListPut(d)'
  <2>1. CASE pc'[d] = pc[d] /\ req'[d] = req[d] /\ base'[d] = base[d]
    <3>1. Active(d) /\ pc[d] # "load"
      BY ZenonT(40), <1>1, <2>1 DEF Active
    <3>2. seq(d)' = seq(d) /\ previous_manifests(d)' = previous_manifests(d)
      BY <2>1, <3>1, BaseFrame
    <3>3. manifest'[req[d].id] = manifest[req[d].id] /\ manifest_list'[req[d].id] = manifest_list[req[d].id]
      BY <2>1, <3>1, StoreFrame
    <3>4. ManifestPut(d) /\ ListPut(d)
      BY ZenonT(40) DEF StoreInv
    <3> QED
      BY <2>1, <3>2, <3>3, <3>4, SMTT(30) DEF ManifestPut, ListPut, Stamped
  <2>2. CASE PutManifest(d) /\ pc'[d] = "list"
    <3>1. Active(d) /\ pc[d] # "load" /\ req' = req /\ base' = base
      BY <2>2 DEF PutManifest, Active
    <3>2. seq(d)' = seq(d)
      BY <3>1, BaseFrame
    <3>3. req[d].id \in Id
      BY ZenonT(40), <1>0, <3>1 DEF CallsInv, TypeOK
    <3> QED
      BY <1>0, <2>2, <3>1, <3>2, <3>3, SMTT(30) DEF PutManifest, ManifestPut, ListPut, TypeOK, Stamped
  <2>3. CASE PutManifestList(d) /\ pc'[d] = "swap"
    <3>1. Active(d) /\ pc[d] = "list" /\ req' = req /\ base' = base /\ manifest' = manifest
      BY <2>3 DEF PutManifestList, Active
    <3>2. seq(d)' = seq(d) /\ previous_manifests(d)' = previous_manifests(d)
      BY <3>1, BaseFrame
    <3>3. req[d].id \in Id
      BY <1>0, <3>1 DEF CallsInv, TypeOK
    <3>4. ~(readFaults < MaxReadFaults)
      BY <1>0 DEF TypeOK
    <3>5. manifest_list'[req[d].id] = previous_manifests(d) \cup {req[d].id}
      BY <1>0, <2>3, <3>3, <3>4 DEF PutManifestList, TypeOK
    <3>6. ManifestPut(d)
      BY DEF StoreInv
    <3> QED
      BY <1>1, <3>1, <3>2, <3>5, <3>6, SMTT(30) DEF ManifestPut, ListPut, Stamped
  <2>4. CASE Load(d) /\ req'[d] = req[d] /\ req[d].op = "evolve"
    BY <1>1, <2>4
  <2> QED
    BY ZenonT(40), <1>1, <2>1, <2>2, <2>3, <2>4, CallFrame
<1>2. ASSUME NEW id \in Id, Published(id)', NEW m \in manifest_list'[id]
      PROVE  Published(m)'
  <2>1. CASE Published(id)
    <3>1. manifest_list'[id] = manifest_list[id]
      BY <2>1, StoreFrame
    <3>2. Published(m)
      BY <1>2, <2>1, <3>1 DEF StoreInv
    <3> QED
      BY <3>2, PublishedGrows
  <2>2. CASE ~Published(id)
    <3>1. PICK c \in Client, a \in {"ok", "unknown"} : Publish(c) /\ Return(c, a)
      <4>1. metadata' # metadata
        BY <1>2, <2>2 DEF Published
      <4>2. ~create_table
        BY <1>0, <1>2, <2>2, EmptyTable, AppendedMetadata DEF create_table, Published
      <4> QED
        BY <4>1, <4>2, MetadataSteps
    <3>2. /\ pointer \in DOMAIN metadata /\ Active(c) /\ req[c].id \in Id
          /\ metadata' = Append(metadata, Applied(c, metadata[pointer]))
          /\ Applied(c, metadata[pointer]) \in Meta
          /\ metadata[pointer] \in Meta
          /\ manifest_list' = manifest_list
      BY <1>0, <3>1, PublishStep
    <3> DEFINE n == Applied(c, metadata[pointer])
    <3>3. \E i \in DOMAIN n.snapshots : n.snapshots[i] = id
      BY SMTT(40), <1>0, <1>2, <2>2, <3>2, AppendedMetadata DEF Published
    <3>4. req[c].op # "evolve" /\ id = req[c].id
      <4>1. metadata[pointer].snapshots \in Seq(Id)
        BY <3>2 DEF Meta
      <4>2. ~ \E i \in DOMAIN metadata[pointer].snapshots : metadata[pointer].snapshots[i] = id
        BY Zenon, <2>2, <3>2 DEF Published
      <4>3. req[c].op # "evolve"
        BY <1>0, <3>2, <3>3, <4>2, AppliedMeta
      <4>4. n.snapshots = Append(metadata[pointer].snapshots, req[c].id)
        BY ZenonT(40), <1>0, <3>2, <4>3, AppliedMeta
      <4> QED
        BY <3>2, <3>3, <4>1, <4>2, <4>3, <4>4, AppendedElements, SMTT(30)
    <3>5. m \in previous_manifests(c) \/ m = id
      BY <1>2, <3>1, <3>2, <3>4, SMTT(30) DEF StoreInv, ListPut, Publish
    <3>6. ASSUME m \in previous_manifests(c) PROVE Published(m)'
      <4>1. base[c] \in DOMAIN metadata
        BY <1>0, <3>1, <3>2 DEF CallsInv, Publish
      <4>2. metadata[base[c]].snapshots \in Seq(Id)
        BY <1>0, <4>1, MetaType
      <4>3. metadata[base[c]].snapshots # <<>>
            /\ m \in manifest_list[metadata[base[c]].snapshots[Len(metadata[base[c]].snapshots)]]
        BY <3>6 DEF previous_manifests
      <4>4. Len(metadata[base[c]].snapshots) \in DOMAIN metadata[base[c]].snapshots
        BY <4>2, <4>3
      <4>5. Published(m)
        BY <4>1, <4>2, <4>3, <4>4 DEF StoreInv, Published
      <4> QED
        BY ZenonT(40), <4>5, PublishedGrows
    <3> QED
      BY <1>2, <3>5, <3>6
  <2> QED
    BY <2>1, <2>2
<1>3. \A d \in Client : ManifestPut(d)' /\ ListPut(d)'
  <2> SUFFICES ASSUME NEW d \in Client PROVE ManifestPut(d)' /\ ListPut(d)'
    OBVIOUS
  <2>1. CASE pc'[d] \in {"list", "swap"} /\ req'[d].op # "evolve"
    BY <1>1, <2>1
  <2>2. CASE ~(pc'[d] \in {"list", "swap"} /\ req'[d].op # "evolve")
    BY <2>2 DEF ManifestPut, ListPut
  <2> QED
    BY <2>1, <2>2
<1> QED
  BY <1>2, <1>3 DEF StoreInv

--------------------------------------------------------------------------------
(* The refinement.                                                         *)
SnapshotRecord == [id : Id, files : SUBSET Entry, deletes : SUBSET Entry]

RecordOf(id) == [id |-> id, files |-> list_files(id), deletes |-> list_equality_deletes(id)]

(* While the manifests stay as they are, a snapshot lists what it listed.  *)
LEMMA LogFrame ==
  ASSUME manifest' = manifest, manifest_list' = manifest_list
  PROVE  Log' = [i \in 1 .. Len(Snapshots') |-> RecordOf(Snapshots'[i])]
BY DEF Log, RecordOf, list_files, list_equality_deletes

LEMMA LogType ==
  ASSUME TypeOK
  PROVE  /\ Snapshots \in Seq(Id)
         /\ Log \in Seq(SnapshotRecord) /\ Len(Log) = Len(Snapshots)
         /\ \A i \in 1 .. Len(Snapshots) : Log[i] = RecordOf(Snapshots[i])
<1>1. Snapshots \in Seq(Id)
  <2>1. CASE pointer = 0
    BY <2>1 DEF Snapshots
  <2>2. CASE pointer # 0
    <3>1. pointer \in DOMAIN metadata
      BY <2>2 DEF TypeOK
    <3> QED
      BY <2>2, <3>1, MetaType DEF Snapshots
  <2> QED
    BY <2>1, <2>2
<1>2. ASSUME NEW id \in Id PROVE RecordOf(id) \in SnapshotRecord
  <2>1. manifest_list[id] \in SUBSET Id
    BY DEF TypeOK
  <2>2. \A m \in Id : manifest[m].files \in SUBSET Entry /\ manifest[m].deletes \in SUBSET Entry
    BY DEF TypeOK, Manifest
  <2>3. list_files(id) \in SUBSET Entry /\ list_equality_deletes(id) \in SUBSET Entry
    BY <2>1, <2>2 DEF list_files, list_equality_deletes
  <2> QED
    BY <2>3 DEF RecordOf, SnapshotRecord
<1>3. Log = [i \in 1 .. Len(Snapshots) |-> RecordOf(Snapshots[i])]
  BY DEF Log, RecordOf
<1>4. \A i \in 1 .. Len(Snapshots) : RecordOf(Snapshots[i]) \in SnapshotRecord
  BY <1>1, <1>2
<1> HIDE DEF Log, RecordOf
<1> QED
  BY <1>1, <1>3, <1>4


(* A published snapshot lists the same before and after any step.          *)
LEMMA ListedFixed ==
  ASSUME IInv, StoreInv, [Next]_vars, NEW id \in Id, Published(id)
  PROVE  /\ list_files(id)' = list_files(id)
         /\ list_equality_deletes(id)' = list_equality_deletes(id)
<1>0. TypeOK
  BY Zenon DEF IInv
<1>1. manifest_list'[id] = manifest_list[id] /\ manifest_list[id] \in SUBSET Id
  BY <1>0, StoreFrame DEF TypeOK
<1>2. \A m \in manifest_list[id] : manifest'[m] = manifest[m]
  BY <1>1, StoreFrame DEF StoreInv
<1> QED
  BY <1>1, <1>2 DEF list_files, list_equality_deletes

(* Steps that do not move the pointer are invisible.                       *)
LEMMA InvisibleSteps ==
  ASSUME IInv, StoreInv, [Next]_vars, UNCHANGED <<pointer, metadata>>
  PROVE  Log' = Log /\ Evolutions' = Evolutions /\ (pointer # 0)' = (pointer # 0)
<1>0. TypeOK
  BY DEF IInv
<1>1. Snapshots' = Snapshots /\ Evolutions' = Evolutions
  BY DEF Snapshots, Evolutions
<1>2. Snapshots \in Seq(Id)
  BY Zenon, <1>0, LogType
<1>3. ASSUME NEW i \in 1 .. Len(Snapshots)
      PROVE  /\ list_files(Snapshots[i])' = list_files(Snapshots[i])
             /\ list_equality_deletes(Snapshots[i])' = list_equality_deletes(Snapshots[i])
  <2>1. Snapshots[i] \in Id
    BY <1>2
  <2>2. Published(Snapshots[i])
    <3>1. pointer # 0
      BY <1>3 DEF Snapshots
    <3>2. pointer \in DOMAIN metadata
      BY <1>0, <3>1 DEF TypeOK
    <3>3. Snapshots = metadata[pointer].snapshots /\ i \in DOMAIN Snapshots
      BY <1>2, <3>1 DEF Snapshots
    <3> QED
      BY <3>2, <3>3 DEF Published
  <2>3. PICK id \in Id : id = Snapshots[i]
    BY <2>1
  <2>4. list_files(id)' = list_files(id) /\ list_equality_deletes(id)' = list_equality_deletes(id)
    BY <2>2, <2>3, ListedFixed
  <2> QED
    BY Zenon, <1>1, <2>3, <2>4 DEF list_files, list_equality_deletes
<1> QED
  BY <1>1, <1>3 DEF Log

Mapped(f, s) == [i \in 1 .. Len(s) |-> f[s[i]]]

LEMMA MappedAppend ==
  ASSUME NEW S, NEW T, NEW f \in [S -> T], NEW s \in Seq(S), NEW e \in S
  PROVE  Mapped(f, Append(s, e)) = Append(Mapped(f, s), f[e])
<1>1. Mapped(f, s) \in Seq(T) /\ Len(Mapped(f, s)) = Len(s) /\ f[e] \in T
  BY DEF Mapped
<1>2. /\ Append(s, e) \in Seq(S) /\ Len(Append(s, e)) = Len(s) + 1
      /\ Append(s, e)[Len(s) + 1] = e
      /\ \A i \in 1 .. Len(s) : Append(s, e)[i] = s[i]
  OBVIOUS
<1>3. /\ Append(Mapped(f, s), f[e]) \in Seq(T)
      /\ Len(Append(Mapped(f, s), f[e])) = Len(s) + 1
      /\ Append(Mapped(f, s), f[e])[Len(s) + 1] = f[e]
      /\ \A i \in 1 .. Len(s) : Append(Mapped(f, s), f[e])[i] = Mapped(f, s)[i]
  BY <1>1
<1>4. \A i \in 1 .. Len(s) : Mapped(f, s)[i] = f[s[i]]
  BY DEF Mapped
<1>5. Len(s) \in Nat /\ \A i \in 1 .. Len(s) + 1 : i = Len(s) + 1 \/ i \in 1 .. Len(s)
  OBVIOUS
<1>6. \A i \in 1 .. Len(s) + 1 : f[Append(s, e)[i]] = Append(Mapped(f, s), f[e])[i]
  BY <1>2, <1>3, <1>4, <1>5
<1>7. Append(Mapped(f, s), f[e]) = [i \in 1 .. Len(s) + 1 |-> Append(Mapped(f, s), f[e])[i]]
  BY <1>3
<1> QED
  BY <1>2, <1>6, <1>7 DEF Mapped

(* Publishing a commit appends to the log what TableLog says.              *)
LEMMA PublishedCommit ==
  ASSUME IInv, StoreInv, NEW c \in Client, Publish(c), req[c].op # "evolve"
  PROVE  Abstract!CommitSnapshot(req[c].id, req[c].op, req[c].files, req[c].deletes)
<1>0. TypeOK /\ CallsInv /\ SameHead
  BY DEF IInv
<1>1. /\ pointer \in DOMAIN metadata /\ Active(c) /\ req[c].id \in Id
      /\ pointer' = Len(metadata) + 1
      /\ metadata' = Append(metadata, Applied(c, metadata[pointer]))
      /\ Applied(c, metadata[pointer]) \in Meta
      /\ metadata[pointer] \in Meta
      /\ manifest' = manifest /\ manifest_list' = manifest_list
  BY <1>0, PublishStep
<1>2. pointer # 0 /\ pointer' # 0
  BY <1>0, <1>1 DEF TypeOK
<1>3. metadata'[pointer'] = Applied(c, metadata[pointer])
  BY <1>0, <1>1, AppendedMetadata
<1>4. Snapshots' = Append(Snapshots, req[c].id) /\ Evolutions' = Evolutions
  BY <1>0, <1>1, <1>2, <1>3, AppliedMeta DEF Snapshots, Evolutions
<1>5. Snapshots \in Seq(Id) /\ Log \in Seq(SnapshotRecord) /\ Len(Log) = Len(Snapshots)
      /\ \A i \in 1 .. Len(Snapshots) : Log[i] = RecordOf(Snapshots[i])
  BY Zenon, <1>0, LogType
<1>6. metadata[base[c]].snapshots = Snapshots
  BY ZenonT(40), <1>0, <1>2, GuardedBase DEF Publish, Snapshots
<1>7. /\ manifest[req[c].id].files = Stamped(req[c].files, Len(Log) + 1)
      /\ manifest[req[c].id].deletes = Stamped(req[c].deletes, Len(Log) + 1)
      /\ manifest_list[req[c].id] = previous_manifests(c) \cup {req[c].id}
  <2>1. ManifestPut(c) /\ ListPut(c) /\ pc[c] = "swap"
    BY DEF StoreInv, Publish
  <2> QED
    BY <1>5, <1>6, <2>1, SMTT(30) DEF ManifestPut, ListPut, seq
<1> DEFINE new == [id |-> req[c].id, files |-> list_files(req[c].id),
                   deletes |-> list_equality_deletes(req[c].id)]
<1>8. Log' = Append(Log, new)
  <2> DEFINE record == [id \in Id |-> RecordOf(id)]
  <2>1. PICK T : record \in [Id -> T]
    <3>1. record \in [Id -> {RecordOf(id) : id \in Id}]
      OBVIOUS
    <3> QED
      BY Zenon, <3>1
  <2>2. Log = Mapped(record, Snapshots)
    BY <1>5 DEF Log, RecordOf, Mapped
  <2>3. Log' = [i \in 1 .. Len(Snapshots') |-> RecordOf(Snapshots'[i])]
    BY <1>1, LogFrame
  <2>4. Snapshots' \in Seq(Id)
    BY <1>1, <1>4, <1>5, SMTT(30)
  <2>5. Log' = Mapped(record, Snapshots')
    <3>1. \A i \in 1 .. Len(Snapshots') : record[Snapshots'[i]] = RecordOf(Snapshots'[i])
      BY <2>4
    <3> QED
      BY <2>3, <3>1 DEF Mapped
  <2>6. record[req[c].id] = new
    BY <1>1 DEF RecordOf
  <2> HIDE DEF record, new, Log
  <2>7. Mapped(record, Append(Snapshots, req[c].id)) = Append(Mapped(record, Snapshots), record[req[c].id])
    <3>1. PICK s \in Seq(Id), id \in Id, f \in [Id -> T] :
            s = Snapshots /\ id = req[c].id /\ f = record
      BY <1>1, <1>5, <2>1
    <3>2. Mapped(f, Append(s, id)) = Append(Mapped(f, s), f[id])
      BY SMTT(40), MappedAppend DEF Mapped
    <3> QED
      BY Zenon, <3>1, <3>2
  <2> QED
    BY <1>4, <2>2, <2>5, <2>6, <2>7
<1>9. new = Abstract!SnapshotOf(req[c].id, req[c].op, req[c].files, req[c].deletes)
  <2>1. CASE Inherits(req[c].op) /\ Snapshots # <<>>
    <3> DEFINE last == Snapshots[Len(Snapshots)]
    <3>1. manifest_list[req[c].id] = manifest_list[last] \cup {req[c].id}
      BY Zenon, <1>6, <1>7, <2>1 DEF previous_manifests
    <3>2. /\ list_files(req[c].id) = list_files(last) \cup manifest[req[c].id].files
          /\ list_equality_deletes(req[c].id) =
               list_equality_deletes(last) \cup manifest[req[c].id].deletes
      BY <3>1, SMTT(30) DEF list_files, list_equality_deletes
    <3>3. Len(Snapshots) \in 1 .. Len(Snapshots) /\ Log # <<>>
      BY <1>5, <2>1
    <3>4. Log[Len(Log)].files = list_files(last) /\ Log[Len(Log)].deletes = list_equality_deletes(last)
      <4>1. Log[Len(Log)] = RecordOf(last)
        BY Zenon, <1>5, <3>3
      <4> QED
        BY <4>1 DEF RecordOf
    <3> HIDE DEF Log
    <3> QED
      BY ZenonT(40), <1>7, <2>1, <3>2, <3>3, <3>4
         DEF Abstract!SnapshotOf, Abstract!Listed, Abstract!Stamped, Abstract!Inherits,
             Stamped, Inherits
  <2>2. CASE ~(Inherits(req[c].op) /\ Snapshots # <<>>)
    <3>1. manifest_list[req[c].id] = {req[c].id}
      BY <1>6, <1>7, <2>2 DEF previous_manifests
    <3>2. /\ list_files(req[c].id) = manifest[req[c].id].files
          /\ list_equality_deletes(req[c].id) = manifest[req[c].id].deletes
      BY <3>1 DEF list_files, list_equality_deletes
    <3>3. ~Inherits(req[c].op) \/ Log = <<>>
      BY <1>5, <2>2
    <3> HIDE DEF Log
    <3> QED
      BY ZenonT(40), <1>7, <3>2, <3>3
         DEF Abstract!SnapshotOf, Abstract!Listed, Abstract!Stamped, Abstract!Inherits,
             Stamped, Inherits
  <2> QED
    BY Zenon, <2>1, <2>2
<1> HIDE DEF Log, new
<1> QED
  BY <1>2, <1>4, <1>8, <1>9 DEF Abstract!CommitSnapshot


(* Publishing a schema change appends it, and leaves the log alone.        *)
LEMMA PublishedEvolution ==
  ASSUME IInv, StoreInv, NEW c \in Client, Publish(c), req[c].op = "evolve"
  PROVE  Abstract!EvolveSchema(req[c].id)
<1>0. TypeOK /\ CallsInv /\ SameHead
  BY DEF IInv
<1>1. /\ pointer \in DOMAIN metadata /\ Active(c) /\ req[c].id \in Id
      /\ pointer' = Len(metadata) + 1
      /\ metadata' = Append(metadata, Applied(c, metadata[pointer]))
      /\ Applied(c, metadata[pointer]) \in Meta
      /\ metadata[pointer] \in Meta
      /\ manifest' = manifest /\ manifest_list' = manifest_list
  BY <1>0, PublishStep
<1>2. pointer # 0 /\ pointer' # 0
  BY <1>0, <1>1 DEF TypeOK
<1>3. metadata'[pointer'] = Applied(c, metadata[pointer])
  BY Zenon, <1>0, <1>1, AppendedMetadata
<1>4. Snapshots' = Snapshots /\ Evolutions' = Append(Evolutions, req[c].id)
  BY SMTT(40), <1>0, <1>1, <1>2, <1>3, AppliedMeta DEF Snapshots, Evolutions
<1>5. Log' = Log
  <2>1. Log' = [i \in 1 .. Len(Snapshots') |-> RecordOf(Snapshots'[i])]
    BY Zenon, <1>1, LogFrame
  <2> QED
    BY Zenon, <1>4, <2>1 DEF Log, RecordOf
<1> QED
  BY <1>2, <1>4, <1>5 DEF Abstract!EvolveSchema

LEMMA LogStep ==
  ASSUME IInv, StoreInv, [Next]_vars PROVE [Abstract!LogNext]_(Abstract!logVars)
<1>0. TypeOK /\ CallsInv /\ SameHead
  BY DEF IInv
<1>1. CASE create_table
  <2>1. pointer' # 0 /\ metadata'[pointer'] = [snapshots |-> <<>>, evolutions |-> <<>>]
    <3>1. /\ metadata' = Append(metadata, [snapshots |-> <<>>, evolutions |-> <<>>])
          /\ pointer' = Len(metadata) + 1
      BY <1>1 DEF create_table
    <3>2. metadata'[Len(metadata) + 1] = [snapshots |-> <<>>, evolutions |-> <<>>]
      BY <1>0, <3>1, EmptyTable, AppendedMetadata
    <3>3. Len(metadata) + 1 # 0
      BY <1>0 DEF TypeOK
    <3> QED
      BY <3>1, <3>2, <3>3
  <2>2. Snapshots' = <<>> /\ Evolutions' = <<>>
    BY <2>1 DEF Snapshots, Evolutions
  <2>3. Log' = <<>>
    BY <2>2 DEF Log
  <2>4. Abstract!CreateTable
    BY <1>1, <2>1, <2>2, <2>3 DEF create_table, Abstract!CreateTable
  <2> QED
    BY <2>4 DEF Abstract!LogNext
<1>2. CASE drop_table
  <2>1. Snapshots' = <<>> /\ Evolutions' = <<>> /\ pointer' = 0
    BY <1>2 DEF drop_table, Snapshots, Evolutions
  <2>2. Log' = <<>>
    BY <2>1 DEF Log
  <2>3. Abstract!DropTable
    BY <2>1, <2>2 DEF Abstract!DropTable
  <2> QED
    BY <2>3 DEF Abstract!LogNext
<1>3. ASSUME NEW c \in Client, Publish(c) PROVE Abstract!LogNext
  <2>1. req[c].op \in Op /\ req[c].id \in Id /\ req[c].files \in SUBSET Id
        /\ req[c].deletes \in SUBSET Id
    BY Zenon, <1>0, <1>3, PublishStep, RequestType DEF CallsInv
  <2>2. CASE req[c].op = "evolve"
    BY <1>3, <2>1, <2>2, PublishedEvolution DEF Abstract!LogNext
  <2>3. CASE req[c].op # "evolve"
    <3>1. Abstract!CommitSnapshot(req[c].id, req[c].op, req[c].files, req[c].deletes)
      BY <1>3, <2>3, PublishedCommit
    <3>2. req[c].op \in {"append", "delete", "replace", "overwrite"}
      BY Zenon, <2>1, <2>3
    <3>3. Log' # Log
      <4>1. PICK x : Log' = Append(Log, x)
        BY <3>1 DEF Abstract!CommitSnapshot
      <4>2. Log \in Seq(SnapshotRecord)
        BY <1>0, LogType
      <4>3. Len(Append(Log, x)) = Len(Log) + 1 /\ Len(Log) \in Nat
        <5> HIDE DEF Log
        <5> QED
          BY <4>2
      <4> QED
        BY <4>1, <4>3
    <3> QED
      BY <2>1, <3>1, <3>2, <3>3 DEF Abstract!LogNext
  <2> QED
    BY Zenon, <2>2, <2>3
<1>4. CASE UNCHANGED <<pointer, metadata>>
  BY <1>4, InvisibleSteps DEF Abstract!logVars
<1> QED
  BY Zenon, <1>1, <1>2, <1>3, <1>4
     DEF Next, vars, Begin, Step, Load, PutManifest, PutManifestList, Swap,
         SwapUnacknowledged, Conflict, Fail

(* The commit protocol of the Jdbc, Glue and Rest catalogs implements      *)
(* TableLog, for any number of writers and retries, as long as no read of  *)
(* a manifest list fails.                                                  *)
THEOREM ProtocolImplementsTableLog ==
  ASSUME MaxReadFaults = 0 PROVE Spec => ImplementsTableLog
<1>1. Init => StoreInv
  BY DEF Init, StoreInv, ManifestPut, ListPut, Published
<1>2. IInv /\ StoreInv /\ [Next]_vars => StoreInv'
  BY StoreStep
<1>3. Init => Abstract!LogInit
  BY DEF Init, Abstract!LogInit, Log, Snapshots, Evolutions
<1>4. IInv /\ StoreInv /\ [Next]_vars => [Abstract!LogNext]_(Abstract!logVars)
  BY LogStep
<1> QED
  BY <1>1, <1>2, <1>3, <1>4, ProtocolInductive, PTL
     DEF Spec, ImplementsTableLog, Abstract!LogSpec


(* Under the same condition, an Append or a Delete takes no file away.     *)
THEOREM AppendsTakeNothing ==
  ASSUME MaxReadFaults = 0 PROVE Spec => AppendsKeepFiles
<1>1. Init => StoreInv
  BY DEF Init, StoreInv, ManifestPut, ListPut, Published
<1>2. IInv /\ StoreInv /\ [Next]_vars => StoreInv'
  BY StoreStep
<1>3. ASSUME IInv, StoreInv, NEW c \in Client, Publish(c), Inherits(req[c].op)
      PROVE  ListedPaths \subseteq ListedPaths'
  <2>0. TypeOK /\ CallsInv /\ SameHead
    BY <1>3 DEF IInv
  <2>1. req[c].op # "evolve"
    BY <1>3 DEF Inherits
  <2>2. /\ pointer \in DOMAIN metadata /\ req[c].id \in Id
        /\ pointer' = Len(metadata) + 1
        /\ metadata' = Append(metadata, Applied(c, metadata[pointer]))
        /\ Applied(c, metadata[pointer]) \in Meta
        /\ metadata[pointer] \in Meta
        /\ manifest' = manifest /\ manifest_list' = manifest_list
    BY <1>3, <2>0, PublishStep
  <2>3. pointer # 0 /\ pointer' # 0
    BY <2>0, <2>2 DEF TypeOK
  <2>4. Snapshots' = Append(Snapshots, req[c].id) /\ Snapshots \in Seq(Id)
        /\ Snapshots = metadata[base[c]].snapshots
    <3>1. metadata'[pointer'] = Applied(c, metadata[pointer])
      BY <2>0, <2>2, AppendedMetadata
    <3>2. Snapshots = metadata[pointer].snapshots /\ Snapshots' = metadata'[pointer'].snapshots
      BY <2>3 DEF Snapshots
    <3>3. metadata[pointer].snapshots = metadata[base[c]].snapshots
      BY <1>3, <2>0, <2>1, GuardedBase DEF Publish
    <3>4. Applied(c, metadata[pointer]).snapshots
            = Append(metadata[pointer].snapshots, req[c].id)
      BY <2>0, <2>1, <2>2, AppliedMeta
    <3>5. Snapshots \in Seq(Id)
      BY <2>0, LogType
    <3> QED
      BY <3>1, <3>2, <3>3, <3>4, <3>5
  <2>5. Snapshots' # <<>> /\ Snapshots'[Len(Snapshots')] = req[c].id
    BY SMTT(40), <2>2, <2>4
  <2>6. ListedPaths' = {e.path : e \in list_files(req[c].id)}
    BY <2>2, <2>5 DEF ListedPaths, list_files
  <2>7. manifest_list[req[c].id] = previous_manifests(c) \cup {req[c].id}
    BY Zenon, <1>3, <2>1 DEF StoreInv, ListPut, Publish
  <2>8. ASSUME Snapshots # <<>>
        PROVE  list_files(Snapshots[Len(Snapshots)]) \subseteq list_files(req[c].id)
    BY <1>3, <2>4, <2>7, <2>8 DEF previous_manifests, list_files
  <2> QED
    BY <2>6, <2>8 DEF ListedPaths
<1>4. IInv /\ StoreInv => \A c \in Client :
        Publish(c) /\ Inherits(req[c].op) => ListedPaths \subseteq ListedPaths'
  BY <1>3
<1> QED
  BY <1>1, <1>2, <1>4, ProtocolInductive, PTL DEF Spec, AppendsKeepFiles
================================================================================
