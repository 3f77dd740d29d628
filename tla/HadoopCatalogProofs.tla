-------------------------- MODULE HadoopCatalogProofs --------------------------
(***************************************************************************)
(* Proofs about HadoopCatalog where commit_snapshot is what is called, the *)
(* lock of the store does not expire and puts are atomic: any number of    *)
(* processes, tasks and calls, crashes, dropped futures, failing requests  *)
(* and reads of the hint that fail.                                        *)
(***************************************************************************)
EXTENDS HadoopCatalog, FiniteSetTheorems, TLAPS

Sound(s) == s.ops \subseteq CommitOp /\ ~s.expiring /\ s.atomicPut

EntryT == [path : Id, seq : Nat]
SnapshotT == [id : Id, files : SUBSET EntryT, deletes : SUBSET EntryT]
MetaT == [snapshots : Seq(SnapshotT), evolutions : Seq(Id), present : BOOLEAN]
RequestT == [op : CommitOp \cup {"none"}, id : 0 .. MaxCalls, files : SUBSET Id, deletes : SUBSET Id]

(* The ids of the snapshots of a table.                                    *)
Ids(m) == {m.snapshots[i].id : i \in DOMAIN m.snapshots}

(* What the last snapshot lists.                                           *)
LEMMA ListedType ==
  ASSUME NEW m \in MetaT
  PROVE  Listed(m, "files") \subseteq EntryT /\ Listed(m, "deletes") \subseteq EntryT
<1>1. CASE m.snapshots = <<>>
  BY <1>1 DEF Listed
<1>2. CASE m.snapshots # <<>>
  <2>1. m.snapshots[Len(m.snapshots)] \in SnapshotT
    BY <1>2 DEF MetaT
  <2>2. ASSUME NEW s \in SnapshotT PROVE s["files"] \subseteq EntryT /\ s["deletes"] \subseteq EntryT
    BY DEF SnapshotT
  <2> QED
    BY <1>2, <2>1, <2>2 DEF Listed
<1> QED
  BY <1>1, <1>2

(* commit_into_metadata adds one snapshot.                                 *)
LEMMA AppliedType ==
  ASSUME NEW m \in MetaT, NEW r \in RequestT, r.op \in CommitOp, r.id \in Id
  PROVE  /\ Applied(r, m) \in MetaT /\ Applied(r, m).present = m.present
         /\ Applied(r, m).evolutions = m.evolutions
         /\ Ids(Applied(r, m)) = Ids(m) \cup {r.id}
<1> DEFINE kept(field) == IF r.op \in {"append", "delete"} THEN Listed(m, field) ELSE {}
           stamped(paths) == {[path |-> p, seq |-> Len(m.snapshots) + 1] : p \in paths}
           snapshot == [id |-> r.id, files |-> kept("files") \cup stamped(r.files),
                        deletes |-> kept("deletes") \cup stamped(r.deletes)]
<1>1. Applied(r, m) = [m EXCEPT !.snapshots = Append(m.snapshots, snapshot)]
  BY DEF Applied, CommitOp
<1>2. /\ m.snapshots \in Seq(SnapshotT) /\ Len(m.snapshots) \in Nat
      /\ r.files \subseteq Id /\ r.deletes \subseteq Id
  BY DEF MetaT, RequestT
<1>3. stamped(r.files) \subseteq EntryT /\ stamped(r.deletes) \subseteq EntryT
  BY <1>2 DEF EntryT
<1>4. kept("files") \subseteq EntryT /\ kept("deletes") \subseteq EntryT
  BY ListedType
<1>5. snapshot \in SnapshotT /\ snapshot.id = r.id
  BY <1>3, <1>4 DEF SnapshotT
<1> HIDE DEF snapshot
<1> DEFINE t == Append(m.snapshots, snapshot)
<1>6. /\ t \in Seq(SnapshotT) /\ DOMAIN t = 1 .. Len(m.snapshots) + 1
      /\ t[Len(m.snapshots) + 1] = snapshot
      /\ \A i \in DOMAIN m.snapshots : i \in DOMAIN t /\ t[i] = m.snapshots[i]
      /\ \A i \in DOMAIN t : i = Len(m.snapshots) + 1 \/ i \in DOMAIN m.snapshots
  BY <1>2, <1>5
<1> HIDE DEF t
<1>7. Applied(r, m).snapshots = t
  BY <1>1 DEF MetaT, t
<1>8. /\ Applied(r, m) \in MetaT /\ Applied(r, m).present = m.present
      /\ Applied(r, m).evolutions = m.evolutions
  BY Zenon, <1>1, <1>6 DEF MetaT, t
<1>9. Ids(Applied(r, m)) = Ids(m) \cup {r.id}
  <2>1. Len(m.snapshots) + 1 \in DOMAIN t
    BY <1>2, <1>6
  <2> QED
    BY <1>5, <1>6, <1>7, <2>1 DEF Ids
<1> QED
  BY <1>8, <1>9

--------------------------------------------------------------------------------
(* The inductive invariant.  The task that holds the lock of the store has *)
(* the metadata to itself from the hint it reads to the hint it puts.      *)
CommitLabel ==
  {"idle", "lock", "acquire", "hint", "meta", "next", "put", "put_hint", "release"}
Critical == {"hint", "meta", "next", "put", "put_hint", "release"}
Unpublished == {"lock", "acquire", "hint", "meta", "next", "put"}
Result == {"none", "ok", "unknown", "not_found"}

Types ==
  /\ setting \in Setting /\ Sound(setting) /\ calls \in 0 .. setting.calls
  /\ hint \in 0 .. MaxVersions
  /\ metadata \in [0 .. MaxVersions -> MetaT] /\ metadata[0] = NoMeta
  /\ lock \in Process \cup {NoProcess} /\ mutex \in [Process -> Client \cup {NoClient}]
  /\ pc \in [Client -> CommitLabel] /\ req \in [Client -> RequestT]
  /\ version \in [Client -> Nat] /\ meta \in [Client -> MetaT]
  /\ result \in [Client -> Result] /\ outcome \in [Id -> Answer]

LocksOK(c) ==
  pc[c] # "idle" =>
    /\ c \in Task /\ req[c].op \in CommitOp /\ req[c].id \in 1 .. calls
    /\ outcome[req[c].id] = "none"
    /\ pc[c] \in Critical \cup {"acquire"} => mutex[ProcessOf[c]] = c
    /\ pc[c] \in Critical => lock = ProcessOf[c]

DataOK(c) ==
  /\ pc[c] \in Unpublished => req[c].id \notin Ids(Current)
  /\ pc[c] = "meta" => version[c] \in {0, hint}
  /\ pc[c] \in {"next", "put"} => Current.present /\ meta[c] = Applied(req[c], Current)
  /\ pc[c] \in {"put", "put_hint"} => version[c] \in {1, hint + 1}
  /\ pc[c] = "put_hint" =>
       /\ Current.present /\ metadata[version[c]] = meta[c] /\ version[c] \in 1 .. MaxVersions
       /\ \/ meta[c] = Current /\ req[c].id \in Ids(Current) /\ version[c] = 1
          \/ meta[c] = Applied(req[c], Current) /\ req[c].id \notin Ids(Current)
  /\ pc[c] = "release" =>
       /\ result[c] # "none"
       /\ result[c] = "ok" => req[c].id \in Ids(Current)
       /\ result[c] = "not_found" => req[c].id \notin Ids(Current)

Distinct ==
  \A c, d \in Client : c # d /\ pc[c] # "idle" /\ pc[d] # "idle" => req[c].id # req[d].id

Answers ==
  \A id \in Id :
    /\ id > calls => outcome[id] = "none"
    /\ outcome[id] = "ok" => id \in Ids(Current)
    /\ outcome[id] \in {"locked", "not_found"} => id \notin Ids(Current)

(* A version is a commit: the hint never runs ahead of the log.            *)
Versions ==
  /\ Ids(Current) \subseteq 1 .. calls
  /\ hint <= 1 + Cardinality(Ids(Current))

CatalogInv ==
  /\ Types /\ (\A c \in Client : LocksOK(c) /\ DataOK(c))
  /\ Distinct /\ Answers /\ Versions

(* The store's lock and the mutex of its process single out one task.      *)
LEMMA OneCritical ==
  ASSUME CatalogInv, NEW c \in Client, NEW d \in Client,
         pc[c] \in Critical, pc[d] \in Critical
  PROVE  c = d
BY DEF CatalogInv, LocksOK, Critical

(* Where the table is read from.                                           *)
LEMMA CurrentType ==
  ASSUME Types
  PROVE  Current = metadata[hint] /\ Current \in MetaT
BY DEF Types, Current, current_version, Torn

--------------------------------------------------------------------------------
(* A step of one task: what it has to show for the others to be as before. *)
LEMMA StepOfOne ==
  ASSUME CatalogInv, NEW c \in Client, pc[c] # "idle",
         Types', LocksOK(c)', DataOK(c)', UNCHANGED <<setting, calls, req, outcome>>,
         \A d \in Client \ {c} : /\ pc'[d] = pc[d] /\ version'[d] = version[d]
                                 /\ meta'[d] = meta[d] /\ result'[d] = result[d],
         \A d \in Client \ {c} :
            /\ pc[d] \in Critical \cup {"acquire"} => mutex'[ProcessOf[d]] = mutex[ProcessOf[d]]
            /\ pc[d] \in Critical => lock' = lock,
         \/ hint' = hint /\ metadata' = metadata
         \/ /\ pc[c] \in Critical
            /\ Ids(Current') \in {Ids(Current), Ids(Current) \cup {req[c].id}}
            /\ hint' <= 1 + Cardinality(Ids(Current'))
  PROVE  CatalogInv'
<1>0. Types /\ Types' /\ LocksOK(c) /\ DataOK(c)
  BY DEF CatalogInv
<1>1. ProcessOf' = ProcessOf /\ Task' = Task
  BY DEF ProcessOf, Task
<1>2. Ids(Current') \in {Ids(Current), Ids(Current) \cup {req[c].id}}
  <2>1. CASE hint' = hint /\ metadata' = metadata
    BY <2>1 DEF Current, current_version
  <2> QED
    BY <2>1
<1>3. req[c].id \in 1 .. calls /\ outcome[req[c].id] = "none"
  BY <1>0 DEF LocksOK
<1>4. ASSUME NEW d \in Client \ {c} PROVE LocksOK(d)' /\ DataOK(d)'
  <2>0. LocksOK(d) /\ DataOK(d)
    BY DEF CatalogInv
  <2>1. LocksOK(d)'
    BY <1>1, <2>0 DEF LocksOK
  <2>2. CASE hint' = hint /\ metadata' = metadata
    <3>1. Current' = Current
      BY <2>2 DEF Current, current_version
    <3>2. /\ pc'[d] = pc[d] /\ version'[d] = version[d] /\ meta'[d] = meta[d] /\ result'[d] = result[d]
          /\ req' = req
      OBVIOUS
    <3>3. DataOK(d)'
      BY <2>0, <2>2, <3>1, <3>2 DEF DataOK
    <3> QED
      BY <2>1, <3>3
  <2>3. CASE pc[c] \in Critical
    <3>1. pc[d] \notin Critical
      BY <2>3, OneCritical
    <3>2. pc[d] \in {"idle", "lock", "acquire"}
      BY <1>0, <3>1 DEF Types, CommitLabel, Critical
    <3>3. pc[d] # "idle" => req[d].id # req[c].id
      BY Zenon DEF CatalogInv, Distinct
    <3>4. DataOK(d)'
      BY <1>2, <2>0, <3>2, <3>3 DEF DataOK, Unpublished
    <3> QED
      BY <2>1, <3>4
  <2> QED
    BY <2>2, <2>3
<1>5. \A d \in Client : pc'[d] # "idle" => pc[d] # "idle"
  OBVIOUS
<1>6. Distinct'
  BY <1>5 DEF CatalogInv, Distinct
<1>7. Answers'
  BY <1>2, <1>3 DEF CatalogInv, Answers
<1>8. Versions'
  <2>1. CASE hint' = hint /\ metadata' = metadata
    BY <2>1 DEF CatalogInv, Versions, Current, current_version
  <2>2. CASE hint' <= 1 + Cardinality(Ids(Current'))
    BY <1>2, <1>3, <2>2 DEF CatalogInv, Versions
  <2> QED
    BY <2>1, <2>2
<1> QED
  BY <1>4, <1>6, <1>7, <1>8 DEF CatalogInv

(* Calls that end, with an answer that is true of the table.               *)
LEMMA IdleKeeps ==
  ASSUME CatalogInv, NEW T \in SUBSET Client, NEW a \in Answer, Idle(T, a),
         UNCHANGED <<hint, metadata, setting, calls>>,
         lock' \in Process \cup {NoProcess},
         \A d \in Client \ T : pc[d] \in Critical => lock' = lock,
         \A c \in T : pc[c] # "idle" =>
            /\ a = "ok" => req[c].id \in Ids(Current)
            /\ a \in {"locked", "not_found"} => req[c].id \notin Ids(Current)
  PROVE  CatalogInv'
<1>0. Types
  BY DEF CatalogInv
<1>1. Current' = Current /\ ProcessOf' = ProcessOf /\ Task' = Task
  BY DEF Current, current_version, ProcessOf, Task
<1>2. NoMeta \in MetaT /\ NoRequest \in RequestT
  BY HadoopAssumption DEF NoMeta, MetaT, NoRequest, RequestT
<1>3. Types'
  <2>1. /\ pc' \in [Client -> CommitLabel] /\ req' \in [Client -> RequestT]
        /\ version' \in [Client -> Nat] /\ meta' \in [Client -> MetaT]
        /\ result' \in [Client -> Result] /\ outcome' \in [Id -> Answer]
    BY <1>0, <1>2 DEF Types, Idle, CommitLabel, Result
  <2>2. mutex' \in [Process -> Client \cup {NoClient}]
    BY <1>0 DEF Types, Idle, Unlocked
  <2> QED
    BY <1>0, <2>1, <2>2 DEF Types
<1>4. ASSUME NEW c \in T PROVE LocksOK(c)' /\ DataOK(c)'
  <2>1. pc'[c] = "idle"
    BY DEF Idle
  <2> QED
    BY <2>1 DEF LocksOK, DataOK, Unpublished
<1>5. ASSUME NEW d \in Client \ T PROVE LocksOK(d)' /\ DataOK(d)'
  <2>0. LocksOK(d) /\ DataOK(d)
    BY DEF CatalogInv
  <2>1. /\ pc'[d] = pc[d] /\ version'[d] = version[d] /\ meta'[d] = meta[d]
        /\ result'[d] = result[d] /\ req'[d] = req[d]
    BY DEF Idle
  <2>2. DataOK(d)'
    BY <1>1, <2>0, <2>1 DEF DataOK
  <2>3. ASSUME pc[d] # "idle" PROVE outcome'[req[d].id] = outcome[req[d].id]
    <3>1. req[d].id \in Id
      BY <1>0, <2>0, <2>3, HadoopAssumption DEF LocksOK, Types, Id
    <3>2. \A c \in T : pc[c] # "idle" => req[c].id # req[d].id
      BY <2>3 DEF CatalogInv, Distinct
    <3> QED
      BY <3>1, <3>2 DEF Idle
  <2>4. ASSUME pc[d] # "idle", mutex[ProcessOf[d]] = d PROVE mutex'[ProcessOf[d]] = d
    <3>1. ProcessOf[d] \in Process
      BY <1>0, <2>0, <2>4, HadoopAssumption DEF LocksOK, Types, ProcessOf, Task
    <3> QED
      BY <2>4, <3>1 DEF Idle, Unlocked
  <2>5. LocksOK(d)'
    <3>1. CASE pc[d] = "idle"
      BY <2>1, <3>1 DEF LocksOK
    <3>2. CASE pc[d] # "idle"
      BY <1>1, <2>0, <2>1, <2>3, <2>4, <3>2 DEF LocksOK
    <3> QED
      BY <3>1, <3>2
  <2> QED
    BY <2>2, <2>5
<1>6. Distinct'
  <2>1. \A d \in Client : pc'[d] # "idle" => pc[d] # "idle" /\ req'[d] = req[d]
    BY DEF Idle
  <2> QED
    BY <2>1 DEF CatalogInv, Distinct
<1>7. Answers'
  <2> SUFFICES ASSUME NEW id \in Id
               PROVE  /\ id > calls => outcome'[id] = "none"
                      /\ outcome'[id] = "ok" => id \in Ids(Current)
                      /\ outcome'[id] \in {"locked", "not_found"} => id \notin Ids(Current)
    BY <1>1 DEF Answers
  <2>0. /\ id > calls => outcome[id] = "none"
        /\ outcome[id] = "ok" => id \in Ids(Current)
        /\ outcome[id] \in {"locked", "not_found"} => id \notin Ids(Current)
    BY DEF CatalogInv, Answers
  <2>1. CASE \E c \in T : pc[c] # "idle" /\ req[c].id = id
    <3>1. PICK c \in T : pc[c] # "idle" /\ req[c].id = id
      BY <2>1
    <3>2. outcome'[id] = a
      BY <2>1 DEF Idle
    <3>3. id \in 1 .. calls
      BY <3>1 DEF CatalogInv, LocksOK
    <3>4. ~(id > calls)
      BY <1>0, <3>3, HadoopAssumption DEF Types
    <3> QED
      BY <3>1, <3>2, <3>4
  <2>2. CASE ~\E c \in T : pc[c] # "idle" /\ req[c].id = id
    <3>1. outcome'[id] = outcome[id]
      BY <2>2 DEF Idle
    <3> QED
      BY <2>0, <3>1
  <2> QED
    BY <2>1, <2>2
<1>8. Versions'
  BY <1>1 DEF CatalogInv, Versions
<1> QED
  BY <1>3, <1>4, <1>5, <1>6, <1>7, <1>8 DEF CatalogInv

--------------------------------------------------------------------------------
(* The invariant at the start.                                             *)
LEMMA InitCatalog ==
  ASSUME Init, Sound(setting)
  PROVE  CatalogInv
<1>1. /\ setting \in Setting /\ setting.calls \in Nat /\ setting.exists \in BOOLEAN
      /\ 0 .. MaxVersions \subseteq Int /\ 1 \in 0 .. MaxVersions /\ 0 \in 0 .. MaxVersions
  BY HadoopAssumption DEF Init, MaxVersions
<1>2. NoMeta \in MetaT /\ EmptyMeta \in MetaT /\ NoRequest \in RequestT
  <2>1. ASSUME NEW m \in MetaT PROVE [m EXCEPT !.present = TRUE] \in MetaT
    BY Zenon DEF MetaT
  <2>2. NoMeta \in MetaT
    BY DEF NoMeta, MetaT
  <2>3. EmptyMeta \in MetaT
    BY <2>1, <2>2 DEF EmptyMeta
  <2> QED
    BY <2>2, <2>3, HadoopAssumption DEF NoRequest, RequestT
<1>3. NoMeta.snapshots = <<>> /\ EmptyMeta.snapshots = <<>>
  BY DEF NoMeta, EmptyMeta
<1>4. Types
  <2>1. metadata \in [0 .. MaxVersions -> MetaT] /\ metadata[0] = NoMeta
    BY <1>1, <1>2 DEF Init
  <2>2. hint \in 0 .. MaxVersions /\ calls \in 0 .. setting.calls
    BY <1>1 DEF Init
  <2>3. /\ lock \in Process \cup {NoProcess} /\ mutex \in [Process -> Client \cup {NoClient}]
        /\ pc \in [Client -> CommitLabel] /\ req \in [Client -> RequestT]
        /\ version \in [Client -> Nat] /\ meta \in [Client -> MetaT]
        /\ result \in [Client -> Result] /\ outcome \in [Id -> Answer]
    BY <1>2 DEF Init, CommitLabel, Result, Answer
  <2> QED
    BY <1>1, <2>1, <2>2, <2>3 DEF Types
<1>5. \A c \in Client : LocksOK(c) /\ DataOK(c)
  BY DEF Init, LocksOK, DataOK, Unpublished
<1>6. Distinct
  BY DEF Init, Distinct
<1>7. Ids(Current) = {}
  <2>1. Current \in {NoMeta, EmptyMeta}
    BY <1>1, <1>4, CurrentType DEF Init
  <2> QED
    BY <1>3, <2>1 DEF Ids
<1>8. Answers
  BY DEF Init, Answers
<1>9. Versions
  BY <1>1, <1>7, FS_EmptySet DEF Init, Versions
<1> QED
  BY <1>4, <1>5, <1>6, <1>8, <1>9 DEF CatalogInv

(* A new call has an id that nobody has seen.                              *)
LEMMA BeginKeeps ==
  ASSUME CatalogInv, NEW c \in Task, Begin(c)
  PROVE  CatalogInv'
<1>0. Types /\ c \in Client /\ pc[c] = "idle"
  BY HadoopAssumption DEF CatalogInv, Types, Task, Begin
<1>1. Current' = Current /\ ProcessOf' = ProcessOf /\ Task' = Task
  BY DEF Begin, Current, current_version, ProcessOf, Task
<1>2. /\ calls \in Nat /\ calls' = calls + 1 /\ calls' \in 0 .. setting.calls
      /\ calls + 1 \in Id /\ calls + 1 \in 0 .. MaxCalls
  BY <1>0, HadoopAssumption DEF Types, Begin, Id
<1>3. PICK op \in setting.ops, kept \in SUBSET ListedPaths :
        /\ req' = [req EXCEPT ![c] =
                     [op |-> op, id |-> calls + 1,
                      files |-> IF op \in CommitOp \ {"delete"} THEN kept \cup {calls + 1} ELSE {},
                      deletes |-> IF op = "delete" THEN {calls + 1} ELSE {}]]
        /\ Goto(c, CASE op \in CommitOp -> "lock" [] op = "create" -> "check"
                     [] op = "evolve" -> "hint" [] op = "drop" -> "drop")
  BY Zenon DEF Begin
<1>4. op \in CommitOp
  BY <1>0 DEF Types, Sound
<1>5. pc' = [pc EXCEPT ![c] = "lock"]
  BY Zenon, <1>3, <1>4 DEF Goto, CommitOp
<1>6. ListedPaths \subseteq Id
  <2>1. Abstract!Listed("files") = Listed(Current, "files")
    BY DEF Abstract!Listed, Listed, Log
  <2>2. Abstract!Listed("files") \subseteq EntryT
    BY <1>0, <2>1, CurrentType, ListedType
  <2> QED
    BY <2>2 DEF ListedPaths, EntryT
<1> DEFINE r == req'[c]
<1>7. /\ r \in RequestT /\ r.op \in CommitOp /\ r.id = calls + 1
      /\ req' = [req EXCEPT ![c] = r]
  <2> DEFINE added == IF op \in CommitOp \ {"delete"} THEN kept \cup {calls + 1} ELSE {}
             deleted == IF op = "delete" THEN {calls + 1} ELSE {}
  <2>1. added \subseteq Id /\ deleted \subseteq Id
    BY <1>2, <1>6
  <2>2. req' = [req EXCEPT ![c] = [op |-> op, id |-> calls + 1, files |-> added, deletes |-> deleted]]
    BY <1>3
  <2> HIDE DEF added, deleted
  <2>3. r = [op |-> op, id |-> calls + 1, files |-> added, deletes |-> deleted]
    BY <1>0, <2>2 DEF Types
  <2>4. req' = [req EXCEPT ![c] = r]
    BY Zenon, <2>2, <2>3
  <2>5. r \in RequestT /\ r.op \in CommitOp /\ r.id = calls + 1
    BY <1>2, <1>4, <2>1, <2>3 DEF RequestT
  <2> QED
    BY <2>4, <2>5
<1> HIDE DEF r
<1>8. Types'
  BY Zenon, <1>0, <1>2, <1>5, <1>7 DEF Types, Begin, CommitLabel, locks
<1>9. calls + 1 \notin Ids(Current) /\ outcome[calls + 1] = "none"
  BY <1>2 DEF CatalogInv, Versions, Answers
<1>10. req'[c].op \in CommitOp /\ req'[c].id = calls + 1 /\ pc'[c] = "lock"
  BY <1>0, <1>5, <1>7 DEF Types
<1>11. LocksOK(c)' /\ DataOK(c)'
  BY <1>1, <1>2, <1>9, <1>10 DEF LocksOK, DataOK, Unpublished, Critical, Begin
<1>12. ASSUME NEW d \in Client, d # c
       PROVE  /\ LocksOK(d)' /\ DataOK(d)' /\ pc'[d] = pc[d]
              /\ pc[d] # "idle" => req'[d].id \in 1 .. calls /\ req'[d].id = req[d].id
  <2>0. LocksOK(d) /\ DataOK(d)
    BY DEF CatalogInv
  <2>1. pc'[d] = pc[d] /\ req'[d] = req[d]
    BY <1>0, <1>5, <1>7, <1>12 DEF Types
  <2>2. /\ version' = version /\ meta' = meta /\ result' = result /\ outcome' = outcome
        /\ mutex' = mutex /\ lock' = lock /\ hint' = hint /\ metadata' = metadata
    BY Zenon DEF Begin, locks
  <2>3. DataOK(d)'
    BY ZenonT(40), <1>1, <2>0, <2>1, <2>2 DEF DataOK
  <2>4. LocksOK(d)'
    BY SMTT(40), <1>1, <1>2, <2>0, <2>1, <2>2 DEF LocksOK
  <2> QED
    BY <2>0, <2>1, <2>3, <2>4 DEF LocksOK
<1>13. Distinct'
  <2> SUFFICES ASSUME NEW d \in Client, NEW e \in Client, d # e, pc'[d] # "idle", pc'[e] # "idle"
               PROVE  req'[d].id # req'[e].id
    BY DEF Distinct
  <2>1. calls + 1 \notin 1 .. calls
    BY <1>2
  <2> QED
    BY <1>10, <1>12, <2>1 DEF CatalogInv, Distinct
<1>14. Answers'
  BY <1>1, <1>2 DEF CatalogInv, Answers, Begin, Id
<1>15. Versions'
  <2>1. 1 .. calls \subseteq 1 .. calls'
    BY SMTT(40), <1>2
  <2> QED
    BY <1>1, <2>1 DEF CatalogInv, Versions, Begin
<1> QED
  BY <1>8, <1>11, <1>12, <1>13, <1>14, <1>15 DEF CatalogInv

--------------------------------------------------------------------------------
(* What is known of a task in the middle of a call.                        *)
LEMMA Running ==
  ASSUME CatalogInv, NEW c \in Task, pc[c] # "idle"
  PROVE  /\ Types /\ c \in Client /\ LocksOK(c) /\ DataOK(c)
         /\ ProcessOf[c] \in Process /\ req[c] \in RequestT
         /\ req[c].op \in CommitOp /\ req[c].id \in Id
<1>1. Types /\ c \in Client /\ ProcessOf[c] \in Process
  BY HadoopAssumption DEF CatalogInv, Types, Task, ProcessOf
<1>2. LocksOK(c) /\ DataOK(c)
  BY <1>1 DEF CatalogInv
<1>3. req[c] \in RequestT /\ req[c].op \in CommitOp /\ req[c].id \in 1 .. calls
  BY <1>1, <1>2 DEF LocksOK, Types
<1>4. 1 .. calls \subseteq Id
  BY SMTT(40), <1>1, HadoopAssumption DEF Types, Id
<1> QED
  BY <1>1, <1>2, <1>3, <1>4

(* The body of a commit is over, and the table is as it was.               *)
LEMMA EndKeeps ==
  ASSUME CatalogInv, NEW c \in Task, pc[c] \in Critical,
         NEW a \in {"unknown", "not_found"}, End(c, a),
         a = "not_found" => req[c].id \notin Ids(Current),
         UNCHANGED <<hint, metadata, lock, setting, calls>>
  PROVE  CatalogInv'
<1>0. pc[c] # "idle"
  BY DEF Critical
<1>1. /\ Types /\ c \in Client /\ LocksOK(c) /\ DataOK(c) /\ req[c].op \in CommitOp
  BY ZenonT(40), <1>0, Running
<1>2. /\ pc' = [pc EXCEPT ![c] = "release"] /\ result' = [result EXCEPT ![c] = a]
      /\ UNCHANGED <<req, version, meta, outcome, mutex>>
  BY <1>1 DEF End, Goto
<1>3. Types'
  BY <1>1, <1>2 DEF Types, CommitLabel, Result
<1>4. Current' = Current /\ ProcessOf' = ProcessOf /\ Task' = Task
  BY DEF Current, current_version, ProcessOf, Task
<1>5. pc'[c] = "release" /\ result'[c] = a
  BY <1>1, <1>2 DEF Types
<1>6. LocksOK(c)'
  BY <1>0, <1>1, <1>2, <1>4, <1>5 DEF LocksOK, Critical
<1>7. DataOK(c)'
  BY <1>2, <1>4, <1>5 DEF DataOK, Unpublished
<1>8. \A d \in Client \ {c} : /\ pc'[d] = pc[d] /\ version'[d] = version[d]
                              /\ meta'[d] = meta[d] /\ result'[d] = result[d]
  BY <1>1, <1>2 DEF Types
<1> QED
  BY <1>0, <1>1, <1>2, <1>3, <1>6, <1>7, <1>8, StepOfOne

(* The mutex is taken from nobody.                                         *)
LEMMA LockKeeps ==
  ASSUME CatalogInv, NEW c \in Task, Lock(c)
  PROVE  CatalogInv'
<1>0. pc[c] = "lock"
  BY DEF Lock
<1>1. /\ Types /\ c \in Client /\ LocksOK(c) /\ DataOK(c) /\ ProcessOf[c] \in Process
  BY <1>0, Running
<1>2. /\ pc' = [pc EXCEPT ![c] = "acquire"] /\ mutex' = [mutex EXCEPT ![ProcessOf[c]] = c]
      /\ mutex[ProcessOf[c]] = NoClient
      /\ UNCHANGED <<hint, metadata, lock, req, version, meta, result, outcome, setting, calls>>
  BY DEF Lock, Goto, MutexFree, locals, bounds
<1>3. Types'
  BY <1>1, <1>2 DEF Types, CommitLabel
<1>4. Current' = Current /\ ProcessOf' = ProcessOf /\ Task' = Task
  BY <1>2 DEF Current, current_version, ProcessOf, Task
<1>5. pc'[c] = "acquire" /\ mutex'[ProcessOf[c]] = c
  BY Zenon, <1>1, <1>2 DEF Types
<1>6. LocksOK(c)'
  BY ZenonT(40), <1>0, <1>1, <1>2, <1>4, <1>5 DEF LocksOK, Critical
<1>7. DataOK(c)'
  BY <1>0, <1>1, <1>2, <1>4, <1>5 DEF DataOK, Unpublished
<1>8. \A d \in Client \ {c} :
        /\ pc'[d] = pc[d]
        /\ pc[d] \in Critical \cup {"acquire"} => mutex'[ProcessOf[d]] = mutex[ProcessOf[d]]
  <2> SUFFICES ASSUME NEW d \in Client \ {c}, pc[d] \in Critical \cup {"acquire"}
               PROVE  mutex'[ProcessOf[d]] = mutex[ProcessOf[d]]
    BY <1>1, <1>2 DEF Types
  <2>1. LocksOK(d) /\ pc[d] # "idle"
    BY DEF CatalogInv, Critical
  <2>2. mutex[ProcessOf[d]] = d
    BY <2>1 DEF LocksOK
  <2>3. ProcessOf[d] # ProcessOf[c]
    BY <1>2, <2>2, HadoopAssumption
  <2> QED
    BY <1>1, <1>2, <2>3 DEF Types
<1> QED
  BY <1>0, <1>1, <1>2, <1>3, <1>6, <1>7, <1>8, StepOfOne

(* The lock of the store is taken from nobody, or the call is refused.     *)
LEMMA AcquireKeeps ==
  ASSUME CatalogInv, NEW c \in Task, try_acquire_lock(c)
  PROVE  CatalogInv'
<1>0. pc[c] = "acquire" /\ UNCHANGED <<hint, metadata, setting, calls>>
  BY DEF try_acquire_lock, bounds
<1>1. /\ Types /\ c \in Client /\ LocksOK(c) /\ DataOK(c) /\ ProcessOf[c] \in Process
  BY <1>0, Running
<1>2. CASE lock = NoProcess
  <2>1. /\ lock' = ProcessOf[c] /\ pc' = [pc EXCEPT ![c] = "hint"]
        /\ UNCHANGED <<mutex, req, version, meta, result, outcome>>
    BY <1>2 DEF try_acquire_lock, LockFree, Goto, locals
  <2>2. Types'
    BY <1>0, <1>1, <2>1 DEF Types, CommitLabel
  <2>3. Current' = Current /\ ProcessOf' = ProcessOf /\ Task' = Task
    BY <1>0 DEF Current, current_version, ProcessOf, Task
  <2>4. pc'[c] = "hint"
    BY Zenon, <1>1, <2>1 DEF Types
  <2>5. LocksOK(c)'
    BY Zenon, <1>0, <1>1, <2>1, <2>3, <2>4 DEF LocksOK, Critical
  <2>6. DataOK(c)'
    BY ZenonT(40), <1>0, <1>1, <2>1, <2>3, <2>4 DEF DataOK, Unpublished
  <2>7. \A d \in Client \ {c} : pc'[d] = pc[d] /\ pc[d] \notin Critical
    <3> SUFFICES ASSUME NEW d \in Client \ {c}, pc[d] \in Critical PROVE FALSE
      BY Zenon, <1>1, <2>1 DEF Types
    <3>1. lock = ProcessOf[d] /\ d \in Task
      BY ZenonT(40) DEF CatalogInv, LocksOK, Critical
    <3> QED
      BY <1>1, <1>2, <3>1, HadoopAssumption DEF Types, ProcessOf, Task
  <2> QED
    BY <1>0, <1>1, <2>1, <2>2, <2>5, <2>6, <2>7, StepOfOne
<1>3. CASE lock # NoProcess
  <2>1. Idle({c}, "locked") /\ lock' = lock
    BY <1>3 DEF try_acquire_lock, LockFree, Return
  <2>2. req[c].id \notin Ids(Current)
    BY <1>0, <1>1 DEF DataOK, Unpublished
  <2>3. {c} \in SUBSET Client /\ "locked" \in Answer /\ lock' \in Process \cup {NoProcess}
    BY ZenonT(40), <1>1, <2>1 DEF Answer, Types
  <2> QED
    BY <1>0, <2>1, <2>2, <2>3, IdleKeeps
<1> QED
  BY <1>2, <1>3

(* What the holder reads as the hint is the hint, or 0 when the read fails.*)
LEMMA HintKeeps ==
  ASSUME CatalogInv, NEW c \in Task, ReadHint(c)
  PROVE  CatalogInv'
<1>0. pc[c] = "hint"
  BY DEF ReadHint
<1>1. /\ Types /\ c \in Client /\ LocksOK(c) /\ DataOK(c) /\ current_version = hint
  BY <1>0, Running DEF Types, current_version, Torn
<1>2. PICK v \in 0 .. MaxVersions : ReadVersion(v) /\ version' = [version EXCEPT ![c] = v]
  BY ZenonT(40) DEF ReadHint
<1>3. v \in {0, hint} /\ v \in Nat
  BY <1>1, <1>2 DEF ReadVersion, MaxVersions
<1>4. /\ pc' = [pc EXCEPT ![c] = "meta"]
      /\ UNCHANGED <<hint, metadata, lock, mutex, req, meta, result, outcome, setting, calls>>
  BY DEF ReadHint, Goto, locks, bounds
<1>5. Types'
  BY <1>1, <1>2, <1>3, <1>4 DEF Types, CommitLabel
<1>6. Current' = Current /\ ProcessOf' = ProcessOf /\ Task' = Task
  BY <1>4 DEF Current, current_version, ProcessOf, Task
<1>7. pc'[c] = "meta" /\ version'[c] = v
  BY Zenon, <1>1, <1>2, <1>4 DEF Types
<1>8. LocksOK(c)'
  BY Zenon, <1>0, <1>1, <1>4, <1>6, <1>7 DEF LocksOK, Critical
<1>9. DataOK(c)'
  BY <1>0, <1>1, <1>3, <1>4, <1>6, <1>7 DEF DataOK, Unpublished
<1>10. \A d \in Client \ {c} : pc'[d] = pc[d] /\ version'[d] = version[d]
  BY Zenon, <1>1, <1>2, <1>4 DEF Types
<1> QED
  BY <1>0, <1>1, <1>4, <1>5, <1>8, <1>9, <1>10, StepOfOne

(* The holder applies its commit to the table as it is.                    *)
LEMMA MetadataKeeps ==
  ASSUME CatalogInv, NEW c \in Task, ReadMetadata(c)
  PROVE  CatalogInv'
<1>0. pc[c] = "meta" /\ UNCHANGED <<hint, metadata, lock, setting, calls>>
  BY DEF ReadMetadata, bounds
<1>1. /\ Types /\ c \in Client /\ LocksOK(c) /\ DataOK(c)
      /\ req[c] \in RequestT /\ req[c].op \in CommitOp /\ req[c].id \in Id
  BY <1>0, Running
<1>2. Current = metadata[hint] /\ Current \in MetaT /\ req[c].id \notin Ids(Current)
  BY Zenon, <1>0, <1>1, CurrentType DEF DataOK, Unpublished
<1>3. CASE metadata[version[c]].present
  <2>1. version[c] = hint
    BY SMTT(40), <1>0, <1>1, <1>3 DEF DataOK, Types, NoMeta
  <2>2. /\ meta' = [meta EXCEPT ![c] = Applied(req[c], Current)]
        /\ pc' = [pc EXCEPT ![c] = "next"] /\ UNCHANGED <<req, version, result, outcome, mutex>>
    BY <1>2, <1>3, <2>1 DEF ReadMetadata, Goto
  <2>3. Applied(req[c], Current) \in MetaT
    BY <1>1, <1>2, AppliedType
  <2>4. Types'
    BY <1>0, <1>1, <2>2, <2>3 DEF Types, CommitLabel
  <2>5. Current' = Current /\ ProcessOf' = ProcessOf /\ Task' = Task
    BY <1>0 DEF Current, current_version, ProcessOf, Task
  <2>6. pc'[c] = "next" /\ meta'[c] = Applied(req[c], Current)
    BY ZenonT(40), <1>1, <2>2 DEF Types
  <2>7. LocksOK(c)'
    BY <1>0, <1>1, <2>2, <2>5, <2>6 DEF LocksOK, Critical
  <2>8. Current.present
    BY ZenonT(40), <1>2, <1>3, <2>1
  <2>9. DataOK(c)'
    BY <1>2, <2>2, <2>5, <2>6, <2>8 DEF DataOK, Unpublished
  <2>10. \A d \in Client \ {c} : pc'[d] = pc[d] /\ meta'[d] = meta[d]
    BY Zenon, <1>1, <2>2 DEF Types
  <2> QED
    BY ZenonT(40), <1>0, <1>1, <2>2, <2>4, <2>7, <2>9, <2>10, StepOfOne
<1>4. CASE ~metadata[version[c]].present
  <2>1. End(c, "not_found")
    BY <1>4 DEF ReadMetadata
  <2>2. pc[c] \in Critical
    BY ZenonT(40), <1>0 DEF Critical
  <2> QED
    BY <1>0, <1>2, <2>1, <2>2, EndKeeps
<1> QED
  BY Zenon, <1>3, <1>4

(* The version to write is the next one, or 1 when the read fails.         *)
LEMMA NextVersionKeeps ==
  ASSUME CatalogInv, NEW c \in Task, NextVersion(c)
  PROVE  CatalogInv'
<1>0. pc[c] = "next"
  BY DEF NextVersion
<1>1. /\ Types /\ c \in Client /\ LocksOK(c) /\ DataOK(c) /\ current_version = hint
  BY <1>0, Running DEF Types, current_version, Torn
<1>2. PICK v \in 0 .. MaxVersions : ReadVersion(v) /\ version' = [version EXCEPT ![c] = v + 1]
  BY ZenonT(40) DEF NextVersion, Successor
<1>3. v + 1 \in {1, hint + 1} /\ v + 1 \in Nat
  BY <1>1, <1>2, HadoopAssumption DEF ReadVersion, MaxVersions
<1>4. /\ pc' = [pc EXCEPT ![c] = "put"]
      /\ UNCHANGED <<hint, metadata, lock, mutex, req, meta, result, outcome, setting, calls>>
  BY DEF NextVersion, Goto, locks, bounds
<1>5. Types'
  BY <1>1, <1>2, <1>3, <1>4 DEF Types, CommitLabel
<1>6. Current' = Current /\ ProcessOf' = ProcessOf /\ Task' = Task
  BY <1>4 DEF Current, current_version, ProcessOf, Task
<1>7. pc'[c] = "put" /\ version'[c] = v + 1
  BY Zenon, <1>1, <1>2, <1>4 DEF Types
<1>8. LocksOK(c)'
  BY Zenon, <1>0, <1>1, <1>4, <1>6, <1>7 DEF LocksOK, Critical
<1>9. DataOK(c)'
  BY <1>0, <1>1, <1>3, <1>4, <1>6, <1>7 DEF DataOK, Unpublished
<1>10. \A d \in Client \ {c} : pc'[d] = pc[d] /\ version'[d] = version[d]
  BY <1>1, <1>2, <1>4 DEF Types
<1> QED
  BY <1>0, <1>1, <1>4, <1>5, <1>8, <1>9, <1>10, StepOfOne

--------------------------------------------------------------------------------
(* There is a version left for every call: the commits in the log are      *)
(* those of other calls.                                                   *)
LEMMA RoomForVersion ==
  ASSUME CatalogInv, NEW c \in Task, pc[c] = "put"
  PROVE  version[c] \in 1 .. MaxVersions /\ IsFiniteSet(Ids(Current))
<1>1. /\ Types /\ c \in Client /\ LocksOK(c) /\ DataOK(c)
  BY ZenonT(40), Running
<1>2. /\ req[c].id \in 1 .. calls /\ req[c].id \notin Ids(Current)
      /\ version[c] \in {1, hint + 1} /\ calls \in Nat /\ calls <= MaxCalls /\ hint \in Nat
  BY SMTT(40), <1>1, HadoopAssumption DEF LocksOK, DataOK, Unpublished, Types, MaxVersions
<1>3. Ids(Current) \subseteq (1 .. calls) \ {req[c].id} /\ hint <= 1 + Cardinality(Ids(Current))
  BY ZenonT(40), <1>2 DEF CatalogInv, Versions
<1>4. IsFiniteSet(1 .. calls) /\ Cardinality(1 .. calls) = calls
  BY <1>2, FS_Interval
<1>5. /\ IsFiniteSet((1 .. calls) \ {req[c].id})
      /\ Cardinality((1 .. calls) \ {req[c].id}) = calls - 1
  BY ZenonT(40), <1>2, <1>4, FS_RemoveElement
<1>6. /\ IsFiniteSet(Ids(Current)) /\ Cardinality(Ids(Current)) \in Nat
      /\ Cardinality(Ids(Current)) <= calls - 1
  BY <1>3, <1>5, FS_Subset, FS_CardinalityType
<1>7. hint + 1 <= MaxCalls + 1
  BY <1>2, <1>3, <1>6, HadoopAssumption
<1> QED
  BY <1>2, <1>6, <1>7, HadoopAssumption DEF MaxVersions

(* What a step of c may make of the table: nothing, or its commit on top.  *)
Published(c) ==
  \/ Current' = Current
  \/ Current.present /\ Current' = Applied(req[c], Current)

(* The next version is written before anything names it, unless a failed   *)
(* read made it version 1 over version 1, which the commit then is in.     *)
LEMMA PutMetadataKeeps ==
  ASSUME CatalogInv, NEW c \in Task, PutMetadata(c)
  PROVE  CatalogInv' /\ Published(c)
<1>0. pc[c] = "put"
  BY DEF PutMetadata
<1>1. /\ Types /\ c \in Client /\ LocksOK(c) /\ DataOK(c)
      /\ req[c] \in RequestT /\ req[c].op \in CommitOp /\ req[c].id \in Id
  BY <1>0, Running
<1>2. /\ Current = metadata[hint] /\ Current \in MetaT /\ Current.present
      /\ meta[c] = Applied(req[c], Current) /\ req[c].id \notin Ids(Current)
      /\ version[c] \in {1, hint + 1}
  BY <1>0, <1>1, CurrentType DEF DataOK, Unpublished
<1>3. version[c] \in 1 .. MaxVersions /\ IsFiniteSet(Ids(Current))
  BY <1>0, RoomForVersion
<1>4. /\ metadata' = [metadata EXCEPT ![version[c]] = meta[c]] /\ pc' = [pc EXCEPT ![c] = "put_hint"]
      /\ UNCHANGED <<hint, lock, mutex, req, version, meta, result, outcome, setting, calls>>
  BY Zenon DEF PutMetadata, Goto, locks, locals, bounds
<1>5. /\ meta[c] \in MetaT /\ meta[c].present /\ Ids(meta[c]) = Ids(Current) \cup {req[c].id}
  BY ZenonT(40), <1>1, <1>2, AppliedType
<1>6. hint \in 0 .. MaxVersions /\ hint \in Nat /\ version[c] \in 0 .. MaxVersions /\ version[c] # 0
  BY <1>1, <1>3, HadoopAssumption DEF Types, MaxVersions
<1>7. Types'
  <2>1. metadata' \in [0 .. MaxVersions -> MetaT] /\ metadata'[0] = NoMeta
    BY <1>1, <1>4, <1>5, <1>6 DEF Types
  <2> QED
    BY <1>1, <1>4, <2>1 DEF Types, CommitLabel
<1>8. /\ pc'[c] = "put_hint" /\ metadata'[version[c]] = meta[c] /\ ProcessOf' = ProcessOf /\ Task' = Task
  BY <1>1, <1>4, <1>6 DEF Types, ProcessOf, Task
<1>9. Current' = metadata'[hint]
  BY SMTT(40), <1>1, <1>4 DEF Current, current_version, Types, Torn
<1>10. LocksOK(c)'
  BY <1>0, <1>1, <1>4, <1>8 DEF LocksOK, Critical
<1>11. \A d \in Client \ {c} : pc'[d] = pc[d]
  BY <1>1, <1>4 DEF Types
<1>12. CASE version[c] = hint
  <2>1. version[c] = 1 /\ Current' = meta[c]
    BY <1>2, <1>6, <1>8, <1>9, <1>12
  <2>2. Ids(Current') = Ids(Current) \cup {req[c].id}
    BY <1>5, <2>1
  <2>3. IsFiniteSet(Ids(Current')) /\ Cardinality(Ids(Current')) \in Nat
    <3>1. IsFiniteSet(Ids(Current) \cup {req[c].id})
      BY <1>3, FS_AddElement
    <3>2. IsFiniteSet(Ids(Current'))
      BY <2>2, <3>1
    <3> QED
      BY <3>2, FS_CardinalityType
  <2>4. hint' <= 1 + Cardinality(Ids(Current'))
    BY SMTT(40), <1>4, <1>12, <2>1, <2>3
  <2>5. DataOK(c)'
    BY Zenon, <1>2, <1>3, <1>4, <1>5, <1>8, <2>1, <2>2 DEF DataOK, Unpublished
  <2>6. CatalogInv'
    BY Zenon, <1>0, <1>1, <1>4, <1>7, <1>10, <1>11, <2>2, <2>4, <2>5, StepOfOne DEF Critical
  <2> QED
    BY Zenon, <1>2, <2>1, <2>6 DEF Published
<1>13. CASE version[c] # hint
  <2>1. Current' = Current
    BY <1>1, <1>2, <1>4, <1>6, <1>9, <1>13 DEF Types
  <2>2. DataOK(c)'
    BY ZenonT(40), <1>2, <1>3, <1>4, <1>8, <2>1 DEF DataOK, Unpublished
  <2>3. hint' <= 1 + Cardinality(Ids(Current'))
    BY Zenon, <1>4, <2>1 DEF CatalogInv, Versions
  <2>4. CatalogInv'
    BY Zenon, <1>0, <1>1, <1>4, <1>7, <1>10, <1>11, <2>1, <2>2, <2>3, StepOfOne DEF Critical
  <2> QED
    BY <2>1, <2>4 DEF Published
<1> QED
  BY <1>12, <1>13

(* Putting the hint publishes the commit, on top of the table as it is.    *)
LEMMA PutHintKeeps ==
  ASSUME CatalogInv, NEW c \in Task, PutHint(c)
  PROVE  CatalogInv' /\ Published(c)
<1>0. pc[c] = "put_hint"
  BY Zenon, Running DEF PutHint, CatalogInv, Types, Sound
<1>1. /\ Types /\ c \in Client /\ LocksOK(c) /\ DataOK(c)
      /\ req[c] \in RequestT /\ req[c].op \in CommitOp /\ req[c].id \in Id
  BY <1>0, Running
<1>2. /\ pc' = [pc EXCEPT ![c] = "release"] /\ result' = [result EXCEPT ![c] = "ok"]
      /\ hint' = version[c]
      /\ UNCHANGED <<metadata, lock, mutex, req, version, meta, outcome, setting, calls>>
  BY Zenon, <1>1 DEF PutHint, End, Goto, bounds
<1>3. /\ Current = metadata[hint] /\ Current \in MetaT /\ Current.present
      /\ metadata[version[c]] = meta[c]
      /\ version[c] \in 1 .. MaxVersions /\ version[c] \in {1, hint + 1}
      /\ \/ meta[c] = Current /\ req[c].id \in Ids(Current) /\ version[c] = 1
         \/ meta[c] = Applied(req[c], Current) /\ req[c].id \notin Ids(Current)
  BY ZenonT(40), <1>0, <1>1, CurrentType DEF DataOK
<1>4. version[c] \in 0 .. MaxVersions /\ version[c] # -1 /\ hint \in Nat /\ version[c] \in Nat
  BY <1>1, <1>3, HadoopAssumption DEF Types, MaxVersions
<1>5. Types'
  BY ZenonT(40), <1>1, <1>2, <1>4 DEF Types, CommitLabel, Result
<1>6. Current' = meta[c]
  BY <1>2, <1>3, <1>4 DEF Current, current_version, Torn
<1>7. IsFiniteSet(Ids(Current)) /\ Cardinality(Ids(Current)) \in Nat
  <2>1. calls \in Int
    BY <1>1, HadoopAssumption DEF Types
  <2>2. IsFiniteSet(1 .. calls)
    BY <2>1, FS_Interval
  <2>3. Ids(Current) \subseteq 1 .. calls
    BY DEF CatalogInv, Versions
  <2>4. IsFiniteSet(Ids(Current))
    BY ZenonT(40), <2>2, <2>3, FS_Subset
  <2> QED
    BY ZenonT(40), <2>4, FS_CardinalityType
<1>8. /\ Ids(Current') \in {Ids(Current), Ids(Current) \cup {req[c].id}}
      /\ req[c].id \in Ids(Current') /\ hint' <= 1 + Cardinality(Ids(Current'))
  <2>1. CASE meta[c] = Current /\ req[c].id \in Ids(Current) /\ version[c] = 1
    BY SMTT(40), <1>2, <1>6, <1>7, <2>1
  <2>2. CASE meta[c] = Applied(req[c], Current) /\ req[c].id \notin Ids(Current)
    <3>1. Ids(Current') = Ids(Current) \cup {req[c].id}
      BY ZenonT(40), <1>1, <1>3, <1>6, <2>2, AppliedType
    <3>2. Cardinality(Ids(Current) \cup {req[c].id}) = Cardinality(Ids(Current)) + 1
      BY ZenonT(40), <1>7, <2>2, FS_AddElement
    <3>3. hint <= 1 + Cardinality(Ids(Current))
      BY DEF CatalogInv, Versions
    <3>4. version[c] <= 1 + (Cardinality(Ids(Current)) + 1)
      BY <1>3, <1>4, <1>7, <3>3
    <3> QED
      BY <1>2, <3>1, <3>2, <3>4
  <2> QED
    BY Zenon, <1>3, <2>1, <2>2
<1>9. pc'[c] = "release" /\ result'[c] = "ok" /\ ProcessOf' = ProcessOf /\ Task' = Task
  BY <1>1, <1>2 DEF Types, ProcessOf, Task
<1>10. LocksOK(c)'
  BY Zenon, <1>0, <1>1, <1>2, <1>9 DEF LocksOK, Critical
<1>11. DataOK(c)'
  BY <1>2, <1>8, <1>9 DEF DataOK, Unpublished
<1>12. \A d \in Client \ {c} : pc'[d] = pc[d] /\ result'[d] = result[d]
  BY Zenon, <1>1, <1>2 DEF Types
<1>13. CatalogInv'
  BY ZenonT(40), <1>0, <1>1, <1>2, <1>5, <1>8, <1>10, <1>11, <1>12, StepOfOne DEF Critical
<1> QED
  BY Zenon, <1>3, <1>6, <1>13 DEF Published

(* The answer of a call that has released its lock, or failed to.          *)
LEMMA ReleaseKeeps ==
  ASSUME CatalogInv, NEW c \in Task, release_lock(c)
  PROVE  CatalogInv'
<1>0. pc[c] = "release" /\ UNCHANGED <<hint, metadata, setting, calls>>
  BY DEF release_lock, bounds
<1>1. /\ Types /\ c \in Client /\ LocksOK(c) /\ DataOK(c)
  BY <1>0, Running
<1>2. PICK released \in BOOLEAN : Idle({c}, Answered(c, released))
  <2>1. Idle({c}, Answered(c, TRUE)) \/ Idle({c}, Answered(c, FALSE))
    BY Zenon DEF release_lock, Return
  <2> QED
    BY Zenon, <2>1
<1>3. lock' \in Process \cup {NoProcess}
  BY ZenonT(40), <1>1 DEF release_lock, Types
<1>4. \A d \in Client \ {c} : pc[d] \notin Critical
  BY <1>0, <1>1, OneCritical DEF Critical
<1>5. /\ Answered(c, released) \in Answer
      /\ Answered(c, released) = "ok" => req[c].id \in Ids(Current)
      /\ Answered(c, released) \in {"locked", "not_found"} => req[c].id \notin Ids(Current)
  <2>1. /\ result[c] \in Result
        /\ result[c] = "ok" => req[c].id \in Ids(Current)
        /\ result[c] = "not_found" => req[c].id \notin Ids(Current)
    BY <1>0, <1>1 DEF DataOK, Types
  <2> QED
    BY <2>1 DEF Answered, Answer, Result
<1> DEFINE a == Answered(c, released)
<1>6. a \in Answer /\ Idle({c}, a)
  BY Zenon, <1>2, <1>5
<1>7. /\ a = "ok" => req[c].id \in Ids(Current)
      /\ a \in {"locked", "not_found"} => req[c].id \notin Ids(Current)
  BY Zenon, <1>5
<1> HIDE DEF a
<1>8. \A d \in {c} : pc[d] # "idle" =>
        /\ a = "ok" => req[d].id \in Ids(Current)
        /\ a \in {"locked", "not_found"} => req[d].id \notin Ids(Current)
  BY Zenon, <1>7
<1>9. {c} \in SUBSET Client /\ \A d \in Client \ {c} : pc[d] \in Critical => lock' = lock
  BY Zenon, <1>1, <1>4
<1> QED
  BY Zenon, <1>0, <1>3, <1>6, <1>8, <1>9, IdleKeeps

(* A failed request: nothing has been published, or nobody is told.        *)
LEMMA FailKeeps ==
  ASSUME CatalogInv, NEW c \in Task, Fail(c)
  PROVE  CatalogInv'
<1>0. /\ pc[c] \notin {"idle", "lock", "release"}
      /\ UNCHANGED <<hint, metadata, lock, setting, calls>>
  BY ZenonT(40) DEF Fail, bounds
<1>1. Types /\ c \in Client
  BY <1>0, Running
<1>2. CASE pc[c] = "acquire"
  <2>1. Idle({c}, "unknown") /\ "unknown" \in Answer /\ {c} \in SUBSET Client
    BY <1>1, <1>2 DEF Fail, Return, Answer
  <2>2. lock' \in Process \cup {NoProcess}
    BY Zenon, <1>0, <1>1 DEF Types
  <2> QED
    BY <1>0, <2>1, <2>2, IdleKeeps
<1>3. CASE pc[c] # "acquire"
  <2>1. pc[c] \in Critical
    BY <1>0, <1>1, <1>3 DEF Types, CommitLabel, Critical
  <2>2. End(c, "unknown")
    BY <1>3 DEF Fail
  <2> QED
    BY <1>0, <2>1, <2>2, EndKeeps
<1> QED
  BY <1>2, <1>3

(* A dropped future keeps the lock of the store, a dead process does not.  *)
LEMMA DroppedKeeps ==
  ASSUME CatalogInv, \/ \E c \in Task : Cancel(c)
                     \/ \E p \in Process : Crash(p)
  PROVE  CatalogInv'
<1>0. Types /\ Task \subseteq Client /\ "unknown" \in Answer
  BY ZenonT(40), HadoopAssumption DEF CatalogInv, Types, Task, Answer
<1>1. ASSUME NEW c \in Task, Cancel(c) PROVE CatalogInv'
  <2>1. Idle({c}, "unknown") /\ UNCHANGED <<hint, metadata, lock, setting, calls>>
    BY <1>1 DEF Cancel, Return
  <2>2. lock' \in Process \cup {NoProcess} /\ {c} \in SUBSET Client
    BY Zenon, <1>0, <2>1 DEF Types
  <2> QED
    BY <1>0, <2>1, <2>2, IdleKeeps
<1>2. ASSUME NEW p \in Process, Crash(p) PROVE CatalogInv'
  <2> DEFINE T == {c \in Task : ProcessOf[c] = p}
  <2>1. Idle(T, "unknown") /\ UNCHANGED <<hint, metadata, setting, calls>>
    BY ZenonT(40), <1>2 DEF Crash
  <2>2. lock' = (IF lock = p THEN NoProcess ELSE lock)
    BY <1>0, <1>2 DEF Crash, Types, Sound
  <2>3. lock' \in Process \cup {NoProcess} /\ T \in SUBSET Client
    BY <1>0, <2>2 DEF Types
  <2>4. \A d \in Client \ T : pc[d] \in Critical => lock' = lock
    <3> SUFFICES ASSUME NEW d \in Client \ T, pc[d] \in Critical PROVE lock' = lock
      OBVIOUS
    <3>1. d \in Task /\ lock = ProcessOf[d]
      BY DEF CatalogInv, LocksOK, Critical
    <3> QED
      BY <2>2, <3>1
  <2> HIDE DEF T
  <2> QED
    BY Zenon, <1>0, <2>1, <2>3, <2>4, IdleKeeps
<1> QED
  BY Zenon, <1>1, <1>2

--------------------------------------------------------------------------------
(* Every step keeps the invariant, and changes the table by a commit.      *)
LEMMA NextKeeps ==
  ASSUME CatalogInv, [Next]_vars
  PROVE  CatalogInv' /\ (Current' = Current \/ \E c \in Task : pc[c] # "idle" /\ Published(c))
<1>0. Types /\ Task \subseteq Client
  BY HadoopAssumption DEF CatalogInv, Types, Task
<1>1. CASE UNCHANGED vars
  <2>1. UNCHANGED <<setting, hint, metadata, lock, mutex, pc, req, version, meta, result, outcome, calls>>
    BY <1>1 DEF vars, locks, locals, bounds
  <2>2. Current' = Current /\ ProcessOf' = ProcessOf /\ Task' = Task
    BY Zenon, <2>1 DEF Current, current_version, ProcessOf, Task
  <2>3. Types' /\ Distinct' /\ Answers' /\ Versions'
    BY ZenonT(40), <2>1, <2>2 DEF CatalogInv, Types, Distinct, Answers, Versions
  <2>4. ASSUME NEW c \in Client PROVE LocksOK(c)' /\ DataOK(c)'
    <3>1. LocksOK(c) /\ DataOK(c)
      BY DEF CatalogInv
    <3> QED
      BY <2>1, <2>2, <3>1 DEF LocksOK, DataOK
  <2> QED
    BY <2>2, <2>3, <2>4 DEF CatalogInv
<1>2. ASSUME NEW c \in Task, Begin(c) \/ Fail(c) \/ Cancel(c)
      PROVE  CatalogInv' /\ Current' = Current
  BY Zenon, <1>2, BeginKeeps, FailKeeps, DroppedKeeps DEF Begin, Fail, Cancel, Current, current_version
<1>3. ASSUME NEW c \in Task, Step(c)
      PROVE  CatalogInv' /\ (Current' = Current \/ (pc[c] # "idle" /\ Published(c)))
  <2>0. pc[c] \in CommitLabel /\ setting.atomicPut
    BY Zenon, <1>0 DEF Types, Sound
  <2>1. CASE Lock(c) \/ try_acquire_lock(c) \/ ReadHint(c) \/ ReadMetadata(c)
             \/ NextVersion(c) \/ release_lock(c)
    <3>1. CatalogInv'
      BY Zenon, <2>1, LockKeeps, AcquireKeeps, HintKeeps, MetadataKeeps, NextVersionKeeps, ReleaseKeeps
    <3>2. hint' = hint /\ metadata' = metadata
      BY ZenonT(40), <2>1 DEF Lock, try_acquire_lock, ReadHint, ReadMetadata, NextVersion, release_lock
    <3> QED
      BY <3>1, <3>2 DEF Current, current_version
  <2>2. CASE PutMetadata(c)
    BY ZenonT(40), <2>2, PutMetadataKeeps DEF PutMetadata
  <2>3. CASE PutHint(c)
    BY ZenonT(40), <2>0, <2>3, PutHintKeeps DEF PutHint
  <2>4. CASE CheckAbsent(c) \/ TruncateHint(c) \/ drop_table(c)
    BY Zenon, <2>0, <2>4 DEF CheckAbsent, TruncateHint, drop_table, CommitLabel
  <2> QED
    BY <1>3, <2>1, <2>2, <2>3, <2>4 DEF Step
<1>4. ASSUME NEW p \in Process, Crash(p)
      PROVE  CatalogInv' /\ Current' = Current
  BY ZenonT(40), <1>4, DroppedKeeps DEF Crash, Current, current_version
<1>5. ~Expire
  BY Zenon, <1>0 DEF Expire, Types, Sound
<1> QED
  BY ZenonT(40), <1>1, <1>2, <1>3, <1>4, <1>5 DEF Next

(* commit_snapshot publishes what TableLog says a commit is.               *)
LEMMA PublishedIsCommit ==
  ASSUME CatalogInv, NEW c \in Task, pc[c] # "idle", Published(c)
  PROVE  [Abstract!LogNext]_(Abstract!logVars)
<1>1. /\ Types /\ req[c] \in RequestT /\ req[c].op \in CommitOp /\ req[c].id \in Id
  BY Running
<1>2. Current \in MetaT
  BY <1>1, CurrentType
<1>3. CASE Current' = Current
  BY <1>3 DEF Abstract!logVars, Log
<1>4. CASE Current.present /\ Current' = Applied(req[c], Current)
  <2> DEFINE s == Abstract!SnapshotOf(req[c].id, req[c].op, req[c].files, req[c].deletes)
  <2>1. Applied(req[c], Current).snapshots = Append(Log, s)
    BY <1>1, <1>2
       DEF Applied, Abstract!SnapshotOf, Abstract!Inherits, Abstract!Stamped, Abstract!Listed,
           Listed, Log, CommitOp, MetaT
  <2> HIDE DEF s
  <2>2. Log' = Append(Log, s) /\ Append(Log, s) # Log
    <3>1. Log \in Seq(SnapshotT)
      BY <1>2 DEF Log, MetaT
    <3>2. Len(Append(Log, s)) = Len(Log) + 1 /\ Len(Log) \in Nat
      BY <3>1
    <3> QED
      BY <1>4, <2>1, <3>2 DEF Log
  <2>3. Current'.present = Current.present /\ Current'.evolutions = Current.evolutions
    BY Zenon, <1>1, <1>2, <1>4, AppliedType
  <2>4. req[c].files \in SUBSET Id /\ req[c].deletes \in SUBSET Id
    BY <1>1 DEF RequestT
  <2>5. Abstract!CommitSnapshot(req[c].id, req[c].op, req[c].files, req[c].deletes)
    BY <1>4, <2>2, <2>3 DEF Abstract!CommitSnapshot, s
  <2> QED
    BY <1>1, <2>2, <2>4, <2>5 DEF Abstract!LogNext, CommitOp
<1> QED
  BY <1>3, <1>4 DEF Published

(* Under a lock that does not expire, however many tasks and processes     *)
(* there are, however they fail, are dropped or crash, and even when reads *)
(* of the hint fail, commit_snapshot appends its snapshot atomically to    *)
(* the log as it is when the commit is published.                          *)
THEOREM CommitsAreAtomic ==
  ASSUME \A s \in Setting : Sound(s)
  PROVE  Spec => ImplementsTableLog
<1>1. Init => CatalogInv /\ Abstract!LogInit
  <2> SUFFICES ASSUME Init PROVE CatalogInv /\ Abstract!LogInit
    OBVIOUS
  <2>1. CatalogInv
    BY InitCatalog DEF Init
  <2>2. Current = metadata[hint] /\ Current \in MetaT
    BY Zenon, <2>1, CurrentType DEF CatalogInv
  <2>3. Current \in {NoMeta, EmptyMeta}
    BY <2>2, HadoopAssumption DEF Init, MaxVersions
  <2>4. /\ NoMeta.snapshots = <<>> /\ NoMeta.evolutions = <<>>
        /\ EmptyMeta.snapshots = <<>> /\ EmptyMeta.evolutions = <<>>
    BY DEF NoMeta, EmptyMeta
  <2>5. Current.present \in BOOLEAN
    BY <2>2 DEF MetaT
  <2> QED
    BY <2>1, <2>3, <2>4, <2>5 DEF Abstract!LogInit, Log
<1>2. CatalogInv /\ [Next]_vars => CatalogInv' /\ [Abstract!LogNext]_(Abstract!logVars)
  <2> SUFFICES ASSUME CatalogInv, [Next]_vars
               PROVE  CatalogInv' /\ [Abstract!LogNext]_(Abstract!logVars)
    OBVIOUS
  <2>1. CASE Current' = Current
    BY <2>1, NextKeeps DEF Abstract!logVars, Log
  <2>2. CASE \E c \in Task : pc[c] # "idle" /\ Published(c)
    BY <2>2, NextKeeps, PublishedIsCommit
  <2> QED
    BY <2>1, <2>2, NextKeeps
<1> QED
  BY <1>1, <1>2, PTL DEF Spec, ImplementsTableLog, Abstract!LogSpec

(* There, too, a commit that was acknowledged stays in the table, and one  *)
(* that was refused for the lock, or found no table, never gets in.        *)
THEOREM CommitsStay ==
  ASSUME \A s \in Setting : Sound(s)
  PROVE  Spec => []CommitsDurable
<1>1. Init => CatalogInv
  BY InitCatalog DEF Init
<1>2. CatalogInv /\ [Next]_vars => CatalogInv'
  BY Zenon, NextKeeps
<1>3. CatalogInv => CommitsDurable
  BY DEF CatalogInv, Answers, CommitsDurable, InLog, Log, Ids
<1> QED
  BY <1>1, <1>2, <1>3, PTL DEF Spec
================================================================================
