------------------------------ MODULE QueryCache ------------------------------
(***************************************************************************)
(* The two-tier cache of `ailake serve` (CacheManager and CachingStore of  *)
(* ailake-cache/src/lib.rs) and the handlers of ailake-cli/src/serve.rs    *)
(* that read and invalidate it, for one table.                             *)
(*                                                                         *)
(*   local     the process-wide LRU: [entries, order, bytes]               *)
(*   shared    Redis: the values it still has, by key                      *)
(*   observed  the snapshot recorded for the table, Current before any     *)
(*   content   the version of each file in the store below, 0 without one  *)
(*   latest    the catalog's snapshot, 0 before any                        *)
(*   reader    per request: [op, pc, key, got, snapshot]                   *)
(*                                                                         *)
(* A cached value is what it was computed from: the version of a file, or  *)
(* the snapshot of a table for its metadata and for an answer to a query.  *)
(* The local mutex is held for one step; Redis and the store are awaited.  *)
(* Instant::now is left out: a live entry may expire at any time.          *)
(*                                                                         *)
(* Definitions called X_Wrong are seeded faults: X with a plausible bug,   *)
(* to show that the properties notice it.  No specification uses them.     *)
(***************************************************************************)
EXTENDS Integers, Sequences, FiniteSets, FiniteSetsExt

CONSTANTS Reader, File, size, max_bytes, CacheSetting

ASSUME CacheAssumption ==
  /\ size \in [File \cup {"query", "table"} -> Nat]
  /\ max_bytes \in Nat \ {0}
  /\ \A s \in CacheSetting :
       /\ s.op \subseteq {"read", "put", "delete", "search", "info", "write", "compact"}
       /\ s.redis \in BOOLEAN /\ {s.changes, s.cacheFaults} \subseteq Nat

VARIABLES cacheSetting, local, shared, observed, content, latest, reader, cacheChanges, cacheFaults

tiers == <<local, shared, observed>>
cacheVars == <<cacheSetting, tiers, content, latest, reader, cacheChanges, cacheFaults>>

Current == -1
key(kind, snapshot, name, part) == [kind |-> kind, snapshot |-> snapshot, name |-> name, part |-> part]
Part == {"whole", "range"}
TableKey == key("metadata", Current, "table", "whole")
query_key_Wrong(snapshot) == key("query", Current, "query", "whole")
query_key(snapshot) == key("query", snapshot, "query", "whole")
file_key(name, part) == key("index", observed, name, part)

Without(f, S) == [x \in DOMAIN f \ S |-> f[x]]
With(f, x, v) == [y \in DOMAIN f \cup {x} |-> IF y = x THEN v ELSE f[y]]
Empty == [x \in {} |-> 0]

--------------------------------------------------------------------------------
(* The local tier.                                                         *)
retain(order, k) ==
  LET upTo[i \in 0 .. Len(order)] ==
        IF i = 0 THEN << >>
        ELSE IF order[i] = k THEN upTo[i - 1] ELSE Append(upTo[i - 1], order[i])
  IN  upTo[Len(order)]

(* The bytes left once the entry of k, if there is one, is gone.           *)
Lighter(l, k) == IF k \in DOMAIN l.entries THEN l.bytes - size[k.name] ELSE l.bytes

remove_local(l, k) ==
  [entries |-> Without(l.entries, {k}), order |-> retain(l.order, k), bytes |-> Lighter(l, k)]

RemoveAll(l, S) == FoldSet(LAMBDA k, left : remove_local(left, k), l, S)

pop_front(l) ==
  [entries |-> Without(l.entries, {Head(l.order)}), order |-> Tail(l.order), bytes |-> Lighter(l, Head(l.order))]

(* The loop of insert_local: it runs at most once per key of the order.    *)
Evict(l) ==
  LET after[n \in 0 .. Len(l.order)] ==
        IF n = 0 THEN l
        ELSE IF after[n - 1].bytes > max_bytes THEN pop_front(after[n - 1]) ELSE after[n - 1]
  IN  after[Len(l.order)]

insert_local(l, k, v) ==
  LET without == remove_local(l, k)
  IN  Evict([entries |-> With(without.entries, k, [value |-> v, live |-> TRUE]),
             order |-> Append(without.order, k),
             bytes |-> without.bytes + size[k.name]])

(* A hit moves the key to the end of the LRU order.                        *)
Touch(l, k) == [l EXCEPT !.order = Append(retain(l.order, k), k)]

invalidate_snapshot(l, snapshot) ==
  RemoveAll(l, {k \in DOMAIN l.entries : k.snapshot # snapshot})
invalidate_scope(l) == RemoveAll(l, DOMAIN l.entries)
(* Keys that end with the path: those of the whole file.                   *)
invalidate_identity(l, name) ==
  RemoveAll(l, {k \in DOMAIN l.entries : k.name = name /\ k.part = "whole"})

--------------------------------------------------------------------------------
NoRead == [op |-> "none", pc |-> "idle", key |-> TableKey, got |-> 0, snapshot |-> 0]

CacheInit ==
  /\ cacheSetting \in CacheSetting
  /\ local = [entries |-> Empty, order |-> << >>, bytes |-> 0]
  /\ shared = Empty /\ observed = Current
  /\ content = [f \in File |-> 1] /\ latest = 0
  /\ reader = [r \in Reader |-> NoRead]
  /\ cacheChanges = 0 /\ cacheFaults = 0

Free(r) == reader[r].pc \in {"idle", "answered"}
Changes == cacheChanges < cacheSetting.changes /\ cacheChanges' = cacheChanges + 1
Next_(r, label) == reader' = [reader EXCEPT ![r].pc = label]
Got(r, label, v) == reader' = [reader EXCEPT ![r].pc = label, ![r].got = v]
Fails(r) ==
  /\ cacheFaults < cacheSetting.cacheFaults /\ cacheFaults' = cacheFaults + 1
  /\ reader' = [reader EXCEPT ![r] = NoRead]

(* CachingStore::read begins by asking for the snapshot to look under.     *)
read(r, name, part) ==
  /\ Free(r) /\ "read" \in cacheSetting.op
  /\ reader' = [reader EXCEPT ![r] = [NoRead EXCEPT !.op = "read", !.pc = "local",
                                              !.key = file_key(name, part)]]
  /\ UNCHANGED <<cacheSetting, tiers, content, latest, cacheChanges, cacheFaults>>

(* CachingStore::put and delete: first the store below, then the cache.    *)
Store(r, op, name) ==
  /\ Free(r) /\ op \in cacheSetting.op \cap {"put", "delete"}
  /\ Changes
  /\ content' = [content EXCEPT ![name] = IF op = "put" THEN cacheChanges' + 1 ELSE 0]
  /\ reader' = [reader EXCEPT ![r] = [NoRead EXCEPT !.op = op, !.pc = "forget",
                                              !.key = key("index", Current, name, "whole")]]
  /\ UNCHANGED <<cacheSetting, tiers, latest, cacheFaults>>
Forget(r) ==
  /\ reader[r].pc = "forget"
  /\ local' = invalidate_identity(local, reader[r].key.name)
  /\ Next_(r, "answered")
  /\ UNCHANGED <<cacheSetting, shared, observed, content, latest, cacheChanges, cacheFaults>>

(* handle_search loads the table before it looks for a cached answer.      *)
handle_search(r) ==
  /\ Free(r) /\ "search" \in cacheSetting.op
  /\ reader' = [reader EXCEPT ![r] = [NoRead EXCEPT !.op = "search", !.pc = "observe",
                                    !.key = query_key(latest), !.snapshot = latest]]
  /\ UNCHANGED <<cacheSetting, tiers, content, latest, cacheChanges, cacheFaults>>

(* handle_info and handle_ready: load_table_cached.                        *)
load_table_cached(r) ==
  /\ Free(r) /\ "info" \in cacheSetting.op
  /\ reader' = [reader EXCEPT ![r] = [NoRead EXCEPT !.op = "info", !.pc = "local"]]
  /\ UNCHANGED <<cacheSetting, tiers, content, latest, cacheChanges, cacheFaults>>

(* handle_write and execute_compaction, from the commit they make.         *)
Commit(r, op) ==
  /\ Free(r) /\ op \in cacheSetting.op \cap {"write", "compact"}
  /\ Changes
  /\ latest' = latest + 1
  /\ reader' = [reader EXCEPT ![r] = [NoRead EXCEPT !.op = op, !.pc = "observe",
                                              !.snapshot = latest']]
  /\ UNCHANGED <<cacheSetting, tiers, content, cacheFaults>>

(* Another process commits.                                                *)
OthersCommit ==
  /\ Changes
  /\ latest' = latest + 1
  /\ UNCHANGED <<cacheSetting, tiers, content, reader, cacheFaults>>

--------------------------------------------------------------------------------
(* observe_snapshot: record it, then drop what other snapshots left.       *)
observe_snapshot(r) ==
  /\ reader[r].pc = "observe"
  /\ observed' = reader[r].snapshot
  /\ Next_(r, "invalidate")
  /\ UNCHANGED <<cacheSetting, local, shared, content, latest, cacheChanges, cacheFaults>>
Invalidate(r) ==
  /\ reader[r].pc = "invalidate"
  /\ local' = invalidate_snapshot(local, reader[r].snapshot)
  /\ Next_(r, CASE reader[r].op = "search" -> "local"
                [] reader[r].op = "compact" -> "scope"
                [] OTHER -> "answered")
  /\ UNCHANGED <<cacheSetting, shared, observed, content, latest, cacheChanges, cacheFaults>>
InvalidateScope(r) ==
  /\ reader[r].pc = "scope"
  /\ local' = invalidate_scope(local)
  /\ Next_(r, IF cacheSetting.redis THEN "redis_del" ELSE "answered")
  /\ UNCHANGED <<cacheSetting, shared, observed, content, latest, cacheChanges, cacheFaults>>
redis_del(r) ==
  /\ reader[r].pc = "redis_del"
  /\ shared' = Without(shared, {TableKey})
  /\ Next_(r, "answered")
  /\ UNCHANGED <<cacheSetting, local, observed, content, latest, cacheChanges, cacheFaults>>

(* A request that has its value: load_table_cached goes on to observe it.  *)
Has(r, v) ==
  IF reader[r].op = "info" /\ v # 0
  THEN reader' = [reader EXCEPT ![r].pc = "observe", ![r].got = v, ![r].snapshot = v]
  ELSE Got(r, "answered", v)

(* CacheManager::get.                                                      *)
GetLocal(r) ==
  /\ reader[r].pc = "local"
  /\ LET k == reader[r].key
         hit == k \in DOMAIN local.entries /\ local.entries[k].live
     IN  IF hit
         THEN local' = Touch(local, k) /\ Has(r, local.entries[k].value)
         ELSE /\ local' = remove_local(local, k)
              /\ Next_(r, IF cacheSetting.redis THEN "redis_get" ELSE "load")
  /\ UNCHANGED <<cacheSetting, shared, observed, content, latest, cacheChanges, cacheFaults>>
redis_get(r) ==
  /\ reader[r].pc = "redis_get"
  /\ IF reader[r].key \in DOMAIN shared
     THEN Got(r, "refill", shared[reader[r].key])
     ELSE Next_(r, "load")
  /\ UNCHANGED <<cacheSetting, tiers, content, latest, cacheChanges, cacheFaults>>
Refill_Wrong(r) ==
  /\ reader[r].pc = "refill"
  /\ local' = insert_local(local, reader[r].key, reader[r].got)
  /\ shared' = With(shared, reader[r].key, reader[r].got)
  /\ Has(r, reader[r].got)
  /\ UNCHANGED <<cacheSetting, observed, content, latest, cacheChanges, cacheFaults>>
Refill(r) ==
  /\ reader[r].pc = "refill"
  /\ local' = insert_local(local, reader[r].key, reader[r].got)
  /\ Has(r, reader[r].got)
  /\ UNCHANGED <<cacheSetting, shared, observed, content, latest, cacheChanges, cacheFaults>>

(* A miss: read the file, load the table, or list its files and search.    *)
CachedLoad(r) ==
  /\ reader[r].pc = "load"
  /\ IF reader[r].op = "read"
     THEN LET v == content[reader[r].key.name]
          IN  IF v = 0 THEN reader' = [reader EXCEPT ![r] = NoRead] ELSE Got(r, "put", v)
     ELSE Got(r, "put", latest)
  /\ UNCHANGED <<cacheSetting, tiers, content, latest, cacheChanges, cacheFaults>>

(* CacheManager::put.                                                      *)
PutLocal(r) ==
  /\ reader[r].pc = "put"
  /\ local' = insert_local(local, reader[r].key, reader[r].got)
  /\ IF cacheSetting.redis THEN Next_(r, "redis_put") ELSE Has(r, reader[r].got)
  /\ UNCHANGED <<cacheSetting, shared, observed, content, latest, cacheChanges, cacheFaults>>
redis_put(r) ==
  /\ reader[r].pc = "redis_put"
  /\ shared' = With(shared, reader[r].key, reader[r].got)
  /\ Has(r, reader[r].got)
  /\ UNCHANGED <<cacheSetting, local, observed, content, latest, cacheChanges, cacheFaults>>

(* An error of Redis counts as a miss, or is ignored; one of the store or  *)
(* of the catalog, or its open circuit, is the answer.                     *)
RedisFails(r) ==
  /\ reader[r].pc \in {"redis_get", "redis_put", "redis_del"}
  /\ cacheFaults < cacheSetting.cacheFaults /\ cacheFaults' = cacheFaults + 1
  /\ CASE reader[r].pc = "redis_get" -> Next_(r, "load")
       [] reader[r].pc = "redis_put" -> Has(r, reader[r].got)
       [] reader[r].pc = "redis_del" -> Next_(r, "answered")
  /\ UNCHANGED <<cacheSetting, tiers, content, latest, cacheChanges>>
LoadFails(r) ==
  /\ reader[r].pc = "load"
  /\ Fails(r)
  /\ UNCHANGED <<cacheSetting, tiers, content, latest, cacheChanges>>
(* The connection of the request is closed, and its future dropped.        *)
Abandoned(r) ==
  /\ ~Free(r)
  /\ Fails(r)
  /\ UNCHANGED <<cacheSetting, tiers, content, latest, cacheChanges>>

Expire(k) ==
  /\ k \in DOMAIN local.entries /\ local.entries[k].live
  /\ local' = [local EXCEPT !.entries[k].live = FALSE]
  /\ UNCHANGED <<cacheSetting, shared, observed, content, latest, reader, cacheChanges, cacheFaults>>
RedisExpire(k) ==
  /\ k \in DOMAIN shared
  /\ shared' = Without(shared, {k})
  /\ UNCHANGED <<cacheSetting, local, observed, content, latest, reader, cacheChanges, cacheFaults>>

CacheStep(r) ==
  \/ Forget(r) \/ observe_snapshot(r) \/ Invalidate(r) \/ InvalidateScope(r) \/ redis_del(r)
  \/ GetLocal(r) \/ redis_get(r) \/ Refill(r) \/ CachedLoad(r) \/ PutLocal(r) \/ redis_put(r)

CacheNext ==
  \/ \E r \in Reader, f \in File, p \in Part : read(r, f, p)
  \/ \E r \in Reader, f \in File, op \in {"put", "delete"} : Store(r, op, f)
  \/ \E r \in Reader, op \in {"write", "compact"} : Commit(r, op)
  \/ \E r \in Reader : handle_search(r) \/ load_table_cached(r) \/ CacheStep(r)
                       \/ RedisFails(r) \/ LoadFails(r) \/ Abandoned(r)
  \/ OthersCommit
  \/ \E k \in DOMAIN local.entries : Expire(k)
  \/ \E k \in DOMAIN shared : RedisExpire(k)

(* Requests are polled until they are answered, and time passes.           *)
FileKey == [kind : {"index"}, snapshot : {Current}, name : File, part : Part]
CacheFair ==
  /\ \A r \in Reader : WF_cacheVars(CacheStep(r))
  /\ \A k \in FileKey : WF_cacheVars(Expire(k)) /\ WF_cacheVars(RedisExpire(k))

CacheSpec == CacheInit /\ [][CacheNext]_cacheVars /\ CacheFair

--------------------------------------------------------------------------------
Snapshots == 0 .. 9
CacheKey == [kind : {"index", "metadata", "query"}, snapshot : Snapshots \cup {Current},
             name : File \cup {"query", "table"}, part : Part]
CacheTypeOK ==
  /\ cacheSetting \in CacheSetting
  /\ DOMAIN local.entries \subseteq CacheKey /\ DOMAIN shared \subseteq CacheKey
  /\ observed \in Snapshots \cup {Current}
  /\ content \in [File -> Nat] /\ latest \in Snapshots
  /\ \A r \in Reader : reader[r].key \in CacheKey /\ reader[r].got \in Snapshots

(* The LRU's three structures agree whatever order reads, refills from     *)
(* Redis, invalidations and evictions come in: `order` holds every entry   *)
(* once, `bytes` is what they weigh, and it is within max_bytes ("a        *)
(* bounded, process-wide LRU"), an entry that alone is too large included. *)
Weight(S) == MapThenSumSet(LAMBDA k : size[k.name], S)
CacheAccounted ==
  /\ Len(local.order) = Cardinality(DOMAIN local.entries)
  /\ {local.order[i] : i \in 1 .. Len(local.order)} = DOMAIN local.entries
  /\ local.bytes = Weight(DOMAIN local.entries) /\ local.bytes <= max_bytes

(* handle_search never answers from a table older than the one that was    *)
(* current when it loaded the table, although the answer may come from     *)
(* either tier, be put there by another request or another server, and the *)
(* search lists the files later than the load that chose its key.          *)
AnswersNotStale ==
  \A r \in Reader : reader[r].op = "search" /\ reader[r].pc = "answered" =>
                      reader[r].got >= reader[r].snapshot

(* A read that loses a race with a put or a delete can cache the version   *)
(* that was replaced, and ranges and Redis are not invalidated at all; but *)
(* it does not last: refills from Redis do not renew each other, so once   *)
(* the files no longer change the cache comes to hold what is there.       *)
StaleEnds ==
  <>[](cacheSetting.op \cap {"put", "delete"} # {} =>
         \A k \in DOMAIN local.entries :
           local.entries[k].live => local.entries[k].value = content[k.name])
================================================================================
