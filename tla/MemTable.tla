------------------------------ MODULE MemTable ------------------------------
(***************************************************************************)
(* The two write buffers of ailake-query/src/mem_table.rs.  MemTableWriter *)
(* collects small batches and flushes them as one data file;               *)
(* WorkingMemoryBuffer keeps the newest entries of an agent and drains     *)
(* them into a TableWriter that its owner commits.  Each has one owner;    *)
(* what can happen to it are failing writes and commits, and a call that   *)
(* its caller drops while it waits for the store.                          *)
(*                                                                         *)
(*   memKind which of the two the behaviour is about                       *)
(*   mem     pending batches (rows, and the schema they have), the rows    *)
(*           with an embedding pending, buffered_bytes, whether the flush  *)
(*           interval has elapsed, the call                                *)
(*   ring    the entries of the working memory, what its writer holds      *)
(*   persisted  rows in committed snapshots, in the order of the commits   *)
(*   gone    history: rows of writes and commits that did not take place   *)
(*   pushed, evicted  history: entries pushed and not yet handed to a      *)
(*           writer; entries that made room for newer ones                 *)
(***************************************************************************)
EXTENDS Integers, Sequences, FiniteSets, Functions

CONSTANTS flush_size_bytes, flush_max_rows, row_bytes,  \* MemTableConfig, bytes a row
          max_rows,                                     \* of the working memory
          MemFaults, MaxMemRows, MaxBatches, MaxInsert  \* bounds

ASSUME MemAssumption ==
    /\ flush_size_bytes \in Nat \ {0} /\ flush_max_rows \in Nat \ {0} /\ row_bytes \in Nat \ {0}
    /\ max_rows \in Nat \ {0} /\ MemFaults \in Nat /\ MaxMemRows \in Nat /\ MaxBatches \in Nat
    /\ MaxInsert \in Nat

VARIABLES memKind, mem, ring, persisted, gone, pushed, evicted, memNext, memFaults

memVars == <<memKind, mem, ring, persisted, gone, pushed, evicted, memNext, memFaults>>

MemEmpty == [batches |-> <<>>, rows |-> <<>>, bytes |-> 0, due |-> FALSE,
             pc |-> "idle", writing |-> <<>>, reply |-> "none"]

MemInit ==
    /\ memKind \in {"batches", "ring"}
    /\ mem = MemEmpty
    /\ ring = [entries |-> <<>>, writer |-> <<>>, pc |-> "idle", writing |-> <<>>]
    /\ persisted = <<>> /\ gone = {} /\ pushed = <<>> /\ evicted = {}
    /\ memNext = 1 /\ memFaults = MemFaults

MemFails == memFaults > 0 /\ memFaults' = memFaults - 1

is_full(m) == m.bytes >= flush_size_bytes \/ Len(m.rows) >= flush_max_rows

Concats(batches) ==
    \A i \in DOMAIN batches : batches[i].schema = batches[1].schema

(* flush up to the write: nothing to do without embeddings; batches that   *)
(* do not concatenate stay; else the buffer is emptied and written.        *)
flush(m) ==
    IF m.rows = <<>> THEN [m EXCEPT !.due = FALSE, !.reply = "ok"]
    ELSE IF ~Concats(m.batches) THEN [m EXCEPT !.reply = "error"]
    ELSE [m EXCEPT !.batches = <<>>, !.rows = <<>>, !.bytes = 0, !.due = FALSE,
                   !.pc = "write", !.writing = m.rows]

(* insert: a batch of n rows, then a flush once the buffer is full.        *)
insert(n, schema) ==
    /\ mem.pc = "idle" /\ memNext + n - 1 <= MaxMemRows /\ Len(mem.batches) < MaxBatches
    /\ LET rows == [i \in 1 .. n |-> memNext + i - 1]
           m == [mem EXCEPT !.batches = Append(@, [rows |-> rows, schema |-> schema]),
                            !.rows = @ \o rows, !.bytes = @ + n * row_bytes, !.reply = "ok"]
       IN  mem' = IF is_full(m) THEN flush(m) ELSE m
    /\ memNext' = memNext + n
    /\ UNCHANGED <<ring, persisted, gone, pushed, evicted, memFaults>>

(* flush_if_due, or flush itself.                                          *)
flush_if_due(forced) ==
    /\ mem.pc = "idle"
    /\ mem' = IF forced \/ mem.due \/ mem.rows = <<>> THEN flush(mem) ELSE [mem EXCEPT !.reply = "ok"]
    /\ UNCHANGED <<ring, persisted, gone, pushed, evicted, memNext, memFaults>>

IntervalElapses ==
    /\ ~mem.due /\ mem.pc = "idle" /\ mem' = [mem EXCEPT !.due = TRUE]
    /\ UNCHANGED <<ring, persisted, gone, pushed, evicted, memNext, memFaults>>

MemDone(reply) == [mem EXCEPT !.pc = "idle", !.writing = <<>>, !.reply = reply]
MemFailed == \E reply \in {"error", "none"} : mem' = MemDone(reply)

(* write_batch_deferred, then commit: each may fail, or be dropped without *)
(* an answer, and a commit can have taken place when its answer is lost.   *)
(* The buffer is empty by then: the rows of a failed flush are gone.       *)
MemWrite ==
    /\ mem.pc = "write"
    /\ \/ /\ mem' = [mem EXCEPT !.pc = "commit"] /\ UNCHANGED <<gone, memFaults>>
       \/ /\ MemFails /\ MemFailed /\ gone' = gone \cup Range(mem.writing)
    /\ UNCHANGED <<ring, persisted, pushed, evicted, memNext>>

MemCommit ==
    /\ mem.pc = "commit"
    /\ \/ /\ persisted' = persisted \o mem.writing /\ mem' = MemDone("ok") /\ UNCHANGED <<gone, memFaults>>
       \/ /\ MemFails /\ MemFailed /\ persisted' = persisted \o mem.writing /\ UNCHANGED gone
       \/ /\ MemFails /\ MemFailed /\ gone' = gone \cup Range(mem.writing)
          /\ UNCHANGED persisted
    /\ UNCHANGED <<ring, pushed, evicted, memNext>>

-----------------------------------------------------------------------------
(* The working memory.                                                     *)

push(e) ==
    /\ ring.pc = "idle" /\ e <= MaxMemRows
    /\ ring' = [ring EXCEPT !.entries = IF Len(@) >= max_rows THEN Append(Tail(@), e) ELSE Append(@, e)]
    /\ evicted' = IF Len(ring.entries) >= max_rows THEN evicted \cup {Head(ring.entries)} ELSE evicted
    /\ pushed' = Append(pushed, e) /\ memNext' = memNext + 1
    /\ UNCHANGED <<mem, persisted, gone, memFaults>>

(* drain_to_table: the entries go to the writer, and are cleared once it   *)
(* has them.                                                               *)
StartDrain ==
    /\ ring.pc = "idle" /\ ring.entries # <<>>
    /\ ring' = [ring EXCEPT !.pc = "drain", !.writing = ring.entries]
    /\ UNCHANGED <<mem, persisted, gone, pushed, evicted, memNext, memFaults>>

drain_to_table_Wrong ==
    /\ ring.pc = "drain"
    /\ \/ /\ ring' = [ring EXCEPT !.pc = "idle", !.writer = @ \o ring.writing,
                                  !.writing = <<>>, !.entries = <<>>]
          /\ pushed' = <<>> /\ UNCHANGED memFaults
       \/ /\ MemFails /\ ring' = [ring EXCEPT !.pc = "idle", !.writing = <<>>, !.entries = <<>>]
          /\ pushed' = <<>>
    /\ UNCHANGED <<mem, persisted, gone, evicted, memNext>>

drain_to_table ==
    /\ ring.pc = "drain"
    /\ \/ /\ ring' = [ring EXCEPT !.pc = "idle", !.writer = @ \o ring.writing,
                                  !.writing = <<>>, !.entries = <<>>]
          /\ pushed' = <<>> /\ UNCHANGED memFaults
       \/ /\ MemFails /\ ring' = [ring EXCEPT !.pc = "idle", !.writing = <<>>]
          /\ UNCHANGED pushed
    /\ UNCHANGED <<mem, persisted, gone, evicted, memNext>>

(* The owner commits the writer, once: committing consumes it, whether it  *)
(* succeeds, fails or loses its answer.                                    *)
CommitWriter ==
    /\ ring.pc = "idle" /\ ring.writer # <<>>
    /\ ring' = [ring EXCEPT !.writer = <<>>]
    /\ \/ persisted' = persisted \o ring.writer /\ UNCHANGED <<gone, memFaults>>
       \/ MemFails /\ persisted' = persisted \o ring.writer /\ UNCHANGED gone
       \/ MemFails /\ gone' = gone \cup Range(ring.writer) /\ UNCHANGED persisted
    /\ UNCHANGED <<mem, pushed, evicted, memNext>>

MemNext ==
    /\ \/ /\ memKind = "batches"
          /\ \/ \E n \in 0 .. MaxInsert, schema \in {"old", "new"} : insert(n, schema)
             \/ \E forced \in BOOLEAN : flush_if_due(forced)
             \/ IntervalElapses \/ MemWrite \/ MemCommit
       \/ /\ memKind = "ring"
          /\ push(memNext) \/ StartDrain \/ drain_to_table \/ CommitWriter
    /\ UNCHANGED memKind

MemSpec == MemInit /\ [][MemNext]_memVars

-----------------------------------------------------------------------------
(* Properties.                                                             *)

(* The buffer's parts have their types, and agree: an embedding for every  *)
(* row of the batches, and the bytes of as many.                           *)
MemTypeOK ==
    LET flat[i \in 0 .. Len(mem.batches)] == IF i = 0 THEN <<>> ELSE flat[i - 1] \o mem.batches[i].rows
    IN
    /\ mem.pc \in {"idle", "write", "commit"} /\ mem.reply \in {"none", "ok", "error"}
    /\ mem.rows = flat[Len(mem.batches)]
    /\ mem.bytes = row_bytes * Len(mem.rows)
    /\ mem.writing # <<>> <=> mem.pc # "idle"
    /\ memFaults \in 0 .. MemFaults

(* Every row that went into either buffer is in one place, and once:       *)
(* buffered, on its way, in the table, lost with a write or commit that    *)
(* failed, or evicted from the ring.  In particular no later flush repeats *)
(* rows of one that failed after they were committed.                      *)
RowsOnceOnly ==
    LET places == mem.rows \o mem.writing \o ring.entries \o ring.writer \o persisted
        lost == gone \cup evicted
    IN  /\ IsInjective(places) /\ gone \cap evicted = {} /\ Range(places) \cap lost = {}
        /\ Range(places) \cup lost = 1 .. memNext - 1

(* flush empties the buffer before it writes, so the rows of a flush that  *)
(* fails are lost, those of inserts that were answered without error       *)
(* included.  Each failure takes one buffer of the MemTableWriter at most: *)
(* fewer rows than flush_max_rows, and the batch that filled it up.        *)
LossBounded == memKind = "batches" =>
    Cardinality(gone) <= (MemFaults - memFaults) * (flush_max_rows - 1 + MaxInsert)

(* After an answer without error less than a full buffer is waiting, and   *)
(* no more than that is lost with the process.  The exception is a buffer  *)
(* of batches with different schemas, which no flush can concatenate.      *)
BufferBounded == mem.pc = "idle" /\ mem.reply = "ok" /\ Concats(mem.batches) =>
    mem.bytes < flush_size_bytes /\ Len(mem.rows) < flush_max_rows

(* The working memory holds the newest max_rows of the entries that no     *)
(* writer has taken over, in order; a failed drain loses none of them.     *)
NewestKept ==
    LET n == Len(pushed)
    IN  ring.entries = IF n <= max_rows THEN pushed ELSE SubSeq(pushed, n - max_rows + 1, n)

(* Neither buffer repeats or hoards rows, and neither loses any but those  *)
(* of a write or commit that failed or that its caller dropped: of the     *)
(* MemTableWriter one buffer at a time, of the working memory none by a    *)
(* failed drain and those of its writer by a failed commit.                *)
BuffersKeepRows == RowsOnceOnly /\ LossBounded /\ BufferBounded /\ NewestKept
=============================================================================
