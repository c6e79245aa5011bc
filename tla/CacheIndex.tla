------------------------------ MODULE CacheIndex ------------------------------
(***************************************************************************)
(* The index of the cached files and its database (ota_proxy               *)
(* cache_index.py, db.py): the index is in memory, its entries are also    *)
(* queued for a thread that writes them to the database in batches, from   *)
(* which a restarted otaproxy loads the index again.  Entries are          *)
(* committed by writer threads and removed by the event loop, each         *)
(* followed by the link or the unlink of the file itself.                  *)
(***************************************************************************)
EXTENDS Naturals, FiniteSets, Sequences, SequencesExt

CONSTANTS
    Ids, Empty,           \* the files, and those of no bytes, which are not saved
    Writers,              \* writer threads
    MaxEntries,           \* MAX_INDEX_ENTRIES
    FlushBatch,           \* DB_FLUSH_BATCH_SIZE
    MaxOps, MaxCrashes

VARIABLES
    up,          \* "running", "closing" or "down"
    entries,     \* CacheIndex._index
    dbq,         \* the queue to the database thread: <<"write" or "delete", id>>
    writes, deletes,   \* its batches
    rows,        \* the rows of the database, the last accessed one last
    use_db,
    cached,      \* the files that exist under the cache directory
    wr,          \* what each writer thread is at
    broken,      \* the database was damaged, or refused a batch
    ops,
    crashes      \* crashes and failing writes

index_vars == <<up, entries, dbq, writes, deletes, rows, use_db, cached, wr, broken, ops, crashes>>

Free == [at |-> "free", id |-> "none"]
RowIds == Range(rows)

IndexInit ==
    /\ up = "running" /\ entries = {} /\ dbq = <<>> /\ writes = <<>> /\ deletes = {}
    /\ rows = <<>> /\ use_db = TRUE /\ cached = {}
    /\ wr = [w \in Writers |-> Free]
    /\ broken = FALSE /\ ops = 0 /\ crashes = 0

Enqueue(op) == dbq' = IF use_db THEN Append(dbq, op) ELSE dbq

\* commit_entry, up to the check of the size.  No other caching of the same file is going on.
BeginCommit(w, i) ==
    /\ up = "running" /\ ops < MaxOps /\ wr[w] = Free
    /\ i \notin {wr[v].id : v \in Writers}
    /\ ops' = ops + 1
    /\ Cardinality(entries) < MaxEntries
    /\ wr' = [wr EXCEPT ![w] = [at |-> "insert", id |-> i]]
    /\ UNCHANGED <<up, entries, dbq, writes, deletes, rows, use_db, cached, broken, crashes>>

Insert(w) ==
    /\ wr[w].at = "insert" /\ up # "down"
    /\ entries' = entries \cup {wr[w].id}
    /\ Enqueue(<<"write", wr[w].id>>)
    /\ wr' = [wr EXCEPT ![w] = IF wr[w].id \in Empty THEN Free ELSE [@ EXCEPT !.at = "link"]]
    /\ UNCHANGED <<up, writes, deletes, rows, use_db, cached, broken, ops, crashes>>

\* The end of _finalize_cache.  An existing file is taken for the one to link; any other
\* error leaves the entry, already committed, without its file.
Link(w) ==
    /\ wr[w].at = "link" /\ up # "down"
    /\ \/ cached' = cached \cup {wr[w].id} /\ UNCHANGED crashes
       \/ crashes < MaxCrashes /\ crashes' = crashes + 1 /\ UNCHANGED cached
    /\ wr' = [wr EXCEPT ![w] = Free]
    /\ UNCHANGED <<up, entries, dbq, writes, deletes, rows, use_db, broken, ops>>

\* remove_entry and the unlink, for a file a client reported as corrupted
RemoveEntry(i) ==
    /\ up = "running" /\ ops < MaxOps
    /\ i \notin {wr[w].id : w \in Writers}
    /\ ops' = ops + 1
    /\ entries' = entries \ {i}
    /\ cached' = cached \ {i}
    /\ Enqueue(<<"delete", i>>)
    /\ UNCHANGED <<up, writes, deletes, rows, use_db, wr, broken, crashes>>

-----------------------------------------------------------------------------
(* The thread that writes to the database *)

\* A row is inserted or replaced, as the last accessed one
Inserted(rs, ws) == SelectSeq(rs, LAMBDA i : i \notin Range(ws)) \o ws
Without(rs, ds) == SelectSeq(rs, LAMBDA i : i \notin ds)

FlushedInReverse == Inserted(Without(rows, deletes), writes)
\* _flush_to_db: the deletes follow the writes, whatever the order they came in
Flushed == Without(Inserted(rows, writes), deletes)

\* A batch that the database refuses is dropped
Flush ==
    /\ writes' = <<>> /\ deletes' = {}
    /\ \/ rows' = Flushed /\ UNCHANGED <<broken, crashes>>
       \/ /\ crashes < MaxCrashes
          /\ crashes' = crashes + 1
          /\ rows' \in {Without(rows, deletes), Inserted(rows, writes), rows}
          /\ broken' = TRUE

BatchSize == Len(writes) + Cardinality(deletes)

\* One turn of CacheDBWriter.start_thread
TakeItem ==
    /\ up # "down" /\ use_db /\ dbq # <<>> /\ BatchSize < FlushBatch
    /\ dbq' = Tail(dbq)
    /\ LET op == Head(dbq)
       IN  IF op[1] = "write"
           THEN writes' = SelectSeq(writes, LAMBDA i : i # op[2]) \o <<op[2]>>
                /\ UNCHANGED deletes
           ELSE deletes' = deletes \cup {op[2]} /\ UNCHANGED writes
    /\ UNCHANGED <<up, entries, rows, use_db, cached, wr, broken, ops, crashes>>

\* The batch is full, or nothing came for DB_WRITER_LOOP_INTERVAL, or the sentinel came
FlushBatches ==
    /\ up # "down" /\ use_db /\ BatchSize > 0
    /\ BatchSize >= FlushBatch \/ dbq = <<>>
    /\ Flush
    /\ UNCHANGED <<up, entries, dbq, use_db, cached, wr, ops>>

-----------------------------------------------------------------------------
(* close, crash and restart *)

\* OTACache.close: the writer threads are waited for, then the database thread
BeginClose ==
    /\ up = "running"
    /\ \A w \in Writers : wr[w] = Free
    /\ up' = "closing"
    /\ UNCHANGED <<entries, dbq, writes, deletes, rows, use_db, cached, wr, broken, ops, crashes>>

Closed ==
    /\ up = "closing" /\ dbq = <<>> /\ BatchSize = 0
    /\ up' = "down"
    /\ entries' = {}
    /\ UNCHANGED <<dbq, writes, deletes, rows, use_db, cached, wr, broken, ops, crashes>>

Crash ==
    /\ up # "down" /\ crashes < MaxCrashes
    /\ crashes' = crashes + 1
    /\ up' = "down"
    /\ entries' = {} /\ dbq' = <<>> /\ writes' = <<>> /\ deletes' = {}
    /\ wr' = [w \in Writers |-> Free]
    /\ broken' \in {broken, TRUE}
    /\ UNCHANGED <<rows, use_db, cached, ops>>

\* _preload_from_db: the last accessed rows that have their file, up to the maximum
HasFile(i) == i \in Empty \/ i \in cached
Loaded == LET ok == SelectSeq(rows, LAMBDA i : HasFile(i))
          IN  Range(IF Len(ok) > MaxEntries
                    THEN SubSeq(ok, Len(ok) - MaxEntries + 1, Len(ok)) ELSE ok)

\* _ensure_db_and_load: what is not loaded is removed, file and row
Load ==
    /\ entries' = Loaded
    /\ cached' = cached \ (RowIds \ Loaded)
    /\ rows' = SelectSeq(rows, LAMBDA i : i \in Loaded)
    /\ use_db' = TRUE
    /\ UNCHANGED broken

\* _force_init_db: a new, empty database; without one when that fails too
ForceInitDb ==
    /\ entries' = {} /\ rows' = <<>>
    /\ use_db' \in BOOLEAN
    /\ broken' = FALSE
    /\ UNCHANGED cached

\* OTACache.start with init_cache: the cache directory is purged
InitCache ==
    /\ entries' = {} /\ rows' = <<>> /\ cached' = {}
    /\ use_db' = TRUE
    /\ broken' = FALSE

\* CacheIndex.__init__
Restart ==
    /\ up = "down"
    /\ up' = "running"
    /\ Load \/ (broken /\ ForceInitDb) \/ InitCache
    /\ UNCHANGED <<dbq, writes, deletes, wr, ops, crashes>>

IndexNext ==
    \/ \E w \in Writers : Insert(w) \/ Link(w) \/ \E i \in Ids : BeginCommit(w, i)
    \/ \E i \in Ids : RemoveEntry(i)
    \/ TakeItem \/ FlushBatches \/ BeginClose \/ Closed \/ Crash \/ Restart

-----------------------------------------------------------------------------
IndexTypeOK ==
    /\ up \in {"running", "closing", "down"}
    /\ entries \subseteq Ids /\ cached \subseteq Ids /\ RowIds \subseteq Ids
    /\ \A w \in Writers : wr[w].at \in {"free", "insert", "link"}

\* The database thread has nothing left to do, and was never refused a batch
AllFlushed == up = "running" /\ use_db /\ dbq = <<>> /\ BatchSize = 0 /\ ~broken

\* A file that was reported as corrupted and dropped does not come back: when the database
\* thread has nothing left to do, what a restart would load is in the index
\* (_flush_to_db; a batch that the database refused is the exception).
DroppedStaysDropped == AllFlushed => RowIds \subseteq entries

\* The operations on a key take effect in the order they were enqueued, so that a file
\* that is cached again after it was dropped has its row (docstring of CacheDBWriter).
ProcessedInOrder == AllFlushed => entries \subseteq RowIds

\* After a restart the database, the index and the files agree: each entry has its file,
\* and each row its entry (_preload_from_db and the two _preload_cleanup functions).
RestartAgrees ==
    (up = "down" /\ up' = "running" /\ use_db') =>
        (/\ entries' = Range(rows')
         /\ \A i \in entries' : i \in Empty \/ i \in cached')
=============================================================================
