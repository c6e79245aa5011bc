-------------------------------- MODULE Proxy --------------------------------
(***************************************************************************)
(* The otaproxy of an ECU, part by part: the requests for a file and its   *)
(* caching (OtaCache, over CacheStreaming), the index and its database     *)
(* (CacheIndex) and the thread of otaclient that starts and stops the      *)
(* process (OtaProxyCtx).  Each behaviour is one of these; the variables   *)
(* of the others are not used.                                             *)
(***************************************************************************)
EXTENDS Integers, FiniteSets, Sequences

CONSTANTS NotUsed, Parts

VARIABLES
    part,
    len, tracker, registered, index, saved, disk, req, faults,  \* CacheStreaming
    enabled, device, nfs, asked, closed,                             \* OtaCache
    up, entries, dbq, writes, deletes, rows, use_db, cached, wr, broken, ops,
    crashes,                                                       \* CacheIndex
    proc, plock, control, exiting, seen, needed, all_success, young, cache_dir,
    changes, deaths                                               \* OtaProxyCtx

\* Two requests with a fault, three without, and two in turn of one
\* client with the external caches mounted and no regular file at save_path
Cache == INSTANCE OtaCache WITH
    Clients <- {"c1", "c2"}, Slots <- 1..3, Lens <- {0, 1, 3}, MaxFaults <- 1,
    Kinds <- {"whole", "retry", "range", "range_retry"}, Enabled <- {TRUE}, Copies <- {"none"},
    Start <- 1, Strays <- {}, MaxRequests <- 2
Retries == INSTANCE OtaCache WITH
    Clients <- {"c1", "c2"}, Slots <- 1..3, Lens <- {3}, MaxFaults <- 0,
    Kinds <- {"whole", "retry", "range_retry"}, Enabled <- {TRUE}, Copies <- {"none"},
    Start <- 1, Strays <- {}, MaxRequests <- 3
External == INSTANCE OtaCache WITH
    Clients <- {"c1"}, Slots <- 1..1, Lens <- {0, 1, 3}, MaxFaults <- 0,
    Kinds <- {"whole", "retry", "range", "range_retry", "no_cache"}, Enabled <- BOOLEAN,
    Copies <- {"none", "plain", "zst"}, Start <- 1, Strays <- {-2}, MaxRequests <- 2

\* Two files and an empty one, of which the index holds one
Index == INSTANCE CacheIndex WITH
    Ids <- {"a", "b", "z"}, Empty <- {"z"}, Writers <- {"w1", "w2"}, MaxEntries <- 1,
    FlushBatch <- 2, MaxOps <- 3, MaxCrashes <- 1
Ctx == INSTANCE OtaProxyCtx WITH MaxChanges <- 2, MaxDeaths <- 1

cache_vars == <<len, tracker, registered, index, saved, disk, req, faults, enabled, device,
                nfs, asked, closed>>
index_vars == <<up, entries, dbq, writes, deletes, rows, use_db, cached, wr, broken, ops,
                crashes>>
ctx_vars == <<proc, plock, control, exiting, seen, needed, all_success, young, cache_dir,
              changes, deaths>>
vars == <<part, cache_vars, index_vars, ctx_vars>>

CacheParts == {"cache", "retries", "external"}

CacheUnused ==
    /\ len = NotUsed /\ tracker = NotUsed /\ registered = NotUsed /\ index = NotUsed
    /\ saved = NotUsed /\ disk = NotUsed /\ req = NotUsed /\ faults = NotUsed
    /\ enabled = NotUsed /\ device = NotUsed /\ nfs = NotUsed
    /\ asked = NotUsed /\ closed = NotUsed
IndexUnused ==
    /\ up = NotUsed /\ entries = NotUsed /\ dbq = NotUsed /\ writes = NotUsed
    /\ deletes = NotUsed /\ rows = NotUsed /\ use_db = NotUsed /\ cached = NotUsed
    /\ wr = NotUsed /\ broken = NotUsed /\ ops = NotUsed /\ crashes = NotUsed
CtxUnused ==
    /\ proc = NotUsed /\ plock = NotUsed /\ control = NotUsed /\ exiting = NotUsed
    /\ seen = NotUsed /\ needed = NotUsed /\ all_success = NotUsed /\ young = NotUsed
    /\ cache_dir = NotUsed /\ changes = NotUsed /\ deaths = NotUsed

Init ==
    /\ part \in Parts
    /\ \/ /\ \/ part = "cache" /\ Cache!CacheInit
             \/ part = "retries" /\ Retries!CacheInit
             \/ part = "external" /\ External!CacheInit
          /\ IndexUnused /\ CtxUnused
       \/ part = "index" /\ Index!IndexInit /\ CacheUnused /\ CtxUnused
       \/ part = "ctx" /\ Ctx!CtxInit /\ CacheUnused /\ IndexUnused

Next ==
    /\ UNCHANGED part
    /\ \/ /\ \/ part = "cache" /\ Cache!CacheNext
             \/ part = "retries" /\ Retries!CacheNext
             \/ part = "external" /\ External!CacheNext
          /\ UNCHANGED <<index_vars, ctx_vars>>
       \/ part = "index" /\ Index!IndexNext /\ UNCHANGED <<cache_vars, ctx_vars>>
       \/ part = "ctx" /\ Ctx!CtxNext /\ UNCHANGED <<cache_vars, index_vars>>

\* The coroutines and the threads are scheduled; the remote answers or the read times out,
\* a process that is told to terminate does, and the clock advances.
Fairness ==
    /\ \A c \in {"c1", "c2"} :
        /\ WF_cache_vars(part = "cache" /\ (Cache!Serve(c) \/ Cache!Read(c)))
        /\ WF_cache_vars(part = "retries" /\ (Retries!Serve(c) \/ Retries!Read(c)))
    /\ WF_cache_vars(part = "external" /\ (External!Serve("c1") \/ External!Read("c1")))
    /\ \A t \in 1..3 :
        /\ WF_cache_vars(part = "cache" /\ Cache!Write(t))
        /\ WF_cache_vars(part = "retries" /\ Retries!Write(t))
    /\ WF_cache_vars(part = "external" /\ External!Write(1))
    /\ WF_ctx_vars(part = "ctx" /\ Ctx!Control)
    /\ WF_ctx_vars(part = "ctx" /\ Ctx!Exiting)
    /\ WF_ctx_vars(part = "ctx" /\ Ctx!ProcessLeaves)
    /\ WF_ctx_vars(part = "ctx" /\ Ctx!MinStartupTimePasses)

Spec == Init /\ [][Next]_vars /\ Fairness

(***************************************************************************)
(* Properties                                                              *)
(***************************************************************************)

TypeOK ==
    /\ part = "cache" => Cache!CacheTypeOK
    /\ part = "retries" => Retries!CacheTypeOK
    /\ part = "external" => External!CacheTypeOK
    /\ part = "index" => Index!IndexTypeOK
    /\ part = "ctx" => Ctx!CtxTypeOK

\* What is served from the cache is the file.  Only whole files are entered in the index,
\* however the remote, the disk, the writer thread and the event loop fail
\* (stream_writing_cache, provider_write_file_in_thread).  The body of a 200 is the whole
\* file, and that of a 206 the rest, unless the timeout of the subscriber, a failing
\* remote, write or disk, or the dropping of the file cut it short, or a whole request
\* read a saved file that a power loss left short: a subscriber does not take the end of
\* a provider that failed for the end of the file, and no dropped writer and no retry cuts
\* a body (subscribe_tracker, subscriber_stream_cache_in_thread,
\* _retrieve_range_by_cache_lookup).  A body cut short ends like a whole one in the code:
\* the client finds out by its digest.
ServedIsWhole ==
    /\ part \in CacheParts => Cache!CommittedIsWhole
    /\ part = "cache" => Cache!BodyIsWhole /\ Cache!RestIsTheRest
    /\ part = "retries" => Retries!BodyIsWhole /\ Retries!RestIsTheRest
    /\ part = "external" => External!BodyIsWhole /\ External!RestIsTheRest

\* A file is cached by one provider at a time (the tracker is registered before the
\* remote is opened, _retrieve_file_by_new_caching).
OneProvider ==
    /\ part = "cache" => Cache!OneProvider
    /\ part = "retries" => Retries!OneProvider

\* A thread finds the file it is to read, though the entry is committed before the file
\* is linked, the link may fail and leave the entry without a file, and temporary files
\* disappear with their tracker; it can only be missing when a client reported the cached
\* file as corrupted meanwhile (_retrieve_file_by_cache_lookup, subscribe_tracker).
FileIsThere ==
    /\ part = "cache" => Cache!FileIsThere
    /\ part = "retries" => Retries!FileIsThere
    /\ part = "external" => External!FileIsThere

\* The index and its database.  A file that was dropped as corrupted does not come back:
\* when the database thread has nothing left to do, what a restart would load is in the
\* index, in whatever order the batches hold the operations on a file (_flush_to_db).
IndexAgrees == part = "index" => Index!DroppedStaysDropped

\* The operations on a key are processed in the order they were enqueued, so that a file
\* cached again after it was dropped has its row when the database thread has nothing left
\* to do: what the docstring of CacheDBWriter (cache_index.py) promises.
ProcessedInOrder == part = "index" => Index!ProcessedInOrder

\* What a step may do to the saved files.  A provider that retries the caching replaces
\* the saved file: when it links what it wrote it does not find the file it was to
\* replace (_finalize_cache takes an existing file for its own).  After a restart the
\* database, the index and the files agree (_preload_from_db and the two
\* _preload_cleanup functions).  The cache directory is not removed under a running
\* otaproxy (otaproxy_control_thread).
SavedFilesKept ==
    [][/\ (part = "cache") => Cache!RetryReplaces
       /\ (part = "retries") => Retries!RetryReplaces
       /\ (part = "index") => Index!RestartAgrees
       /\ (part = "ctx") => Ctx!CacheKeptWhileServing]_vars

\* No otaproxy outlives otaclient: once the shutdown handler is through no process runs,
\* though the control thread may have decided before to start one
\* (otaproxy_control_thread, otaproxy_on_global_shutdown).
NoProxyLeftBehind == part = "ctx" => Ctx!NoProxyLeftBehind

\* Every request is answered and no writer thread waits for ever, whichever of the remote,
\* the writer and the provider fails.  When the flags of the ECUs no longer change
\* otaproxy runs if it is needed, also after its process died, and is stopped if not; at
\* the shutdown of otaclient both threads come to their end.
ProxySettles ==
    <>[](/\ part = "cache" => Cache!Quiet
         /\ part = "retries" => Retries!Quiet
         /\ part = "external" => External!Quiet
         /\ part = "ctx" => Ctx!Follows)
=============================================================================
