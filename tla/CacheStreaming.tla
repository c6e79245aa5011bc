---------------------------- MODULE CacheStreaming ----------------------------
(***************************************************************************)
(* The caching of one file while it is streamed (ota_proxy                 *)
(* cache_streaming.py): the first request for the file is the provider,    *)
(* which reads the remote on the event loop and tees to a writer thread;   *)
(* the later ones subscribe to its tracker and read the temporary file in  *)
(* reader threads.  A file is counted in chunks.  Which step the thread    *)
(* pools are in is left open: the semaphores and the threads are shared    *)
(* with the requests for all the other files.                              *)
(***************************************************************************)
EXTENDS Integers, FiniteSets

CONSTANTS Clients, Slots, Lens, MaxFaults

VARIABLES
    len,         \* the length of the remote file
    tracker,     \* the CacheTracker objects that somebody refers to
    registered,  \* CachingRegister._id_tracker of this file
    index,       \* its size in the cache index
    saved,       \* the length of the file at save_path
    disk,        \* what the last check of the disk usage found
    req,         \* the request each client has at the proxy
    faults

stream_vars == <<len, tracker, registered, index, saved, disk, req, faults>>

NoFile == -1
NoEntry == -1
Nobody == 0

Blank == [meta |-> FALSE, retry |-> FALSE, started |-> FALSE, finished |-> FALSE,
          failed |-> FALSE, tmp |-> FALSE, written |-> 0, size |-> 0, que |-> 0,
          end |-> FALSE, once |-> FALSE, writer |-> "none"]

Idle == [pc |-> "idle", kind |-> "none", t |-> Nobody, got |-> 0, status |-> 0,
         src |-> "none", gave_up |-> "no", dropped |-> FALSE]

\* A tracker is referred to by the requests that stream from or into it and by its writer
Held(t, trk, rq) == trk[t].writer # "none" \/ \E c \in Clients : rq[c].t = t

\* The next trackers and requests.  The register is weak: a tracker that nobody refers
\* to disappears, and its temporary file is removed by its finalizer.
Settle(trk, rq, reg) ==
    /\ tracker' = [t \in Slots |-> IF Held(t, trk, rq) THEN trk[t] ELSE Blank]
    /\ req' = rq
    /\ registered' = IF reg # Nobody /\ Held(reg, trk, rq) THEN reg ELSE Nobody

Track(t, r) == Settle([tracker EXCEPT ![t] = r], req, registered)
Request(c, r) == Settle(tracker, [req EXCEPT ![c] = r], registered)
Both(t, r, c, q) ==
    Settle([tracker EXCEPT ![t] = r], [req EXCEPT ![c] = q], registered)

GetTracker ==
    IF registered # Nobody /\ ~tracker[registered].failed THEN registered ELSE Nobody

BelowHard == disk # "hard"
BelowSoft == disk = "low"

Fault == faults < MaxFaults /\ faults' = faults + 1
NoFault == faults' = faults

Failed(r) == [r EXCEPT !.started = TRUE, !.failed = TRUE]
Started(r) == [r EXCEPT !.started = TRUE]
Finished(r) == [r EXCEPT !.started = TRUE, !.finished = TRUE]

\* The body is over.  It ends in the same way whether or not something was given up
\* before: gave_up is a history of why, which no client sees.
Ended(r, why) == [r EXCEPT !.pc = "done", !.t = Nobody, !.gave_up = why]
Respond(r, status) == [Ended(r, "no") EXCEPT !.status = status]
Busy(c) == Request(c, Respond(req[c], 503))

-----------------------------------------------------------------------------
(* The provider: stream_writing_cache *)

\* _write_dispatcher: the caching is dropped when too many writes are pending
Dispatched(r) == {Failed(r), [r EXCEPT !.writer = "queued"]}

\* commit_entry refuses when the index is full
Commit(size) == index' \in {index, size}

FirstChunk(c) ==
    LET q == req[c]
        t == q.t
    IN  /\ q.pc = "first"
        /\ \/ /\ len = 0
              /\ NoFault
              /\ Commit(0)
              /\ Both(t, Finished(tracker[t]), c, Ended(q, "no"))
           \/ /\ len > 0
              /\ NoFault
              /\ UNCHANGED index
              /\ Request(c, [q EXCEPT !.pc = "second", !.got = 1])
           \* only the end of the data is caught: the tracker is not failed
           \/ /\ Fault
              /\ UNCHANGED index
              /\ Request(c, Ended(q, "remote"))
        /\ UNCHANGED <<len, saved, disk>>

SecondChunk(c) ==
    LET q == req[c]
        t == q.t
    IN  /\ q.pc = "second"
        /\ \/ /\ len = 1
              /\ NoFault
              /\ \E r \in Dispatched([tracker[t] EXCEPT !.once = TRUE, !.que = 1]) :
                     Both(t, r, c, Ended(q, "no"))
           \/ /\ len > 1
              /\ NoFault
              /\ \E r \in Dispatched([tracker[t] EXCEPT !.que = 2]) :
                     Both(t, r, c, [q EXCEPT !.pc = "rest", !.got = 2])
           \/ /\ Fault
              /\ Request(c, Ended(q, "remote"))
        /\ UNCHANGED <<len, index, saved, disk>>

\* What the end of the stream does to the tracker.  The sentinel follows the data, and
\* the failed flag is set before it.
UpperEnds(r) == [r EXCEPT !.end = TRUE]
EndOnly(r) == [r EXCEPT !.end = TRUE]
UpperFails(r) == [Failed(r) EXCEPT !.end = TRUE]

RestOfChunks(c) ==
    LET q == req[c]
        t == q.t
    IN  /\ q.pc = "rest"
        /\ \/ /\ q.got < len
              /\ NoFault
              /\ Both(t, IF tracker[t].failed THEN tracker[t]
                         ELSE [tracker[t] EXCEPT !.que = @ + 1],
                      c, [q EXCEPT !.got = @ + 1])
           \/ /\ q.got = len
              /\ NoFault
              /\ Both(t, UpperEnds(tracker[t]), c, Ended(q, "no"))
           \/ /\ Fault
              /\ Both(t, UpperFails(tracker[t]), c, Ended(q, "remote"))
        /\ UNCHANGED <<len, index, saved, disk>>

-----------------------------------------------------------------------------
(* The writer thread: provider_write_file_in_thread, provider_write_once_in_thread *)

WriterOver(r) == [r EXCEPT !.writer = "none", !.que = 0, !.end = FALSE]

WriterStarts(t) ==
    LET r == tracker[t]
    IN  /\ r.writer = "queued" /\ ~r.once
        /\ \/ /\ NoFault
              /\ Track(t, [Started(r) EXCEPT !.tmp = TRUE, !.writer = "write"])
           \/ /\ Fault                                    \* open fails
              /\ Track(t, WriterOver(Failed(r)))
        /\ UNCHANGED <<len, index, saved, disk>>

\* A file of one chunk: written and finished in one go
WriteOnce(t) ==
    LET r == tracker[t]
    IN  /\ r.writer = "queued" /\ r.once
        /\ \/ /\ BelowHard /\ NoFault
              /\ Track(t, [Finished(r) EXCEPT !.tmp = TRUE, !.written = r.que,
                                              !.size = r.que, !.writer = "commit"])
           \/ /\ (BelowHard /\ Fault) \/ (~BelowHard /\ NoFault)
              /\ Track(t, WriterOver(Failed(r)))
        /\ UNCHANGED <<len, index, saved, disk>>

\* CacheWriterPool._drop_writer_not_started: no thread in CACHE_WRITER_START_TIMEOUT
DropWriterNotStarted(t) ==
    /\ tracker[t].writer = "queued"
    /\ Track(t, WriterOver(Failed(tracker[t])))
    /\ UNCHANGED <<len, index, saved, disk, faults>>

Written(r) == [r EXCEPT !.que = @ - 1, !.written = @ + 1]
WriterWrites(t) ==
    LET r == tracker[t]
    IN  /\ r.writer = "write" /\ r.que > 0
        /\ \/ /\ r.failed \/ ~BelowHard
              /\ NoFault
              /\ Track(t, WriterOver(Failed(r)))
           \/ /\ ~r.failed /\ BelowHard
              /\ NoFault
              /\ Track(t, Written(r))
           \/ /\ ~r.failed /\ BelowHard
              /\ Fault
              /\ Track(t, WriterOver(Failed(r)))
        /\ UNCHANGED <<len, index, saved, disk>>

Close(r) ==
    LET f == [Finished(r) EXCEPT !.size = r.written]
    IN  IF r.failed THEN WriterOver(f) ELSE [f EXCEPT !.writer = "commit"]

WriterCloses(t) ==
    /\ tracker[t].writer = "write" /\ tracker[t].que = 0 /\ tracker[t].end
    /\ Track(t, Close(tracker[t]))
    /\ UNCHANGED <<len, index, saved, disk, faults>>

\* _finalize_cache: the entry is committed before the file is linked
FinalizeCache(t) ==
    LET r == tracker[t]
    IN  /\ r.writer = "commit"
        /\ \/ /\ BelowSoft
              /\ index' = r.size
              /\ Track(t, [r EXCEPT !.writer = "link"])
           \/ /\ UNCHANGED index                 \* soft limit, or the commit is refused
              /\ Track(t, WriterOver(r))
        /\ UNCHANGED <<len, saved, disk, faults>>

LinkCache(t) ==
    LET r == tracker[t]
    IN  /\ r.writer = "link"
        /\ \/ /\ NoFault
              /\ saved' = IF saved = NoFile THEN r.written ELSE saved
              /\ Track(t, WriterOver(r))
           \/ /\ Fault
              /\ UNCHANGED saved
              /\ Track(t, WriterOver(Failed(r)))
        /\ UNCHANGED <<len, index, disk>>

-----------------------------------------------------------------------------
(* A subscriber: subscribe_tracker and subscriber_stream_cache_in_thread *)

SubscriberWaitForProvider(c) ==
    LET q == req[c]
        r == tracker[q.t]
    IN  /\ q.pc = "wait" /\ r.started
        /\ \/ r.failed /\ Busy(c)
           \/ /\ ~r.failed /\ r.finished /\ r.size = 0
              /\ Request(c, Respond(q, 200))
           \/ /\ ~r.failed /\ r.finished /\ r.size = 1
              /\ Request(c, [q EXCEPT !.pc = "once"])
           \/ /\ ~r.failed /\ ~(r.finished /\ r.size \in {0, 1})
              /\ Request(c, [q EXCEPT !.pc = "open", !.status = 200])
           \/ /\ ~r.failed /\ ~(r.finished /\ r.size = 0)
              /\ Busy(c)                                         \* ReaderPoolBusy
        /\ UNCHANGED <<len, index, saved, disk, faults>>

\* SUBSCRIBER_WAIT_TIMEOUT
SubscriberGivesUp(c) ==
    /\ req[c].pc = "wait" /\ ~tracker[req[c].t].started
    /\ Busy(c)
    /\ UNCHANGED <<len, index, saved, disk, faults>>

SubscriberReadsOnce(c) ==
    LET q == req[c]
    IN  /\ q.pc = "once"
        /\ Request(c, [Respond(q, 200) EXCEPT !.got = tracker[q.t].written])
        /\ UNCHANGED <<len, index, saved, disk, faults>>

SubscriberOpens(c) ==
    LET q == req[c]
    IN  /\ q.pc = "open"
        /\ Request(c, IF tracker[q.t].tmp THEN [q EXCEPT !.pc = "stream"]
                      ELSE [Ended(q, "missing") EXCEPT !.src = "missing"])
        /\ UNCHANGED <<len, index, saved, disk, faults>>

\* The loop of the reader ends when the writer has finished and all it wrote is read
AllRead(q, r) == r.finished /\ q.got >= r.written

SubscriberReads(c) ==
    LET q == req[c]
        r == tracker[q.t]
    IN  /\ q.pc = "stream"
        /\ \/ /\ AllRead(q, r)
              /\ Request(c, Ended(q, IF r.failed THEN "writer" ELSE "no"))
           \/ /\ ~AllRead(q, r) /\ r.failed
              /\ Request(c, Ended(q, "writer"))
           \* what is written reaches the reader when the writer's buffer is flushed
           \/ /\ ~AllRead(q, r) /\ ~r.failed
              /\ \E n \in 1..(r.written - q.got) : Request(c, [q EXCEPT !.got = @ + n])
           \/ /\ ~r.finished /\ ~r.failed
              /\ Request(c, Ended(q, "timeout"))                 \* SUBSCRIBER_WAIT_TIMEOUT
        /\ UNCHANGED <<len, index, saved, disk, faults>>
=============================================================================
