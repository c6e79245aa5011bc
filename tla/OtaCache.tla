------------------------------- MODULE OtaCache -------------------------------
(***************************************************************************)
(* How otaproxy answers the requests for one file (ota_proxy ota_cache.py  *)
(* and server_app.py): from the external device cache, from the local      *)
(* cache, from the NFS cache, by caching it anew (CacheStreaming) or       *)
(* straight from the remote.  A client asks for the whole file, or for the *)
(* rest from Start; with retry_caching it reports that what it was given   *)
(* was not the file.  The initial states are those a restart can find,     *)
(* among them a saved file that a power loss left short and a saved file   *)
(* without an entry in the index.                                          *)
(***************************************************************************)
EXTENDS CacheStreaming

CONSTANTS
    Kinds, Enabled, Copies, Start,
    Strays,      \* what else than a file a restart may find at save_path
    MaxRequests

VARIABLES
    enabled,      \* cache_enabled
    device, nfs,  \* the copy that each external cache has
    asked, closed

NotRegular == -2

cache_vars == <<stream_vars, enabled, device, nfs, asked, closed>>
outside == <<enabled, device, nfs, asked, closed>>

Range(k) == k \in {"range", "range_retry"}
Retry(k) == k \in {"retry", "range_retry"}

CacheInit ==
    /\ len \in Lens
    /\ tracker = [t \in Slots |-> Blank]
    /\ registered = Nobody
    /\ saved \in IF len = 0 THEN {NoFile} ELSE {NoFile, len - 1, len} \cup Strays
    \* a preloaded entry of a file that is not empty has a file
    /\ index \in {NoEntry, len}
    /\ (index > 0) => (saved # NoFile)
    /\ disk = "low"
    /\ req = [c \in Clients |-> Idle]
    /\ faults = 0
    /\ enabled \in Enabled
    /\ device \in Copies
    /\ nfs \in Copies
    /\ asked = 0
    /\ closed = FALSE

\* App.http_handler: at most MAX_CONCURRENT_REQUESTS, of all files, are handled
HttpHandler(c, k) ==
    /\ ~closed /\ req[c].pc \in {"idle", "done"} /\ asked < MaxRequests
    /\ asked' = asked + 1
    /\ \E r \in {[Idle EXCEPT !.pc = "retrieve", !.kind = k],
                 [Respond(Idle, 429) EXCEPT !.kind = k]} : Request(c, r)
    /\ UNCHANGED <<len, index, saved, disk, faults, enabled, device, nfs, closed>>

\* The entry is removed from the index and the file unlinked
Dropping(rq) == [c \in Clients |-> IF rq[c].pc \in {"idle", "done"} THEN rq[c]
                                   ELSE [rq[c] EXCEPT !.dropped = TRUE]]

Downloading(c) ==
    /\ Request(c, [req[c] EXCEPT !.pc = "direct"])
    /\ UNCHANGED <<len, index, saved, disk, faults>>

\* A file of an external cache: a compressed copy is always answered whole
FromExternal(c, copy, start) ==
    /\ Request(c, IF copy = "zst" \/ start = 0
                  THEN [Respond(req[c], 200) EXCEPT !.got = len, !.src = "external"]
                  ELSE [Respond(req[c], 206) EXCEPT !.got = len - start, !.src = "external"])
    /\ UNCHANGED <<len, index, saved, disk, faults>>

FreeSlot == {t \in Slots : ~Held(t, tracker, req)}

KeepStaleFile(c) ==
    LET t == CHOOSE s \in FreeSlot : TRUE
    IN  /\ Settle([tracker EXCEPT ![t] = [Blank EXCEPT !.retry = Retry(req[c].kind)]],
                  [req EXCEPT ![c].pc = "connect", ![c].t = t], t)
        /\ index' = IF Retry(req[c].kind) THEN NoEntry ELSE index
        /\ UNCHANGED <<len, saved, disk, faults>>
RegisterLate(c) ==
    LET t == CHOOSE s \in FreeSlot : TRUE
    IN  /\ Settle([tracker EXCEPT ![t] = [Blank EXCEPT !.retry = Retry(req[c].kind)]],
                  [req EXCEPT ![c].pc = "connect", ![c].t = t], registered)
        /\ UNCHANGED <<len, index, saved, disk, faults>>

\* A new provider; one that retries the caching drops what is cached before
Provide(c) ==
    LET t == CHOOSE s \in FreeSlot : TRUE
        retry == Retry(req[c].kind)
        q == [req[c] EXCEPT !.pc = "connect", !.t = t]
    IN  /\ Settle([tracker EXCEPT ![t] = [Blank EXCEPT !.retry = retry]],
                  IF retry THEN [Dropping(req) EXCEPT ![c] = q]
                  ELSE [req EXCEPT ![c] = q], t)
        /\ index' = IF retry THEN NoEntry ELSE index
        /\ saved' = IF retry THEN NoFile ELSE saved
        /\ UNCHANGED <<len, disk, faults>>

\* _retrieve_file_by_new_caching, and downloading as the last resort
NewCaching(c) ==
    \/ /\ ~BelowHard
       /\ Downloading(c)
    \/ /\ BelowHard /\ GetTracker # Nobody
       /\ Request(c, [req[c] EXCEPT !.pc = "wait", !.t = GetTracker, !.src = "tracker"])
       /\ UNCHANGED <<len, index, saved, disk, faults>>
    \/ /\ BelowHard /\ GetTracker = Nobody /\ FreeSlot # {}
       /\ Provide(c)

\* The sources that follow the local cache
AfterLookup(c) ==
    IF nfs # "none" /\ ~Retry(req[c].kind) THEN FromExternal(c, nfs, 0) ELSE NewCaching(c)

\* The file is to be read by a thread: in one go when it is small
ReadLocal(c, status) ==
    /\ \/ Request(c, [req[c] EXCEPT !.pc = IF index = 1 THEN "read" ELSE "reads",
                                    !.status = status, !.src = "saved"])
       \/ Busy(c)
    /\ UNCHANGED <<len, index, saved, disk, faults>>

\* _retrieve_range_by_cache_lookup: only from a file of the size that the index has
RangeInLocal == enabled /\ index > 0 /\ saved = index /\ Start < saved

\* _drop_cache_entry_reported_corrupted, unless the file is being cached anew
DropReported(c) ==
    LET rq == [req EXCEPT ![c].pc = "direct"]
        drop == enabled /\ GetTracker = Nobody
    IN  /\ Settle(tracker, IF drop THEN [Dropping(rq) EXCEPT ![c] = rq[c]] ELSE rq,
                  registered)
        /\ index' = IF drop THEN NoEntry ELSE index
        /\ saved' = IF drop THEN NoFile ELSE saved
        /\ UNCHANGED <<len, disk, faults>>

RetrieveRange(c) ==
    /\ req[c].pc = "retrieve" /\ Range(req[c].kind)
    /\ \/ /\ Retry(req[c].kind)
          /\ DropReported(c)
       \/ /\ ~Retry(req[c].kind)
          /\ LET Answers(copy) == copy = "zst" \/ (copy = "plain" /\ Start < len)
             IN  CASE Answers(device) -> FromExternal(c, device, Start)
                   [] ~Answers(device) /\ RangeInLocal -> ReadLocal(c, 206)
                   [] ~Answers(device) /\ ~RangeInLocal /\ Answers(nfs) ->
                          FromExternal(c, nfs, Start)
                   [] OTHER -> Downloading(c)
    /\ UNCHANGED outside

Caching(q) == enabled /\ q.kind # "no_cache"

RetrieveFile(c) ==
    LET q == req[c]
    IN  /\ q.pc = "retrieve" /\ ~Range(q.kind)
        /\ \/ /\ ~Caching(q)
              /\ Downloading(c)
           \/ /\ Caching(q) /\ ~Retry(q.kind) /\ device # "none"
              /\ FromExternal(c, device, 0)
           \/ /\ Caching(q) /\ ~Retry(q.kind) /\ device = "none" /\ index = 0
              /\ Request(c, Respond(q, 200))
              /\ UNCHANGED <<len, index, saved, disk, faults>>
           \/ /\ Caching(q) /\ ~Retry(q.kind) /\ device = "none" /\ index > 0
              /\ Request(c, [q EXCEPT !.pc = "lookup"])
              /\ UNCHANGED <<len, index, saved, disk, faults>>
           \/ /\ Caching(q) /\ (Retry(q.kind) \/ (device = "none" /\ index = NoEntry))
              /\ AfterLookup(c)
        /\ UNCHANGED outside

ReadAtOnce(c) ==
    /\ req[c].pc = "lookup"
    /\ ReadLocal(c, 200)
    /\ UNCHANGED outside

\* The file may not be linked yet: it is looked for several times.  What is not a file is
\* removed, and its entry with it.
LookupFile(c) ==
    /\ req[c].pc = "lookup"
    /\ \/ saved \notin {NoFile, NotRegular} /\ ReadLocal(c, 200)
       \/ saved = NoFile /\ AfterLookup(c)
       \/ /\ saved = NotRegular
          /\ saved' = NoFile /\ index' = NoEntry
          /\ Request(c, [req[c] EXCEPT !.pc = "elsewhere"])
          /\ UNCHANGED <<len, disk, faults>>
    /\ UNCHANGED outside

RetrieveElsewhere(c) ==
    /\ req[c].pc = "elsewhere"
    /\ AfterLookup(c)
    /\ UNCHANGED outside

\* Once the file is opened, unlinking it changes nothing for the reader
ReadFile(c) ==
    LET q == req[c]
        start == IF q.status = 206 THEN Start ELSE 0
    IN  /\ q.pc \in {"read", "reads"}
        /\ Request(c, IF saved # NoFile
                      THEN [Ended(q, "no") EXCEPT !.got = saved - start]
                      ELSE IF q.pc = "read"
                      THEN [Respond(q, 500) EXCEPT !.src = "missing"]
                      ELSE [Ended(q, "missing") EXCEPT !.src = "missing"])
        /\ UNCHANGED <<len, index, saved, disk, faults>>
        /\ UNCHANGED outside

\* The response headers of the remote
Connect(c) ==
    LET q == req[c]
        t == q.t
    IN  /\ q.pc = "connect"
        /\ \/ /\ NoFault
              /\ Both(t, [tracker[t] EXCEPT !.meta = TRUE], c,
                      [q EXCEPT !.pc = "first", !.status = 200, !.src = "remote"])
           \/ /\ Fault
              /\ Both(t, Failed(tracker[t]), c, Respond(q, 502))
        /\ UNCHANGED <<len, index, saved, disk>>
        /\ UNCHANGED outside

\* _retrieve_file_by_downloading: relayed as it is
Download(c) ==
    LET q == req[c]
        whole == [Respond(q, 200) EXCEPT !.got = len, !.src = "remote"]
        rest == [Respond(q, 206) EXCEPT !.got = len - Start, !.src = "remote"]
        full == IF Range(q.kind) /\ Start < len THEN rest ELSE whole
    IN  /\ q.pc = "direct"
        /\ \/ /\ NoFault
              /\ Request(c, full)
           \/ /\ Fault
              /\ \E r \in {Respond(q, 502), [full EXCEPT !.got = 0, !.gave_up = "remote"]} :
                     Request(c, r)
        /\ UNCHANGED <<len, index, saved, disk>>
        /\ UNCHANGED outside

\* _background_check_free_space
CheckFreeSpace ==
    /\ Fault
    /\ disk' \in {"low", "soft", "hard"} \ {disk}
    /\ UNCHANGED <<len, tracker, registered, index, saved, req, enabled, device, nfs, asked,
                   closed>>

\* App.stop, once the server has no request left: the pools are shut down
Stop ==
    /\ ~closed
    /\ \A c \in Clients : req[c].pc \in {"idle", "done"}
    /\ \A t \in Slots : tracker[t].writer = "none"
    /\ closed' = TRUE
    /\ UNCHANGED <<stream_vars, enabled, device, nfs, asked>>

CacheOver == closed /\ UNCHANGED cache_vars

\* A step of the coroutine of a request
Serve(c) ==
    \/ RetrieveRange(c) \/ RetrieveFile(c) \/ LookupFile(c) \/ RetrieveElsewhere(c)
    \/ Connect(c) \/ Download(c)
    \/ (FirstChunk(c) \/ SecondChunk(c) \/ RestOfChunks(c)) /\ UNCHANGED outside
    \/ (SubscriberWaitForProvider(c) \/ SubscriberGivesUp(c)) /\ UNCHANGED outside

\* A step of a thread that reads for a request
Read(c) ==
    \/ ReadFile(c)
    \/ (SubscriberReadsOnce(c) \/ SubscriberOpens(c) \/ SubscriberReads(c)) /\ UNCHANGED outside

\* A step of a writer thread
Write(t) ==
    /\ WriterStarts(t) \/ WriteOnce(t) \/ DropWriterNotStarted(t) \/ WriterWrites(t) \/ WriterCloses(t)
       \/ FinalizeCache(t) \/ LinkCache(t)
    /\ UNCHANGED outside

CacheNext ==
    \/ \E c \in Clients : Serve(c) \/ Read(c) \/ \E k \in Kinds : HttpHandler(c, k)
    \/ \E t \in Slots : Write(t)
    \/ CheckFreeSpace \/ Stop \/ CacheOver

-----------------------------------------------------------------------------
CacheTypeOK ==
    /\ len \in Lens
    /\ registered \in Slots \cup {Nobody}
    /\ index \in {NoEntry} \cup 0..len
    /\ saved \in {NoFile, NotRegular} \cup 0..len
    /\ disk \in {"low", "soft", "hard"}
    /\ \A t \in Slots :
        /\ tracker[t].writer \in {"none", "queued", "write", "commit", "link"}
        /\ {tracker[t].que, tracker[t].written, tracker[t].size} \subseteq 0..len
    /\ \A c \in Clients : req[c].t \in Slots \cup {Nobody} /\ req[c].got \in 0..len

\* Only whole files are entered in the index: however the remote, the disk, the writer
\* thread and the event loop fail, a provider that did not get the whole file does not
\* have what it wrote committed (stream_writing_cache, provider_write_file_in_thread).
CommittedIsWhole == index # NoEntry => index = len

\* A file is cached by one provider at a time: of the requests that are reading the
\* remote for the cache, at most one has a tracker that has not failed (the tracker is
\* registered before the remote is opened, _retrieve_file_by_new_caching).
OneProvider ==
    \A c, d \in Clients :
        (/\ {req[c].pc, req[d].pc} \subseteq {"connect", "first", "second", "rest"}
         /\ ~tracker[req[c].t].failed /\ ~tracker[req[d].t].failed) => c = d

\* What may cut a body short: SUBSCRIBER_WAIT_TIMEOUT, the file dropped as corrupted before
\* it was opened, or a failing remote, write or disk that failed the tracker of the request.
CutShort(q) ==
    \/ q.gave_up = "timeout"
    \/ q.gave_up = "missing" /\ q.dropped
    \/ q.gave_up \in {"remote", "writer"} /\ faults > 0

\* The body of a 200 is the whole file unless it was cut short, or read from a saved file
\* that a power loss left short.  Above all a subscriber does not take the end of a
\* provider that failed for the end of the file, and neither the dropping of a writer nor a
\* retry cuts anybody's body (subscriber_stream_cache_in_thread, subscribe_tracker).
BodyIsWhole ==
    \A c \in Clients :
        (req[c].pc = "done" /\ req[c].status = 200 /\ req[c].src # "saved")
            => (req[c].got = len \/ CutShort(req[c]))

\* The rest of the file is really the rest: a client that continues at Start is never
\* answered from a cached file that is short (_retrieve_range_by_cache_lookup).
RestIsTheRest ==
    \A c \in Clients :
        (req[c].pc = "done" /\ req[c].status = 206)
            => (Start + req[c].got = len \/ CutShort(req[c]))

\* A thread finds the file it is to read, saved or temporary, though the entry is
\* committed before the file is linked and temporary files disappear with their tracker;
\* the file can only be missing when a client reported it as corrupted meanwhile.
FileIsThere ==
    \A c \in Clients : req[c].src = "missing" => req[c].dropped

\* A provider that retries the caching replaces the saved file: it does not find, when
\* it links what it wrote, the file that it was to replace (_finalize_cache takes an
\* existing file for its own).
RetryReplaces ==
    \A t \in Slots :
        (/\ tracker[t].writer = "link" /\ tracker[t].retry /\ tracker'[t].writer # "link"
         /\ faults' = faults) => (saved' = len)

\* No request is being answered, and no writer thread is at work
Quiet ==
    /\ \A c \in Clients : req[c].pc \in {"idle", "done"}
    /\ \A t \in Slots : tracker[t].writer = "none"
=============================================================================
