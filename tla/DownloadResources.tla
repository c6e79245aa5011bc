-------------------------- MODULE DownloadResources --------------------------
(***************************************************************************)
(* DownloadHelperForOTAImageV1 of ota_core/_download_resources.py on top   *)
(* of the retrying pool: the slices of a sliced resource are tasks of      *)
(* their own, tried once each, and the resource itself is dispatched when  *)
(* all of them have been tried; what a slice task could not download, the  *)
(* resource's task does.  A large blob arrives in <digest>.part, which has *)
(* one writer.                                                             *)
(***************************************************************************)
EXTENDS RetryTaskMap

CONSTANTS
    Resources,  \* the resources to download
    Slices,     \* the slices of each of them, {} when it is not sliced
    Digest      \* the digest of each slice; two slices may have the same

VARIABLES
    pend,       \* slices of the current resource still to yield
    waiting,    \* _waiting: the sliced resources not dispatched yet
    ready,      \* _ready
    not_tried,  \* _SlicesGroup._not_tried of each resource
    stop,       \* _stop_dispatching
    file,       \* the slices at their save_dst, whole and verified
    prepared,   \* the resources that are prepared
    doing       \* the blob each worker downloads, through its .part or not

iter_vars == <<todo, pend, waiting>>
slice_vars == <<ready, not_tried>>
blob_vars == <<file, prepared, doing>>
dl_vars == <<iter_vars, slice_vars, blob_vars, stop, task_vars>>

Nothing == [blob |-> NoItem, part |-> FALSE]
ResourceOf(s) == CHOOSE r \in Resources : s \in Slices[r]

DLInit ==
    /\ PoolInit /\ todo = Resources
    /\ pend = {} /\ waiting = {} /\ ready = {} /\ stop = FALSE
    /\ not_tried = [r \in Resources |-> {}]
    /\ file = {} /\ prepared = {} /\ doing = [w \in Workers |-> Nothing]

(***************************************************************************)
(* _iter_download_tasks                                                    *)
(***************************************************************************)

\* _slices_to_download; a look-up that fails leaves all to the resource.
SlicesToDownload(r) == {Slices[r] \ file, {}}

NextResource ==
    /\ pend = {} /\ ready = {}
    /\ \E r \in todo : \E slices \in SlicesToDownload(r) :
        /\ todo' = todo \ {r}
        /\ IF slices = {}
           THEN PullItem(r) /\ UNCHANGED <<pend, waiting, not_tried>>
           ELSE /\ waiting' = waiting \union {r}
                /\ not_tried' = [not_tried EXCEPT ![r] = slices]
                /\ \E s \in slices : PullItem(s) /\ pend' = slices \ {s}
    /\ UNCHANGED <<ready, blob_vars, stop>>

NextSlice ==
    /\ \E s \in pend : PullItem(s) /\ pend' = pend \ {s}
    /\ UNCHANGED <<todo, waiting, slice_vars, blob_vars, stop>>

NextReady ==
    /\ pend = {}
    /\ \E r \in ready : /\ PullItem(r)
                        /\ ready' = ready \ {r} /\ waiting' = waiting \ {r}
    /\ UNCHANGED <<todo, pend, not_tried, blob_vars, stop>>

\* Mutation: the resources that wait for slices in flight are not waited for.
EndWithoutWaiting ==
    /\ todo = {} /\ pend = {} /\ ready = {}
    /\ PullEnd
    /\ UNCHANGED <<iter_vars, slice_vars, blob_vars, stop>>

EndOfTasks ==
    /\ todo = {} /\ pend = {} /\ ready = {}
    /\ waiting = {} \/ stop
    /\ PullEnd
    /\ UNCHANGED <<iter_vars, slice_vars, blob_vars, stop>>

\* The caller's finally, once the generator is done
StopDispatching ==
    /\ gen # "loop" /\ ~stop
    /\ stop' = TRUE
    /\ UNCHANGED <<iter_vars, slice_vars, blob_vars, task_vars>>

\* _downloader_pool_with_retry is left after it: the workers are joined.
LeaveDownloads ==
    /\ stop /\ Leave
    /\ UNCHANGED <<iter_vars, slice_vars, blob_vars, stop>>

(***************************************************************************)
(* The tasks                                                               *)
(***************************************************************************)

\* Mutation: every thread downloads through the .part.
PartAlways(w, s) == [doing EXCEPT ![w] = [blob |-> s, part |-> TRUE]]

\* _PartialDownloads.use: the second one to come downloads the blob whole.
UsePart(w, s) ==
    LET in_use == {Digest[doing[v].blob] :
                    v \in {v \in Workers : doing[v].part}}
    IN  [doing EXCEPT ![w] = [blob |-> s, part |-> Digest[s] \notin in_use]]

StartBlob(w, s) ==
    /\ doing' = UsePart(w, s)
    /\ UNCHANGED <<iter_vars, slice_vars, file, prepared, stop, task_vars>>

\* _SlicesGroup.slice_tried
SliceTried(s) ==
    LET r == ResourceOf(s)
    IN  /\ not_tried' = [not_tried EXCEPT ![r] = @ \ {s}]
        /\ ready' = IF not_tried[r] = {s} THEN ready \union {r} ELSE ready

IsSlice(i) == i \notin Resources

\* _download_slice_at_thread; a retry of a slice that was tried does nothing.
DownloadSlice(w) ==
    /\ work[w].at = "run" /\ doing[w] = Nothing
    /\ IF work[w].item \in not_tried[ResourceOf(work[w].item)]
       THEN StartBlob(w, work[w].item)
       ELSE Succeed(w) /\ UNCHANGED <<iter_vars, slice_vars, blob_vars, stop>>

SliceEnds(w) ==
    /\ doing[w] # Nothing
    /\ doing' = [doing EXCEPT ![w] = Nothing]
    /\ SliceTried(work[w].item)
    /\ \/ Succeed(w) /\ file' = file \union {work[w].item}
       \/ Fail(w) /\ UNCHANGED file
    /\ UNCHANGED <<iter_vars, prepared, stop>>

\* _download_single_resource_at_thread: PrepareResourceHelper asks for the
\* slices it does not find, then joins them.
PrepareResource(w) ==
    /\ work[w].at = "run" /\ doing[w] = Nothing
    /\ LET missing == Slices[work[w].item] \ file
       IN  IF missing # {}
           THEN \E s \in missing : StartBlob(w, s)
           ELSE /\ \/ /\ Succeed(w)
                      /\ prepared' = prepared \union {work[w].item}
                   \/ Fail(w) /\ UNCHANGED prepared
                /\ UNCHANGED <<iter_vars, slice_vars, file, doing, stop>>

BlobEnds(w) ==
    /\ doing[w] # Nothing
    /\ doing' = [doing EXCEPT ![w] = Nothing]
    /\ \/ /\ work[w].at \in {"run", "hang"}
          /\ file' = file \union {doing[w].blob}
          /\ work' = [work EXCEPT ![w].at = "run"]
          /\ UNCHANGED <<dispatch_vars, queue, retry_vars, gen_vars,
                         stop_vars, permits, futs, succeeded, total>>
       \/ Fail(w) /\ UNCHANGED file
    /\ UNCHANGED <<iter_vars, slice_vars, prepared, stop>>

\* _download_task_at_thread
DownloadTask(w) ==
    IF IsSlice(work[w].item) THEN DownloadSlice(w) \/ SliceEnds(w)
    ELSE PrepareResource(w) \/ BlobEnds(w)

Iterate == NextResource \/ NextSlice \/ NextReady \/ EndOfTasks

DLWorker(w) == work[w].at \in {"run", "hang"} /\ DownloadTask(w)

PoolStep ==
    /\ \/ Dispatcher \/ DrainQueue \/ Watchdog \/ Generator
       \/ \E w \in Workers :
            \/ Take(w) \/ Callback(w)
            \/ doing[w] # Nothing /\ Hang(w)
    /\ UNCHANGED <<iter_vars, slice_vars, blob_vars, stop>>

DLOver == gen # "loop" /\ stop /\ UNCHANGED dl_vars

DLNext ==
    \/ Iterate \/ StopDispatching \/ LeaveDownloads \/ PoolStep
    \/ \E w \in Workers : DLWorker(w)
    \/ DLOver

(***************************************************************************)
(* Properties                                                              *)
(***************************************************************************)

\* _PartialDownloads: no two threads write one .part at the same time, also
\* when two resources share a slice and one of them downloads it itself.
PartHasOneWriter ==
    \A v, w \in Workers :
        v # w /\ doing[v].part /\ doing[w].part
            => Digest[doing[v].blob] # Digest[doing[w].blob]

\* "a slice is tried once": while a resource is prepared from its slices, and
\* after that, no slice task writes one of them, retried ones included.
NoSliceUnderPreparation ==
    \A v, w \in Workers :
        /\ doing[v] # Nothing /\ IsSlice(work[v].item)
        /\ work[w].at \in {"run", "hang"}
        => work[w].item # ResourceOf(work[v].item)

=============================================================================
