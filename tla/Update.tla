-------------------------------- MODULE Update --------------------------------
(***************************************************************************)
(* The stages of an update, each with behaviours of its own: metadata is   *)
(* downloaded (MetaFiles), the delta is calculated (StandbySlot), the rest *)
(* is downloaded (DownloadResources, each file as Downloader says) by the  *)
(* worker threads of RetryTaskMap, and the slot is written (UpdateSlot);   *)
(* PartitionPayload is the payload of a partition-image update.  The       *)
(* variables of the other stages are not used.                             *)
(***************************************************************************)
EXTENDS Naturals, FiniteSets, Sequences, TLC

CONSTANTS NotUsed, Stages

VARIABLES
    part,
    todo, dispatched, dispatcher, permits, queue, work, futs, succeeded,
    finished, total, shutdown, drained, exc, watchdog, gen, left, retries, register,
    fails,                                                   \* RetryTaskMap
    pend, waiting, ready, not_tried, stop, file, prepared, doing,
                                                        \* DownloadResources
    image, parsed, producer, lock, fst, stage, mapping, mine,   \* MetaFiles
    kind, given, dst, hashed, received, dl, resume_from, resumed, caching,
    second, start, cache, rejected, faults,                                          \* Downloader
    staged, pc, version, fetching, plan, pending, reported,  \* PartitionPayload
    slot, active, res, ota_tmp, base, image_meta, mode, check, feed, que, broken,
                                                              \* StandbySlot
    phase, firsts, se, pool, thread, group, inode, reports, interrupted
                                                               \* UpdateSlot

S == "S"
R == "R"
Two == {"t1", "t2"}

Map == INSTANCE RetryTaskMap WITH
    Tasks <- Two, Workers <- {"w1", "w2"}, NoItem <- "none",
    MaxConcurrent <- 2, MaxTotalRetry <- 1, MaxRetryOnEntry <- 1, MaxFails <- 2

\* One resource of two slices
Sliced == INSTANCE DownloadResources WITH
    Resources <- {S}, Slices <- (S :> {"s1", "s2"}),
    Digest <- ("S" :> "d0" @@ "s1" :> "d1" @@ "s2" :> "d2" @@ "none" :> "none"),
    Tasks <- {S, "s1", "s2"}, Workers <- {"w1", "w2"}, NoItem <- "none",
    MaxConcurrent <- 2, MaxTotalRetry <- 2, MaxRetryOnEntry <- 1, MaxFails <- 1

\* Two resources with a slice of the same digest
SameSlice == INSTANCE DownloadResources WITH
    Resources <- {S, R}, Slices <- (S :> {"s1"} @@ R :> {"r1"}),
    Digest <- ("S" :> "d0" @@ "R" :> "d3" @@ "s1" :> "d1" @@ "r1" :> "d1"
               @@ "none" :> "none"),
    Tasks <- {S, R, "s1", "r1"}, Workers <- {"w1", "w2"}, NoItem <- "none",
    MaxConcurrent <- 2, MaxTotalRetry <- 2, MaxRetryOnEntry <- 1, MaxFails <- 0
Meta == INSTANCE MetaFiles WITH
    Instances <- {"i1", "i2"}, NoThread <- "none", Tasks <- 1..4,
    Workers <- {"w1"}, NoItem <- 0, MaxConcurrent <- 2, MaxTotalRetry <- 9,
    MaxRetryOnEntry <- 9, MaxFails <- 1
OneFile == INSTANCE Downloader WITH Size <- 3, MaxFaults <- 2
Payload == INSTANCE PartitionPayload WITH
    Versions <- {"v1", "v2"}, Capacity <- 4, MaxFaults <- 2, NoVersion <- "none"

\* p2 has new contents that p3 had, p4 is dropped, p5 is not scanned.
Standby == INSTANCE StandbySlot WITH
    Paths <- {"p1", "p2", "p3", "p4", "p5"}, Digests <- {"d1", "d2"},
    Workers <- {"w1", "w2"}, New <- ("p1" :> "d1" @@ "p2" :> "d2"),
    Old <- ("p1" :> "d1" @@ "p2" :> "d1" @@ "p3" :> "d2" @@ "p4" :> "d1" @@ "p5" :> "d2"),
    Changed <- {"p1"}, FullScan <- {"p3"}, Excluded <- {"p5"},
    MaxPending <- 2, MaxFaults <- 1, None <- NotUsed

\* a and b are one inode in the image, c has the same contents.
Apply == INSTANCE UpdateSlot WITH
    Entries <- {"a", "b", "c", "e"}, Threads <- {"w1", "w2"},
    DigestOf <- ("a" :> "d1" @@ "b" :> "d1" @@ "c" :> "d1" @@ "e" :> "d2"),
    GroupOf <- ("a" :> "g" @@ "b" :> "g" @@ "c" :> "none" @@ "e" :> "none"),
    NoGroup <- "none", Inlined <- {"e"}, ConcurrentTasks <- 2

rtm == <<todo, dispatched, dispatcher, permits, queue, work, futs, succeeded, finished,
         total, shutdown, drained, exc, watchdog, gen, left, retries, register, fails>>
rtm_only == <<dispatched, dispatcher, permits, queue, futs, succeeded, finished, total,
              shutdown, drained, exc, watchdog, gen, left, retries, register, fails>>
resources == <<pend, waiting, ready, not_tried, stop, file, prepared, doing>>
meta == <<image, parsed, producer, lock, fst, stage, mapping, mine>>
one == <<kind, given, dst, hashed, received, dl, resume_from, resumed, caching, second,
         start, cache, rejected>>
pay == <<staged, version, fetching, plan, pending, reported>>
standby == <<slot, active, res, ota_tmp, base, image_meta, mode, check, feed, que, broken>>
apply == <<phase, firsts, se, pool, thread, group, inode, reports, interrupted>>
vars == <<part, rtm, resources, meta, one, pay, standby, apply, faults, pc>>

RtmUnused ==
    /\ dispatched = NotUsed /\ dispatcher = NotUsed /\ permits = NotUsed
    /\ queue = NotUsed /\ futs = NotUsed /\ succeeded = NotUsed /\ finished = NotUsed
    /\ total = NotUsed /\ shutdown = NotUsed /\ drained = NotUsed /\ exc = NotUsed
    /\ watchdog = NotUsed /\ gen = NotUsed /\ retries = NotUsed /\ register = NotUsed
    /\ fails = NotUsed /\ left = NotUsed
ResourcesUnused ==
    /\ pend = NotUsed /\ waiting = NotUsed /\ ready = NotUsed /\ not_tried = NotUsed
    /\ stop = NotUsed /\ file = NotUsed /\ prepared = NotUsed /\ doing = NotUsed
MetaUnused ==
    /\ image = NotUsed /\ parsed = NotUsed /\ producer = NotUsed /\ lock = NotUsed
    /\ fst = NotUsed /\ stage = NotUsed /\ mapping = NotUsed /\ mine = NotUsed
OneUnused ==
    /\ kind = NotUsed /\ dst = NotUsed /\ dl = NotUsed /\ resume_from = NotUsed
    /\ resumed = NotUsed /\ caching = NotUsed /\ second = NotUsed
    /\ start = NotUsed /\ cache = NotUsed /\ rejected = NotUsed
    /\ given = NotUsed /\ hashed = NotUsed /\ received = NotUsed
PayUnused ==
    /\ staged = NotUsed /\ version = NotUsed /\ fetching = NotUsed /\ plan = NotUsed
    /\ pending = NotUsed /\ reported = NotUsed
StandbyUnused ==
    /\ slot = NotUsed /\ active = NotUsed /\ res = NotUsed /\ base = NotUsed
    /\ image_meta = NotUsed /\ mode = NotUsed /\ check = NotUsed /\ feed = NotUsed
    /\ que = NotUsed /\ broken = NotUsed /\ ota_tmp = NotUsed
ApplyUnused ==
    /\ phase = NotUsed /\ firsts = NotUsed /\ se = NotUsed /\ pool = NotUsed
    /\ thread = NotUsed /\ group = NotUsed /\ inode = NotUsed /\ reports = NotUsed
    /\ interrupted = NotUsed

Init ==
    /\ part \in Stages
    /\ \/ /\ \/ part = "tasks" /\ Map!Init /\ ResourcesUnused /\ MetaUnused
             \/ part = "sliced" /\ Sliced!DLInit /\ MetaUnused
             \/ part = "same_slice" /\ SameSlice!DLInit /\ MetaUnused
             \/ part = "meta" /\ Meta!MetaInit /\ ResourcesUnused
          /\ OneUnused /\ PayUnused /\ StandbyUnused /\ ApplyUnused
          /\ faults = NotUsed /\ pc = NotUsed
       \/ /\ RtmUnused /\ ResourcesUnused /\ MetaUnused
          /\ \/ /\ part = "one_file" /\ OneFile!DownloaderInit
                /\ todo = NotUsed /\ work = NotUsed /\ pc = NotUsed
                /\ PayUnused /\ StandbyUnused /\ ApplyUnused
             \/ /\ part = "payload" /\ Payload!PayloadInit
                /\ todo = NotUsed /\ work = NotUsed
                /\ OneUnused /\ StandbyUnused /\ ApplyUnused
             \/ /\ part = "standby" /\ Standby!SlotInit /\ todo = NotUsed
                /\ OneUnused /\ PayUnused /\ ApplyUnused
             \/ /\ part = "apply" /\ Apply!USInit /\ work = NotUsed
                /\ faults = NotUsed /\ pc = NotUsed
                /\ OneUnused /\ PayUnused /\ StandbyUnused

Next ==
    /\ UNCHANGED part
    /\ \/ /\ \/ part = "tasks" /\ Map!Next /\ UNCHANGED <<resources, meta>>
             \/ part = "sliced" /\ Sliced!DLNext /\ UNCHANGED meta
             \/ part = "same_slice" /\ SameSlice!DLNext /\ UNCHANGED meta
             \/ part = "meta" /\ Meta!MetaNext /\ UNCHANGED resources
          /\ UNCHANGED <<one, pay, standby, apply, faults, pc>>
       \/ /\ part = "one_file" /\ OneFile!DownloaderNext
          /\ UNCHANGED <<rtm, resources, meta, pay, standby, apply, pc>>
       \/ /\ part = "payload" /\ Payload!PayloadNext
          /\ UNCHANGED <<rtm, resources, meta, one, standby, apply>>
       \/ /\ part = "standby" /\ Standby!SlotNext
          /\ UNCHANGED <<rtm_only, todo, resources, meta, one, pay, apply>>
       \/ /\ part = "apply" /\ Apply!USNext
          /\ UNCHANGED <<rtm_only, work, resources, meta, one, pay, standby, faults, pc>>

\* The threads of a stage are scheduled, and a call that does not hang ends;
\* see the fairness of each module.
MapFairness ==
    /\ WF_(Map!vars)(part = "tasks" /\ Map!Dispatch)
    /\ WF_(Map!vars)(part = "tasks" /\ (Map!Dispatcher \/ Map!DrainQueue) /\ UNCHANGED todo)
    /\ WF_(Map!vars)(part = "tasks" /\ Map!Watchdog /\ UNCHANGED todo)
    /\ WF_(Map!vars)(part = "tasks" /\ Map!Generator /\ UNCHANGED todo)
    /\ WF_(Map!vars)(part = "tasks" /\ Map!Leave /\ UNCHANGED todo)
    /\ \A w \in {"w1", "w2"} :
        /\ WF_(Map!vars)(part = "tasks" /\ (work[w].at # "hang" /\ Map!Worker(w)) /\ UNCHANGED todo)
        /\ WF_(Map!vars)(part = "tasks" /\ Map!Callback(w) /\ UNCHANGED todo)

SlicedFairness ==
    /\ WF_(Sliced!dl_vars)(part = "sliced" /\ Sliced!Iterate)
    /\ WF_(Sliced!dl_vars)(part = "sliced" /\ (Sliced!StopDispatching \/ Sliced!LeaveDownloads))
    /\ WF_(Sliced!dl_vars)(part = "sliced" /\ Sliced!Dispatcher /\ Sliced!PoolStep)
    /\ WF_(Sliced!dl_vars)(part = "sliced" /\ Sliced!DrainQueue /\ Sliced!PoolStep)
    /\ WF_(Sliced!dl_vars)(part = "sliced" /\ Sliced!Watchdog /\ Sliced!PoolStep)
    /\ WF_(Sliced!dl_vars)(part = "sliced" /\ Sliced!Generator /\ Sliced!PoolStep)
    /\ \A w \in {"w1", "w2"} :
        /\ WF_(Sliced!dl_vars)(part = "sliced" /\ work[w].at # "hang" /\ Sliced!DLWorker(w))
        /\ WF_(Sliced!dl_vars)(part = "sliced" /\ Sliced!Take(w) /\ Sliced!PoolStep)
        /\ WF_(Sliced!dl_vars)(part = "sliced" /\ Sliced!Callback(w) /\ Sliced!PoolStep)

SameSliceFairness ==
    /\ WF_(SameSlice!dl_vars)(part = "same_slice" /\ SameSlice!Iterate)
    /\ WF_(SameSlice!dl_vars)(part = "same_slice" /\ (SameSlice!StopDispatching \/ SameSlice!LeaveDownloads))
    /\ WF_(SameSlice!dl_vars)(part = "same_slice" /\ SameSlice!Dispatcher /\ SameSlice!PoolStep)
    /\ WF_(SameSlice!dl_vars)(part = "same_slice" /\ SameSlice!DrainQueue /\ SameSlice!PoolStep)
    /\ WF_(SameSlice!dl_vars)(part = "same_slice" /\ SameSlice!Watchdog /\ SameSlice!PoolStep)
    /\ WF_(SameSlice!dl_vars)(part = "same_slice" /\ SameSlice!Generator /\ SameSlice!PoolStep)
    /\ \A w \in {"w1", "w2"} :
        /\ WF_(SameSlice!dl_vars)(part = "same_slice" /\ work[w].at # "hang" /\ SameSlice!DLWorker(w))
        /\ WF_(SameSlice!dl_vars)(part = "same_slice" /\ SameSlice!Take(w) /\ SameSlice!PoolStep)
        /\ WF_(SameSlice!dl_vars)(part = "same_slice" /\ SameSlice!Callback(w) /\ SameSlice!PoolStep)

MetaFairness ==
    /\ WF_(Meta!meta_vars)(part = "meta" /\ Meta!Produce)
    /\ WF_(Meta!meta_vars)(part = "meta" /\ work["w1"].at # "hang" /\ Meta!MetaWorker)
    /\ WF_(Meta!meta_vars)(part = "meta" /\ Meta!Dispatcher /\ Meta!MetaPool)
    /\ WF_(Meta!meta_vars)(part = "meta" /\ Meta!DrainQueue /\ Meta!MetaPool)
    /\ WF_(Meta!meta_vars)(part = "meta" /\ Meta!Watchdog /\ Meta!MetaPool)
    /\ WF_(Meta!meta_vars)(part = "meta" /\ Meta!Generator /\ Meta!MetaPool)
    /\ WF_(Meta!meta_vars)(part = "meta" /\ Meta!Leave /\ Meta!MetaPool)
    /\ WF_(Meta!meta_vars)(part = "meta" /\ (Meta!Take("w1") \/ Meta!Callback("w1")) /\ Meta!MetaPool)

OtherFairness ==
    /\ WF_(OneFile!dlr_vars)(part = "one_file" /\ OneFile!DownloadOne)
    /\ WF_(OneFile!dlr_vars)(part = "one_file" /\ OneFile!Answer)
    /\ WF_(OneFile!dlr_vars)(part = "one_file" /\ ((OneFile!Chunk /\ OneFile!BodyGoesOn) \/ OneFile!EndOfBody \/ OneFile!AfterCut))
    /\ WF_(Standby!slot_vars)(part = "standby" /\ (\E inplace \in BOOLEAN : Standby!PreUpdate(inplace)))
    /\ WF_(Standby!slot_vars)(part = "standby" /\ Standby!SlotStep)
    /\ WF_(Apply!us_vars)(part = "apply" /\ Apply!USMain)
    /\ \A w \in {"w1", "w2"} :
        /\ WF_(Standby!slot_vars)(part = "standby" /\ Standby!DeltaWorker(w))
        /\ WF_(Apply!us_vars)(part = "apply" /\ (Apply!Begin(w) \/ Apply!Process(w)))

Spec ==
    /\ Init /\ [][Next]_vars
    /\ MapFairness /\ SlicedFairness /\ SameSliceFairness /\ MetaFairness /\ OtherFairness

(***************************************************************************)
(* Properties                                                              *)
(***************************************************************************)

Downloads == {"sliced", "same_slice"}

\* A stage ends normally only when its work is done, what failed and was
\* retried included, and otherwise tells the caller why: ensure_tasks returns
\* when every item of the iterable was processed, and raises with a cause;
\* download_resources when every resource is prepared, also the ones whose
\* slices were in flight at the end; the metadata generator goes on when the
\* files of its batch are there; update_slot returns when every file is.
StagesComplete ==
    /\ part = "tasks" => /\ gen = "returned" => todo = {} /\ Cardinality(succeeded) = dispatched
                         /\ gen # "bare"
    /\ part \in Downloads /\ gen = "returned"
          => prepared = IF part = "sliced" THEN {S} ELSE {S, R}
    /\ part = "meta" => Meta!ReadMeansDownloaded
    /\ part = "apply" => Apply!SlotComplete

\* What is used for the new slot is the image's, whatever an interrupted update
\* left and whatever the server and the proxy answered: a download that is given
\* the digest returns with the whole file at <dst>, although what is compared is
\* the digest of what was read back and received; the installer of a partition
\* image is given verified blobs; and the standby slot ends with the files of
\* the image.
InstalledIsImage ==
    /\ part = "one_file" /\ dl = "ok" /\ "digest" \in given => dst = OneFile!Whole
    /\ part = "payload" => Payload!InstallerGetsWhole
    /\ part = "standby" => Standby!AppliedIsImage

\* What is counted adds up, in whatever order the threads come to it.  As long
\* as the pool runs, every item in flight holds one permit through all of its
\* retries, and no permit is lost (_concurrent_semaphore).  The progress of
\* applying the delta counts every file that is not the first of its digest
\* once; the first ones were counted with their resources, except those
\* inlined.  The bytes reported as written never exceed what is written.
CountsAddUp ==
    /\ part = "tasks" => Map!PermitsAccounted
    /\ part = "apply" => Apply!ProgressCounted
    /\ part = "payload" => Payload!ReportedIsWritten

\* A file and a downloader instance have one user at a time: no two threads
\* write one .part (_PartialDownloads), no slice is written while or after its
\* resource is prepared from it ("a slice is tried once"), and the worker and
\* the batch threads never download with the same instance.
OneUserAtATime ==
    /\ part = "sliced" => Sliced!PartHasOneWriter /\ Sliced!NoSliceUnderPreparation
    /\ part = "same_slice" => SameSlice!PartHasOneWriter /\ SameSlice!NoSliceUnderPreparation
    /\ part = "meta" => Meta!InstanceHasOneUser

\* "Refuse before downloading rather than partway through": a download whose
\* room was checked does not run out of it.
RoomIsEnough == part = "payload" => Payload!RoomIsEnough

\* The delta is exact.  A resource that is neither to be collected nor to be
\* downloaded is in the resource dir, whichever thread found it, unless it
\* could not be saved after the pop; and an in-place update leaves no file of the
\* old image that is in the way of a new one or that the new image lacks.
DeltaIsExact == part = "standby" => Standby!NothingLost /\ Standby!NoLeftover

\* Whatever thread comes first, two files share an inode on the slot only if
\* they do in the image: no file is an alias of another through the resource
\* both were prepared from.
InodesAsInImage == part = "apply" => Apply!InodesAsInImage

\* What was verified is kept and what was rejected is not built on: no verified
\* blob of the version being updated is removed before the update is finalised
\* (_prune_staging), and a request that is made while bytes that hashed wrong
\* are at <dst> asks for the whole file (retry_on_digest_mismatch).
ResumeIsSound ==
    /\ [](part = "one_file" => (dl = "request" /\ rejected => resume_from = 0))
    /\ [][part = "payload" =>
            \A v \in {"v1", "v2"}, b \in Payload!Blobs :
                (/\ version' = v /\ faults' = faults
                 /\ staged[v][b].dst.len = Payload!SizeOf[b] /\ staged[v][b].dst.good)
                => staged'[v][b].dst = staged[v][b].dst]_vars

Pools == {"tasks", "meta"} \union Downloads
Hung == part \in Pools /\ \E w \in DOMAIN work : work[w].at = "hang"

\* Whatever fails, the stages end.  The loop over ensure_tasks ends whichever
\* call hangs (also when the dispatcher waits for a slice that hangs, or the
\* metadata generator and the worker for each other), and the stage is left
\* after it unless a call hangs for ever, as the "with" of the pool joins the
\* workers; update_slot ends when files fail with its semaphore used up.  Once
\* nothing goes wrong any more, a file is downloaded, also when the proxy's
\* copy or the bytes of an earlier attempt are bad, and an update of the
\* standby slot completes on top of what interrupted ones left.
StagesEnd ==
    /\ <>(/\ part \in Pools => gen # "loop"
          /\ part = "apply" => phase \in {"returned", "raised"}
          /\ part = "one_file" => dl = "ok"
          /\ part = "standby" => pc = "done")
    /\ <>(part \in Pools => left) \/ <>[]Hung

==============================================================================
