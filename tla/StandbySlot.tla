----------------------------- MODULE StandbySlot -----------------------------
(***************************************************************************)
(* The files of the standby slot during an update: DeltaCalculator of      *)
(* ota_core/_update_libs.py, the delta generators of                       *)
(* create_standby/delta_gen.py and their worker threads, the resources an  *)
(* interrupted update left (create_standby/resume_ota.py), and the phases  *)
(* of OTAUpdaterBase around them.  An update that fails or is cut off is   *)
(* followed by another one on the same slot.                               *)
(***************************************************************************)
EXTENDS Naturals, FiniteSets

CONSTANTS
    Paths, Digests, Workers,
    New,          \* the files of the new image: a path's digest
    Old,          \* what the slot held when its file table was written
    Changed,      \* paths one of which may differ from the file table by now
    FullScan,     \* paths below FULL_SCAN_PATHS
    Excluded,     \* paths below EXCLUDE_PATHS or too deep, not scanned
    MaxPending,   \* MAX_CONCURRENT_PROCESS_FILE_TASKS
    MaxFaults,    \* bound on failures and restarts
    None

VARIABLES
    slot,        \* the files of the standby slot
    active,      \* the files of the active slot, its OTA resource dir
    res,         \* the OTA resource dir of the standby slot
    ota_tmp,     \* /.ota-tmp, the resource dir of an older otaclient
    base, image_meta, \* the file tables on it: /.ota-meta/base, image-meta
    mode,        \* in-place with or without a base file table, or rebuild
    pc,
    check,       \* _resources_to_check: what is still to be collected
    feed, que,   \* what the main thread has to enqueue, and _que
    work,        \* the worker threads
    broken,      \* a file could not be saved after its digest was popped
    faults

tables == <<base, image_meta>>
disk == <<slot, active, res, ota_tmp, tables>>
delta_vars == <<feed, que, work>>
slot_vars == <<disk, mode, pc, check, delta_vars, broken, faults>>

\* _check_if_need_to_process_dir
ScannedPaths == Paths \ Excluded

\* find_saved_fstable: the table, of the old image or of the new one, is
\* checked before it is used.
Usable(table) == table \in {"old", "new"}
FilesIn(table) ==
    IF table = "new" THEN [p \in Paths |-> IF p \in DOMAIN New THEN New[p] ELSE None]
    ELSE Old

Needed == {New[p] : p \in DOMAIN New}
Idle == [at |-> "idle", item |-> None, digest |-> None]
Fault == faults < MaxFaults /\ faults' = faults + 1

\* A file may have changed since the file table was written.
SlotInit ==
    /\ slot \in {Old} \union {[Old EXCEPT ![p] = "other"] : p \in Changed}
    /\ \E good \in Digests :
        active = [files |-> Old,
                  res |-> [d \in Digests |-> IF d = good THEN "good" ELSE "bad"]]
    /\ res = [d \in Digests |-> None]
    /\ \E s \in {None, "good", "bad"} :
        ota_tmp = [res EXCEPT ![CHOOSE d \in Needed : TRUE] = s]
    /\ base = None /\ image_meta \in {None, "old", "broken"}
    /\ mode = None /\ pc = "idle" /\ check = {} /\ feed = {} /\ que = {}
    /\ work = [w \in Workers |-> Idle] /\ broken = FALSE /\ faults = 0

(***************************************************************************)
(* _pre_update, and what calculate_delta does first                        *)
(***************************************************************************)

\* can_use_in_place_mode; otherwise the slot is formatted.
PreUpdate(inplace) ==
    /\ pc = "idle"
    /\ IF inplace
       THEN UNCHANGED disk
       ELSE /\ slot' = [p \in Paths |-> None]
            /\ res' = [d \in Digests |-> None] /\ ota_tmp' = res'
            /\ base' = None /\ image_meta' = None
            /\ UNCHANGED active
    /\ mode' = IF inplace THEN "inplace" ELSE "rebuild"
    /\ check' = Needed /\ broken' = FALSE
    /\ pc' = "migrate"
    /\ UNCHANGED <<delta_vars, faults>>

\* _backward_compat_for_ota_tmp_at_delta_cal: the resources are moved one by
\* one over those of the same name.
MigrateOtaTmp ==
    /\ pc = "migrate"
    /\ \/ \E d \in Digests :
            /\ ota_tmp[d] # None
            /\ res' = [res EXCEPT ![d] = ota_tmp[d]]
            /\ ota_tmp' = [ota_tmp EXCEPT ![d] = None]
            /\ UNCHANGED pc
       \/ /\ \A d \in Digests : ota_tmp[d] = None
          /\ pc' = IF mode = "inplace" THEN "resume" ELSE "copy"
          /\ UNCHANGED <<res, ota_tmp>>
    /\ UNCHANGED <<slot, active, tables, mode, check, delta_vars, broken, faults>>

\* Mutation: the name of a resource is taken for its contents.
TrustName(d) == res[d]

\* ResourceScanner: a resource that is not needed or not its digest's is
\* removed.
Scanned(d) == IF d \in Needed /\ res[d] = "good" THEN "good" ELSE None

\* A resource that cannot be read stays, to be collected or downloaded.
ResumeOta ==
    /\ pc = "resume"
    /\ \E read \in SUBSET Digests :
        /\ read = Digests \/ faults < MaxFaults
        /\ faults' = IF read = Digests THEN faults ELSE faults + 1
        /\ res' = [d \in Digests |-> IF d \in read THEN Scanned(d) ELSE res[d]]
        /\ check' = {d \in check : d \notin read \/ res'[d] = None}
    /\ pc' = "base"
    /\ UNCHANGED <<slot, active, ota_tmp, tables, mode, delta_vars, broken>>

\* _find_base_filetable_for_inplace_mode_at_delta_cal
FindBaseFiletable ==
    /\ pc = "base"
    /\ IF Usable(base)
       THEN UNCHANGED <<base, image_meta>>
       ELSE base' = image_meta /\ image_meta' = None
    /\ mode' = IF Usable(base') THEN "inplace_base" ELSE "inplace"
    /\ pc' = "delta"
    /\ feed' = IF Usable(base') THEN check ELSE ScannedPaths
    /\ UNCHANGED <<slot, active, res, ota_tmp, check, que, work, broken, faults>>

\* ResourceStreamer, from the resource dir of the active slot: verified while
\* it is copied, popped, then renamed.  A copy or a rename that fails is passed
\* over.
CopyFromActive ==
    /\ pc \in {"copy", "copy_last"}
    /\ LET found == {d \in check : active.res[d] = "good"}
       IN  \E popped \in SUBSET found : \E copied \in SUBSET popped :
            /\ IF copied = found THEN UNCHANGED faults ELSE Fault
            /\ res' = [d \in Digests |-> IF d \in copied THEN "good" ELSE res[d]]
            /\ check' = check \ popped
            /\ broken' = (broken \/ copied # popped)
    /\ \/ pc = "copy_last" /\ pc' = "download" /\ UNCHANGED <<mode, feed>>
       \/ /\ pc = "copy" /\ pc' = "delta"
          /\ mode' \in {"rebuild", "rebuild_base"}
          /\ feed' = IF mode' = "rebuild_base" THEN check' ELSE ScannedPaths
    /\ UNCHANGED <<slot, active, ota_tmp, tables, que, work>>

(***************************************************************************)
(* process_slot: _calculate_delta and _process_file_thread_worker          *)
(***************************************************************************)

Assisted == mode \in {"inplace_base", "rebuild_base"}
InPlace == mode \in {"inplace", "inplace_base"}
Source == IF InPlace THEN slot ELSE active.files
BaseTable == IF InPlace THEN FilesIn(base) ELSE active.files
\* The paths the base file table gives an item, or the item itself
PathsOf(i) == IF Assisted THEN {p \in Paths : BaseTable[p] = i} ELSE {i}

Pending == Cardinality(que) + Cardinality({w \in Workers : work[w].at \notin {"idle", "exit"}})

\* acquire, put; a file that is empty or not regular is removed at once.
Feed ==
    /\ pc = "delta" /\ Pending < MaxPending
    /\ \E i \in feed :
        /\ feed' = feed \ {i}
        /\ que' = IF Assisted \/ Source[i] # None THEN que \union {i} ELSE que
    /\ UNCHANGED <<disk, mode, pc, check, work, broken, faults>>

\* The digest a thread finds: with a base file table one of the paths has to
\* hash to it; without, a file that is not in the new image is looked at only
\* in a full scan.
Found(i) ==
    CASE Assisted -> IF \E p \in PathsOf(i) : Source[p] = i THEN i ELSE None
      [] ~Assisted /\ i \in FullScan \union DOMAIN New -> Source[i]
      [] OTHER -> None

Take(w) ==
    /\ work[w].at = "idle"
    /\ \E i \in que :
        /\ que' = que \ {i}
        /\ work' = [work EXCEPT ![w] =
                      [at |-> IF Found(i) = None THEN "clean" ELSE "pop",
                       item |-> i, digest |-> Found(i)]]
    /\ UNCHANGED <<disk, mode, pc, check, feed, broken, faults>>

\* _resources_to_check.pop: one of the threads gets it.
Pop(w) ==
    /\ work[w].at = "pop"
    /\ check' = check \ {work[w].digest}
    /\ work' = [work EXCEPT ![w].at = IF work[w].digest \in check THEN "save"
                                      ELSE "clean"]
    /\ UNCHANGED <<disk, mode, pc, feed, que, broken, faults>>

\* verify_file, stream_and_verify_file: what the thread hashed
Contents(w) ==
    IF \E p \in PathsOf(work[w].item) : Source[p] = work[w].digest THEN "good" ELSE "bad"

\* os.replace to <copy_dst>/<digest>; a failure is passed over.
Save(w) ==
    /\ work[w].at = "save"
    /\ \/ res' = [res EXCEPT ![work[w].digest] = Contents(w)] /\ UNCHANGED <<broken, faults>>
       \/ Fault /\ broken' = TRUE /\ UNCHANGED res
    /\ work' = [work EXCEPT ![w].at = "clean"]
    /\ UNCHANGED <<slot, active, ota_tmp, tables, mode, pc, check, feed, que>>

\* finally: in place, the files are removed; a new entry is made later.
RemoveOriginal(w) ==
    IF InPlace
    THEN slot' = [p \in Paths |-> IF p \in PathsOf(work[w].item) THEN None
                                  ELSE slot[p]]
    ELSE UNCHANGED slot

Clean(w) ==
    /\ work[w].at = "clean"
    /\ RemoveOriginal(w)
    /\ work' = [work EXCEPT ![w] = Idle]
    /\ UNCHANGED <<active, res, ota_tmp, tables, mode, pc, check, feed, que, broken,
                   faults>>

\* None, after everything that was enqueued
Exit(w) ==
    /\ pc = "delta" /\ feed = {} /\ que = {} /\ work[w].at = "idle"
    /\ work' = [work EXCEPT ![w].at = "exit"]
    /\ UNCHANGED <<disk, mode, pc, check, feed, que, broken, faults>>

\* The directories that were passed over; with a base file table all that is
\* left.
CleanupBase ==
    CASE mode = "inplace" -> Excluded
      [] mode = "inplace_base" -> Paths
      [] OTHER -> {}

JoinWorkers ==
    /\ pc = "delta" /\ \A w \in Workers : work[w].at = "exit"
    /\ work' = [w \in Workers |-> Idle]
    /\ slot' = [p \in Paths |-> IF p \in CleanupBase THEN None ELSE slot[p]]
    /\ pc' = IF InPlace THEN "copy_last" ELSE "download"
    /\ UNCHANGED <<active, res, ota_tmp, tables, mode, check, feed, que, broken, faults>>

(***************************************************************************)
(* Downloading, applying and after it                                      *)
(***************************************************************************)

\* _download_delta_resources
DownloadDelta ==
    /\ pc = "download"
    /\ res' = [d \in Digests |-> IF d \in check THEN "good" ELSE res[d]]
    /\ check' = {}
    /\ pc' = "apply"
    /\ UNCHANGED <<slot, active, ota_tmp, tables, mode, delta_vars, broken, faults>>

\* update_slot links or copies every file from the resource dir; a missing
\* resource, or a file in the way, is a failure.
UpdateSlot ==
    /\ pc = "apply"
    /\ \A p \in DOMAIN New : res[New[p]] # None /\ slot[p] = None
    /\ slot' = [p \in Paths |->
                  IF p \notin DOMAIN New THEN slot[p]
                  ELSE IF res[New[p]] = "good" THEN New[p] ELSE "other"]
    /\ pc' = "post"
    /\ UNCHANGED <<active, res, ota_tmp, tables, mode, check, delta_vars, broken,
                   faults>>

UpdateSlotFails ==
    /\ pc = "apply"
    /\ \E p \in DOMAIN New : res[New[p]] = None \/ slot[p] # None
    /\ pc' = "idle"
    /\ UNCHANGED <<disk, mode, check, delta_vars, broken, faults>>

\* _preserve_ota_image_meta_at_post_update: the previous base file table is
\* removed, then the saved one, which is copied again; what it was copied from
\* becomes the next base.
PreserveOtaImageMeta ==
    /\ \/ pc = "post" /\ base' = None /\ pc' = "post_image_meta" /\ UNCHANGED image_meta
       \/ pc = "post_image_meta" /\ image_meta' = None /\ pc' = "post_copy" /\ UNCHANGED base
       \/ pc = "post_copy" /\ image_meta' = "new" /\ pc' = "post_move" /\ UNCHANGED base
       \/ pc = "post_move" /\ base' = "new" /\ pc' = "done" /\ UNCHANGED image_meta
    /\ UNCHANGED <<slot, active, res, ota_tmp, mode, check, delta_vars, broken, faults>>

\* A copy or a move of a file table that is cut off leaves a part of it.
CutOff(table, at) == IF pc = at THEN {table, "broken"} ELSE {table}

\* The update fails or otaclient is restarted: what was written last may be
\* lost.  A delta generator that fails joins its workers first.
Interrupted ==
    /\ pc \notin {"idle", "done"} /\ Fault
    /\ pc' = "idle" /\ feed' = {} /\ que' = {} /\ check' = {}
    /\ work' = [w \in Workers |-> Idle]
    /\ \/ \E d \in Digests : res[d] = "good" /\ res' = [res EXCEPT ![d] = "bad"]
       \/ UNCHANGED res
    /\ image_meta' \in CutOff(image_meta, "post_copy")
    /\ base' \in CutOff(base, "post_move")
    /\ UNCHANGED <<slot, active, ota_tmp, mode, broken>>

DeltaWorker(w) == Take(w) \/ Pop(w) \/ Save(w) \/ Clean(w) \/ Exit(w)

SlotStep ==
    \/ MigrateOtaTmp \/ ResumeOta \/ FindBaseFiletable \/ CopyFromActive
    \/ Feed \/ JoinWorkers
    \/ DownloadDelta \/ UpdateSlot \/ UpdateSlotFails \/ PreserveOtaImageMeta

SlotOver == pc = "done" /\ UNCHANGED slot_vars

SlotNext ==
    \/ \E inplace \in BOOLEAN : PreUpdate(inplace)
    \/ SlotStep
    \/ \E w \in Workers : DeltaWorker(w)
    \/ Interrupted \/ SlotOver

(***************************************************************************)
(* Properties                                                              *)
(***************************************************************************)

\* update_slot completes only with the files of the new image, also on top of
\* what an interrupted update left in the resource dir.
AppliedIsImage ==
    pc \in {"post", "post_image_meta", "post_copy", "post_move", "done"}
        => \A p \in DOMAIN New : slot[p] = New[p]

\* What is neither collected nor to be downloaded is in the resource dir,
\* whichever thread found it, unless it could not be saved after the pop.
NothingLost ==
    pc \in {"copy_last", "download"} /\ ~broken
        => \A d \in Needed \ check : res[d] = "good"

\* An in-place update leaves no file of the old image in the way of a new one,
\* on which os.link would fail, nor one the new image does not have.
NoLeftover == pc \in {"copy_last", "download", "apply"} => \A p \in Paths : slot[p] = None

==============================================================================
