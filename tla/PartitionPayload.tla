--------------------------- MODULE PartitionPayload ---------------------------
(***************************************************************************)
(* The payload of a partition-image update, ota_core/_partition_image.py:  *)
(* what is staged per version and survives a failed update or a restart,   *)
(* what is fetched of it, whether there is room for it, and what the       *)
(* installer is given.  Sizes are in units of one chunk.                   *)
(***************************************************************************)
EXTENDS Naturals, Sequences, FiniteSets, FiniteSetsExt

CONSTANTS
    Versions,     \* requested versions, each staged in its own directory
    Capacity,     \* of the file system that is staged on
    MaxFaults,    \* bound on cut or corrupted downloads and on restarts
    NoVersion

VARIABLES
    staged,    \* the files of each version's staging directory
    pc, version,
    plan,      \* DownloadPlan.blobs, in order
    pending,   \* what is left of it for the loop that fetches the blobs
    fetching,  \* the blob that is downloaded
    reported,  \* _written_bytes_reported
    faults

\* The blobs of a payload and their sizes: the manifest and config, the rootfs
\* image or a delta of it, and another blob.
Metadata == "metadata"
SizeOf == [metadata |-> 1, image |-> 2, delta |-> 1, boot |-> 1]
Blobs == DOMAIN SizeOf
NoBlob == "none"
TotalWrite == 3

\* <digest> and <digest>.part
NoFile == [len |-> 0, good |-> TRUE]
Empty == [dst |-> NoFile, part |-> NoFile]
NothingStaged == [b \in Blobs |-> Empty]

Used == LET files == Versions \X Blobs \X {"dst", "part"}
        IN  MapThenSumSet(LAMBDA f : staged[f[1]][f[2]][f[3]].len, files)

PayloadInit ==
    /\ staged = [v \in Versions |-> NothingStaged]
    /\ pc = "idle" /\ version = NoVersion /\ fetching = NoBlob
    /\ plan = <<>> /\ pending = <<>> /\ reported = 0 /\ faults = 0

Fault == faults < MaxFaults /\ faults' = faults + 1
File(b) == staged[version][b]
Set(b, file) == staged' = [staged EXCEPT ![version][b] = file]

(***************************************************************************)
(* execute                                                                 *)
(***************************************************************************)

\* _prune_staging(keep)
PruneStaging(v) == [w \in Versions |-> IF w = v THEN staged[w] ELSE NothingStaged]

Execute(v) ==
    /\ pc = "idle"
    /\ version' = v /\ staged' = PruneStaging(v)
    /\ pc' = "metadata" /\ pending' = <<Metadata>> /\ fetching' = NoBlob
    /\ plan' = <<>> /\ reported' = 0
    /\ UNCHANGED faults

\* What the config says and source_digest answers: a delta the device cannot
\* apply, or an installer that cannot answer, is a refusal.
Plan ==
    /\ pc = "plan"
    /\ \/ \E rootfs \in {"image", "delta"} : plan' = <<rootfs, "boot">>
       \/ plan' = <<"boot">>                \* vendor package
    /\ pc' = "room"
    /\ UNCHANGED <<staged, version, pending, fetching, reported, faults>>

\* Refused, out of room, failed or aborted: the staging is kept.
Refuse ==
    /\ pc \in {"metadata", "plan", "fetch", "apply"} /\ Fault
    /\ pc' = "idle" /\ version' = NoVersion
    /\ fetching' = NoBlob /\ pending' = <<>>
    /\ UNCHANGED <<staged, plan, reported>>

\* resumable_bytes
Resumable(b) == IF File(b).part.len \in 1..SizeOf[b] - 1 THEN File(b).part.len ELSE 0

\* Mutation: a file is counted whatever its size.
AnySizeIsThere(b) == IF File(b).dst.len > 0 THEN SizeOf[b] ELSE Resumable(b)

\* What is there already, by its size
Have(b) == IF File(b).dst.len = SizeOf[b] THEN SizeOf[b] ELSE Resumable(b)

Planned == {plan[i] : i \in DOMAIN plan}

\* _check_there_is_room_for
CheckThereIsRoomFor ==
    /\ pc = "room"
    /\ LET needed == MapThenSumSet(LAMBDA b : SizeOf[b] - Have(b), Planned)
       IN  IF needed > Capacity - Used
           THEN pc' = "idle" /\ version' = NoVersion /\ UNCHANGED pending
           ELSE pc' = "fetch" /\ pending' = plan /\ UNCHANGED version
    /\ UNCHANGED <<staged, fetching, plan, reported, faults>>

(***************************************************************************)
(* _fetch_blob, of one blob after the other in plan order                  *)
(***************************************************************************)

\* Mutation: the size proves a blob.
RightSize(b) == File(b).dst.len = SizeOf[b]

\* _blob_is_here: the size and the digest
BlobIsHere(b) == File(b).dst.len = SizeOf[b] /\ File(b).dst.good

\* A blob that is here is not fetched.  Another file of its name is removed; so
\* is a .part that cannot be a prefix.
FetchBlob ==
    /\ pending # <<>> /\ fetching = NoBlob
    /\ LET b == Head(pending)
       IN  IF BlobIsHere(b)
           THEN pending' = Tail(pending) /\ UNCHANGED <<staged, fetching>>
           ELSE /\ Set(b, [dst |-> NoFile,
                           part |-> IF Resumable(b) > 0 THEN File(b).part ELSE NoFile])
                /\ fetching' = b /\ UNCHANGED pending
    /\ UNCHANGED <<pc, version, plan, reported, faults>>

\* A chunk arrives, if the disk has room; its bytes may be other bytes.
Receive(good) ==
    /\ fetching # NoBlob /\ Used < Capacity
    /\ File(fetching).part.len < SizeOf[fetching]
    /\ IF good THEN UNCHANGED faults ELSE Fault
    /\ staged' = [staged EXCEPT ![version][fetching].part =
                    [len |-> @.len + 1, good |-> @.good /\ good]]
    /\ UNCHANGED <<pc, version, fetching, plan, pending, reported>>

\* The server does not continue it, or a restart of the download.
StartAgain ==
    /\ fetching # NoBlob /\ Fault
    /\ staged' = [staged EXCEPT ![version][fetching].part = NoFile]
    /\ UNCHANGED <<pc, version, fetching, plan, pending, reported>>

\* Whole: moved to its name when it hashes right, removed when not.
Received ==
    /\ fetching # NoBlob /\ File(fetching).part.len = SizeOf[fetching]
    /\ IF File(fetching).part.good
       THEN /\ Set(fetching, [dst |-> File(fetching).part, part |-> NoFile])
            /\ fetching' = NoBlob /\ pending' = Tail(pending)
       ELSE /\ Set(fetching, [File(fetching) EXCEPT !.part = NoFile])
            /\ UNCHANGED <<fetching, pending>>
    /\ UNCHANGED <<pc, version, plan, reported, faults>>

\* The loop is over; no blob is looked at again.
Fetched ==
    /\ pc \in {"metadata", "fetch"} /\ pending = <<>>
    /\ pc' = IF pc = "metadata" THEN "plan" ELSE "apply"
    /\ UNCHANGED <<staged, version, fetching, plan, pending, reported, faults>>

(***************************************************************************)
(* apply and after it                                                      *)
(***************************************************************************)

Advance(so_far) == IF so_far > reported THEN so_far ELSE reported

\* _on_write_progress: the installer reports percents, not always in order.
WriteProgress(percent) ==
    /\ pc = "apply"
    /\ LET capped == IF percent > 100 THEN 100 ELSE percent
       IN  reported' = Advance((TotalWrite * capped) \div 100)
    /\ UNCHANGED <<staged, pc, version, fetching, plan, pending, faults>>

\* _finalize
Finalize ==
    /\ pc = "apply"
    /\ staged' = [staged EXCEPT ![version] = NothingStaged]
    /\ pc' = "idle" /\ version' = NoVersion
    /\ UNCHANGED <<fetching, plan, pending, reported, faults>>

\* otaclient is restarted; what was not on disk yet may be lost or wrong.
Corrupted(file) == {file, [file EXCEPT !.good = file.len = 0],
                    [len |-> file.len \div 2, good |-> TRUE]}
Restart ==
    /\ pc # "idle" /\ Fault
    /\ \E b \in Blobs : \E d \in Corrupted(File(b).dst), p \in Corrupted(File(b).part) :
        Set(b, [dst |-> d, part |-> p])
    /\ pc' = "idle" /\ version' = NoVersion
    /\ fetching' = NoBlob /\ pending' = <<>>
    /\ UNCHANGED <<plan, reported>>

PayloadNext ==
    \/ \E v \in Versions : Execute(v)
    \/ \E good \in BOOLEAN : Receive(good)
    \/ \E percent \in {0, 50, 100, 130} : WriteProgress(percent)
    \/ Plan \/ Refuse \/ CheckThereIsRoomFor \/ FetchBlob \/ StartAgain \/ Received
    \/ Fetched \/ Finalize \/ Restart

(***************************************************************************)
(* Properties                                                              *)
(***************************************************************************)

\* The installer is given whole and verified blobs only, also when they were
\* staged by an earlier update that failed or was cut off.
InstallerGetsWhole ==
    pc = "apply" => \A b \in Planned : /\ File(b).dst.len = SizeOf[b]
                                       /\ File(b).dst.good

\* "Refuse before downloading rather than partway through": a download whose
\* room was checked does not run out of it.
RoomIsEnough ==
    pc = "fetch" /\ fetching # NoBlob /\ Used = Capacity
        => File(fetching).part.len = SizeOf[fetching]

\* The bytes reported as written never exceed what is written.
ReportedIsWritten == reported <= TotalWrite

===============================================================================
