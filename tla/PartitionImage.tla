--------------------------- MODULE PartitionImage ---------------------------
(***************************************************************************)
(* The boot controller of the partition-based layout, boot_control/        *)
(* _partition_image.py, the update that drives it (execute of ota_core/    *)
(* _partition_image.py) and the platform's installer, the DPI, behind      *)
(* boot_control/_dpi.py.  The slots are verity images without a writable   *)
(* file; the status files lie outside them, one directory per slot.  The   *)
(* DPI arms one trial boot while it installs, and decides after that boot. *)
(***************************************************************************)
EXTENDS Integers

CONSTANTS SlotA, SlotB, NoSlot,
          MaxUpdates  \* bound on the updates of a behaviour

VARIABLES
    status, slot_in_use,  \* status files of each slot
    version, detail,      \* the version and version_detail files of each slot
    failure_info,         \* the update whose failure the file is about
    bound,                \* the status file is the one failure_info names
    staged_in,            \* staged-in-boot names "this" boot, an "earlier" one
    image,                \* what the slot holds: an update's image or Partial
    armed, record,        \* the DPI's trial boot and its record of a staging
    default,              \* the slot the DPI committed
    current, ota_status, pc,
    not_committed, switch_concluded,  \* of the controller
    final_phase,          \* the abort handler's state is FINAL_PHASE
    risked,               \* the committed slot was written over
    session,              \* the updates so far
    written_by            \* the update that last wrote each slot's status

disk == <<status, slot_in_use, version, detail, failure_info, bound,
          written_by, staged_in>>
dpi == <<image, armed, record, default>>
ctrl == <<not_committed, switch_concluded, final_phase>>
vars == <<disk, dpi, ctrl, current, ota_status, pc, risked, session>>

Slots == {SlotA, SlotB}
Other(s) == IF s = SlotA THEN SlotB ELSE SlotA
standby == Other(current)

NoVersion == -1      \* cfg.DEFAULT_VERSION_STR, or no file
Partial == -1        \* the image is written, or its writing was cut short
NoInfo == 0
Sessions == 0..MaxUpdates

\* The platform verifies an image before it boots it.
Whole(s) == image[s] # Partial

Startup == {"start", "load_status", "resume_switch", "store_success",
            "store_failure", "staging", "conclude", "conclude_blind",
            "forget", "reason", "reason_info"}
\* The critical zone holds pre_update and the installation.
CriticalZone == {"remember", "pre_status", "pre_slot_in_use",
                 "pre_standby_status", "pre_standby_version",
                 "pre_standby_slot_in_use", "install"}
Updating == CriticalZone \union
            {"download", "installed", "post_status", "post_version",
             "post_detail", "post_slot_in_use", "reboot"}
Failing == {"on_failure_early", "on_failure", "on_failure_standby",
            "failure_status", "failure_info"}

TypeOK ==
    /\ status \in [Slots -> {"none", "INITIALIZED", "UPDATING", "SUCCESS",
                             "FAILURE", "ABORTED"}]
    /\ slot_in_use \in [Slots -> Slots \union {NoSlot}]
    /\ version \in [Slots -> Sessions \union {NoVersion}]
    /\ detail \in [Slots -> Sessions \union {NoVersion}]
    /\ failure_info \in [Slots -> Sessions]
    /\ bound \in [Slots -> BOOLEAN]
    /\ staged_in \in {"none", "this", "earlier"}
    /\ image \in [Slots -> Sessions \union {Partial}]
    /\ armed \in Slots \union {NoSlot} /\ record \in BOOLEAN
    /\ default \in Slots /\ current \in Slots \union {NoSlot}
    /\ ota_status \in {"none", "INITIALIZED", "UPDATING", "SUCCESS",
                       "FAILURE", "ABORTED"}
    /\ pc \in {"down", "idle", "no_controller", "exited", "no_reboot_info"}
              \union Startup \union Updating \union Failing
    /\ not_committed \in BOOLEAN /\ switch_concluded \in BOOLEAN
    /\ final_phase \in BOOLEAN
    /\ risked \in BOOLEAN /\ session \in Sessions
    /\ written_by \in [Slots -> Sessions]

\* The factory's image in slot A, and nothing recorded.
Init ==
    /\ status = [s \in Slots |-> "none"]
    /\ slot_in_use = [s \in Slots |-> NoSlot]
    /\ version = [s \in Slots |-> NoVersion]
    /\ detail = [s \in Slots |-> NoVersion]
    /\ failure_info = [s \in Slots |-> NoInfo]
    /\ bound = [s \in Slots |-> FALSE]
    /\ staged_in = "none"
    /\ image = [s \in Slots |-> IF s = SlotA THEN 0 ELSE Partial]
    /\ armed = NoSlot /\ record = FALSE /\ default = SlotA
    /\ current = NoSlot /\ ota_status = "none" /\ pc = "down"
    /\ not_committed = FALSE /\ switch_concluded = FALSE
    /\ final_phase = FALSE
    /\ risked = FALSE /\ session = 0
    /\ written_by = [s \in Slots |-> 0]

At(from, to) == pc = from /\ pc' = to

\* A new status file is not the one a failure info was written with.
StoreStatus(s, st, update) ==
    /\ status' = [status EXCEPT ![s] = st]
    /\ bound' = [bound EXCEPT ![s] = FALSE]
    /\ written_by' = [written_by EXCEPT ![s] = update]

\* Every caller of store_failure_info catches what it raises, and goes on.
StoreFailureStatus(from, to, after) ==
    \/ /\ At(from, to)
       /\ StoreStatus(current, "FAILURE", session)
       /\ UNCHANGED failure_info
    \/ /\ At(from, after)
       /\ UNCHANGED <<status, failure_info, bound, written_by>>

\* The second file names the status file that was written with it.
StoreFailureReason(from, after) ==
    /\ At(from, after)
    /\ \/ /\ failure_info' = [failure_info EXCEPT ![current] = session]
          /\ bound' = [bound EXCEPT ![current] = TRUE]
       \/ UNCHANGED <<failure_info, bound>>
    /\ UNCHANGED <<status, written_by>>

\* load_booted_failure_info
BootedFailureInfo(s) == IF bound[s] THEN failure_info[s] ELSE NoInfo

(***************************************************************************)
(* The platform                                                            *)
(***************************************************************************)

\* The armed slot is tried once; a slot whose image does not verify, or a
\* trial that does not come up, ends in the committed slot.
Boot ==
    /\ current = NoSlot
    /\ \E s \in Slots :
        /\ Whole(s)
        /\ s = armed \/ s = default \/ ~Whole(default)
        /\ current' = s
    /\ armed' = NoSlot
    /\ staged_in' = IF staged_in = "this" THEN "earlier" ELSE staged_in
    /\ pc' = "start"
    /\ UNCHANGED <<status, slot_in_use, version, detail, failure_info, bound,
                   written_by, image, record, default, ctrl, ota_status,
                   risked, session>>

Forgotten ==
    /\ ota_status' = "none"
    /\ not_committed' = FALSE /\ switch_concluded' = FALSE
    /\ final_phase' = FALSE

\* A power loss, or the platform ends a trial boot that was not healthy.
PowerLoss ==
    /\ current # NoSlot
    /\ current' = NoSlot /\ pc' = "down"
    /\ Forgotten
    /\ UNCHANGED <<disk, dpi, risked, session>>

OtaclientRestarts ==
    /\ pc \notin {"down", "start"}
    /\ pc' = "start"
    /\ Forgotten
    /\ UNCHANGED <<disk, dpi, current, risked, session>>

\* DPI resume: a staging is committed when this is its healthy trial boot;
\* its record is closed either way, and so is the arming.  Asked again, it
\* answers the same.  It may be killed before it did anything.
Resume(ok) ==
    \/ /\ record /\ record' = FALSE
       /\ armed' = NoSlot
       /\ ok => current # default
       /\ default' = IF ok THEN current ELSE default
       /\ risked' = (risked /\ ~ok)
       /\ UNCHANGED image
    \/ /\ ~record /\ ok = (current = default)
       /\ UNCHANGED <<dpi, risked>>
    \/ ~ok /\ UNCHANGED <<dpi, risked>>

(***************************************************************************)
(* PartitionImageBootController.__init__                                   *)
(***************************************************************************)

\* The layout is asked for, the state directories are checked.
Start ==
    /\ At("start", "load_status")
    /\ slot_in_use' = IF slot_in_use[current] = NoSlot
                      THEN [slot_in_use EXCEPT ![current] = current]
                      ELSE slot_in_use
    /\ UNCHANGED <<status, version, detail, failure_info, bound, written_by,
                   staged_in, dpi, ctrl, current, ota_status, risked,
                   session>>

StartupFails ==
    /\ pc \in Startup
    /\ pc' = "no_controller"
    /\ UNCHANGED <<disk, dpi, ctrl, current, ota_status, risked, session>>

\* OTAStatusFilesControl._load_status_file
LoadStatus ==
    /\ pc = "load_status"
    /\ IF status[current] = "UPDATING" /\ slot_in_use[current] = current
       THEN /\ pc' = "resume_switch"
            /\ ota_status' = "UPDATING"
            /\ UNCHANGED <<status, bound, written_by>>
       ELSE /\ pc' = "staging"
            /\ ota_status' = CASE status[current] = "none" -> "INITIALIZED"
                               [] status[current] = "UPDATING" -> "FAILURE"
                               [] OTHER -> status[current]
            /\ IF status[current] \in {"none", "UPDATING", "ABORTED"}
               THEN StoreStatus(current, IF status[current] = "UPDATING"
                                         THEN "FAILURE" ELSE "INITIALIZED",
                                session)
               ELSE UNCHANGED <<status, bound, written_by>>
    /\ UNCHANGED <<slot_in_use, version, detail, failure_info, staged_in, dpi,
                   ctrl, current, risked, session>>

FinalizeSwitchingBoot ==
    /\ pc = "resume_switch"
    /\ switch_concluded' = TRUE
    /\ \E ok \in BOOLEAN :
        /\ Resume(ok)
        /\ not_committed' = ~ok
        /\ pc' = IF ok THEN "store_success" ELSE "store_failure"
    /\ UNCHANGED <<disk, final_phase, current, ota_status, session>>

StoreFinalized ==
    /\ pc \in {"store_success", "store_failure"}
    /\ ota_status' = IF pc = "store_success" THEN "SUCCESS" ELSE "FAILURE"
    /\ StoreStatus(current, ota_status', session)
    /\ pc' = "staging"
    /\ UNCHANGED <<slot_in_use, version, detail, failure_info, staged_in, dpi,
                   ctrl, current, risked, session>>

\* Mutation: the boot id is not compared.
AnyStagingIsConcluded ==
    /\ pc = "staging"
    /\ pc' = IF switch_concluded THEN "forget"
             ELSE IF staged_in # "none" THEN "conclude" ELSE "reason"
    /\ UNCHANGED <<disk, dpi, ctrl, current, ota_status, risked, session>>

\* _a_reboot_followed_the_staging; a boot id that cannot be read is taken for
\* another one.
AskAboutStaging ==
    /\ pc = "staging"
    /\ \/ pc' = IF switch_concluded THEN "forget"
                ELSE IF staged_in = "earlier" THEN "conclude" ELSE "reason"
       \/ ~switch_concluded /\ staged_in # "none" /\ pc' = "conclude_blind"
    /\ UNCHANGED <<disk, dpi, ctrl, current, ota_status, risked, session>>

ConcludeABootThatDidNotSwitch ==
    /\ pc \in {"conclude", "conclude_blind"} /\ pc' = "forget"
    /\ \E ok \in BOOLEAN : Resume(ok) /\ not_committed' = ~ok
    /\ UNCHANGED <<disk, switch_concluded, final_phase, current, ota_status,
                   session>>

ForgetTheStagingBoot ==
    /\ At("forget", "reason")
    /\ staged_in' = "none"
    /\ UNCHANGED <<status, slot_in_use, version, detail, failure_info, bound,
                   written_by, dpi, ctrl, current, ota_status, risked,
                   session>>

\* Only for a FAILURE without a reason of its own
RecordWhyTheTrialWasNotCommitted ==
    /\ \/ /\ pc = "reason"
          /\ IF /\ not_committed /\ ota_status = "FAILURE"
                /\ BootedFailureInfo(current) = NoInfo
             THEN StoreFailureStatus("reason", "reason_info", "idle")
             ELSE /\ pc' = "idle"
                  /\ UNCHANGED <<status, failure_info, bound, written_by>>
       \/ StoreFailureReason("reason_info", "idle")
    /\ UNCHANGED <<slot_in_use, version, detail, staged_in, dpi, ctrl,
                   current, ota_status, risked, session>>

(***************************************************************************)
(* The update                                                              *)
(***************************************************************************)

\* execute: metadata, plan and payload are PartitionPayload's subject.
StartUpdate ==
    /\ At("idle", "download")
    /\ session < MaxUpdates
    /\ final_phase' = FALSE
    /\ UNCHANGED <<disk, dpi, not_committed, switch_concluded, current,
                   ota_status, risked, session>>

EnterCriticalZone ==
    /\ At("download", "remember")
    /\ UNCHANGED <<disk, dpi, ctrl, current, ota_status, risked, session>>

RememberTheStagingBoot ==
    /\ At("remember", "pre_status")
    /\ staged_in' = "this"
    /\ UNCHANGED <<status, slot_in_use, version, detail, failure_info, bound,
                   written_by, dpi, ctrl, current, ota_status, risked,
                   session>>

\* pre_update_current; an update counts from its first status write
PreUpdateCurrent ==
    /\ \/ /\ At("pre_status", "pre_slot_in_use")
          /\ StoreStatus(current, "FAILURE", session + 1)
          /\ session' = session + 1
          /\ risked' = (risked \/ default # current)
          /\ UNCHANGED <<slot_in_use, failure_info>>
       \/ /\ At("pre_slot_in_use", "pre_standby_status")
          /\ slot_in_use' = [slot_in_use EXCEPT ![current] = standby]
          /\ failure_info' = [failure_info EXCEPT ![current] = NoInfo]
          /\ UNCHANGED <<status, bound, written_by, session, risked>>
    /\ UNCHANGED <<version, detail, staged_in, dpi, ctrl, current,
                   ota_status>>

\* post_update_standby with its files, from pre_update and post_update
StandbyStatus(from, to) ==
    /\ At(from, to)
    /\ StoreStatus(standby, "UPDATING", session)
    /\ UNCHANGED <<slot_in_use, version, detail, failure_info, staged_in, dpi,
                   ctrl, current, ota_status, risked, session>>

StandbyVersion(from, to, v) ==
    /\ At(from, to)
    /\ version' = [version EXCEPT ![standby] = v]
    /\ UNCHANGED <<status, slot_in_use, detail, failure_info, bound,
                   written_by, staged_in, dpi, ctrl, current, ota_status,
                   risked, session>>

\* Only of an update whose request names its release in full; the file of an
\* earlier update stays otherwise.
StandbyVersionDetail(from, to) ==
    /\ At(from, to)
    /\ \/ detail' = [detail EXCEPT ![standby] = session]
       \/ UNCHANGED detail
    /\ UNCHANGED <<status, slot_in_use, version, failure_info, bound,
                   written_by, staged_in, dpi, ctrl, current, ota_status,
                   risked, session>>

StandbySlotInUse(from, to) ==
    /\ At(from, to)
    /\ slot_in_use' = [slot_in_use EXCEPT ![standby] = standby]
    /\ failure_info' = [failure_info EXCEPT ![standby] = NoInfo]
    /\ UNCHANGED <<status, version, detail, bound, written_by, staged_in, dpi,
                   ctrl, current, ota_status, risked, session>>

\* Mutation: pre_update leaves the standby's version file.
KeepStandbyVersion ==
    \/ StandbyStatus("pre_standby_status", "pre_standby_slot_in_use")
    \/ StandbySlotInUse("pre_standby_slot_in_use", "install")

PreUpdateStandby ==
    \/ StandbyStatus("pre_standby_status", "pre_standby_version")
    \/ StandbyVersion("pre_standby_version", "pre_standby_slot_in_use",
                      NoVersion)
    \/ StandbySlotInUse("pre_standby_slot_in_use", "install")

\* DPI install: the image is written, then one trial boot of it is armed.
InstallWrites ==
    /\ pc = "install"
    /\ image' = [image EXCEPT ![standby] = Partial]
    /\ armed' \in {armed, NoSlot}
    /\ UNCHANGED <<disk, record, default, ctrl, current, ota_status, pc,
                   risked, session>>

InstallDone ==
    /\ At("install", "installed")
    /\ image[standby] = Partial
    /\ image' = [image EXCEPT ![standby] = session]
    /\ armed' = standby /\ record' = TRUE
    /\ UNCHANGED <<disk, default, ctrl, current, ota_status, risked, session>>

EnterFinalPhase ==
    /\ At("installed", "post_status")
    /\ final_phase' = TRUE
    /\ UNCHANGED <<disk, dpi, not_committed, switch_concluded, current,
                   ota_status, risked, session>>

PostUpdate ==
    \/ StandbyStatus("post_status", "post_version")
    \/ StandbyVersion("post_version", "post_detail", session)
    \/ StandbyVersionDetail("post_detail", "post_slot_in_use")
    \/ StandbySlotInUse("post_slot_in_use", "reboot")

FinalizingUpdate ==
    /\ At("reboot", "down")
    /\ current' = NoSlot
    /\ Forgotten
    /\ UNCHANGED <<disk, dpi, risked, session>>

\* The DPI does not reboot: its reason is kept and the update thread ends.
RebootDidNotHappen ==
    /\ \/ StoreFailureStatus("reboot", "no_reboot_info", "exited")
       \/ StoreFailureReason("no_reboot_info", "exited")
    /\ UNCHANGED <<slot_in_use, version, detail, staged_in, dpi, ctrl,
                   current, ota_status, risked, session>>

UpdateFails ==
    /\ pc \in Updating \ {"reboot"}
    /\ pc' = IF pc \in {"download", "remember", "pre_status"}
             THEN "on_failure_early" ELSE "on_failure"
    /\ UNCHANGED <<disk, dpi, ctrl, current, ota_status, risked, session>>

\* on_operation_failure: on_failure, and the standby's status as well
OnOperationFailure ==
    /\ \/ /\ pc \in {"on_failure_early", "on_failure"}
          /\ pc' = "on_failure_standby"
          /\ session' = IF pc = "on_failure" THEN session ELSE session + 1
          /\ StoreStatus(current, "FAILURE", session')
       \/ /\ At("on_failure_standby", "failure_status")
          /\ \/ StoreStatus(standby, "FAILURE", session)
             \/ status[standby] = "none" /\ UNCHANGED <<status, bound, written_by>>
          /\ UNCHANGED session
    /\ UNCHANGED <<slot_in_use, version, detail, failure_info, staged_in, dpi,
                   ctrl, current, ota_status, risked>>

\* ota_core keeps the reason of the failure.
StoreUpdateFailure ==
    /\ \/ StoreFailureStatus("failure_status", "failure_info", "idle")
       \/ StoreFailureReason("failure_info", "idle")
    /\ ota_status' = "FAILURE"
    /\ UNCHANGED <<slot_in_use, version, detail, staged_in, dpi, ctrl,
                   current, risked, session>>

\* Outside the critical zone at once; one queued in it when the zone is left,
\* by an exception of any of its steps too; in the final phase never.
OnAbort ==
    /\ pc \in {"download", "installed"} \union CriticalZone \union Failing
    /\ ~final_phase
    /\ pc' = "start"
    /\ StoreStatus(current, "ABORTED", session)
    /\ Forgotten
    /\ UNCHANGED <<slot_in_use, version, detail, failure_info, staged_in, dpi,
                   current, risked, session>>

Next ==
    \/ Boot \/ PowerLoss \/ OtaclientRestarts \/ Start \/ StartupFails
    \/ LoadStatus \/ FinalizeSwitchingBoot \/ StoreFinalized
    \/ AskAboutStaging \/ ConcludeABootThatDidNotSwitch
    \/ ForgetTheStagingBoot \/ RecordWhyTheTrialWasNotCommitted
    \/ StartUpdate \/ EnterCriticalZone \/ RememberTheStagingBoot
    \/ PreUpdateCurrent \/ PreUpdateStandby \/ InstallWrites \/ InstallDone
    \/ EnterFinalPhase \/ PostUpdate \/ FinalizingUpdate
    \/ RebootDidNotHappen \/ UpdateFails \/ OnOperationFailure
    \/ StoreUpdateFailure \/ OnAbort

Spec == Init /\ [][Next]_vars

=============================================================================
