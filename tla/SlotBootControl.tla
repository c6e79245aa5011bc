-------------------------- MODULE SlotBootControl --------------------------
(***************************************************************************)
(* The part the Raspberry Pi and Jetson boot controllers share:            *)
(* BootControllerBase (boot_control/_base.py), the OTA status files        *)
(* (_ota_status_control.py), which here lie in each slot's own root file   *)
(* system, the mounts of the slots (_slot_mnt_helper.py) and /boot/ota     *)
(* (_ota_config_files.py).  The actions below leave out the variables of a *)
(* platform; the platform's module adds them.                              *)
(***************************************************************************)

CONSTANTS
    SlotA,      \* the slot the system is installed in
    SlotB,      \* the other slot
    NoSlot      \* no slot: the ECU is down, or the file is absent

ASSUME SlotsAssumption == SlotA # SlotB /\ NoSlot \notin {SlotA, SlotB}

Slots == {SlotA, SlotB}

Other(s) == IF s = SlotA THEN SlotB ELSE SlotA

VARIABLES
    rootfs,      \* "empty" after mkfs, "mixed" while an image is written,
                 \* "image" with all of its files
    ota_dir,     \* the slot has /boot/ota, with the ECU's configuration
    status,      \* the slot's status file, "none" when absent
    slot_in_use, \* its slot_in_use file
    default,     \* the slot the boot loader starts when nothing is asked
    current,     \* the slot that runs
    mounted,     \* the standby slot is mounted
    dynamic,     \* otaclient runs as a downloaded dynamic app
    ota_status,  \* OTAStatusFilesControl._ota_status, "none" before it is set
    final_phase, \* the abort handler's state is FINAL_PHASE
    pc,          \* where the otaclient process is
    risked       \* history: an update was started while the default was the
                 \* other slot, and no whole slot has been chosen since

slot_vars == <<rootfs, ota_dir>>
file_vars == <<status, slot_in_use>>
proc_vars == <<current, mounted, dynamic, ota_status, final_phase>>
boot_vars == <<default, risked>>

OTAStatus ==
    {"INITIALIZED", "UPDATING", "SUCCESS", "FAILURE", "ABORTED"}

Startup == {"start", "load_slot_in_use", "load_status", "finalize"}
PreUpdate == {"pre_status", "pre_slot_in_use", "prepare_standby", "mount"}
PostUpdate == {"post_status", "post_slot_in_use", "preserve_ota", "umount"}
Failing == {"on_failure", "on_failure_standby", "store_failure"}
BasePC == {"down", "no_controller", "idle", "in_update", "reboot"}
    \union Startup \union PreUpdate \union PostUpdate \union Failing

BaseTypeOK ==
    /\ rootfs \in [Slots -> {"empty", "mixed", "image"}]
    /\ ota_dir \in [Slots -> BOOLEAN]
    /\ status \in [Slots -> OTAStatus \union {"none"}]
    /\ slot_in_use \in [Slots -> Slots \union {NoSlot}]
    /\ default \in Slots
    /\ current \in Slots \union {NoSlot}
    /\ mounted \in BOOLEAN
    /\ dynamic \in BOOLEAN
    /\ ota_status \in OTAStatus \union {"none"}
    /\ final_phase \in BOOLEAN
    /\ risked \in BOOLEAN

\* A newly installed system: only SlotA holds an image.
BaseInit ==
    /\ rootfs = [s \in Slots |-> IF s = SlotA THEN "image" ELSE "empty"]
    /\ ota_dir = [s \in Slots |-> s = SlotA]
    /\ status = [s \in Slots |-> "none"]
    /\ slot_in_use = [s \in Slots |-> NoSlot]
    /\ default = SlotA
    /\ current = NoSlot
    /\ mounted = FALSE
    /\ dynamic = FALSE
    /\ ota_status = "none"
    /\ final_phase = FALSE
    /\ pc = "down"
    /\ risked = FALSE

standby == Other(current)

At(here, next) == pc = here /\ pc' = next

StoreStatus(s, value) == status' = [status EXCEPT ![s] = value]

\* The standby slot's status directory exists, seen from the mount point.
StandbyDirExists == mounted /\ status[standby] # "none"

(***************************************************************************)
(* The power supply and the process                                        *)
(***************************************************************************)

\* The platform's boot loader starts s.
BootInto(s) ==
    /\ current = NoSlot
    /\ current' = s
    /\ pc' = "start"
    /\ UNCHANGED <<slot_vars, file_vars, boot_vars, mounted, dynamic,
                   ota_status, final_phase>>

\* The process memory and the mounts are gone.
Forget == ota_status' = "none" /\ mounted' = FALSE /\ final_phase' = FALSE

PowerLoss ==
    /\ current # NoSlot
    /\ current' = NoSlot
    /\ pc' = "down"
    /\ dynamic' = FALSE
    /\ Forget
    /\ UNCHANGED <<slot_vars, file_vars, boot_vars>>

\* The process dies, or is told to stop, and systemd starts it again.
OtaclientRestarts ==
    /\ pc \notin {"down", "start"}
    /\ pc' = "start"
    /\ dynamic' = FALSE
    /\ Forget
    /\ UNCHANGED <<slot_vars, file_vars, boot_vars, current>>

\* A client update ends the process, and the downloaded release is started.
ClientUpdateRestarts ==
    /\ At("idle", "start")
    /\ dynamic' = TRUE
    /\ Forget
    /\ UNCHANGED <<slot_vars, file_vars, boot_vars, current>>

(***************************************************************************)
(* OTAStatusFilesControl.__init__                                          *)
(***************************************************************************)

LoadSlotInUse ==
    /\ At("load_slot_in_use", "load_status")
    /\ slot_in_use' = IF slot_in_use[current] = NoSlot
                      THEN [slot_in_use EXCEPT ![current] = current]
                      ELSE slot_in_use
    /\ UNCHANGED <<slot_vars, status, boot_vars, proc_vars>>

IsSwitchingBoot ==
    status[current] = "UPDATING" /\ slot_in_use[current] = current

\* The status otaclient starts with when there is no switch to finalise.
BootedStatus ==
    CASE status[current] = "none" -> "INITIALIZED"
      [] status[current] # "none" /\ dynamic -> "SUCCESS"
      [] status[current] = "UPDATING" /\ ~dynamic -> "FAILURE"
      [] OTHER -> status[current]

\* ABORTED is reported once; a dynamic app leaves the file alone.
LoadStatus ==
    /\ pc = "load_status"
    /\ IF ~dynamic /\ IsSwitchingBoot
       THEN /\ pc' = "finalize"
            /\ ota_status' = "UPDATING"
            /\ UNCHANGED status
       ELSE /\ pc' = "idle"
            /\ ota_status' = BootedStatus
            /\ IF dynamic /\ status[current] # "none" THEN UNCHANGED status
               ELSE StoreStatus(current, IF BootedStatus = "ABORTED"
                                         THEN "INITIALIZED" ELSE BootedStatus)
    /\ UNCHANGED <<slot_vars, slot_in_use, boot_vars, current, mounted,
                   dynamic, final_phase>>

\* The answer of the platform's finalize_switching_boot is stored.
Finalized(result, from) ==
    /\ At(from, "idle")
    /\ ota_status' = result
    /\ StoreStatus(current, result)
    /\ UNCHANGED <<slot_vars, slot_in_use, boot_vars, current, mounted,
                   dynamic, final_phase>>

\* BootControlStartupFailed: an exception in __init__ of the controller
StartupFails ==
    /\ pc \in Startup
    /\ pc' = "no_controller"
    /\ UNCHANGED <<slot_vars, file_vars, boot_vars, proc_vars>>

(***************************************************************************)
(* BootControllerBase.pre_update                                           *)
(***************************************************************************)

\* ota_core accepts an update request; its requests are OtaCore's subject.
StartUpdate ==
    /\ At("idle", "pre_status")
    /\ final_phase' = FALSE
    /\ UNCHANGED <<slot_vars, file_vars, boot_vars, current, mounted, dynamic,
                   ota_status>>

\* Mutation: the running slot keeps its status.
KeepCurrentStatus(default_is_other) ==
    /\ At("pre_status", "pre_slot_in_use")
    /\ risked' = (risked \/ default_is_other)
    /\ UNCHANGED <<slot_vars, status, slot_in_use, default, proc_vars>>

PreUpdateCurrent(default_is_other) ==
    /\ At("pre_status", "pre_slot_in_use")
    /\ StoreStatus(current, "FAILURE")
    /\ risked' = (risked \/ default_is_other)
    /\ UNCHANGED <<slot_vars, slot_in_use, default, proc_vars>>

PreUpdateSlotInUse ==
    /\ At("pre_slot_in_use", "prepare_standby")
    /\ slot_in_use' = [slot_in_use EXCEPT ![current] = standby]
    /\ UNCHANGED <<slot_vars, status, boot_vars, proc_vars>>

\* prepare_standby_dev: mkfs when the slot cannot be updated in place
EraseStandby ==
    /\ At("prepare_standby", "mount")
    /\ rootfs' = [rootfs EXCEPT ![standby] = "empty"]
    /\ ota_dir' = [ota_dir EXCEPT ![standby] = FALSE]
    /\ StoreStatus(standby, "none")
    /\ slot_in_use' = [slot_in_use EXCEPT ![standby] = NoSlot]
    /\ UNCHANGED <<boot_vars, proc_vars>>

\* A slot without a file system is erased: it cannot be updated in place.
ReuseStandby ==
    /\ At("prepare_standby", "mount")
    /\ rootfs[standby] # "empty"
    /\ UNCHANGED <<slot_vars, file_vars, boot_vars, proc_vars>>

\* mount_standby and mount_active; next is the platform's hook
MountSlots(next) ==
    /\ At("mount", next)
    /\ mounted' = TRUE
    /\ UNCHANGED <<slot_vars, file_vars, boot_vars, current, dynamic,
                   ota_status, final_phase>>

(***************************************************************************)
(* The image is written, then BootControllerBase.post_update               *)
(***************************************************************************)

\* Files are deleted, created and replaced; what the image does not have,
\* the status files and /boot/ota among it, is removed sooner or later.
InUpdateWrites ==
    /\ pc = "in_update"
    /\ rootfs' = [rootfs EXCEPT ![standby] = "mixed"]
    /\ ota_dir' = [ota_dir EXCEPT ![standby] = FALSE]
    /\ \/ UNCHANGED file_vars
       \/ /\ StoreStatus(standby, "none")
          /\ slot_in_use' = [slot_in_use EXCEPT ![standby] = NoSlot]
    /\ UNCHANGED <<boot_vars, proc_vars, pc>>

\* The last stage ends, and after enter_final_phase every abort is refused.
InUpdateDone ==
    /\ At("in_update", "post_status")
    /\ rootfs[standby] = "mixed"
    /\ rootfs' = [rootfs EXCEPT ![standby] = "image"]
    /\ final_phase' = TRUE
    /\ UNCHANGED <<ota_dir, file_vars, boot_vars, current, mounted, dynamic,
                   ota_status>>

PostUpdateStandby ==
    /\ At("post_status", "post_slot_in_use")
    /\ StoreStatus(standby, "UPDATING")
    /\ UNCHANGED <<slot_vars, slot_in_use, boot_vars, proc_vars>>

\* next is the first step of the platform's hook
PostUpdateSlotInUse(next) ==
    /\ At("post_slot_in_use", next)
    /\ slot_in_use' = [slot_in_use EXCEPT ![standby] = standby]
    /\ UNCHANGED <<slot_vars, status, boot_vars, proc_vars>>

\* preserve_ota_dir_and_install_config_files: /boot/ota of the running slot,
\* if it has one, is copied, and the image's configuration files go into it.
PreserveOtaDir(next) ==
    /\ At("preserve_ota", next)
    /\ ota_dir' = [ota_dir EXCEPT ![standby] = @ \/ ota_dir[current]]
    /\ UNCHANGED <<rootfs, file_vars, boot_vars, proc_vars>>

UmountAll ==
    /\ At("umount", "reboot")
    /\ mounted' = FALSE
    /\ UNCHANGED <<slot_vars, file_vars, boot_vars, current, dynamic,
                   ota_status, final_phase>>

(***************************************************************************)
(* Failure and abort                                                       *)
(***************************************************************************)

\* An exception in execute() of the updater, at one of the platform's steps
\* or of the ones above
UpdateFails(platform_steps) ==
    /\ pc \in PreUpdate \union {"in_update", "reboot"} \union PostUpdate
              \union platform_steps
    /\ pc' = "on_failure"
    /\ UNCHANGED <<slot_vars, file_vars, boot_vars, proc_vars>>

OnFailure ==
    /\ At("on_failure", "on_failure_standby")
    /\ StoreStatus(current, "FAILURE")
    /\ UNCHANGED <<slot_vars, slot_in_use, boot_vars, proc_vars>>

OnFailureStandby ==
    /\ At("on_failure_standby", "store_failure")
    /\ IF StandbyDirExists THEN StoreStatus(standby, "FAILURE")
       ELSE UNCHANGED status
    /\ mounted' = FALSE
    /\ UNCHANGED <<slot_vars, slot_in_use, boot_vars, current, dynamic,
                   ota_status, final_phase>>

\* store_failure_info stores FAILURE once more.
StoreFailureInfo ==
    /\ At("store_failure", "idle")
    /\ StoreStatus(current, "FAILURE")
    /\ ota_status' = "FAILURE"
    /\ UNCHANGED <<slot_vars, slot_in_use, boot_vars, current, mounted,
                   dynamic, final_phase>>

\* An abort persists ABORTED and ends the process: outside the critical zone
\* at once; one queued in it when pre_update has returned, or has raised at any
\* of its steps, also while that failure is recorded; in the final phase never.
OnAbort ==
    /\ pc \in PreUpdate \union {"in_update"} \union Failing
    /\ ~final_phase
    /\ pc' = "start"
    /\ StoreStatus(current, "ABORTED")
    /\ dynamic' = FALSE
    /\ Forget
    /\ UNCHANGED <<slot_vars, slot_in_use, boot_vars, current>>

\* The steps no platform adds to
BaseStep ==
    \/ PowerLoss \/ OtaclientRestarts \/ ClientUpdateRestarts
    \/ LoadSlotInUse \/ LoadStatus \/ StartupFails
    \/ StartUpdate \/ PreUpdateSlotInUse \/ ReuseStandby
    \/ InUpdateDone \/ PostUpdateStandby \/ UmountAll
    \/ OnFailure \/ OnFailureStandby \/ StoreFailureInfo \/ OnAbort

=============================================================================
