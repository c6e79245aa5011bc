-------------------------- MODULE GrubBootControl --------------------------
(***************************************************************************)
(* The GRUB boot controller and the OTA status files it keeps in /boot:    *)
(* one ECU with two slots, an otaclient that updates the slot it does not  *)
(* run from, and a power supply that may fail between any two writes.      *)
(* A variable is a file or a partition; an action is one atomic write of   *)
(* boot_control/_grub_new.py, _base.py or _ota_status_control.py, in the   *)
(* order in which the code makes them.                                     *)
(***************************************************************************)

CONSTANTS
    SlotA,      \* the slot the system is installed in
    SlotB,      \* the other slot
    NoSlot      \* no slot: the ECU is down, the file or the option is absent

ASSUME SlotsAssumption == SlotA # SlotB /\ NoSlot \notin {SlotA, SlotB}

Slots == {SlotA, SlotB}

\* boot_slots.standby_slot, for the slot that is the current one
Other(s) == IF s = SlotA THEN SlotB ELSE SlotA

VARIABLES
    rootfs,      \* the partition of a slot: "empty" after mkfs, "mixed" while
                 \* an image is being written, "complete" with all of it
    otaclient,   \* the otaclient release in a slot's image: "old" or "new"
    dir_exists,  \* /boot/ota-slot_<s> exists
    boot_files,  \* kernel and initrd are in it
    status,      \* its status file, "none" when absent
    slot_in_use, \* its slot_in_use file
    boot_root,   \* the kernel and the initrd of the slot that runs at the root of
                 \* /boot, where the installer's menu entry has them
    boot_cfg,    \* /boot/grub/ota-slot_<s>.cfg, the menu entry of s, exists
    grub_cfg,    \* /boot/grub/grub.cfg: not ours, or the release that wrote it
    saved_entry, \* /boot/grub/grubenv
    next_entry,
    current,     \* the slot that runs
    pc,          \* where the otaclient process is
    resetup_requested,
    ota_status,  \* OTAStatusFilesControl._ota_status, "none" before it is set
    final_phase, \* the abort handler of the update is in FINAL_PHASE
    \* two history variables, which no action reads
    trial,       \* the slot that runs was booted once and is not the default
    risked       \* an update was started from a slot on trial, and the default
                 \* entry has not been written since

part_vars == <<rootfs, otaclient>>
dir_vars  == <<dir_exists, boot_files, boot_root, status, slot_in_use>>
grub_vars == <<boot_cfg, grub_cfg, saved_entry, next_entry>>
proc_vars == <<current, resetup_requested, ota_status, final_phase>>
hist_vars == <<trial, risked>>
vars == <<part_vars, dir_vars, grub_vars, proc_vars, hist_vars, pc>>

BootFiles == {"kernel", "initrd"}

OTAStatus ==
    {"INITIALIZED", "UPDATING", "SUCCESS", "FAILURE", "ABORTED"}

\* GrubBootController.__init__ in progress, its outcome, and the update
Unlinks == [kernel |-> "unlink_kernel", initrd |-> "unlink_initrd"]
Links   == [kernel |-> "link_kernel", initrd |-> "link_initrd"]
Startup == {"detect", "bootstrap_dir", "unlink_kernel", "link_kernel",
            "unlink_initrd", "link_initrd", "bootstrap_cfg",
            "bootstrap_default", "bootstrap_grub_cfg", "load_slot_in_use",
            "load_status", "finalize", "store_success"}
PreUpdate  == {"pre_status", "pre_slot_in_use", "prepare_standby",
               "remove_dir", "mkdir", "remove_cfg"}
PostUpdate == {"post_status", "post_slot_in_use", "setup_dir",
               "setup_rootfs", "setup_cfg", "grub_reboot"}
UpdateSteps == PreUpdate \union {"in_update"} \union PostUpdate
Failing == {"on_failure", "on_failure_standby", "store_failure"}
PC == {"down", "no_controller", "idle", "reboot"}
        \union Startup \union UpdateSteps \union Failing

TypeOK ==
    /\ rootfs \in [Slots -> {"empty", "mixed", "complete"}]
    /\ otaclient \in [Slots -> {"old", "new"}]
    /\ dir_exists \in [Slots -> BOOLEAN]
    /\ boot_files \in [Slots -> BOOLEAN]
    /\ boot_root \subseteq BootFiles
    /\ status \in [Slots -> OTAStatus \union {"none"}]
    /\ slot_in_use \in [Slots -> Slots \union {NoSlot}]
    /\ boot_cfg \in [Slots -> BOOLEAN]
    /\ grub_cfg \in {"unmanaged", "old", "new"}
    /\ saved_entry \in Slots
    /\ next_entry \in Slots \union {NoSlot}
    /\ current \in Slots \union {NoSlot}
    /\ pc \in PC
    /\ pc = "down" <=> current = NoSlot
    /\ resetup_requested \in BOOLEAN
    /\ ota_status \in OTAStatus \union {"none"}
    /\ pc \in {"idle", "reboot"} \union UpdateSteps => ota_status # "none"
    /\ final_phase \in BOOLEAN
    /\ trial \in BOOLEAN
    /\ risked \in BOOLEAN

\* A newly installed system: only SlotA holds an image, and GRUB is set up
\* by the installer, not by otaclient.
Init ==
    /\ rootfs = [s \in Slots |-> IF s = SlotA THEN "complete" ELSE "empty"]
    /\ otaclient = [s \in Slots |-> "old"]
    /\ dir_exists = [s \in Slots |-> FALSE]
    /\ boot_files = [s \in Slots |-> FALSE]
    /\ boot_root = BootFiles
    /\ status = [s \in Slots |-> "none"]
    /\ slot_in_use = [s \in Slots |-> NoSlot]
    /\ boot_cfg = [s \in Slots |-> FALSE]
    /\ grub_cfg = "unmanaged"
    /\ saved_entry = SlotA
    /\ next_entry = NoSlot
    /\ current = NoSlot
    /\ pc = "down"
    /\ resetup_requested = FALSE
    /\ ota_status = "none"
    /\ final_phase = FALSE
    /\ trial = FALSE
    /\ risked = FALSE

standby == Other(current)

At(here, next) == pc = here /\ pc' = next

(***************************************************************************)
(* GRUB and the power supply                                               *)
(***************************************************************************)

\* The menu entry grub.cfg selects: the one-shot entry before the saved one,
\* and the first entry of the menu when the selected one is not in it.
GrubEntry ==
    LET e == IF next_entry # NoSlot THEN next_entry ELSE saved_entry
    IN  IF grub_cfg = "unmanaged" THEN SlotA
        ELSE IF boot_cfg[e] THEN e ELSE Other(e)

\* The entry of s can be loaded and its root file system mounted.
Bootable(s) ==
    /\ rootfs[s] # "empty"
    /\ IF grub_cfg = "unmanaged" THEN boot_root = BootFiles
       ELSE boot_cfg[s] /\ boot_files[s]

\* GRUB clears the one-shot entry before it tries it.
Boot ==
    /\ current = NoSlot
    /\ next_entry' = NoSlot
    /\ IF Bootable(GrubEntry)
       THEN /\ current' = GrubEntry
            /\ pc' = "detect"
            /\ trial' = (GrubEntry # saved_entry)
       ELSE UNCHANGED <<current, pc, trial>>
    /\ UNCHANGED <<part_vars, dir_vars, boot_cfg, grub_cfg, saved_entry,
                   resetup_requested, ota_status, final_phase, risked>>

\* The process memory of the next otaclient
Forget ==
    resetup_requested' = FALSE /\ ota_status' = "none" /\ final_phase' = FALSE

PowerLoss ==
    /\ current # NoSlot
    /\ current' = NoSlot
    /\ pc' = "down"
    /\ Forget
    /\ trial' = FALSE
    /\ UNCHANGED <<part_vars, dir_vars, grub_vars, risked>>

\* The process dies, or is told to stop, and systemd starts it again.
OtaclientRestarts ==
    /\ pc \notin {"down", "detect"}
    /\ pc' = "detect"
    /\ Forget
    /\ UNCHANGED <<part_vars, dir_vars, grub_vars, current, hist_vars>>

(***************************************************************************)
(* GrubBootController.__init__                                             *)
(***************************************************************************)

\* _detect_boot_control_setup_case: a grub.cfg otaclient does not manage is
\* FRESH, one written by a release older than the running one requires is
\* regenerated.
DetectSetupCase ==
    /\ pc = "detect"
    /\ resetup_requested' = (grub_cfg = "unmanaged")
    /\ pc' = IF \/ grub_cfg = "unmanaged"
                \/ grub_cfg = "old" /\ otaclient[current] = "new"
             THEN "bootstrap_dir" ELSE "load_slot_in_use"
    /\ UNCHANGED <<part_vars, dir_vars, grub_vars, current, ota_status,
                   final_phase, hist_vars>>

\* The booted kernel and initrd, found at the root of /boot or, after a bootstrap
\* that was cut short, in the slot's directory, are copied there
BootstrapSetupBootSlotDir ==
    /\ At("bootstrap_dir", "unlink_kernel")
    /\ boot_root = BootFiles \/ boot_files[current]
    /\ dir_exists' = [dir_exists EXCEPT ![current] = TRUE]
    /\ boot_files' = [boot_files EXCEPT ![current] = TRUE]
    /\ UNCHANGED <<part_vars, boot_root, status, slot_in_use, grub_vars,
                   proc_vars, hist_vars>>

\* Mutation: the files at the root of /boot go before they were copied.
BootstrapUnlinksFirst ==
    /\ At("bootstrap_dir", "unlink_kernel")
    /\ dir_exists' = [dir_exists EXCEPT ![current] = TRUE]
    /\ boot_root' = {}
    /\ UNCHANGED <<part_vars, boot_files, status, slot_in_use, grub_vars,
                   proc_vars, hist_vars>>

\* and each of them at the root is removed and linked to the copy.
BootstrapUnlink(f) ==
    /\ At(Unlinks[f], Links[f])
    /\ boot_root' = boot_root \ {f}
    /\ UNCHANGED <<part_vars, dir_exists, boot_files, status, slot_in_use,
                   grub_vars, proc_vars, hist_vars>>

BootstrapLink(f) ==
    /\ At(Links[f], IF f = "kernel" THEN Unlinks["initrd"] ELSE "bootstrap_cfg")
    /\ boot_root' = boot_root \union {f}
    /\ UNCHANGED <<part_vars, dir_exists, boot_files, status, slot_in_use,
                   grub_vars, proc_vars, hist_vars>>

BootstrapSetupBootCfg ==
    /\ At("bootstrap_cfg", "bootstrap_default")
    /\ boot_cfg' = [boot_cfg EXCEPT ![current] = TRUE]
    /\ UNCHANGED <<part_vars, dir_vars, grub_cfg, saved_entry, next_entry,
                   proc_vars, hist_vars>>

\* grubenv is replaced as a whole: the one-shot entry is dropped as well.
GrubSetDefault(s) ==
    /\ saved_entry' = s
    /\ next_entry' = NoSlot
    /\ trial' = FALSE
    /\ risked' = FALSE
    /\ UNCHANGED <<boot_cfg, grub_cfg>>

BootstrapSetDefault ==
    /\ At("bootstrap_default", "bootstrap_grub_cfg")
    /\ GrubSetDefault(current)
    /\ UNCHANGED <<part_vars, dir_vars, proc_vars>>

BootstrapWriteGrubCfg ==
    /\ At("bootstrap_grub_cfg", "load_slot_in_use")
    /\ grub_cfg' = otaclient[current]
    /\ UNCHANGED <<part_vars, dir_vars, boot_cfg, saved_entry, next_entry,
                   proc_vars, hist_vars>>

LoadSlotInUse ==
    /\ At("load_slot_in_use", "load_status")
    /\ dir_exists' = [dir_exists EXCEPT ![current] = TRUE]
    /\ slot_in_use' =
         IF resetup_requested \/ slot_in_use[current] = NoSlot
         THEN [slot_in_use EXCEPT ![current] = current] ELSE slot_in_use
    /\ UNCHANGED <<part_vars, boot_files, boot_root, status, grub_vars,
                   proc_vars, hist_vars>>

IsSwitchingBoot ==
    status[current] = "UPDATING" /\ slot_in_use[current] = current

\* The status otaclient starts with when the boot is not to be finalised,
\* and the one that stays in the file: ABORTED is reported once.
BootedStatus ==
    IF resetup_requested \/ status[current] = "none" THEN "INITIALIZED"
    ELSE IF status[current] = "UPDATING" THEN "FAILURE"
    ELSE status[current]

LoadStatus ==
    /\ pc = "load_status"
    /\ IF ~resetup_requested /\ IsSwitchingBoot
       THEN /\ pc' = "finalize"
            /\ ota_status' = "UPDATING"
            /\ UNCHANGED status
       ELSE /\ pc' = "idle"
            /\ ota_status' = BootedStatus
            /\ status' = [status EXCEPT ![current] =
                 IF BootedStatus = "ABORTED" THEN "INITIALIZED"
                 ELSE BootedStatus]
    /\ UNCHANGED <<part_vars, dir_exists, boot_files, boot_root, slot_in_use,
                   grub_vars, current, resetup_requested, final_phase,
                   hist_vars>>

FinalizeSwitchBoot ==
    /\ At("finalize", "store_success")
    /\ GrubSetDefault(current)
    /\ UNCHANGED <<part_vars, dir_vars, proc_vars>>

StoreSuccess ==
    /\ At("store_success", "idle")
    /\ ota_status' = "SUCCESS"
    /\ status' = [status EXCEPT ![current] = "SUCCESS"]
    /\ UNCHANGED <<part_vars, dir_exists, boot_files, boot_root, slot_in_use,
                   grub_vars, current, resetup_requested, final_phase,
                   hist_vars>>

\* BootControlStartupFailed: an exception at any point of __init__.
StartupFails ==
    /\ pc \in Startup
    /\ pc' = "no_controller"
    /\ UNCHANGED <<part_vars, dir_vars, grub_vars, proc_vars, hist_vars>>

(***************************************************************************)
(* pre_update                                                              *)
(***************************************************************************)

StoreStatus(s, value) == status' = [status EXCEPT ![s] = value]

\* ota_core accepts an update request; its requests are OtaCore's subject.
StartUpdate ==
    /\ At("idle", "pre_status")
    /\ final_phase' = FALSE
    /\ UNCHANGED <<part_vars, dir_vars, grub_vars, current, resetup_requested,
                   ota_status, hist_vars>>

\* Mutation: the running slot keeps its SUCCESS while the other is rewritten.
PreUpdateKeepsStatus ==
    /\ At("pre_status", "pre_slot_in_use")
    /\ risked' = (risked \/ trial)
    /\ UNCHANGED <<part_vars, dir_vars, grub_vars, proc_vars, trial>>

PreUpdateCurrent ==
    /\ At("pre_status", "pre_slot_in_use")
    /\ StoreStatus(current, "FAILURE")
    /\ risked' = (risked \/ trial)
    /\ UNCHANGED <<part_vars, dir_exists, boot_files, boot_root, slot_in_use,
                   grub_vars, proc_vars, trial>>

PreUpdateSlotInUse ==
    /\ At("pre_slot_in_use", "prepare_standby")
    /\ slot_in_use' = [slot_in_use EXCEPT ![current] = standby]
    /\ UNCHANGED <<part_vars, dir_exists, boot_files, boot_root, status,
                   grub_vars, proc_vars, hist_vars>>

\* mkfs when the standby slot cannot be updated in place
PrepareStandby ==
    /\ At("prepare_standby", "remove_dir")
    /\ rootfs' \in {rootfs, [rootfs EXCEPT ![standby] = "empty"]}
    /\ UNCHANGED <<otaclient, dir_vars, grub_vars, proc_vars, hist_vars>>

\* rmtree removes the files of the directory in any order.
RemoveBootSlotDir ==
    /\ pc = "remove_dir"
    /\ \/ /\ boot_files[standby]
          /\ boot_files' = [boot_files EXCEPT ![standby] = FALSE]
          /\ UNCHANGED <<dir_exists, status, slot_in_use, pc>>
       \/ /\ status[standby] # "none"
          /\ StoreStatus(standby, "none")
          /\ UNCHANGED <<dir_exists, boot_files, slot_in_use, pc>>
       \/ /\ slot_in_use[standby] # NoSlot
          /\ slot_in_use' = [slot_in_use EXCEPT ![standby] = NoSlot]
          /\ UNCHANGED <<dir_exists, boot_files, status, pc>>
       \/ /\ ~boot_files[standby]
          /\ status[standby] = "none" /\ slot_in_use[standby] = NoSlot
          /\ dir_exists' = [dir_exists EXCEPT ![standby] = FALSE]
          /\ pc' = "mkdir"
          /\ UNCHANGED <<boot_files, status, slot_in_use>>
    /\ UNCHANGED <<part_vars, boot_root, grub_vars, proc_vars, hist_vars>>

MakeBootSlotDir ==
    /\ At("mkdir", "remove_cfg")
    /\ dir_exists' = [dir_exists EXCEPT ![standby] = TRUE]
    /\ UNCHANGED <<part_vars, boot_files, boot_root, status, slot_in_use,
                   grub_vars, proc_vars, hist_vars>>

\* Mutation: the menu entry of the standby slot survives pre_update.
KeepBootCfg ==
    /\ At("remove_cfg", "in_update")
    /\ UNCHANGED <<part_vars, dir_vars, grub_vars, proc_vars, hist_vars>>

RemoveBootCfg ==
    /\ At("remove_cfg", "in_update")
    /\ boot_cfg' = [boot_cfg EXCEPT ![standby] = FALSE]
    /\ UNCHANGED <<part_vars, dir_vars, grub_cfg, saved_entry, next_entry,
                   proc_vars, hist_vars>>

(***************************************************************************)
(* The image is written, then post_update                                  *)
(***************************************************************************)

\* Files are deleted, created and replaced in the standby slot.
InUpdateWrites ==
    /\ pc = "in_update"
    /\ rootfs' = [rootfs EXCEPT ![standby] = "mixed"]
    /\ UNCHANGED <<otaclient, dir_vars, grub_vars, proc_vars, hist_vars, pc>>

\* The image, with the release of otaclient it brings, is in place, but for
\* the files post_update sets up; enter_final_phase.
InUpdateDone ==
    /\ At("in_update", "post_status")
    /\ rootfs[standby] = "mixed"
    /\ \E release \in {"old", "new"} :
         otaclient' = [otaclient EXCEPT ![standby] = release]
    /\ final_phase' = TRUE
    /\ UNCHANGED <<rootfs, dir_vars, grub_vars, current, resetup_requested,
                   ota_status, hist_vars>>

PostUpdateStandby ==
    /\ At("post_status", "post_slot_in_use")
    /\ dir_exists' = [dir_exists EXCEPT ![standby] = TRUE]
    /\ StoreStatus(standby, "UPDATING")
    /\ UNCHANGED <<part_vars, boot_files, boot_root, slot_in_use, grub_vars,
                   proc_vars, hist_vars>>

PostUpdateSlotInUse ==
    /\ At("post_slot_in_use", "setup_dir")
    /\ slot_in_use' = [slot_in_use EXCEPT ![standby] = standby]
    /\ UNCHANGED <<part_vars, dir_exists, boot_files, boot_root, status,
                   grub_vars, proc_vars, hist_vars>>

\* The files are linked at the root of /boot as well, where only an otaclient with
\* the old boot control looks for them.
SetupBootSlotDir ==
    /\ At("setup_dir", "setup_rootfs")
    /\ boot_files' = [boot_files EXCEPT ![standby] = TRUE]
    /\ UNCHANGED <<part_vars, dir_exists, boot_root, status, slot_in_use,
                   grub_vars, proc_vars, hist_vars>>

SetupSlotRootfs ==
    /\ At("setup_rootfs", "setup_cfg")
    /\ rootfs' = [rootfs EXCEPT ![standby] = "complete"]
    /\ UNCHANGED <<otaclient, dir_vars, grub_vars, proc_vars, hist_vars>>

SetupOtaBootCfg ==
    /\ At("setup_cfg", "grub_reboot")
    /\ boot_cfg' = [boot_cfg EXCEPT ![standby] = TRUE]
    /\ UNCHANGED <<part_vars, dir_vars, grub_cfg, saved_entry, next_entry,
                   proc_vars, hist_vars>>

\* Mutation: the standby slot becomes the default before it has booted.
SetDefaultToStandby ==
    /\ At("grub_reboot", "reboot")
    /\ GrubSetDefault(standby)
    /\ UNCHANGED <<part_vars, dir_vars, proc_vars>>

GrubRebootToStandby ==
    /\ At("grub_reboot", "reboot")
    /\ saved_entry' = current
    /\ next_entry' = standby
    /\ trial' = FALSE
    /\ risked' = FALSE
    /\ UNCHANGED <<part_vars, dir_vars, boot_cfg, grub_cfg, proc_vars>>

FinalizingUpdate ==
    /\ At("reboot", "down")
    /\ current' = NoSlot
    /\ Forget
    /\ trial' = FALSE
    /\ UNCHANGED <<part_vars, dir_vars, grub_vars, risked>>

(***************************************************************************)
(* Failure and abort                                                       *)
(***************************************************************************)

\* An exception in execute() of the updater
UpdateFails ==
    /\ pc \in UpdateSteps \union {"reboot"}
    /\ pc' = "on_failure"
    /\ UNCHANGED <<part_vars, dir_vars, grub_vars, proc_vars, hist_vars>>

\* An exception in update() before execute(): there is no updater to tell the
\* boot controller.
PrepareFails ==
    /\ At("pre_status", "store_failure")
    /\ UNCHANGED <<part_vars, dir_vars, grub_vars, proc_vars, hist_vars>>

OnFailure ==
    /\ At("on_failure", "on_failure_standby")
    /\ StoreStatus(current, "FAILURE")
    /\ UNCHANGED <<part_vars, dir_exists, boot_files, boot_root, slot_in_use,
                   grub_vars, proc_vars, hist_vars>>

OnFailureStandby ==
    /\ At("on_failure_standby", "store_failure")
    /\ IF dir_exists[standby] THEN StoreStatus(standby, "FAILURE")
       ELSE UNCHANGED status
    /\ UNCHANGED <<part_vars, dir_exists, boot_files, boot_root, slot_in_use,
                   grub_vars, proc_vars, hist_vars>>

\* A write of on_failure raises.
OnFailureRaises ==
    /\ pc \in {"on_failure", "on_failure_standby"}
    /\ pc' = "store_failure"
    /\ UNCHANGED <<part_vars, dir_vars, grub_vars, proc_vars, hist_vars>>

\* store_failure_info stores FAILURE once more; update() swallows what it
\* raises.
StoreFailureInfo ==
    /\ At("store_failure", "idle")
    /\ StoreStatus(current, "FAILURE") \/ UNCHANGED status
    /\ UNCHANGED <<part_vars, dir_exists, boot_files, boot_root, slot_in_use,
                   grub_vars, proc_vars, hist_vars>>

\* An abort before the final phase persists ABORTED and ends the process.  One that
\* came in the critical zone is performed when pre_update has returned or raised, and
\* one that comes while a failure is reported is accepted as well.
OnAbort ==
    /\ ~final_phase
    /\ pc \in PreUpdate \union {"in_update"} \union Failing
    /\ pc' = "detect"
    /\ StoreStatus(current, "ABORTED")
    /\ Forget
    /\ UNCHANGED <<part_vars, dir_exists, boot_files, boot_root, slot_in_use,
                   grub_vars, current, hist_vars>>

(***************************************************************************)
(* The specification                                                       *)
(***************************************************************************)

PowerStep == Boot \/ PowerLoss \/ OtaclientRestarts

StartupStep ==
    \/ DetectSetupCase \/ BootstrapSetupBootSlotDir
    \/ \E f \in BootFiles : BootstrapUnlink(f) \/ BootstrapLink(f)
    \/ BootstrapSetupBootCfg \/ BootstrapSetDefault
    \/ BootstrapWriteGrubCfg \/ LoadSlotInUse \/ LoadStatus
    \/ FinalizeSwitchBoot \/ StoreSuccess \/ StartupFails

PreUpdateStep ==
    \/ StartUpdate \/ PreUpdateCurrent \/ PreUpdateSlotInUse
    \/ PrepareStandby \/ RemoveBootSlotDir \/ MakeBootSlotDir
    \/ RemoveBootCfg

PostUpdateStep ==
    \/ InUpdateWrites \/ InUpdateDone \/ PostUpdateStandby
    \/ PostUpdateSlotInUse \/ SetupBootSlotDir \/ SetupSlotRootfs
    \/ SetupOtaBootCfg \/ GrubRebootToStandby \/ FinalizingUpdate

FailureStep ==
    \/ UpdateFails \/ PrepareFails \/ OnFailure \/ OnFailureStandby
    \/ OnFailureRaises \/ StoreFailureInfo \/ OnAbort

Next ==
    PowerStep \/ StartupStep \/ PreUpdateStep \/ PostUpdateStep \/ FailureStep

Spec == Init /\ [][Next]_vars

(***************************************************************************)
(* Properties                                                              *)
(***************************************************************************)

\* The slot that runs holds a whole image, wherever an earlier update was cut
\* short: pre_update takes the standby slot's kernel and menu entry away
\* before its files change, and post_update gives them back after.
RunningImageComplete ==
    current # NoSlot => rootfs[current] = "complete"

\* A slot whose status file says SUCCESS is GRUB's default and holds a whole
\* image, and so does the slot it was updated from: finalize_update_switch_boot
\* writes grubenv before SUCCESS, and the next update stores FAILURE before it
\* touches the other slot.
SuccessIsFinal ==
    \A s \in Slots : status[s] = "SUCCESS" =>
        /\ saved_entry = s
        /\ \A t \in Slots : rootfs[t] = "complete"

\* The bootstrap of a newly installed ECU has removed a file of the installer's entry
\* and not linked it again.
Unlinked == grub_cfg = "unmanaged" /\ boot_root # BootFiles

\* The default entry can be booted, whatever write power fails after.  There are two
\* exceptions: an update was started from a slot that runs on trial, and the first
\* bootstrap was cut short between remove_file and os.link of a boot file, when the
\* slot's directory already has both files and the next bootstrap finds them there.
DefaultBootable ==
    /\ ~risked /\ ~Unlinked => Bootable(saved_entry)
    /\ ~risked => rootfs[saved_entry] = "complete"
    /\ Unlinked => boot_files[saved_entry]

=============================================================================
