----------------------------- MODULE JetsonBoot -----------------------------
(***************************************************************************)
(* The two Jetson boot controllers, boot_control/_jetson_cboot.py (BSP     *)
(* before R34) and _jetson_uefi.py (R34 and later).  nvbootctrl keeps the  *)
(* active slot, which is switched before the reboot, not after it: there   *)
(* is no trial.  UEFI may also be asked to install a firmware capsule at   *)
(* the next boot, and then switches the slot itself.                       *)
(***************************************************************************)
EXTENDS SlotBootControl

CONSTANTS
    Platform,        \* "cboot" or "uefi"
    UnifiedAB,       \* one slot for boot loader and rootfs; always with UEFI
    ExternalRootfs   \* rootfs on external storage, /boot copied to the emmc

VARIABLES
    unbootable,   \* nvbootctrl -t rootfs set-slot-as-unbootable
    extlinux,     \* the slot's extlinux.conf names the slot's partition
    emmc_boot,    \* the slot's partition on the emmc has its /boot
    capsule,      \* the slot from which a capsule update was triggered
    active_bootloader_slot  \* _UEFIBootControl's, read once when it starts

jetson_vars == <<unbootable, extlinux, emmc_boot, capsule,
                 active_bootloader_slot>>
vars == <<slot_vars, file_vars, proc_vars, boot_vars, pc, jetson_vars>>

JetsonSteps == {"set_unbootable", "extlinux", "firmware", "copy_emmc",
                "switch_rootfs", "switch", "correct_active"}

TypeOK ==
    /\ BaseTypeOK
    /\ pc \in BasePC \union JetsonSteps
    /\ unbootable \in [Slots -> BOOLEAN]
    /\ extlinux \in [Slots -> BOOLEAN]
    /\ emmc_boot \in [Slots -> BOOLEAN]
    /\ capsule \in Slots \union {NoSlot}
    /\ active_bootloader_slot \in Slots \union {NoSlot}

Init ==
    /\ BaseInit
    /\ unbootable = [s \in Slots |-> FALSE]
    /\ extlinux = [s \in Slots |-> s = SlotA]
    /\ emmc_boot = [s \in Slots |-> s = SlotA]
    /\ capsule = NoSlot
    /\ active_bootloader_slot = NoSlot

\* The slot holds everything its system needs.
Whole(s) ==
    /\ rootfs[s] = "image"
    /\ ota_dir[s] /\ extlinux[s]
    /\ ExternalRootfs => emmc_boot[s]

\* The slot the next boot starts, when it can be started: a capsule update
\* switches the slot, unless the active slot was changed after its trigger.
BootDefault ==
    IF capsule # NoSlot /\ capsule = default THEN Other(capsule)
    ELSE IF unbootable[default] THEN Other(default) ELSE default

\* A slot becomes the next to boot: a history variable keeps whether the one
\* before had been written over.
Chosen(s) ==
    risked' = (risked /\ ~(Whole(s) /\ (current # NoSlot => Whole(current))))

(***************************************************************************)
(* The boot loader                                                         *)
(***************************************************************************)

\* The capsule is installed, or it is not and the slot stays.
CapsuleUpdate ==
    /\ current = NoSlot /\ capsule # NoSlot
    /\ capsule' = NoSlot
    /\ \/ /\ default' = BootDefault
          /\ UNCHANGED risked
       \/ /\ UNCHANGED default
          /\ Chosen(default)
    /\ UNCHANGED <<slot_vars, file_vars, proc_vars, pc, unbootable, extlinux,
                   emmc_boot, active_bootloader_slot>>

\* A slot without a file system is given up after some attempts.
Boot ==
    /\ capsule = NoSlot
    /\ BootInto(IF rootfs[BootDefault] # "empty" THEN BootDefault
                ELSE Other(BootDefault))
    /\ UNCHANGED jetson_vars

(***************************************************************************)
(* __init__ of the controllers and finalize_switching_boot                 *)
(***************************************************************************)

\* _CBootControl.__init__ checks the BSP version, finds slots and devices.
CBootStart ==
    /\ Platform = "cboot"
    /\ At("start", "load_slot_in_use")
    /\ UNCHANGED <<slot_vars, file_vars, boot_vars, proc_vars, jetson_vars>>

\* _UEFIBootControl.__init__ does too, and reads the active slot, if it can.
UefiStart ==
    /\ Platform = "uefi"
    /\ At("start", "load_slot_in_use")
    /\ active_bootloader_slot' \in {default, NoSlot}
    /\ UNCHANGED <<slot_vars, file_vars, boot_vars, proc_vars, unbootable,
                   extlinux, emmc_boot, capsule>>

\* nv_update_engine --verify decides; mark-boot-successful is logged only.
CBootFinalizeSwitchingBoot ==
    /\ Platform = "cboot"
    /\ \E result \in {"SUCCESS", "FAILURE"} : Finalized(result, "finalize")
    /\ UNCHANGED jetson_vars

UefiFinalizeSwitchingBoot ==
    /\ Platform = "uefi"
    /\ Finalized("SUCCESS", "finalize")
    /\ UNCHANGED jetson_vars

(***************************************************************************)
(* pre_update, and the image                                               *)
(***************************************************************************)

JetsonPreUpdate ==
    /\ PreUpdateCurrent(BootDefault # current)
    /\ UNCHANGED jetson_vars

JetsonMountSlots ==
    /\ MountSlots(IF UnifiedAB THEN "in_update" ELSE "set_unbootable")
    /\ UNCHANGED jetson_vars

\* A failure of nvbootctrl is logged and nothing more.
SetStandbyRootfsUnbootable ==
    /\ At("set_unbootable", "in_update")
    /\ \/ /\ unbootable' = [unbootable EXCEPT ![standby] = TRUE]
          /\ IF default = standby THEN Chosen(current) ELSE UNCHANGED risked
       \/ UNCHANGED <<unbootable, risked>>
    /\ UNCHANGED <<slot_vars, file_vars, default, proc_vars, extlinux,
                   emmc_boot, capsule, active_bootloader_slot>>

\* extlinux.conf and the emmc's /boot no longer belong to the slot's image.
JetsonWriteStandby ==
    /\ EraseStandby \/ InUpdateWrites
    /\ extlinux' = [extlinux EXCEPT ![standby] = FALSE]
    /\ emmc_boot' = [emmc_boot EXCEPT ![standby] = FALSE]
    /\ UNCHANGED <<unbootable, capsule, active_bootloader_slot>>

(***************************************************************************)
(* post_update, the steps of both                                          *)
(***************************************************************************)

JetsonPostUpdateSlotInUse ==
    /\ PostUpdateSlotInUse("extlinux")
    /\ UNCHANGED jetson_vars

UpdateExtlinuxCfg ==
    /\ At("extlinux", IF Platform = "cboot" THEN "firmware"
                      ELSE "preserve_ota")
    /\ extlinux' = [extlinux EXCEPT ![standby] = TRUE]
    /\ UNCHANGED <<slot_vars, file_vars, boot_vars, proc_vars, unbootable,
                   emmc_boot, capsule, active_bootloader_slot>>

JetsonPreserveOtaDir ==
    /\ PreserveOtaDir(IF Platform = "cboot" THEN "copy_emmc"
                      ELSE "correct_active")
    /\ UNCHANGED jetson_vars

CopyStandbyBootToEmmc(next) ==
    /\ At("copy_emmc", next)
    /\ emmc_boot' = IF ExternalRootfs THEN [emmc_boot EXCEPT ![standby] = TRUE]
                    ELSE emmc_boot
    /\ UNCHANGED <<slot_vars, file_vars, boot_vars, proc_vars, unbootable,
                   extlinux, capsule, active_bootloader_slot>>

\* set-active-boot-slot also makes the slot bootable again, and cancels a
\* capsule update.
SetActiveBootSlot(s) ==
    /\ default' = s
    /\ unbootable' = [unbootable EXCEPT ![s] = FALSE]
    /\ capsule' = NoSlot
    /\ Chosen(s)
    /\ UNCHANGED <<slot_vars, file_vars, proc_vars, extlinux, emmc_boot>>

(***************************************************************************)
(* post_update of cboot                                                    *)
(***************************************************************************)

\* nv_update_engine writes the boot loader of the standby slot, or there is
\* nothing to do; an answer of False is raised, and is UpdateFails below.
CBootFirmwareUpdate ==
    /\ Platform = "cboot"
    /\ At("firmware", "preserve_ota")
    /\ UNCHANGED <<slot_vars, file_vars, boot_vars, proc_vars, jetson_vars>>

CBootCopyToEmmc ==
    /\ Platform = "cboot"
    /\ CopyStandbyBootToEmmc(IF UnifiedAB THEN "switch" ELSE "switch_rootfs")

\* Without unified A/B the rootfs slot is set first; the boot loader slot
\* follows, and only has to agree with it for the next firmware update.
CBootSwitchBoot ==
    /\ Platform = "cboot"
    /\ \/ /\ At("switch_rootfs", "switch")
          /\ SetActiveBootSlot(standby)
       \/ /\ At("switch", "umount")
          /\ IF UnifiedAB THEN SetActiveBootSlot(standby)
             ELSE UNCHANGED <<slot_vars, file_vars, boot_vars, proc_vars,
                              unbootable, extlinux, emmc_boot, capsule>>
    /\ UNCHANGED active_bootloader_slot

(***************************************************************************)
(* post_update of UEFI                                                     *)
(***************************************************************************)

\* An interrupted update left the standby slot active: set it right, as far
\* as the value read at the start can tell, and read it again.
UefiCorrectActiveSlot ==
    /\ Platform = "uefi"
    /\ At("correct_active", "firmware")
    /\ IF active_bootloader_slot \notin {NoSlot, current}
       THEN /\ SetActiveBootSlot(current)
            /\ active_bootloader_slot' \in {current, NoSlot}
       ELSE UNCHANGED <<slot_vars, file_vars, boot_vars, proc_vars,
                        jetson_vars>>

\* The capsule update is triggered, and then UEFI switches the slot.
UefiFirmwareUpdateTriggered ==
    /\ Platform = "uefi"
    /\ At("firmware", "copy_emmc")
    /\ capsule' = current
    /\ IF default = current THEN Chosen(standby) ELSE UNCHANGED risked
    /\ UNCHANGED <<slot_vars, file_vars, default, proc_vars, unbootable,
                   extlinux, emmc_boot, active_bootloader_slot>>

UefiNoFirmwareUpdate ==
    /\ Platform = "uefi"
    /\ At("firmware", "switch")
    /\ UNCHANGED <<slot_vars, file_vars, boot_vars, proc_vars, jetson_vars>>

UefiSwitchBoot ==
    /\ Platform = "uefi"
    /\ At("switch", "copy_emmc")
    /\ SetActiveBootSlot(standby)
    /\ UNCHANGED active_bootloader_slot

UefiCopyToEmmc ==
    /\ Platform = "uefi"
    /\ CopyStandbyBootToEmmc("umount")

(***************************************************************************)
(* The specification                                                       *)
(***************************************************************************)

\* finalizing_update: a plain reboot
Reboot ==
    /\ At("reboot", "down")
    /\ current' = NoSlot
    /\ dynamic' = FALSE
    /\ Forget
    /\ UNCHANGED <<slot_vars, file_vars, boot_vars, jetson_vars>>

CBootStep ==
    \/ CBootStart \/ CBootFinalizeSwitchingBoot
    \/ SetStandbyRootfsUnbootable \/ CBootFirmwareUpdate \/ CBootCopyToEmmc
    \/ CBootSwitchBoot

UefiStep ==
    \/ UefiStart \/ UefiFinalizeSwitchingBoot \/ UefiCorrectActiveSlot
    \/ UefiFirmwareUpdateTriggered \/ UefiNoFirmwareUpdate
    \/ UefiSwitchBoot \/ UefiCopyToEmmc

JetsonStep ==
    \/ Boot \/ CapsuleUpdate \/ JetsonPreUpdate \/ JetsonMountSlots
    \/ JetsonWriteStandby \/ JetsonPostUpdateSlotInUse \/ UpdateExtlinuxCfg
    \/ JetsonPreserveOtaDir \/ Reboot

Next ==
    \/ CBootStep \/ UefiStep \/ JetsonStep
    \/ (BaseStep \/ UpdateFails(JetsonSteps)) /\ UNCHANGED jetson_vars

Spec == Init /\ [][Next]_vars

=============================================================================
