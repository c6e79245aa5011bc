------------------------------- MODULE RpiBoot -------------------------------
(***************************************************************************)
(* The Raspberry Pi boot controller (boot_control/_rpi_boot.py): both      *)
(* slots boot from one system-boot partition, whose config.txt names the   *)
(* default slot and whose tryboot.txt names the slot of a reboot with the  *)
(* argument "0 tryboot".  Kernel and initrd of a slot are files of that    *)
(* partition too, and are replaced one after the other.                    *)
(***************************************************************************)
EXTENDS SlotBootControl

VARIABLES
    tryboot_txt,  \* the slot tryboot.txt names, NoSlot before there is one
    tryboot,      \* the firmware was told to boot tryboot.txt this time
    fstab,        \* the slot's fstab names the slot
    vmlinuz,      \* vmlinuz_<slot> is the kernel of the slot's image
    initrd        \* initrd.img_<slot> is that image's

file_part_vars == <<fstab, vmlinuz, initrd>>
rpi_vars == <<tryboot_txt, tryboot, file_part_vars>>
vars == <<slot_vars, file_vars, proc_vars, boot_vars, pc, rpi_vars>>

RpiSteps == {"fstab", "flash_kernel", "replace_initrd", "prepare_tryboot"}

TypeOK ==
    /\ BaseTypeOK
    /\ pc \in BasePC \union RpiSteps
                \union {"finalize_tryboot", "store_success", "finalize_failed"}
    /\ tryboot_txt \in Slots \union {NoSlot}
    /\ tryboot \in BOOLEAN
    /\ fstab \in [Slots -> BOOLEAN]
    /\ vmlinuz \in [Slots -> BOOLEAN]
    /\ initrd \in [Slots -> BOOLEAN]

Init ==
    /\ BaseInit
    /\ tryboot_txt = NoSlot
    /\ tryboot = FALSE
    /\ fstab = [s \in Slots |-> s = SlotA]
    /\ vmlinuz = [s \in Slots |-> s = SlotA]
    /\ initrd = [s \in Slots |-> s = SlotA]

\* The slot holds everything its system needs.
Whole(s) ==
    /\ rootfs[s] = "image"
    /\ ota_dir[s] /\ fstab[s] /\ vmlinuz[s] /\ initrd[s]

\* The firmware starts tryboot.txt once when asked to, else config.txt.
Boot ==
    /\ BootInto(IF tryboot THEN tryboot_txt ELSE default)
    /\ tryboot' = FALSE
    /\ UNCHANGED <<tryboot_txt, file_part_vars>>

\* A start-up without state of its own: _RPIBootControl.__init__ checks the
\* boot files, corrects the label of the file system, removes the flag file.
RpiStart ==
    /\ At("start", "load_slot_in_use")
    /\ UNCHANGED <<slot_vars, file_vars, boot_vars, proc_vars, rpi_vars>>

(***************************************************************************)
(* finalize_switching_boot                                                 *)
(***************************************************************************)

\* config.txt becomes the running slot's.
ReplaceConfigTxt(from, next) ==
    /\ At(from, next)
    /\ default' = current
    /\ risked' = (risked /\ ~Whole(current))
    /\ UNCHANGED <<slot_vars, file_vars, proc_vars, rpi_vars>>

ReplaceTrybootTxt(from, next) ==
    /\ At(from, next)
    /\ tryboot_txt' = standby
    /\ UNCHANGED <<slot_vars, file_vars, proc_vars, boot_vars, tryboot,
                   file_part_vars>>

FinalizeConfigTxt == ReplaceConfigTxt("finalize", "finalize_tryboot")

FinalizeTrybootTxt == ReplaceTrybootTxt("finalize_tryboot", "store_success")

\* One of the two copies, or the removal of the .bak files, raises.
FinalizeRaises ==
    /\ pc \in {"finalize", "finalize_tryboot", "store_success"}
    /\ pc' = "finalize_failed"
    /\ UNCHANGED <<slot_vars, file_vars, proc_vars, boot_vars, rpi_vars>>

StoreFinalized ==
    /\ \/ Finalized("SUCCESS", "store_success")
       \/ Finalized("FAILURE", "finalize_failed")
    /\ UNCHANGED rpi_vars

(***************************************************************************)
(* The update                                                              *)
(***************************************************************************)

\* The files of a slot that is written no longer belong to its image.
Disowned(f) == [f EXCEPT ![standby] = FALSE]

RpiPreUpdate ==
    /\ PreUpdateCurrent(default # current)
    /\ UNCHANGED rpi_vars

\* mkfs takes the fstab away; the files of system-boot stay, and stay old.
RpiWriteStandby ==
    /\ EraseStandby \/ InUpdateWrites
    /\ fstab' = Disowned(fstab)
    /\ vmlinuz' = Disowned(vmlinuz)
    /\ initrd' = Disowned(initrd)
    /\ UNCHANGED <<tryboot_txt, tryboot>>

RpiBaseHooks ==
    /\ MountSlots("in_update") \/ PostUpdateSlotInUse("preserve_ota")
        \/ PreserveOtaDir("fstab")
    /\ UNCHANGED rpi_vars

WriteStandbyFstab ==
    /\ At("fstab", "flash_kernel")
    /\ fstab' = [fstab EXCEPT ![standby] = TRUE]
    /\ UNCHANGED <<slot_vars, file_vars, proc_vars, boot_vars, tryboot_txt,
                   tryboot, vmlinuz, initrd>>

\* Mutation: tryboot.txt is prepared before the initrd is in place.
TrybootBeforeInitrd ==
    /\ At("flash_kernel", "umount")
    /\ tryboot_txt' = standby
    /\ vmlinuz' = [vmlinuz EXCEPT ![standby] = TRUE]
    /\ UNCHANGED <<slot_vars, file_vars, proc_vars, boot_vars, tryboot,
                   fstab, initrd>>

\* update_firmware: flash-kernel, then one file is moved after the other.  A
\* flash-kernel that succeeds (check=True) has put both where they are moved
\* from, so neither is_file() is false.
UpdateFirmwareVmlinuz ==
    /\ At("flash_kernel", "replace_initrd")
    /\ vmlinuz' = [vmlinuz EXCEPT ![standby] = TRUE]
    /\ UNCHANGED <<slot_vars, file_vars, proc_vars, boot_vars, tryboot_txt,
                   tryboot, fstab, initrd>>

UpdateFirmwareInitrd ==
    /\ At("replace_initrd", "prepare_tryboot")
    /\ initrd' = [initrd EXCEPT ![standby] = TRUE]
    /\ UNCHANGED <<slot_vars, file_vars, proc_vars, boot_vars, tryboot_txt,
                   tryboot, fstab, vmlinuz>>

PrepareTrybootTxt == ReplaceTrybootTxt("prepare_tryboot", "umount")

\* The argument of the reboot, which nothing keeps over a power loss
RebootTryboot ==
    /\ At("reboot", "down")
    /\ tryboot' = TRUE
    /\ current' = NoSlot
    /\ dynamic' = FALSE
    /\ Forget
    /\ UNCHANGED <<slot_vars, file_vars, boot_vars, tryboot_txt,
                   file_part_vars>>

\* Power fails before the firmware has read the argument.
TrybootLost ==
    /\ pc = "down" /\ tryboot
    /\ tryboot' = FALSE
    /\ UNCHANGED <<slot_vars, file_vars, proc_vars, boot_vars, pc,
                   tryboot_txt, file_part_vars>>

RpiStep ==
    \/ Boot \/ RpiStart \/ FinalizeConfigTxt \/ FinalizeTrybootTxt
    \/ FinalizeRaises \/ StoreFinalized \/ RpiPreUpdate \/ RpiWriteStandby
    \/ RpiBaseHooks \/ WriteStandbyFstab \/ UpdateFirmwareVmlinuz
    \/ UpdateFirmwareInitrd \/ PrepareTrybootTxt \/ RebootTryboot
    \/ TrybootLost

Next ==
    \/ RpiStep
    \/ (BaseStep \/ UpdateFails(RpiSteps)) /\ UNCHANGED rpi_vars

Spec == Init /\ [][Next]_vars

(***************************************************************************)
(* Properties                                                              *)
(***************************************************************************)

\* The Raspberry Pi keeps the promise of the A/B layout: config.txt and
\* tryboot.txt only ever select a slot all of whose files are of one image.
Promise == INSTANCE ABUpdate WITH
    whole <- [s \in Slots |-> Whole(s)], running <- current,
    exposed <- risked

AlwaysBootable == Promise!AlwaysBootable

RefinesABUpdate == Promise!Spec

\* A slot that says SUCCESS is the default of config.txt and whole:
\* finalize_switching_boot writes config.txt before SUCCESS is stored, and
\* pre_update takes SUCCESS back before the other slot can become the default.
SuccessIsDefault ==
    \A s \in Slots :
        status[s] = "SUCCESS" /\ ~risked => default = s /\ Whole(s)

=============================================================================
