--------------------------- MODULE BootControllers ---------------------------
(***************************************************************************)
(* boot_control/selecter.py and the controllers it selects, except GRUB's  *)
(* (GrubBootControl): an ECU has one platform for good, and behaves as the *)
(* module of that platform says.  The firmware part of the Jetson          *)
(* controllers, which touches none of their slots, has behaviours of its   *)
(* own.  Every controller is held to ABUpdate, the promise they share.     *)
(***************************************************************************)
EXTENDS SlotBootControl, Naturals

CONSTANTS MaxVersion, MinCapsule, MaxCBoot, Known, MaxUpdates

VARIABLES
    platform,   \* the controller, or "<controller>_firmware" for its firmware
    tryboot_txt, tryboot, fstab, vmlinuz, initrd,            \* RpiBoot
    unbootable, extlinux, emmc_boot, capsule, active_bootloader_slot,
                                                             \* JetsonBoot
    bl, active, fw, launcher, launcher_ver, esp_capsule, triggered, package,
    ota,                                                     \* JetsonFirmware
    version, detail, failure_info, bound, written_by, staged_in, image, armed,
    record, not_committed, switch_concluded, session         \* PartitionImage

Rpi == INSTANCE RpiBoot
CBoot == INSTANCE JetsonBoot WITH
    Platform <- "cboot", UnifiedAB <- FALSE, ExternalRootfs <- TRUE
CBootUnified == INSTANCE JetsonBoot WITH
    Platform <- "cboot", UnifiedAB <- TRUE, ExternalRootfs <- TRUE
Uefi == INSTANCE JetsonBoot WITH
    Platform <- "uefi", UnifiedAB <- TRUE, ExternalRootfs <- FALSE
UefiExternal == INSTANCE JetsonBoot WITH
    Platform <- "uefi", UnifiedAB <- TRUE, ExternalRootfs <- TRUE
CBootFirmware == INSTANCE JetsonFirmware WITH Platform <- "cboot"
UefiFirmware == INSTANCE JetsonFirmware WITH Platform <- "uefi"
Partition == INSTANCE PartitionImage

base == <<rootfs, ota_dir, mounted, dynamic>>
rpi == <<tryboot_txt, tryboot, fstab, vmlinuz, initrd>>
jetson == <<unbootable, extlinux, emmc_boot, capsule, active_bootloader_slot>>
firmware == <<bl, active, fw, launcher, launcher_ver, esp_capsule, triggered,
              package, ota>>
partition == <<version, detail, failure_info, bound, written_by, staged_in,
               image, armed, record, not_committed, switch_concluded, session>>
shared == <<status, slot_in_use, default, current, ota_status, final_phase,
            pc, risked>>
vars == <<platform, base, shared, rpi, jetson, firmware, partition>>

\* detect_bootloader, with no boot loader in ecu_info.yaml
Detected == {"RPI_BOOT", "CBOOT"}

\* get_boot_controller
GetBootController(bootloader_type) ==
    CASE bootloader_type = "RPI_BOOT" -> {"rpi"}
      [] bootloader_type \in {"CBOOT", "JETSON_CBOOT"} ->
            {"cboot", "cboot_unified", "cboot_firmware"}
      [] bootloader_type = "JETSON_UEFI" ->
            {"uefi", "uefi_external", "uefi_firmware"}
      [] bootloader_type \in {"GRUB_VERITY", "JETSON_DPI", "DRIVEOS_DPI"} ->
            {"partition"}

BootloaderType == Detected \union
    {"JETSON_CBOOT", "JETSON_UEFI", "GRUB_VERITY", "JETSON_DPI", "DRIVEOS_DPI"}

RpiUnused ==
    /\ tryboot_txt = NoSlot /\ tryboot = FALSE
    /\ fstab = NoSlot /\ vmlinuz = NoSlot /\ initrd = NoSlot

JetsonUnused ==
    /\ unbootable = NoSlot /\ extlinux = NoSlot /\ emmc_boot = NoSlot
    /\ capsule = NoSlot /\ active_bootloader_slot = NoSlot

FirmwareUnused ==
    /\ bl = NoSlot /\ active = [rootfs |-> NoSlot, bl |-> NoSlot]
    /\ fw = NoSlot /\ launcher = 0
    /\ launcher_ver = [bsp_ver |-> 0, sha256_digest |-> 0] /\ esp_capsule = 0
    /\ triggered = FALSE /\ package = NoSlot /\ ota = "none"

PartitionUnused ==
    /\ version = NoSlot /\ detail = NoSlot /\ failure_info = NoSlot
    /\ bound = NoSlot
    /\ written_by = NoSlot /\ staged_in = "none" /\ image = NoSlot
    /\ armed = NoSlot /\ record = FALSE /\ not_committed = FALSE
    /\ switch_concluded = FALSE /\ session = 0

BaseUnused ==
    rootfs = NoSlot /\ ota_dir = NoSlot /\ mounted = FALSE /\ dynamic = FALSE

SharedUnused ==
    /\ status = [s \in Slots |-> "none"] /\ slot_in_use = NoSlot
    /\ default = SlotA /\ ota_status = "none" /\ final_phase = FALSE
    /\ risked = FALSE

Init ==
    /\ \E t \in BootloaderType : platform \in GetBootController(t)
    /\ \/ /\ platform = "rpi" /\ Rpi!Init
          /\ JetsonUnused /\ FirmwareUnused /\ PartitionUnused
       \/ /\ \/ platform = "cboot" /\ CBoot!Init
             \/ platform = "cboot_unified" /\ CBootUnified!Init
             \/ platform = "uefi" /\ Uefi!Init
             \/ platform = "uefi_external" /\ UefiExternal!Init
          /\ RpiUnused /\ FirmwareUnused /\ PartitionUnused
       \/ /\ \/ platform = "cboot_firmware" /\ CBootFirmware!Init
             \/ platform = "uefi_firmware" /\ UefiFirmware!Init
          /\ BaseUnused /\ SharedUnused /\ RpiUnused /\ JetsonUnused
          /\ PartitionUnused
       \/ /\ platform = "partition" /\ Partition!Init
          /\ BaseUnused /\ RpiUnused /\ JetsonUnused /\ FirmwareUnused

\* An ECU whose L4TLauncher was cut short does not start again.
StaysDown ==
    /\ platform = "uefi_firmware" /\ pc = "down" /\ launcher = 0
    /\ UNCHANGED vars

Next ==
    \/ /\ platform = "rpi" /\ Rpi!Next
       /\ UNCHANGED <<platform, jetson, firmware, partition>>
    \/ /\ \/ platform = "cboot" /\ CBoot!Next
          \/ platform = "cboot_unified" /\ CBootUnified!Next
          \/ platform = "uefi" /\ Uefi!Next
          \/ platform = "uefi_external" /\ UefiExternal!Next
       /\ UNCHANGED <<platform, rpi, firmware, partition>>
    \/ /\ \/ platform = "cboot_firmware" /\ CBootFirmware!Next
          \/ platform = "uefi_firmware" /\ UefiFirmware!Next
       /\ UNCHANGED <<platform, base, status, slot_in_use, default,
                      ota_status, final_phase, risked, rpi, jetson, partition>>
    \/ /\ platform = "partition" /\ Partition!Next
       /\ UNCHANGED <<platform, base, rpi, jetson, firmware>>
    \/ StaysDown

Spec == Init /\ [][Next]_vars

\* The partition-based layout alone
PartitionSpec == Init /\ platform = "partition" /\ [][Next]_vars

TypeOK ==
    CASE platform = "rpi" -> Rpi!TypeOK
      [] platform = "cboot" -> CBoot!TypeOK
      [] platform = "cboot_unified" -> CBootUnified!TypeOK
      [] platform = "uefi" -> Uefi!TypeOK
      [] platform = "uefi_external" -> UefiExternal!TypeOK
      [] platform = "cboot_firmware" -> CBootFirmware!TypeOK
      [] platform = "uefi_firmware" -> UefiFirmware!TypeOK
      [] platform = "partition" -> Partition!TypeOK

(***************************************************************************)
(* Properties                                                              *)
(***************************************************************************)

\* With an external rootfs the UEFI controller's slots are judged without the
\* copy of /boot on the emmc, which is EmmcIsLeftBehindOnlyBySwitch's subject.
Whole(s) ==
    CASE platform = "rpi" -> Rpi!Whole(s)
      [] platform = "cboot" -> CBoot!Whole(s)
      [] platform = "cboot_unified" -> CBootUnified!Whole(s)
      [] platform \in {"uefi", "uefi_external"} -> Uefi!Whole(s)
      [] platform = "partition" -> Partition!Whole(s)
      [] OTHER -> TRUE

\* The slot the next boot starts when no trial is asked for.
BootDefault == IF platform \in {"cboot", "cboot_unified", "uefi", "uefi_external"}
               THEN CBoot!BootDefault ELSE default

Promise == INSTANCE ABUpdate WITH
    whole <- [s \in Slots |-> Whole(s)], default <- BootDefault,
    running <- IF platform \in {"cboot_firmware", "uefi_firmware"}
               THEN NoSlot ELSE current,
    exposed <- risked

\* The UEFI controller switches the slot, or triggers the capsule update that
\* will, before it copies the slot's /boot to the emmc.
EmmcIsLeftBehindOnlyBySwitch ==
    platform = "uefi_external" /\ ~risked /\ emmc_boot[default]
        /\ emmc_boot[BootDefault] /\ ~emmc_boot'[BootDefault']
    => pc \in {"switch", "firmware"}

\* Every controller keeps the promise of the A/B layout: whatever fails or is
\* cut short in start-up, update, slot switch or trial boot, the boot loader
\* only ever selects a slot all of whose files are of one image.  The copy of
\* /boot on the emmc is one of those files for cboot; with UEFI it is not, and
\* there the one step by which the next boot comes to start a slot without it
\* is the switch that post_update makes before the copy.
RefinesABUpdate == Promise!Spec /\ [][EmmcIsLeftBehindOnlyBySwitch]_vars

\* A slot that says SUCCESS is whole and the one the next boot starts: the
\* switch is finalised before SUCCESS is stored, and pre_update takes SUCCESS
\* back before another slot can become the default.
SuccessIsDefault ==
    \A s \in Slots :
        status[s] = "SUCCESS" /\ ~risked => BootDefault = s /\ Whole(s)

\* On the platforms with a trial boot, only a slot that runs becomes the
\* default: an update that fails, or is cut short by a power loss, before or
\* in its trial boot comes back to the old slot.  And the trial that is armed
\* takes place: an otaclient that restarts before the reboot does not make the
\* DPI give it up (staged-in-boot), unless it cannot read the id of its boot.
TrialIsKept ==
    [][/\ platform \in {"rpi", "partition"} /\ default' # default => current = default'
       /\ armed # NoSlot /\ armed' = NoSlot =>
            current = NoSlot \/ pc \in {"install", "conclude_blind"}]_vars

\* What the partition layout records is of the image and the update it is
\* about, wherever an update was cut short: the armed slot's record names that
\* slot, the version of the running slot is that of its image, its version
\* detail is at least not that of a later update, and a failure reason that is
\* reported is the reason of the update that the slot's status is about
\* (store_failure_info).
RecordsAreTrue ==
    /\ armed # NoSlot => slot_in_use[armed] = armed
    /\ platform = "partition" /\ current # NoSlot =>
          /\ version[current] \in {Partition!NoVersion, image[current]}
          /\ detail[current] <= image[current]
    /\ platform = "partition" /\ ota_status = "FAILURE" =>
          Partition!BootedFailureInfo(current) \in
              {Partition!NoInfo, written_by[current]}

\* The trial boot of an armed slot is a switching boot, whatever failed or was
\* cut short after the DPI armed it: so say the docstrings of pre_update and
\* on_operation_failure.  on_failure stores FAILURE for the armed slot as well.
ArmedIsSwitchingBoot ==
    armed # NoSlot => /\ status[armed] = "UPDATING"
                      /\ slot_in_use[armed] = armed

\* The firmware of a Jetson ECU.  UEFI: the version recorded for the launcher on
\* the ESP never says it is newer than it is, even when a power loss came
\* between overwriting it and recording it (_l4tlauncher_version_control), and
\* a capsule is installed only when it is not older than the firmware of the
\* slot that installs it, whatever was left on the ESP (firmware_update).
\* cboot: an update that went through leaves boot loader and rootfs in the same
\* slot, also after a power loss between the two calls of an earlier one had
\* them differ (switch_boot_to_standby).
FirmwareIsSound ==
    /\ [](platform = "uefi_firmware" /\ launcher_ver # UefiFirmware!NoFile
            => (launcher_ver.sha256_digest = launcher
                    => launcher_ver.bsp_ver <= launcher))
    /\ [](platform = "cboot_firmware" /\ ota = "ok" => active.bl = active.rootfs)
    /\ [][platform = "uefi_firmware" =>
            \A s \in Slots : fw'[s] # fw[s] => fw'[s] >= fw[current]]_vars

=============================================================================
