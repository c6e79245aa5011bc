--------------------------- MODULE JetsonFirmware ---------------------------
(***************************************************************************)
(* The firmware update that a Jetson ECU's post_update performs from the   *)
(* package in the OTA image: boot_control/_firmware_package.py, and        *)
(* UEFIFirmwareUpdater of _jetson_uefi.py or NVUpdateEngine of             *)
(* _jetson_cboot.py.  The UEFI one fills the ESP, which both slots share,  *)
(* and lets the firmware of the current slot do the rest at the next boot. *)
(* Versions are naturals; a file's digest is the version it holds.         *)
(***************************************************************************)
EXTENDS Naturals

CONSTANTS
    SlotA, SlotB,
    Platform,    \* "cboot" or "uefi"
    MaxVersion,  \* bound: BSP versions are 1..MaxVersion
    MinCapsule,  \* FIRMWARE_UPDATE_MINIMUM_SUPPORTED_BSP_VERSION
    MaxCBoot,    \* MAXIMUM_SUPPORTED_BSP_VERSION_EXCLUDE
    Known        \* versions in L4TLAUNCHER_BSP_VER_SHA256_MAP

Slots == {SlotA, SlotB}
Versions == 1..MaxVersion
Torn == 0      \* a file cut short
NoFile == [bsp_ver |-> 0, sha256_digest |-> 0]

\* A payload of the manifest that the request names: missing, with a digest
\* that does not match, or good.
Payload == {"none", "bad", "good"}

\* load_firmware_package's result together with what TNSPEC makes of it
Package == [bsp_version : Versions, compat : BOOLEAN, capsule : Payload,
            bootapp : Payload, bup : Payload]

VARIABLES
    current, bl,   \* the running rootfs slot and boot loader slot
    active,        \* the active slots, which the next boot starts
    fw,            \* the firmware version of each slot
    launcher,      \* BOOTAA64.efi on the ESP
    launcher_ver,  \* l4tlauncher_version on the ESP
    esp_capsule,       \* version of the capsule on the ESP, or Torn
    triggered,     \* the efivar that asks for a capsule update
    pc, package, ota

vars == <<current, bl, active, fw, launcher, launcher_ver, esp_capsule, triggered, pc,
          package, ota>>

Idle == [bsp_version |-> 1, compat |-> FALSE, capsule |-> "none",
         bootapp |-> "none", bup |-> "none"]

TypeOK ==
    /\ current \in Slots /\ bl \in Slots
    /\ active \in [rootfs : Slots, bl : Slots]
    /\ fw \in [Slots -> Versions]
    /\ launcher \in Versions \union {Torn}
    /\ launcher_ver \in [bsp_ver : Versions, sha256_digest : Versions]
                        \union {NoFile}
    /\ esp_capsule \in Versions \union {Torn}
    /\ triggered \in BOOLEAN /\ package \in Package
    /\ pc \in {"idle", "capsule", "detect", "overwrite", "version", "trigger",
               "switch_rootfs", "switch", "reboot", "down", "firmware"}
    /\ ota \in {"none", "ok", "failed"}

\* A newly flashed ECU: one version everywhere, no version file.
Init ==
    /\ current = SlotA /\ bl = SlotA
    /\ active = [rootfs |-> SlotA, bl |-> SlotA]
    /\ \E v \in Versions : fw = [s \in Slots |-> v] /\ launcher = v
    /\ launcher_ver = NoFile
    /\ esp_capsule = Torn /\ triggered = FALSE
    /\ pc = "idle" /\ package = Idle /\ ota = "none"

Other(s) == CHOOSE t \in Slots : t # s

standby == Other(current)

At(from, to) == pc = from /\ pc' = to

esp_vars == <<launcher, launcher_ver, esp_capsule, triggered>>
slots == <<current, bl, active>>

\* Without a capsule to wait for, the boot is switched.
SwitchStep == IF Platform = "uefi" THEN "switch" ELSE "switch_rootfs"

\* load_firmware_package: no request, no manifest or no TNSPEC is no firmware
\* update; otherwise post_update goes on with a package.
LoadFirmwarePackage ==
    /\ pc = "idle"
    /\ \/ /\ pc' = SwitchStep /\ UNCHANGED package
       \/ /\ pc' = "firmware" /\ package' \in Package
    /\ ota' = "none"
    /\ UNCHANGED <<slots, fw, esp_vars>>

(***************************************************************************)
(* UEFIFirmwareUpdater                                                     *)
(***************************************************************************)

FirmwareAcceptable ==
    /\ fw[current] >= MinCapsule /\ package.bsp_version >= MinCapsule
    /\ fw[current] <= package.bsp_version
    /\ package.compat

FirmwareUpdate ==
    /\ Platform = "uefi"
    /\ At("firmware", IF FirmwareAcceptable THEN "capsule" ELSE "switch")
    /\ UNCHANGED <<slots, fw, esp_vars, package, ota>>

\* A payload that fails is skipped; one that is copied is enough.
PrepareFwupdateCapsule ==
    /\ pc = "capsule"
    /\ \/ /\ package.capsule = "good"
          /\ esp_capsule' = package.bsp_version /\ pc' = "detect"
       \/ /\ esp_capsule' \in {esp_capsule, IF package.capsule = "good" THEN Torn
                                    ELSE esp_capsule}
          /\ pc' = "switch"
    /\ UNCHANGED <<slots, fw, launcher, launcher_ver, triggered, package, ota>>

\* Mutation: an unknown launcher is taken for one of the package's version.
AssumePackageVersion ==
    IF launcher_ver # NoFile /\ launcher_ver.sha256_digest = launcher
    THEN launcher_ver.bsp_ver
    ELSE IF launcher \in Known THEN launcher ELSE package.bsp_version

\* The version file when it is about this launcher, then the table, then the
\* version of the current slot's firmware.
DetectedLauncherVersion ==
    IF launcher_ver # NoFile /\ launcher_ver.sha256_digest = launcher
    THEN launcher_ver.bsp_ver
    ELSE IF launcher \in Known THEN launcher ELSE fw[current]

L4tlauncherVersionControl ==
    /\ pc = "detect"
    /\ launcher_ver' = [bsp_ver |-> DetectedLauncherVersion,
                        sha256_digest |-> launcher]
    /\ pc' = IF DetectedLauncherVersion >= package.bsp_version
             THEN "trigger" ELSE "overwrite"
    /\ UNCHANGED <<slots, fw, launcher, esp_capsule, triggered, package, ota>>

\* _update_l4tlauncher copies the new binary over the old one, in place: it
\* may be cut short, by an exception that is only logged or by a power loss
\* (which is PowerLoss, after this step).
UpdateL4tlauncher ==
    /\ pc = "overwrite"
    /\ \/ /\ package.bootapp = "good"
          /\ \/ launcher' = package.bsp_version /\ pc' = "version"
             \/ launcher' = Torn /\ pc' = "trigger"
       \/ /\ pc' = "trigger" /\ UNCHANGED launcher
    /\ UNCHANGED <<slots, fw, launcher_ver, esp_capsule, triggered, package, ota>>

WriteLauncherVersion ==
    /\ At("version", "trigger")
    /\ launcher_ver' = [bsp_ver |-> package.bsp_version,
                        sha256_digest |-> package.bsp_version]
    /\ UNCHANGED <<slots, fw, launcher, esp_capsule, triggered, package, ota>>

\* Either variant writes the variable, or fails and says so; an unknown
\* TEGRA_OTA_BOOT_DEVICE is no update either.
TriggerCapsuleUpdate ==
    /\ pc = "trigger"
    /\ \/ triggered' = TRUE /\ pc' = "reboot"
       \/ UNCHANGED triggered /\ pc' = "switch"
    /\ UNCHANGED <<slots, fw, launcher, launcher_ver, esp_capsule, package, ota>>

(***************************************************************************)
(* NVUpdateEngine                                                          *)
(***************************************************************************)

\* The engine writes the boot loader that is not running.  False, for a
\* package that is refused as well as for one with nothing good in it, is
\* raised by post_update; so is a failure of the engine (check=True), whatever
\* it has written by then.
NvUpdateEngineFirmwareUpdate ==
    /\ Platform = "cboot" /\ pc = "firmware"
    /\ \/ /\ package.bsp_version < MaxCBoot /\ package.compat
          /\ package.bup = "good"
          /\ fw' = [fw EXCEPT ![Other(bl)] = package.bsp_version]
          /\ pc' = "switch_rootfs" /\ UNCHANGED ota
       \/ /\ \/ package.bsp_version >= MaxCBoot \/ ~package.compat
             \/ package.bup # "good"
          /\ ota' = "failed" /\ pc' = "idle" /\ UNCHANGED fw
       \/ /\ package.bsp_version < MaxCBoot /\ package.compat
          /\ package.bup = "good"
          /\ fw' \in {fw, [fw EXCEPT ![Other(bl)] = package.bsp_version]}
          /\ ota' = "failed" /\ pc' = "idle"
    /\ UNCHANGED <<slots, esp_vars, package>>

\* Without unified A/B, the rootfs slot is switched by a call of its own.
SwitchRootfsSlot ==
    /\ At("switch_rootfs", "switch")
    /\ active' = [active EXCEPT !.rootfs = standby]
    /\ UNCHANGED <<current, bl, fw, esp_vars, package, ota>>

(***************************************************************************)
(* The switch, the reboot and the boot                                     *)
(***************************************************************************)

\* switch_boot_to_standby always aligns the boot loader with the rootfs; UEFI
\* forgets a capsule update then.
SwitchBootToStandby ==
    /\ At("switch", "reboot")
    /\ triggered' = FALSE
    /\ active' = [rootfs |-> standby, bl |-> standby]
    /\ UNCHANGED <<current, bl, fw, launcher, launcher_ver, esp_capsule, package,
                   ota>>

Reboot ==
    /\ At("reboot", "down")
    /\ ota' = "ok"
    /\ UNCHANGED <<slots, fw, esp_vars, package>>

\* Any step may be the last one, and so may the middle of a write.
PowerLoss ==
    /\ pc \notin {"idle", "down", "reboot"}
    /\ pc' = "down" /\ ota' = "failed"
    /\ launcher' \in IF pc = "overwrite" /\ package.bootapp = "good"
                     THEN {launcher, Torn} ELSE {launcher}
    /\ UNCHANGED <<slots, fw, launcher_ver, esp_capsule, triggered, package>>

\* UEFI of the current slot installs the capsule for the standby slot and
\* boots it, or comes back to the current one.  A torn launcher boots nothing.
Boot ==
    /\ At("down", "idle")
    /\ launcher # Torn
    /\ triggered' = FALSE
    /\ \/ /\ triggered /\ esp_capsule # Torn
          /\ fw' = [fw EXCEPT ![standby] = esp_capsule]
          /\ esp_capsule' = Torn
          /\ active' = [rootfs |-> standby, bl |-> standby]
       \/ UNCHANGED <<fw, esp_capsule, active>>
    /\ current' = active'.rootfs /\ bl' = active'.bl
    /\ UNCHANGED <<launcher, launcher_ver, package, ota>>

Next ==
    \/ LoadFirmwarePackage \/ FirmwareUpdate \/ PrepareFwupdateCapsule
    \/ L4tlauncherVersionControl \/ UpdateL4tlauncher \/ WriteLauncherVersion
    \/ TriggerCapsuleUpdate \/ NvUpdateEngineFirmwareUpdate
    \/ SwitchRootfsSlot \/ SwitchBootToStandby \/ Reboot \/ PowerLoss \/ Boot

Spec == Init /\ [][Next]_vars

=============================================================================
