--------------------------- MODULE OtaConfigFiles ---------------------------
(***************************************************************************)
(* ecu_info.yaml and proxy_info.yaml in an update by the GRUB controller,  *)
(* whose /boot/ota both slots share: which files of the OTA image are      *)
(* taken (load_ota_config_files_from_image), how persist files are carried *)
(* over, and how the files are installed just before the switch, or        *)
(* restored (boot_control/_ota_config_files.py, _grub_new.py).             *)
(***************************************************************************)
EXTENDS Integers, FiniteSets

CONSTANT MaxFaults     \* writes that fail, and power losses

VARIABLES
    image,      \* what the OTA image ships for each file
    persisted,  \* the files the persist list of the image names
    links,      \* /boot/ota of the image is a symlink
    loaded,     \* OTAConfigFiles: the files to install
    shared,     \* the files in the shared /boot/ota: "none", "old" or "new"
    before,     \* what they were before the update
    backup,     \* the files backup_ota_config_files kept
    todo,       \* files still to install or to restore
    armed,      \* grub-reboot points at the standby slot
    pc,
    cut,        \* power was lost while files were replaced, or a restore failed
    faults

config_vars == <<image, persisted, links, loaded, shared, before, backup,
                 todo, armed, pc, cut, faults>>
image_vars == <<image, persisted, links, before>>

Files == {"ecu_info", "proxy_info"}

ConfigInit ==
    /\ image \in [Files -> {"none", "valid", "invalid", "other_ecu"}]
    /\ image["proxy_info"] # "other_ecu"
    /\ persisted \in SUBSET Files /\ links \in BOOLEAN
    /\ before \in [Files -> {"none", "old"}] /\ shared = before
    /\ loaded = {} /\ backup = {} /\ todo = {} /\ armed = FALSE /\ pc = "load"
    /\ cut = FALSE /\ faults = MaxFaults

Fault == faults > 0 /\ faults' = faults - 1

\* A file that is persisted, not shipped, a symlink or not valid is not taken
Taken(f) == f \notin persisted /\ image[f] = "valid"

\* Neither is taken from an image whose ecu_info.yaml is another ECU's
ForOtherEcu == "ecu_info" \notin persisted /\ image["ecu_info"] = "other_ecu"

LoadedFiles == IF links \/ ForOtherEcu THEN {} ELSE {f \in Files : Taken(f)}

LoadOtaConfigFilesFromImage ==
    /\ pc = "load"
    /\ loaded' = LoadedFiles
    /\ pc' = "prepare"
    /\ UNCHANGED <<image_vars, shared, backup, todo, armed, cut, faults>>

\* Between the load and the installation: process_persistents, the client squashfs
\* and the boot files of the standby slot.  A failure there ends the update.
PrepareStandby ==
    /\ pc = "prepare"
    /\ \/ pc' = "backup" /\ UNCHANGED faults
       \/ Fault /\ pc' = "failed"
    /\ UNCHANGED <<image_vars, loaded, shared, backup, todo, armed, cut>>

BackupNothing ==
    /\ pc = "backup"
    /\ backup' = {} /\ todo' = loaded /\ pc' = "install"
    /\ UNCHANGED <<image_vars, loaded, shared, armed, cut, faults>>

BackupOtaConfigFiles ==
    /\ pc = "backup"
    /\ \/ backup' = loaded /\ todo' = loaded /\ pc' = "install" /\ UNCHANGED faults
       \/ Fault /\ pc' = "failed" /\ UNCHANGED <<backup, todo>>
    /\ UNCHANGED <<image_vars, loaded, shared, armed, cut>>

\* ecu_info.yaml first, each in one atomic rename
InstallOtaConfigFiles ==
    /\ pc = "install"
    /\ \/ /\ \E f \in todo :
                /\ f = "proxy_info" => "ecu_info" \notin todo
                /\ shared' = [shared EXCEPT ![f] = "new"] /\ todo' = todo \ {f}
          /\ UNCHANGED <<pc, faults>>
       \/ todo = {} /\ pc' = "arm" /\ UNCHANGED <<shared, todo, faults>>
       \/ todo # {} /\ Fault /\ pc' = "restore" /\ todo' = backup /\ UNCHANGED shared
    /\ UNCHANGED <<image_vars, loaded, backup, armed, cut>>

GrubRebootToStandby ==
    /\ pc = "arm"
    /\ \/ armed' = TRUE /\ pc' = "finalize" /\ UNCHANGED <<todo, faults>>
       \/ Fault /\ pc' = "restore" /\ todo' = backup /\ UNCHANGED armed
    /\ UNCHANGED <<image_vars, loaded, shared, backup, cut>>

\* Best effort: a file that cannot be restored is left, the next one is tried
RestoreOtaConfigFiles ==
    /\ pc = "restore"
    /\ \/ todo = {} /\ pc' = "failed" /\ UNCHANGED <<shared, todo, cut, faults>>
       \/ \E f \in todo :
            /\ todo' = todo \ {f} /\ UNCHANGED pc
            /\ \/ shared' = [shared EXCEPT ![f] = before[f]] /\ UNCHANGED <<cut, faults>>
               \/ Fault /\ cut' = TRUE /\ UNCHANGED shared
    /\ UNCHANGED <<image_vars, loaded, backup, armed>>

\* The reboot of finalizing_update, which may fail; GRUB boots the armed slot once
Reboots ==
    /\ pc = "finalize"
    /\ (pc' = "new_slot" /\ UNCHANGED faults) \/ (pc' = "failed" /\ Fault)
    /\ UNCHANGED <<image_vars, loaded, shared, backup, todo, armed, cut>>

PowerLoss ==
    /\ pc \in {"load", "prepare", "backup", "install", "arm", "restore", "failed", "finalize"}
    /\ Fault /\ pc' = IF armed THEN "new_slot" ELSE "old_slot"
    /\ cut' = (cut \/ (pc \in {"install", "arm", "restore"} /\ shared # before))
    /\ UNCHANGED <<image_vars, loaded, shared, backup, todo, armed>>

ConfigOver == pc \in {"failed", "old_slot", "new_slot"} /\ UNCHANGED config_vars

PostUpdate ==
    \/ LoadOtaConfigFilesFromImage \/ PrepareStandby \/ BackupOtaConfigFiles
    \/ InstallOtaConfigFiles \/ GrubRebootToStandby \/ RestoreOtaConfigFiles \/ Reboots

ConfigNext == PostUpdate \/ PowerLoss \/ ConfigOver

(***************************************************************************)
(* Properties                                                              *)
(***************************************************************************)
ConfigTypeOK ==
    /\ loaded \subseteq Files /\ backup \subseteq Files /\ todo \subseteq Files
    /\ shared \in [Files -> {"none", "old", "new"}]

\* _install_new_ota_config_files_and_switch_boot: "the current slot is not
\* left with the new ones".  Not so when power is lost between the first
\* install and grub-reboot, or when a file cannot be restored.
NotLeftWithNew == pc \in {"failed", "old_slot"} /\ ~armed => shared = before

\* A write or a grub-reboot that fails leaves the old slot the files it had,
\* unless power is lost or a restore fails as well; once the switch is made,
\* the files are the new slot's
OldSlotKeepsConfig == pc \in {"failed", "old_slot"} => shared = before \/ cut \/ armed

\* The new slot runs with the files its image ships, where the image may
\* replace them, and with the current ones elsewhere: none of an image of
\* another ECU, none that the image asks to persist
NewSlotHasConfig ==
    pc = "new_slot" =>
        \A f \in Files : shared[f] =
            IF ~links /\ f \notin persisted /\ image[f] = "valid"
               /\ ("ecu_info" \in persisted \/ image["ecu_info"] # "other_ecu")
            THEN "new" ELSE before[f]
=============================================================================
