------------------------ MODULE OtaConfigFilesProofs ------------------------
(***************************************************************************)
(* Proofs about the config files of an update by the GRUB controller       *)
(* (OtaConfigFiles), for any number of failing writes and power losses.    *)
(***************************************************************************)
EXTENDS OtaConfigFiles, TLAPS

ConfigSpec == ConfigInit /\ [][ConfigNext]_config_vars

\* The files still as they were before the update are the ones outside X
ChangedIn(X) == \A f \in Files \ X : shared[f] = before[f]

FilesTyped ==
    /\ shared \in [Files -> {"none", "old", "new"}]
    /\ before \in [Files -> {"none", "old"}]
    /\ loaded \subseteq Files

\* Nothing is installed before the backup; during the installation exactly the
\* loaded files that are not to do any more are new; a switch comes with all of
\* them; the restore has left what is to do, all of which is backed up
StepsInv ==
    /\ pc \notin {"load", "old_slot"} => loaded = LoadedFiles
    /\ pc \in {"load", "prepare", "backup"} => shared = before
    /\ pc \in {"install", "arm"} =>
          /\ backup = loaded /\ todo \subseteq loaded
          /\ \A f \in loaded \ todo : shared[f] = "new"
          /\ ChangedIn(loaded \ todo)
    /\ pc = "arm" => todo = {}
    /\ armed # FALSE => (\A f \in loaded : shared[f] = "new") /\ ChangedIn(loaded)
    /\ pc = "restore" => ChangedIn(todo) \/ cut
    /\ pc \in {"failed", "old_slot"} => shared = before \/ cut \/ armed

\* grub-reboot is the last thing that can fail before the reboot
ArmedInv ==
    /\ pc \in {"load", "prepare", "backup", "install", "arm", "restore", "old_slot"} => armed = FALSE
    /\ pc \in {"finalize", "new_slot"} => armed = TRUE
    /\ armed \in BOOLEAN

\* The inductive invariant
ConfigIInv == FilesTyped /\ StepsInv /\ ArmedInv

\* Every step keeps the types of the files.
LEMMA TypedKept == ASSUME FilesTyped, ConfigNext PROVE FilesTyped'
  BY DEF FilesTyped, ConfigNext, PostUpdate, LoadOtaConfigFilesFromImage, LoadedFiles, Taken,
         PrepareStandby, BackupOtaConfigFiles, InstallOtaConfigFiles, GrubRebootToStandby,
         RestoreOtaConfigFiles, Reboots, PowerLoss, ConfigOver, config_vars, image_vars

\* Every step keeps the invariant.
LEMMA ConfigKept == ASSUME ConfigIInv, ConfigNext PROVE ConfigIInv'
<1>1. FilesTyped'
  BY TypedKept DEF ConfigIInv
<1> USE DEF ConfigIInv, FilesTyped, StepsInv, ArmedInv, ChangedIn, LoadedFiles, Taken,
            ForOtherEcu, image_vars
<1>2. CASE LoadOtaConfigFilesFromImage
  BY <1>1, <1>2 DEF LoadOtaConfigFilesFromImage
<1>3. CASE PrepareStandby
  BY <1>1, <1>3 DEF PrepareStandby
<1>4. CASE BackupOtaConfigFiles
  BY <1>1, <1>4 DEF BackupOtaConfigFiles
<1>5. CASE InstallOtaConfigFiles
  <2> USE <1>5 DEF InstallOtaConfigFiles
  <2>1. CASE pc' = "install"
    <3>1. PICK f \in todo : shared' = [shared EXCEPT ![f] = "new"] /\ todo' = todo \ {f}
      BY <2>1
    <3>2. armed = FALSE /\ armed' = FALSE /\ pc = "install"
      BY <2>1
    <3>3. \A g \in (loaded \ todo)' : shared'[g] = "new"
      BY <1>1, <2>1, <3>1, <3>2
    <3>4. ChangedIn(loaded \ todo)'
      BY <1>1, <2>1, <3>1, <3>2
    <3>5. loaded' = LoadedFiles'
      BY <3>2
    <3>6. backup' = loaded' /\ todo' \subseteq loaded'
      BY <3>1, <3>2
    <3> HIDE DEF ChangedIn, LoadedFiles
    <3>7. QED
      BY <1>1, <2>1, <3>2, <3>3, <3>4, <3>5, <3>6
  <2>2. CASE pc' = "arm"
    BY <1>1, <2>2
  <2>3. CASE pc' = "restore"
    BY <1>1, <2>3
  <2>4. QED
    BY <2>1, <2>2, <2>3
<1>6. CASE GrubRebootToStandby
  BY <1>1, <1>6 DEF GrubRebootToStandby
<1>7. CASE RestoreOtaConfigFiles
  <2> USE <1>7 DEF RestoreOtaConfigFiles
  <2>1. CASE todo = {} /\ pc' = "failed" /\ UNCHANGED <<shared, todo, cut, faults>>
    <3>1. ChangedIn({}) => shared = before
      OBVIOUS
    <3>2. QED
      BY <1>1, <2>1, <3>1
  <2>2. CASE pc' = "restore"
    <3>1. PICK f \in todo :
             /\ todo' = todo \ {f}
             /\ (shared' = [shared EXCEPT ![f] = before[f]] /\ cut' = cut) \/ cut' = TRUE
      BY <2>2
    <3>2. ChangedIn(todo)' \/ cut'
      BY <1>1, <2>2, <3>1
    <3>3. QED
      BY <1>1, <2>2, <3>2
  <2>3. QED
    BY <2>1, <2>2
<1>8. CASE Reboots
  BY <1>1, <1>8 DEF Reboots
<1>9. CASE PowerLoss
  <2> USE <1>9 DEF PowerLoss
  <2>1. CASE armed
    BY <1>1, <2>1
  <2>2. CASE ~armed
    <3>1. pc' = "old_slot" /\ armed' = armed /\ shared' = shared /\ before' = before
      BY <2>2
    <3>2. pc \in {"install", "arm", "restore"} /\ shared # before => cut'
      BY Zenon
    <3>3. cut => cut'
      BY Zenon
    <3>4. shared' = before' \/ cut'
      BY <2>2, <3>1, <3>2, <3>3
    <3>5. armed = FALSE
      BY <2>2, Zenon
    <3>6. QED
      BY <1>1, <3>1, <3>4, <3>5
  <2>3. QED
    BY <2>1, <2>2
<1>10. CASE ConfigOver
  BY <1>1, <1>10 DEF ConfigOver, config_vars
<1>11. QED
  BY <1>2, <1>3, <1>4, <1>5, <1>6, <1>7, <1>8, <1>9, <1>10 DEF ConfigNext, PostUpdate

\* The invariant holds in every reachable state.
THEOREM ConfigInductive == ConfigSpec => []ConfigIInv
<1>1. ConfigInit => ConfigIInv
  BY DEF ConfigInit, ConfigIInv, FilesTyped, StepsInv, ArmedInv, ChangedIn
<1>2. ASSUME ConfigIInv, [ConfigNext]_config_vars PROVE ConfigIInv'
  <2>1. CASE UNCHANGED config_vars
    BY <1>2, <2>1 DEF ConfigIInv, FilesTyped, StepsInv, ArmedInv, ChangedIn, LoadedFiles,
                      Taken, ForOtherEcu, config_vars
  <2>2. CASE ConfigNext
    BY <1>2, <2>2, ConfigKept
  <2>3. QED
    BY <1>2, <2>1, <2>2
<1>3. QED
  BY <1>1, <1>2, PTL DEF ConfigSpec

\* _install_new_ota_config_files_and_switch_boot: the slot that stays keeps its
\* config files when a write or grub-reboot fails, unless power is lost or a
\* restore fails as well.
THEOREM OldSlotKeeps == ConfigSpec => []OldSlotKeepsConfig
<1>1. ConfigIInv => OldSlotKeepsConfig
  BY DEF ConfigIInv, StepsInv, OldSlotKeepsConfig
<1>2. QED
  BY <1>1, ConfigInductive, PTL

\* load_ota_config_files_from_image and install_ota_config_files: the new slot
\* boots with the files its image may replace replaced, and with no others.
THEOREM NewSlotHas == ConfigSpec => []NewSlotHasConfig
<1>1. ConfigIInv => NewSlotHasConfig
  BY DEF ConfigIInv, FilesTyped, StepsInv, ArmedInv, ChangedIn, LoadedFiles, Taken,
         ForOtherEcu, NewSlotHasConfig, Files
<1>2. QED
  BY <1>1, ConfigInductive, PTL
=============================================================================
