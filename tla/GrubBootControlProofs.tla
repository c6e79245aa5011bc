----------------------- MODULE GrubBootControlProofs -----------------------
(***************************************************************************)
(* Proofs about the GRUB boot controller (GrubBootControl): wherever an    *)
(* update is cut short, the slot that runs holds a whole image, and GRUB's *)
(* default entry can be booted.                                            *)
(***************************************************************************)
EXTENDS GrubBootControl, TLAPS

Bootstrap == {"bootstrap_dir", "unlink_kernel", "link_kernel", "unlink_initrd", "link_initrd",
              "bootstrap_cfg", "bootstrap_default", "bootstrap_grub_cfg"}

\* Where an update is once pre_update has begun, and where the menu entry of the
\* standby slot is away
InUpdate == (UpdateSteps \ {"pre_status"}) \union {"reboot"}
EntryAway == {"in_update"} \union (PostUpdate \ {"grub_reboot"})

SlotsTyped ==
    /\ rootfs \in [Slots -> {"empty", "mixed", "complete"}]
    /\ otaclient \in [Slots -> {"old", "new"}]
    /\ boot_files \in [Slots -> BOOLEAN]
    /\ boot_cfg \in [Slots -> BOOLEAN]
    /\ grub_cfg \in {"unmanaged", "old", "new"}
    /\ saved_entry \in Slots
    /\ next_entry \in Slots \union {NoSlot}
    /\ current \in Slots \union {NoSlot}

FlagsTyped == trial \in BOOLEAN /\ risked \in BOOLEAN

\* The slot has a whole image and, once otaclient manages GRUB, an entry with its kernel
Whole(s) ==
    /\ rootfs[s] = "complete"
    /\ grub_cfg # "unmanaged" => boot_cfg[s] /\ boot_files[s]

\* Until otaclient has taken GRUB over, the installed slot runs and is the default,
\* no update can begin, and a file is gone from the root of /boot only when it was copied
FreshInv ==
    /\ pc = "down" <=> current = NoSlot
    /\ grub_cfg = "unmanaged" =>
          /\ rootfs[SlotA] = "complete" /\ saved_entry = SlotA
          /\ current \in {SlotA, NoSlot}
          /\ pc \in {"down", "no_controller", "detect"} \union Bootstrap
          /\ boot_root = BootFiles \/ boot_files[SlotA]
    /\ pc \in Bootstrap \ {"bootstrap_dir"} => boot_files[current]
    /\ pc \in {"bootstrap_default", "bootstrap_grub_cfg"} => boot_cfg[current]
    /\ pc = "bootstrap_grub_cfg" => saved_entry = current

\* An entry of the menu with its kernel has no half written image behind it
EntriesInv ==
    /\ \A s \in Slots : boot_cfg[s] /\ boot_files[s] => rootfs[s] # "mixed"
    /\ current # NoSlot => Whole(current)

\* An update that runs on the default slot leaves the default slot alone
UpdatingInv ==
    /\ current # NoSlot => trial \/ saved_entry = current
    /\ pc \in InUpdate => saved_entry = current \/ risked
    /\ pc \in EntryAway => boot_cfg[standby] = FALSE
    /\ pc = "setup_cfg" => rootfs[standby] = "complete"

DefaultInv == risked \/ Whole(saved_entry)

\* The inductive invariant
GrubIInv ==
    /\ SlotsTyped /\ FlagsTyped /\ FreshInv /\ EntriesInv /\ UpdatingInv /\ DefaultInv

\* The two slots are each other's standby.
LEMMA OtherSlot ==
    ASSUME NEW s \in Slots
    PROVE  Other(s) \in Slots /\ Other(s) # s /\ \A t \in Slots : t # s => t = Other(s)
  BY SlotsAssumption DEF Slots, Other

\* The steps that write the status files only, or nothing
Quiet ==
    \/ OtaclientRestarts \/ DetectSetupCase \/ LoadSlotInUse \/ LoadStatus
    \/ StoreSuccess \/ StartupFails \/ StartUpdate \/ PreUpdateSlotInUse
    \/ RemoveBootSlotDir /\ UNCHANGED boot_files
    \/ MakeBootSlotDir \/ PostUpdateStandby \/ PostUpdateSlotInUse \/ FailureStep

kept_vars == <<rootfs, otaclient, boot_files, boot_root, boot_cfg, grub_cfg, saved_entry,
               next_entry, current, trial, risked>>

\* A quiet step changes neither a slot nor what GRUB reads.
LEMMA QuietFrame == ASSUME Quiet PROVE UNCHANGED kept_vars
  BY DEF Quiet, OtaclientRestarts, DetectSetupCase, LoadSlotInUse, LoadStatus, StoreSuccess,
         StartupFails, StartUpdate, PreUpdateSlotInUse, RemoveBootSlotDir, MakeBootSlotDir,
         PostUpdateStandby, PostUpdateSlotInUse, FailureStep, UpdateFails, PrepareFails,
         OnFailure, OnFailureStandby, OnFailureRaises, StoreFailureInfo, OnAbort, StoreStatus,
         part_vars, dir_vars, grub_vars, proc_vars, hist_vars, kept_vars

\* A quiet step goes no further in the update than the one after it, and takes up an
\* update or a normal start only when otaclient manages GRUB.
LEMMA QuietMoves ==
    ASSUME GrubIInv, Quiet
    PROVE  /\ pc # "down" /\ pc' # "down"
           /\ pc' \in InUpdate => pc \in InUpdate
           /\ pc' \in EntryAway => pc \in EntryAway
           /\ pc' # "setup_cfg" /\ pc' \notin Bootstrap \ {"bootstrap_dir"}
           /\ grub_cfg = "unmanaged" => pc' \in {"no_controller", "detect", "bootstrap_dir"}
  BY DEF Quiet, OtaclientRestarts, DetectSetupCase, LoadSlotInUse, LoadStatus, StoreSuccess,
         StartupFails, StartUpdate, PreUpdateSlotInUse, RemoveBootSlotDir, MakeBootSlotDir,
         PostUpdateStandby, PostUpdateSlotInUse, FailureStep, UpdateFails, PrepareFails,
         OnFailure, OnFailureStandby, OnFailureRaises, StoreFailureInfo, OnAbort, At,
         InUpdate, EntryAway, UpdateSteps, PreUpdate, PostUpdate, Failing, Bootstrap, Startup,
         GrubIInv, FreshInv

\* A quiet step keeps the invariant.
LEMMA QuietKept == ASSUME GrubIInv, Quiet PROVE GrubIInv'
<1>1. UNCHANGED <<rootfs, otaclient, boot_files, boot_root, boot_cfg, grub_cfg, saved_entry,
                  next_entry, current, trial, risked>>
  BY QuietFrame DEF kept_vars
<1>2. SlotsTyped' /\ FlagsTyped' /\ EntriesInv' /\ DefaultInv'
  BY <1>1 DEF GrubIInv, SlotsTyped, FlagsTyped, EntriesInv, DefaultInv, Whole
<1>3. FreshInv'
  BY <1>1, QuietMoves DEF GrubIInv, FreshInv, Bootstrap
<1>4. UpdatingInv'
  BY <1>1, QuietMoves DEF GrubIInv, UpdatingInv, standby
<1>5. QED
  BY <1>2, <1>3, <1>4 DEF GrubIInv

\* Going down and coming up keep it: GRUB starts only an entry whose kernel it finds.
LEMMA PowerKept ==
    ASSUME GrubIInv, Boot \/ PowerLoss \/ FinalizingUpdate PROVE GrubIInv'
<1> USE DEF part_vars, dir_vars, grub_vars
<1>1. UNCHANGED <<rootfs, otaclient, boot_files, boot_root, boot_cfg, grub_cfg, saved_entry,
                  risked>>
  BY DEF Boot, PowerLoss, FinalizingUpdate
<1>2. CASE current' = NoSlot
  <2>1. pc' = "down" /\ trial' \in BOOLEAN /\ next_entry' \in Slots \union {NoSlot}
    BY <1>2, SlotsAssumption
       DEF Boot, PowerLoss, FinalizingUpdate, At, GrubIInv, FreshInv, FlagsTyped, SlotsTyped,
           GrubEntry, Other, Slots
  <2>2. SlotsTyped' /\ FlagsTyped' /\ EntriesInv' /\ DefaultInv'
    BY <1>1, <1>2, <2>1 DEF GrubIInv, SlotsTyped, FlagsTyped, EntriesInv, DefaultInv, Whole
  <2>3. FreshInv' /\ UpdatingInv'
    BY <1>1, <1>2, <2>1 DEF GrubIInv, FreshInv, UpdatingInv, Bootstrap, InUpdate, EntryAway,
                            UpdateSteps, PreUpdate, PostUpdate
  <2>4. QED
    BY <2>2, <2>3 DEF GrubIInv
<1>3. CASE current' # NoSlot
  <2>1. /\ Boot /\ Bootable(GrubEntry) /\ current' = GrubEntry /\ pc' = "detect"
        /\ trial' = (GrubEntry # saved_entry) /\ next_entry' = NoSlot
    BY <1>3, Zenon DEF Boot, PowerLoss, FinalizingUpdate
  <2>2. GrubEntry \in Slots /\ (grub_cfg = "unmanaged" => GrubEntry = SlotA)
    <3>1. \A s \in Slots : Other(s) \in Slots
      BY OtherSlot
    <3>2. SlotA \in Slots
      BY DEF Slots
    <3>3. QED
      BY <3>1, <3>2 DEF GrubEntry, GrubIInv, SlotsTyped
  <2>3. Whole(GrubEntry)
    BY <2>1, <2>2 DEF Bootable, Whole, GrubIInv, SlotsTyped, EntriesInv, FreshInv
  <2>4. trial' \in BOOLEAN /\ (trial' \/ saved_entry = GrubEntry)
    BY <2>1, Zenon
  <2>5. SlotsTyped' /\ FlagsTyped' /\ EntriesInv' /\ DefaultInv'
    BY <1>1, <2>1, <2>2, <2>3, <2>4
       DEF GrubIInv, SlotsTyped, FlagsTyped, EntriesInv, DefaultInv, Whole
  <2>6. FreshInv' /\ UpdatingInv'
    BY <1>1, <2>1, <2>2, <2>4, SlotsAssumption
       DEF GrubIInv, FreshInv, UpdatingInv, Bootstrap, InUpdate, EntryAway, UpdateSteps,
           PreUpdate, PostUpdate, Slots
  <2>7. QED
    BY <2>5, <2>6 DEF GrubIInv
<1>4. QED
  BY <1>2, <1>3

\* What the controller writes for the slot that runs: the bootstrap, the default entry,
\* and the begin and the end of an update
WritesCurrent ==
    \/ BootstrapSetupBootSlotDir \/ \E f \in BootFiles : BootstrapUnlink(f) \/ BootstrapLink(f)
    \/ BootstrapSetupBootCfg \/ BootstrapSetDefault
    \/ BootstrapWriteGrubCfg \/ FinalizeSwitchBoot \/ PreUpdateCurrent \/ GrubRebootToStandby

\* The slot that runs is a slot throughout these steps.
LEMMA CurrentIsSlot ==
    ASSUME GrubIInv, pc # "down" PROVE current \in Slots /\ current # NoSlot
  BY SlotsAssumption DEF GrubIInv, FreshInv, SlotsTyped, Slots

\* They keep the invariant.
LEMMA CurrentKept == ASSUME GrubIInv, WritesCurrent PROVE GrubIInv'
<1> USE DEF part_vars, dir_vars, grub_vars, proc_vars, hist_vars, At
<1>1. current \in Slots /\ current # NoSlot /\ pc # "down"
  <2>1. pc # "down"
    BY DEF WritesCurrent, BootstrapSetupBootSlotDir, BootstrapUnlink, BootstrapLink, Unlinks,
       Links, BootFiles, BootstrapSetupBootCfg, BootstrapSetDefault, BootstrapWriteGrubCfg,
       FinalizeSwitchBoot, PreUpdateCurrent, GrubRebootToStandby
  <2>2. QED
    BY <2>1, CurrentIsSlot
<1>2. Whole(current)
  BY <1>1 DEF GrubIInv, EntriesInv
<1> USE DEF SlotsTyped, FreshInv, EntriesInv, UpdatingInv, DefaultInv, Whole, Bootstrap,
            InUpdate, EntryAway, UpdateSteps, PreUpdate, PostUpdate
<1>3. CASE BootstrapSetupBootSlotDir
  BY <1>1, <1>2, <1>3 DEF BootstrapSetupBootSlotDir, GrubIInv, FlagsTyped
<1>4. CASE BootstrapSetupBootCfg
  BY <1>1, <1>2, <1>4 DEF BootstrapSetupBootCfg, GrubIInv, FlagsTyped
<1>5. CASE BootstrapSetDefault
  BY <1>1, <1>2, <1>5 DEF BootstrapSetDefault, GrubSetDefault, GrubIInv, FlagsTyped
<1>6. CASE BootstrapWriteGrubCfg
  BY <1>1, <1>2, <1>6 DEF BootstrapWriteGrubCfg, GrubIInv, FlagsTyped
<1>7. CASE FinalizeSwitchBoot
  BY <1>1, <1>2, <1>7 DEF FinalizeSwitchBoot, GrubSetDefault, GrubIInv, FlagsTyped
<1>8. CASE PreUpdateCurrent
  <2>1. risked' \in BOOLEAN /\ (risked => risked') /\ (trial => risked')
    BY <1>8, Zenon DEF PreUpdateCurrent
  <2>2. QED
    BY <1>1, <1>2, <1>8, <2>1 DEF PreUpdateCurrent, GrubIInv, FlagsTyped
<1>9. CASE GrubRebootToStandby
  <2>1. standby \in Slots
    BY <1>1, OtherSlot DEF standby
  <2>2. QED
    BY <1>1, <1>2, <1>9, <2>1 DEF GrubRebootToStandby, GrubIInv, FlagsTyped
<1>10. CASE \E f \in BootFiles : BootstrapUnlink(f) \/ BootstrapLink(f)
  <2>1. /\ pc \in Bootstrap \ {"bootstrap_dir", "bootstrap_default", "bootstrap_grub_cfg"}
        /\ pc' \in Bootstrap \ {"bootstrap_dir", "bootstrap_default", "bootstrap_grub_cfg"}
        /\ UNCHANGED <<rootfs, otaclient, boot_files, boot_cfg, grub_cfg, saved_entry,
                       next_entry, current, trial, risked>>
    BY <1>10 DEF BootstrapUnlink, BootstrapLink, Unlinks, Links, BootFiles
  <2>2. SlotsTyped' /\ FlagsTyped' /\ EntriesInv' /\ DefaultInv' /\ UpdatingInv'
    BY <2>1 DEF GrubIInv, FlagsTyped
  <2>3. boot_files[current] /\ (grub_cfg = "unmanaged" => current = SlotA)
    BY <1>1, <2>1 DEF GrubIInv
  <2>4. FreshInv'
    BY <1>1, <2>1, <2>3 DEF GrubIInv
  <2>5. QED
    BY <2>2, <2>4 DEF GrubIInv
<1>11. QED
  BY <1>3, <1>4, <1>5, <1>6, <1>7, <1>8, <1>9, <1>10 DEF WritesCurrent

\* What it writes for the standby slot
WritesStandby ==
    \/ PrepareStandby
    \/ RemoveBootSlotDir /\ boot_files' = [boot_files EXCEPT ![standby] = FALSE]
    \/ RemoveBootCfg \/ InUpdateWrites \/ InUpdateDone \/ SetupBootSlotDir \/ SetupSlotRootfs
    \/ SetupOtaBootCfg

\* That keeps the invariant too.
LEMMA StandbyKept == ASSUME GrubIInv, WritesStandby PROVE GrubIInv'
<1> USE DEF part_vars, dir_vars, grub_vars, proc_vars, hist_vars, At
<1>1. /\ pc \in InUpdate /\ pc' \in InUpdate
      /\ UNCHANGED <<grub_cfg, saved_entry, next_entry, current, trial, risked>>
  BY DEF WritesStandby, PrepareStandby, RemoveBootSlotDir, RemoveBootCfg, InUpdateWrites,
         InUpdateDone, SetupBootSlotDir, SetupSlotRootfs, SetupOtaBootCfg, InUpdate,
         UpdateSteps, PreUpdate, PostUpdate
<1>2. pc # "down" /\ pc' # "down" /\ pc \notin Bootstrap /\ pc' \notin Bootstrap
      /\ pc \notin {"no_controller", "detect"}
  BY <1>1 DEF InUpdate, UpdateSteps, PreUpdate, PostUpdate, Bootstrap
<1>3. current \in Slots /\ current # NoSlot
  BY <1>2, CurrentIsSlot
<1>4. /\ standby \in Slots /\ standby # current /\ standby' = standby
      /\ \A s \in Slots : s = current \/ s = standby
  BY <1>1, <1>3, OtherSlot DEF standby
<1>5. grub_cfg # "unmanaged" /\ (saved_entry = current \/ risked)
  BY <1>1, <1>2 DEF GrubIInv, FreshInv, UpdatingInv
<1>6. FlagsTyped' /\ FreshInv'
  BY <1>1, <1>2, <1>3, <1>5 DEF GrubIInv, FlagsTyped, FreshInv, Bootstrap
<1>7. SlotsTyped'
  BY <1>1, <1>4
     DEF GrubIInv, SlotsTyped, WritesStandby, PrepareStandby, RemoveBootSlotDir, RemoveBootCfg,
         InUpdateWrites, InUpdateDone, SetupBootSlotDir, SetupSlotRootfs, SetupOtaBootCfg
<1>8. /\ rootfs'[current] = rootfs[current] /\ boot_files'[current] = boot_files[current]
      /\ boot_cfg'[current] = boot_cfg[current]
  BY <1>3, <1>4
     DEF GrubIInv, SlotsTyped, WritesStandby, PrepareStandby, RemoveBootSlotDir, RemoveBootCfg,
         InUpdateWrites, InUpdateDone, SetupBootSlotDir, SetupSlotRootfs, SetupOtaBootCfg
<1>9. Whole(current)'
  BY <1>1, <1>3, <1>8 DEF GrubIInv, EntriesInv, Whole
<1>10. DefaultInv'
  BY <1>1, <1>5, <1>9 DEF DefaultInv
<1>11. UpdatingInv' /\ (boot_cfg'[standby] /\ boot_files'[standby] => rootfs'[standby] # "mixed")
  <2> USE DEF GrubIInv, SlotsTyped, UpdatingInv, EntriesInv, EntryAway, PostUpdate
  <2>1. CASE PrepareStandby
    BY <1>1, <1>3, <1>4, <1>5, <2>1 DEF PrepareStandby
  <2>2. CASE RemoveBootSlotDir /\ boot_files' = [boot_files EXCEPT ![standby] = FALSE]
    BY <1>1, <1>3, <1>4, <1>5, <2>2 DEF RemoveBootSlotDir
  <2>3. CASE RemoveBootCfg
    BY <1>1, <1>3, <1>4, <1>5, <2>3 DEF RemoveBootCfg
  <2>4. CASE InUpdateWrites
    BY <1>1, <1>3, <1>4, <1>5, <2>4 DEF InUpdateWrites
  <2>5. CASE InUpdateDone
    BY <1>1, <1>3, <1>4, <1>5, <2>5 DEF InUpdateDone
  <2>6. CASE SetupBootSlotDir
    BY <1>1, <1>3, <1>4, <1>5, <2>6 DEF SetupBootSlotDir
  <2>7. CASE SetupSlotRootfs
    BY <1>1, <1>3, <1>4, <1>5, <2>7 DEF SetupSlotRootfs
  <2>8. CASE SetupOtaBootCfg
    BY <1>1, <1>3, <1>4, <1>5, <2>8 DEF SetupOtaBootCfg
  <2>9. QED
    BY <2>1, <2>2, <2>3, <2>4, <2>5, <2>6, <2>7, <2>8 DEF WritesStandby
<1>12. EntriesInv'
  BY <1>1, <1>3, <1>4, <1>9, <1>11 DEF EntriesInv, Whole
<1>13. QED
  BY <1>6, <1>7, <1>10, <1>11, <1>12 DEF GrubIInv

\* Every step is one of these.
LEMMA StepKinds ==
    ASSUME Next
    PROVE  \/ Quiet \/ Boot \/ PowerLoss \/ FinalizingUpdate \/ WritesCurrent \/ WritesStandby
<1>1. RemoveBootSlotDir =>
         UNCHANGED boot_files \/ boot_files' = [boot_files EXCEPT ![standby] = FALSE]
  BY DEF RemoveBootSlotDir
<1>2. QED
  BY <1>1 DEF Next, PowerStep, StartupStep, PreUpdateStep, PostUpdateStep, Quiet,
              WritesCurrent, WritesStandby

\* The invariant holds in every reachable state.
THEOREM GrubInductive == Spec => []GrubIInv
<1>1. Init => GrubIInv
  <2> SUFFICES ASSUME Init PROVE GrubIInv
    OBVIOUS
  <2> USE DEF Init, Slots
  <2>1. SlotsTyped /\ FlagsTyped
    BY DEF SlotsTyped, FlagsTyped
  <2>2. EntriesInv /\ DefaultInv
    BY DEF EntriesInv, DefaultInv, Whole
  <2>3. FreshInv /\ UpdatingInv
    BY DEF FreshInv, UpdatingInv, Bootstrap, InUpdate, EntryAway, UpdateSteps, PreUpdate,
           PostUpdate
  <2>4. QED
    BY <2>1, <2>2, <2>3 DEF GrubIInv
<1>2. ASSUME GrubIInv, [Next]_vars PROVE GrubIInv'
  <2>1. CASE UNCHANGED vars
    BY <1>2, <2>1
       DEF vars, part_vars, dir_vars, grub_vars, proc_vars, hist_vars, GrubIInv, SlotsTyped,
           FlagsTyped, FreshInv, EntriesInv, UpdatingInv, DefaultInv, Whole, standby
  <2>2. CASE Next
    BY <1>2, <2>2, StepKinds, QuietKept, PowerKept, CurrentKept, StandbyKept
  <2>3. QED
    BY <1>2, <2>1, <2>2
<1>3. QED
  BY <1>1, <1>2, PTL DEF Spec

\* pre_update and post_update of _grub_new.py: a slot is started only with all of its
\* image, wherever the update of it was cut short.
THEOREM GrubRunsWhole == Spec => []RunningImageComplete
<1>1. GrubIInv => RunningImageComplete
  BY DEF GrubIInv, EntriesInv, Whole, RunningImageComplete
<1>2. QED
  BY <1>1, GrubInductive, PTL

\* GRUB's default entry can be booted after every write, unless an update was started
\* from a slot on trial or the first bootstrap was cut short between remove_file and
\* os.link of a boot file; then the file is in the slot's directory.
THEOREM GrubDefaultBootable == Spec => []DefaultBootable
<1>1. GrubIInv => DefaultBootable
  BY SlotsAssumption DEF GrubIInv, DefaultInv, FreshInv, Whole, Bootable, Unlinked, DefaultBootable
<1>2. QED
  BY <1>1, GrubInductive, PTL
=============================================================================
