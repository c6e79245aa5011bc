---------------------------- MODULE RpiBootProofs ----------------------------
(***************************************************************************)
(* The Raspberry Pi boot controller (RpiBoot) implements the promise of    *)
(* the A/B layout (ABUpdate), whatever fails, and however often power is   *)
(* lost.                                                                   *)
(***************************************************************************)
EXTENDS RpiBoot, TLAPS

\* Where an update is once pre_update has begun, and where the standby slot is
\* known to have its image, its /boot/ota, its fstab, its kernel and its initrd
InUpdate == {"pre_slot_in_use", "prepare_standby", "mount", "in_update", "reboot"}
                \union PostUpdate \union RpiSteps
HasImage == {"reboot"} \union PostUpdate \union RpiSteps
HasOtaDir == {"umount", "reboot"} \union RpiSteps
HasFstab == HasOtaDir \ {"fstab"}
HasKernel == HasFstab \ {"flash_kernel"}
HasInitrd == HasKernel \ {"replace_initrd"}

SlotsTyped ==
    /\ rootfs \in [Slots -> {"empty", "mixed", "image"}]
    /\ ota_dir \in [Slots -> BOOLEAN]
    /\ fstab \in [Slots -> BOOLEAN]
    /\ vmlinuz \in [Slots -> BOOLEAN]
    /\ initrd \in [Slots -> BOOLEAN]
    /\ default \in Slots
    /\ current \in Slots \union {NoSlot}
    /\ tryboot_txt \in Slots \union {NoSlot}

FlagsTyped == risked \in BOOLEAN /\ tryboot \in BOOLEAN

\* An update that began from the other slot than the default's is at risk
UpdatingInv ==
    /\ pc = "down" <=> current = NoSlot
    /\ pc \in InUpdate => default = current \/ risked

\* What the steps of post_update have made of the standby slot
StandbyInv ==
    /\ pc \in HasImage => rootfs[standby] = "image"
    /\ pc \in HasOtaDir => ota_dir[standby] \/ risked
    /\ pc \in HasFstab => fstab[standby]
    /\ pc \in HasKernel => vmlinuz[standby]
    /\ pc \in HasInitrd => initrd[standby]
    /\ pc \in {"umount", "reboot"} => tryboot_txt = standby

\* tryboot.txt is used only for a whole slot
TrybootInv ==
    tryboot => pc = "down" /\ tryboot_txt \in Slots /\ (risked \/ Whole(tryboot_txt))

\* The default slot and the one that runs are whole unless at risk
BootableInv ==
    risked \/ (Whole(default) /\ (current # NoSlot => Whole(current)))

\* The inductive invariant
RpiIInv ==
    /\ SlotsTyped /\ FlagsTyped /\ UpdatingInv /\ StandbyInv /\ TrybootInv /\ BootableInv

\* The two slots are each other's standby.
LEMMA OtherSlot ==
    ASSUME NEW s \in Slots
    PROVE  Other(s) \in Slots /\ Other(s) # s /\ \A t \in Slots : t # s => t = Other(s)
  BY SlotsAssumption DEF Slots, Other

\* The steps that write neither a slot nor a boot file, and not the boot loader's
\* choice either: the start-up, the status files, the mounts, failure and abort.
QuietBase ==
    \/ OtaclientRestarts \/ ClientUpdateRestarts
    \/ LoadSlotInUse \/ LoadStatus \/ StartupFails
    \/ StartUpdate \/ PreUpdateSlotInUse \/ ReuseStandby
    \/ PostUpdateStandby \/ UmountAll
    \/ OnFailure \/ OnFailureStandby \/ StoreFailureInfo \/ OnAbort
    \/ UpdateFails(RpiSteps)

QuietRpi ==
    \/ RpiStart \/ FinalizeRaises \/ StoreFinalized
    \/ (MountSlots("in_update") \/ PostUpdateSlotInUse("preserve_ota")) /\ UNCHANGED rpi_vars

\* A quiet step changes only where the process is.
LEMMA QuietFrame ==
    ASSUME (QuietBase /\ UNCHANGED rpi_vars) \/ QuietRpi
    PROVE  UNCHANGED <<slot_vars, boot_vars, current, rpi_vars>>
<1> USE DEF slot_vars, file_vars, boot_vars, proc_vars
<1>1. CASE QuietBase /\ UNCHANGED rpi_vars
  BY <1>1 DEF QuietBase, OtaclientRestarts, ClientUpdateRestarts, LoadSlotInUse, LoadStatus,
              StartupFails, StartUpdate, PreUpdateSlotInUse, ReuseStandby, PostUpdateStandby,
              UmountAll, OnFailure, OnFailureStandby, StoreFailureInfo, OnAbort, UpdateFails
<1>2. CASE QuietRpi
  BY <1>2 DEF QuietRpi, RpiStart, FinalizeRaises, StoreFinalized, Finalized, MountSlots,
              PostUpdateSlotInUse
<1>3. QED
  BY <1>1, <1>2

\* It moves the process along: it enters the update only at its begin, and a step
\* of the update only from the one before.
LEMMA QuietMoves ==
    ASSUME RpiIInv, (QuietBase /\ UNCHANGED rpi_vars) \/ QuietRpi
    PROVE  /\ pc # "down" /\ pc' # "down"
           /\ pc' \in InUpdate => pc \in InUpdate
           /\ pc' \in HasImage => pc \in HasImage
           /\ pc' \in HasOtaDir => pc = "umount" /\ pc' = "reboot"
<1> USE DEF InUpdate, HasImage, HasOtaDir, PostUpdate, RpiSteps, At, Startup, PreUpdate,
            Failing, RpiIInv, UpdatingInv
<1>1. CASE QuietBase /\ UNCHANGED rpi_vars
  BY <1>1 DEF QuietBase, OtaclientRestarts, ClientUpdateRestarts, LoadSlotInUse, LoadStatus,
              StartupFails, StartUpdate, PreUpdateSlotInUse, ReuseStandby, PostUpdateStandby,
              UmountAll, OnFailure, OnFailureStandby, StoreFailureInfo, OnAbort, UpdateFails
<1>2. CASE QuietRpi
  BY <1>2 DEF QuietRpi, RpiStart, FinalizeRaises, StoreFinalized, Finalized, MountSlots,
              PostUpdateSlotInUse
<1>3. QED
  BY <1>1, <1>2

\* A quiet step keeps the invariant.
LEMMA QuietKept ==
    ASSUME RpiIInv, (QuietBase /\ UNCHANGED rpi_vars) \/ QuietRpi
    PROVE  RpiIInv'
<1>1. UNCHANGED <<rootfs, ota_dir, default, risked, current, tryboot_txt, tryboot,
                  fstab, vmlinuz, initrd>>
  BY QuietFrame DEF slot_vars, boot_vars, rpi_vars, file_part_vars
<1>2. SlotsTyped' /\ FlagsTyped' /\ BootableInv'
  BY <1>1 DEF RpiIInv, SlotsTyped, FlagsTyped, BootableInv, Whole
<1>3. TrybootInv' /\ UpdatingInv'
  BY <1>1, QuietMoves DEF RpiIInv, TrybootInv, UpdatingInv
<1>4. StandbyInv'
  BY <1>1, QuietMoves DEF RpiIInv, StandbyInv, standby, HasInitrd, HasKernel, HasFstab,
                          HasOtaDir, HasImage, PostUpdate, RpiSteps
<1>5. QED
  BY <1>2, <1>3, <1>4 DEF RpiIInv

\* Going down and coming up keep it.
LEMMA PowerKept ==
    ASSUME RpiIInv, Boot \/ RebootTryboot \/ TrybootLost \/ (PowerLoss /\ UNCHANGED rpi_vars)
    PROVE  RpiIInv'
<1> USE DEF slot_vars, boot_vars, proc_vars, rpi_vars, file_part_vars
<1>0. UNCHANGED <<rootfs, ota_dir, default, risked, tryboot_txt, fstab, vmlinuz, initrd>>
  BY DEF Boot, BootInto, RebootTryboot, TrybootLost, PowerLoss
<1>1. CASE Boot
  <2>1. current' \in Slots /\ (risked \/ Whole(current'))
    BY <1>1 DEF Boot, BootInto, RpiIInv, SlotsTyped, TrybootInv, BootableInv
  <2>2. pc' = "start" /\ tryboot' = FALSE
    BY <1>1 DEF Boot, BootInto
  <2>3. SlotsTyped' /\ FlagsTyped' /\ BootableInv' /\ TrybootInv'
    BY <1>0, <2>1, <2>2 DEF RpiIInv, SlotsTyped, FlagsTyped, BootableInv, TrybootInv, Whole
  <2>4. UpdatingInv' /\ StandbyInv'
    BY <2>1, <2>2, SlotsAssumption
       DEF UpdatingInv, StandbyInv, InUpdate, HasImage, HasOtaDir, HasFstab, HasKernel,
           HasInitrd, PostUpdate, RpiSteps, Slots
  <2>5. QED
    BY <2>3, <2>4 DEF RpiIInv
<1>2. CASE ~Boot
  <2>1. pc' = "down" /\ current' = NoSlot
    BY <1>2 DEF RebootTryboot, TrybootLost, PowerLoss, At, RpiIInv, UpdatingInv
  <2>2. TrybootInv' /\ FlagsTyped'
    <3>1. CASE RebootTryboot
      <4>1. pc = "reboot" /\ tryboot_txt = standby /\ current \in Slots
        BY <3>1, SlotsAssumption DEF RebootTryboot, At, RpiIInv, StandbyInv, UpdatingInv,
                                     SlotsTyped
      <4>2. risked \/ Whole(standby)
        BY <4>1 DEF RpiIInv, StandbyInv, Whole, HasImage, HasOtaDir, HasFstab, HasKernel,
                    HasInitrd, PostUpdate, RpiSteps
      <4>3. standby \in Slots
        BY <4>1, OtherSlot DEF standby
      <4>4. tryboot' = TRUE
        BY <3>1 DEF RebootTryboot
      <4>5. QED
        BY <1>0, <2>1, <4>1, <4>2, <4>3, <4>4 DEF TrybootInv, Whole, FlagsTyped, RpiIInv
    <3>2. CASE ~RebootTryboot
      <4>1. tryboot' = FALSE \/ (tryboot' = tryboot /\ pc # "down")
        BY <1>2, <3>2 DEF TrybootLost, PowerLoss, RpiIInv, UpdatingInv
      <4>2. tryboot' = FALSE
        BY <4>1 DEF RpiIInv, TrybootInv, FlagsTyped
      <4>3. TrybootInv'
        BY <4>2 DEF TrybootInv
      <4>4. QED
        BY <1>0, <4>2, <4>3 DEF RpiIInv, FlagsTyped
    <3>3. QED
      BY <3>1, <3>2
  <2>3. SlotsTyped' /\ BootableInv'
    BY <1>0, <2>1 DEF RpiIInv, SlotsTyped, BootableInv, Whole
  <2>4. UpdatingInv' /\ StandbyInv'
    BY <2>1 DEF UpdatingInv, StandbyInv, InUpdate, HasImage, HasOtaDir, HasFstab, HasKernel,
                HasInitrd, PostUpdate, RpiSteps
  <2>5. QED
    BY <2>2, <2>3, <2>4 DEF RpiIInv
<1>3. QED
  BY <1>1, <1>2

\* The boot files are written by a slot that runs: config.txt when its switch is
\* finalised, tryboot.txt then and at the end of an update.
LEMMA BootFilesKept ==
    ASSUME RpiIInv, FinalizeConfigTxt \/ FinalizeTrybootTxt \/ PrepareTrybootTxt \/ RpiPreUpdate
    PROVE  RpiIInv'
<1> USE DEF slot_vars, boot_vars, proc_vars, rpi_vars, file_part_vars, FinalizeConfigTxt,
            FinalizeTrybootTxt, PrepareTrybootTxt, ReplaceConfigTxt, ReplaceTrybootTxt,
            RpiPreUpdate, PreUpdateCurrent, At
<1>1. UNCHANGED <<rootfs, ota_dir, current, tryboot, fstab, vmlinuz, initrd>>
  OBVIOUS
<1>2. pc # "down" /\ pc' # "down" /\ current \in Slots
  BY SlotsAssumption DEF RpiIInv, UpdatingInv, SlotsTyped
<1>3. FlagsTyped'
  <2>1. risked' \in BOOLEAN
    BY Zenon DEF RpiIInv, FlagsTyped
  <2>2. QED
    BY <1>1, <2>1 DEF RpiIInv, FlagsTyped
<1>4. standby \in Slots /\ standby' = standby
  BY <1>1, <1>2, OtherSlot DEF standby
<1>5. SlotsTyped'
  BY <1>1, <1>2, <1>4 DEF RpiIInv, SlotsTyped
<1>6. TrybootInv'
  BY <1>1, <1>2 DEF RpiIInv, TrybootInv
<1>7. CASE FinalizeConfigTxt
  <2>1. risked' \/ Whole(current)
    <3>1. risked \/ Whole(current)
      BY <1>2, SlotsAssumption DEF RpiIInv, BootableInv, Slots
    <3>2. risked' = (risked /\ ~Whole(current))
      BY <1>7
    <3>3. QED
      BY <3>1, <3>2, Zenon
  <2>2. BootableInv'
    BY <1>1, <1>7, <2>1 DEF BootableInv, Whole
  <2>3. UpdatingInv' /\ StandbyInv'
    BY <1>1, <1>2, <1>7, SlotsAssumption
       DEF UpdatingInv, StandbyInv, InUpdate, HasImage, HasOtaDir, HasFstab, HasKernel,
           HasInitrd, PostUpdate, RpiSteps, Slots
  <2>4. QED
    BY <1>3, <1>5, <1>6, <2>2, <2>3 DEF RpiIInv
<1>8. CASE FinalizeTrybootTxt
  <2>1. BootableInv' /\ UpdatingInv' /\ StandbyInv'
    BY <1>1, <1>2, <1>8, SlotsAssumption
       DEF RpiIInv, BootableInv, Whole, UpdatingInv, StandbyInv, InUpdate, HasImage, HasOtaDir,
           HasFstab, HasKernel, HasInitrd, PostUpdate, RpiSteps, Slots
  <2>2. QED
    BY <1>3, <1>5, <1>6, <2>1 DEF RpiIInv
<1>9. CASE PrepareTrybootTxt
  <2>1. BootableInv' /\ UpdatingInv'
    BY <1>1, <1>2, <1>9, SlotsAssumption
       DEF RpiIInv, BootableInv, Whole, UpdatingInv, InUpdate, PostUpdate, RpiSteps, Slots
  <2>2. StandbyInv'
    BY <1>1, <1>4, <1>9
       DEF RpiIInv, StandbyInv, HasImage, HasOtaDir, HasFstab, HasKernel, HasInitrd,
           PostUpdate, RpiSteps
  <2>3. QED
    BY <1>3, <1>5, <1>6, <2>1, <2>2 DEF RpiIInv
<1>10. CASE RpiPreUpdate
  <2>1. risked => risked'
    BY <1>10, Zenon
  <2>2. default = current \/ risked'
    BY <1>10, Zenon
  <2>3. BootableInv'
    BY <1>1, <1>10, <2>1 DEF RpiIInv, BootableInv, Whole
  <2>4. UpdatingInv' /\ StandbyInv'
    BY <1>1, <1>2, <1>10, <2>2, SlotsAssumption
       DEF UpdatingInv, StandbyInv, InUpdate, HasImage, HasOtaDir, HasFstab, HasKernel,
           HasInitrd, PostUpdate, RpiSteps, Slots
  <2>5. QED
    BY <1>3, <1>5, <1>6, <2>3, <2>4 DEF RpiIInv
<1>11. QED
  BY <1>7, <1>8, <1>9, <1>10

\* The steps that write the standby slot
WritesStandby ==
    \/ RpiWriteStandby
    \/ PreserveOtaDir("fstab") /\ UNCHANGED rpi_vars
    \/ WriteStandbyFstab \/ UpdateFirmwareVmlinuz \/ UpdateFirmwareInitrd
    \/ InUpdateDone /\ UNCHANGED rpi_vars

SameIn(s) ==
    /\ rootfs'[s] = rootfs[s] /\ ota_dir'[s] = ota_dir[s]
    /\ fstab'[s] = fstab[s] /\ vmlinuz'[s] = vmlinuz[s] /\ initrd'[s] = initrd[s]

\* They write nothing of the running slot, and not the boot loader's choice.
LEMMA WriteFrame ==
    ASSUME RpiIInv, WritesStandby
    PROVE  /\ current \in Slots /\ SlotsTyped' /\ SameIn(current)
           /\ UNCHANGED <<default, risked, current, tryboot_txt, tryboot>>
           /\ default = current \/ risked
           /\ pc # "down" /\ pc' # "down"
<1> USE DEF slot_vars, boot_vars, proc_vars, rpi_vars, file_part_vars, At
<1>1. UNCHANGED <<default, risked, current, tryboot_txt, tryboot>>
  BY DEF WritesStandby, RpiWriteStandby, EraseStandby, InUpdateWrites, PreserveOtaDir,
         WriteStandbyFstab, UpdateFirmwareVmlinuz, UpdateFirmwareInitrd, InUpdateDone
<1>2. pc \in InUpdate /\ pc' # "down"
  BY DEF WritesStandby, RpiWriteStandby, EraseStandby, InUpdateWrites, PreserveOtaDir,
         WriteStandbyFstab, UpdateFirmwareVmlinuz, UpdateFirmwareInitrd, InUpdateDone,
         InUpdate, PostUpdate, RpiSteps
<1>3. pc # "down" /\ current \in Slots /\ (default = current \/ risked)
  BY <1>2 DEF RpiIInv, UpdatingInv, SlotsTyped, InUpdate, PostUpdate, RpiSteps
<1>4. standby \in Slots /\ standby # current
  BY <1>3, OtherSlot DEF standby
<1>5. SlotsTyped' /\ SameIn(current)
  <2> USE DEF RpiIInv, SlotsTyped, SameIn
  <2>1. CASE RpiWriteStandby
    BY <1>1, <1>3, <1>4, <2>1 DEF RpiWriteStandby, EraseStandby, InUpdateWrites, Disowned
  <2>2. CASE PreserveOtaDir("fstab") /\ UNCHANGED rpi_vars
    <3> DEFINE kept == ota_dir[standby] \/ ota_dir[current]
    <3>1. ota_dir' = [ota_dir EXCEPT ![standby] = kept]
      BY <2>2, Zenon DEF PreserveOtaDir
    <3>2. kept \in BOOLEAN
      BY Zenon
    <3>3. UNCHANGED <<rootfs, fstab, vmlinuz, initrd>>
      BY <2>2 DEF PreserveOtaDir
    <3> HIDE DEF kept
    <3>4. QED
      BY <1>1, <1>3, <1>4, <3>1, <3>2, <3>3
  <2>3. CASE WriteStandbyFstab
    BY <1>1, <1>3, <1>4, <2>3 DEF WriteStandbyFstab
  <2>4. CASE UpdateFirmwareVmlinuz
    BY <1>1, <1>3, <1>4, <2>4 DEF UpdateFirmwareVmlinuz
  <2>5. CASE UpdateFirmwareInitrd
    BY <1>1, <1>3, <1>4, <2>5 DEF UpdateFirmwareInitrd
  <2>6. CASE InUpdateDone /\ UNCHANGED rpi_vars
    BY <1>1, <1>3, <1>4, <2>6 DEF InUpdateDone
  <2>7. QED
    BY <2>1, <2>2, <2>3, <2>4, <2>5, <2>6 DEF WritesStandby
<1>6. QED
  BY <1>1, <1>2, <1>3, <1>5

\* Writing the standby slot keeps the invariant.
LEMMA WritesKept == ASSUME RpiIInv, WritesStandby PROVE RpiIInv'
<1> USE WriteFrame
<1>1. current \in Slots /\ standby \in Slots /\ standby' = standby
  BY OtherSlot DEF standby
<1>2. FlagsTyped' /\ BootableInv'
  BY DEF RpiIInv, FlagsTyped, BootableInv, Whole, SameIn
<1>3. TrybootInv'
  BY DEF RpiIInv, TrybootInv
<1> USE DEF slot_vars, boot_vars, proc_vars, rpi_vars, file_part_vars, At
<1>4. UpdatingInv' /\ StandbyInv'
  <2> USE DEF UpdatingInv, StandbyInv, InUpdate, HasImage, HasOtaDir, HasFstab, HasKernel,
              HasInitrd, PostUpdate, RpiSteps
  <2>0. UpdatingInv'
    BY SlotsAssumption DEF Slots
  <2>1. CASE RpiWriteStandby
    BY <2>0, <2>1 DEF RpiWriteStandby, EraseStandby, InUpdateWrites
  <2>2. CASE PreserveOtaDir("fstab") /\ UNCHANGED rpi_vars
    <3>1. ota_dir[current] \/ risked
      BY <1>1, SlotsAssumption DEF RpiIInv, BootableInv, Whole, Slots
    <3> DEFINE kept == ota_dir[standby] \/ ota_dir[current]
    <3>2. ota_dir' = [ota_dir EXCEPT ![standby] = kept]
      BY <2>2, Zenon DEF PreserveOtaDir
    <3>3. kept \/ risked
      BY <3>1, Zenon
    <3>4. UNCHANGED rootfs /\ pc = "preserve_ota" /\ pc' = "fstab"
      BY <2>2 DEF PreserveOtaDir
    <3>5. rootfs'[standby] = "image"
      BY <3>4 DEF RpiIInv
    <3> HIDE DEF kept
    <3>6. ota_dir'[standby] = kept
      BY <1>1, <3>2 DEF RpiIInv, SlotsTyped
    <3>7. ota_dir'[standby] \/ risked
      BY <3>3, <3>6, Zenon
    <3>8. QED
      BY <1>1, <2>0, <3>4, <3>5, <3>7
  <2>3. CASE WriteStandbyFstab
    BY <1>1, <2>0, <2>3 DEF WriteStandbyFstab, RpiIInv, SlotsTyped
  <2>4. CASE UpdateFirmwareVmlinuz
    BY <1>1, <2>0, <2>4 DEF UpdateFirmwareVmlinuz, RpiIInv, SlotsTyped
  <2>5. CASE UpdateFirmwareInitrd
    BY <1>1, <2>0, <2>5 DEF UpdateFirmwareInitrd, RpiIInv, SlotsTyped
  <2>6. CASE InUpdateDone /\ UNCHANGED rpi_vars
    BY <1>1, <2>0, <2>6 DEF InUpdateDone, RpiIInv, SlotsTyped
  <2>7. QED
    BY <2>1, <2>2, <2>3, <2>4, <2>5, <2>6 DEF WritesStandby
<1>5. QED
  BY <1>2, <1>3, <1>4 DEF RpiIInv

\* Every step is quiet, a write of the standby slot, of the boot files, or a stop or
\* a start of the ECU.
LEMMA StepKinds ==
    ASSUME Next
    PROVE  \/ (QuietBase /\ UNCHANGED rpi_vars) \/ QuietRpi
           \/ WritesStandby
           \/ FinalizeConfigTxt \/ FinalizeTrybootTxt \/ PrepareTrybootTxt \/ RpiPreUpdate
           \/ Boot \/ RebootTryboot \/ TrybootLost \/ (PowerLoss /\ UNCHANGED rpi_vars)
  BY DEF Next, RpiStep, BaseStep, RpiBaseHooks, QuietBase, QuietRpi, WritesStandby

\* The invariant holds in every reachable state.
THEOREM RpiInductive == Spec => []RpiIInv
<1>1. Init => RpiIInv
  <2> SUFFICES ASSUME Init PROVE RpiIInv
    OBVIOUS
  <2> USE DEF Init, BaseInit
  <2>1. SlotsTyped /\ FlagsTyped
    BY DEF SlotsTyped, FlagsTyped, Slots
  <2>2. Whole(SlotA)
    BY DEF Whole, Slots
  <2>3. QED
    BY <2>1, <2>2 DEF RpiIInv, UpdatingInv, StandbyInv, TrybootInv, BootableInv, InUpdate,
                      HasImage, HasOtaDir, HasFstab, HasKernel, HasInitrd, PostUpdate, RpiSteps
<1>2. ASSUME RpiIInv, [Next]_vars PROVE RpiIInv'
  <2>1. CASE UNCHANGED vars
    BY <1>2, <2>1
       DEF vars, slot_vars, boot_vars, proc_vars, rpi_vars, file_part_vars, RpiIInv, SlotsTyped,
           FlagsTyped, UpdatingInv, StandbyInv, TrybootInv, BootableInv, Whole, standby
  <2>2. CASE Next
    BY <1>2, <2>2, StepKinds, QuietKept, WritesKept, BootFilesKept, PowerKept
  <2>3. QED
    BY <1>2, <2>1, <2>2
<1>3. QED
  BY <1>1, <1>2, PTL DEF Spec

\* The Raspberry Pi never has a broken slot as the default of config.txt, nor runs
\* one, unless an update was begun while config.txt named the other slot.
THEOREM RpiAlwaysBootable == Spec => []AlwaysBootable
<1>1. RpiIInv => AlwaysBootable
  BY DEF RpiIInv, SlotsTyped, BootableInv, AlwaysBootable, Promise!AlwaysBootable
<1>2. QED
  BY <1>1, RpiInductive, PTL

\* The abstract variable whole
Wholes == [s \in Slots |-> Whole(s)]

\* A step that leaves the slots' files alone leaves the abstract whole alone.
LEMMA WholesKept ==
    ASSUME UNCHANGED <<rootfs, ota_dir, fstab, vmlinuz, initrd>>
    PROVE  Wholes' = Wholes
  BY DEF Wholes, Whole

\* Writing the standby slot is a Write of the promise.
LEMMA WriteRefines == ASSUME RpiIInv, WritesStandby PROVE Promise!Write
<1>1. current \in Slots /\ current # NoSlot /\ (current = default \/ risked)
  BY WriteFrame, SlotsAssumption DEF Slots
<1>2. UNCHANGED <<current, default, risked>>
  BY WriteFrame
<1> DEFINE w == Wholes'[standby]
<1>3. w \in BOOLEAN
  <2>1. \A s : Whole(s)' \in BOOLEAN
    BY Zenon DEF Whole
  <2>2. standby \in Slots
    BY <1>1, OtherSlot DEF standby
  <2>3. \E s \in Slots : w = Whole(s)'
    BY <2>2, Zenon DEF Wholes
  <2>4. QED
    BY <2>1, <2>3
<1>4. Wholes'[current] = Wholes[current]
  BY <1>1, WriteFrame DEF SameIn, Whole, Wholes
<1>5. Wholes' = [Wholes EXCEPT ![standby] = w]
  <2>1. \A s \in Slots : s = current \/ s = standby
    BY <1>1, OtherSlot DEF standby
  <2>2. \A s \in Slots : Wholes'[s] = [Wholes EXCEPT ![standby] = w][s]
    <3>1. standby \in Slots /\ standby # current
      BY <1>1, OtherSlot DEF standby
    <3>2. DOMAIN Wholes = Slots
      BY DEF Wholes
    <3>3. QED
      BY <1>4, <2>1, <3>1, <3>2
  <2>3. QED
    BY <2>2 DEF Wholes
<1>6. QED
  BY <1>1, <1>2, <1>3, <1>5 DEF Promise!Write, Promise!Other, Wholes, standby, Other

\* The firmware's start of a slot is a Start of the promise.
LEMMA BootRefines == ASSUME RpiIInv, Boot PROVE \E s \in Slots : Promise!Start(s)
<1>1. current' \in Slots /\ current = NoSlot /\ (risked \/ Whole(current'))
  BY DEF Boot, BootInto, RpiIInv, SlotsTyped, TrybootInv, BootableInv
<1>2. UNCHANGED <<rootfs, ota_dir, fstab, vmlinuz, initrd, default, risked>>
  BY DEF Boot, BootInto, slot_vars, boot_vars, file_part_vars
<1>3. Wholes' = Wholes
  BY <1>2, WholesKept
<1>4. Promise!Start(current')
  BY <1>1, <1>2, <1>3 DEF Promise!Start, Wholes
<1>5. QED
  BY <1>1, <1>4

\* config.txt is replaced by a slot that runs: a Choose of the promise.
LEMMA ConfigTxtRefines ==
    ASSUME RpiIInv, FinalizeConfigTxt PROVE \E s \in Slots : Promise!Choose(s)
<1> USE DEF FinalizeConfigTxt, ReplaceConfigTxt, At, slot_vars, proc_vars, rpi_vars,
            file_part_vars
<1>1. current \in Slots /\ current # NoSlot
  BY SlotsAssumption DEF RpiIInv, SlotsTyped, UpdatingInv
<1>2. Wholes' = Wholes /\ UNCHANGED current /\ default' = current
  BY WholesKept
<1>3. risked' = (risked /\ ~Whole(current))
  OBVIOUS
<1>4. risked' \in BOOLEAN /\ (risked' => risked)
  BY <1>3, Zenon
<1>5. ~risked' => Whole(current)
  <2>1. risked \/ Whole(current)
    BY <1>1 DEF RpiIInv, BootableInv
  <2>2. QED
    BY <1>3, <2>1, Zenon
<1>6. ~risked' => Wholes[current]
  BY <1>1, <1>5 DEF Wholes
<1>7. Promise!Choose(current)
  BY <1>2, <1>4, <1>6 DEF Promise!Choose, Wholes
<1>8. QED
  BY <1>1, <1>7

\* Every step of the Raspberry Pi is a step of the promise, or leaves its variables alone.
LEMMA StepRefines ==
    ASSUME RpiIInv, Next PROVE Promise!Next \/ UNCHANGED Promise!vars
<1> USE DEF slot_vars, boot_vars, proc_vars, rpi_vars, file_part_vars
<1>1. CASE (QuietBase /\ UNCHANGED rpi_vars) \/ QuietRpi
  <2>1. UNCHANGED <<rootfs, ota_dir, fstab, vmlinuz, initrd, default, risked, current>>
    BY <1>1, QuietFrame
  <2>2. QED
    BY <2>1, WholesKept DEF Promise!vars, Wholes
<1>2. CASE FinalizeTrybootTxt \/ PrepareTrybootTxt \/ TrybootLost
  <2>1. UNCHANGED <<rootfs, ota_dir, fstab, vmlinuz, initrd, default, risked, current>>
    BY <1>2 DEF FinalizeTrybootTxt, PrepareTrybootTxt, ReplaceTrybootTxt, TrybootLost
  <2>2. QED
    BY <2>1, WholesKept DEF Promise!vars, Wholes
<1>3. CASE RebootTryboot \/ (PowerLoss /\ UNCHANGED rpi_vars)
  <2>1. UNCHANGED <<rootfs, ota_dir, fstab, vmlinuz, initrd, default, risked>>
    BY <1>3 DEF RebootTryboot, PowerLoss
  <2>2. current # NoSlot /\ current' = NoSlot
    BY <1>3 DEF RebootTryboot, PowerLoss, At, RpiIInv, UpdatingInv
  <2>3. Promise!Stop
    BY <2>1, <2>2, WholesKept DEF Promise!Stop, Wholes
  <2>4. QED
    BY <2>3 DEF Promise!Next
<1>4. CASE RpiPreUpdate
  <2>1. UNCHANGED <<rootfs, ota_dir, fstab, vmlinuz, initrd, default, current>>
    BY <1>4 DEF RpiPreUpdate, PreUpdateCurrent
  <2>2. current # NoSlot
    BY <1>4 DEF RpiPreUpdate, PreUpdateCurrent, At, RpiIInv, UpdatingInv
  <2>3. risked' = (risked \/ current # default)
    BY <1>4, Zenon DEF RpiPreUpdate, PreUpdateCurrent
  <2>4. Promise!Begin
    BY <2>1, <2>2, <2>3, WholesKept DEF Promise!Begin, Wholes
  <2>5. QED
    BY <2>4 DEF Promise!Next
<1>5. CASE WritesStandby
  BY <1>5, WriteRefines DEF Promise!Next
<1>6. CASE Boot
  BY <1>6, BootRefines DEF Promise!Next, Promise!Slots, Slots
<1>7. CASE FinalizeConfigTxt
  BY <1>7, ConfigTxtRefines DEF Promise!Next, Promise!Slots, Slots
<1>8. QED
  BY <1>1, <1>2, <1>3, <1>4, <1>5, <1>6, <1>7, StepKinds

\* The Raspberry Pi boot controller implements the promise of the A/B layout.
THEOREM RpiRefinesABUpdate == Spec => RefinesABUpdate
<1>1. Init => Promise!Init
  <2> SUFFICES ASSUME Init PROVE Promise!Init
    OBVIOUS
  <2>1. \A s : Whole(s) \in BOOLEAN
    BY Zenon DEF Whole
  <2>2. Wholes \in [Slots -> BOOLEAN]
    BY <2>1 DEF Wholes
  <2>3. Whole(SlotA)
    BY DEF Init, BaseInit, Whole, Slots
  <2>4. Wholes[SlotA]
    BY <2>3 DEF Wholes, Slots
  <2>5. default = SlotA /\ current = NoSlot /\ risked = FALSE
    BY DEF Init, BaseInit
  <2>6. QED
    BY <2>2, <2>4, <2>5 DEF Promise!Init, Promise!Slots, Wholes, Slots
<1>2. ASSUME RpiIInv, [Next]_vars PROVE [Promise!Next]_(Promise!vars)
  <2>1. CASE Next
    BY <1>2, <2>1, StepRefines
  <2>2. CASE UNCHANGED vars
    <3>1. UNCHANGED <<rootfs, ota_dir, fstab, vmlinuz, initrd, default, risked, current>>
      BY <2>2 DEF vars, slot_vars, boot_vars, proc_vars, rpi_vars, file_part_vars
    <3>2. QED
      BY <3>1, WholesKept DEF Promise!vars, Wholes
  <2>3. QED
    BY <1>2, <2>1, <2>2
<1>3. QED
  BY <1>1, <1>2, RpiInductive, PTL DEF Spec, RefinesABUpdate, Promise!Spec
=============================================================================
