SPECIFICATION Spec
CONSTANTS
    SlotA = a
    SlotB = b
    NoSlot = none
    MaxVersion = 3
    MinCapsule = 2
    MaxCBoot = 3
    Known = {3}
    MaxUpdates = 2
INVARIANTS
    SuccessIsDefault
    RecordsAreTrue
PROPERTIES
    RefinesABUpdate
    TrialIsKept
    FirmwareIsSound
