SPECIFICATION Spec
CONSTANTS
    SlotA = a
    SlotB = b
    NoSlot = none
INVARIANTS
    RunningImageComplete
    SuccessIsFinal
    DefaultBootable
