SPECIFICATION PartitionSpec
CONSTANTS
    SlotA = a
    SlotB = b
    NoSlot = none
    MaxVersion = 3
    MinCapsule = 2
    MaxCBoot = 3
    Known = {3}
    MaxUpdates = 1
INVARIANT
    ArmedIsSwitchingBoot
