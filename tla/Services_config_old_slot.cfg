SPECIFICATION Spec
CONSTANTS
    NotUsed = NotUsed
    Parts = {"config"}
INVARIANT
    CurrentSlotNotLeftWithNew
