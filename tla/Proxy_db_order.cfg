SPECIFICATION Spec
CONSTANTS
    NotUsed = NotUsed
    Parts = {"index"}
INVARIANTS
    ProcessedInOrder
