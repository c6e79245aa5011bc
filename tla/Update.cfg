SPECIFICATION Spec
CONSTANTS
    NotUsed = NotUsed
    Stages = {"tasks", "sliced", "same_slice", "meta", "one_file", "payload", "standby", "apply"}
INVARIANTS
    StagesComplete InstalledIsImage CountsAddUp OneUserAtATime RoomIsEnough
    DeltaIsExact InodesAsInImage
PROPERTIES
    ResumeIsSound StagesEnd
