SPECIFICATION FairSpec
CONSTANTS
    UpdateSessions = {u1}
    ClientSessions = {}
    NoSession = NoSession
    RunningAsAppImage = FALSE
    Faults = {"reboot"}
    MaxAborts = 0
    MaxRestarts = 0
PROPERTY UpdateConcludes
CHECK_DEADLOCK FALSE
