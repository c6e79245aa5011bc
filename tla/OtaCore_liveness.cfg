SPECIFICATION FairSpec
CONSTANTS
    UpdateSessions = {u1, u2}
    ClientSessions = {c1}
    NoSession = NoSession
    RunningAsAppImage = FALSE
    Faults = {}
    MaxAborts = 1
    MaxRestarts = 1
PROPERTY AcceptedAbortTerminates
PROPERTY UpdateConcludes
PROPERTY ClientUpdateConcludes
CHECK_DEADLOCK FALSE
