SPECIFICATION FairSpec
CONSTANTS
    UpdateSessions = {u1}
    ClientSessions = {c1}
    NoSession = NoSession
    RunningAsAppImage = FALSE
    Faults = {"client_prepare"}
    MaxAborts = 0
    MaxRestarts = 0
PROPERTY ClientUpdateConcludes
CHECK_DEADLOCK FALSE
