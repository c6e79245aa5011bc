SPECIFICATION Spec
CONSTANTS
    UpdateSessions = {u1, u2}
    ClientSessions = {c1, c2}
    NoSession = NoSession
    RunningAsAppImage = TRUE
    Faults = {"status_write", "reboot", "client_prepare", "startup"}
    MaxAborts = 2
    MaxRestarts = 1
SYMMETRY Symmetry
INVARIANT TypeOK
INVARIANT OneUpdateAtATime
INVARIANT RunningStatus
INVARIANT AcceptedAbortNeverReboots
PROPERTY AbortedStatusSurvives
CHECK_DEADLOCK FALSE
