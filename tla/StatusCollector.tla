--------------------------- MODULE StatusCollector ---------------------------
(***************************************************************************)
(* How the status of the local ECU gets from the threads that report it to *)
(* the API server: the report queue and the collector thread of ota_core   *)
(* (otaclient/_status_monitor.py), the shared memory between the processes *)
(* (otaclient_common/_shm.py), and the task of the API server that polls   *)
(* it (ECUTracker._polling_local_ecu_status).                              *)
(*                                                                         *)
(* A field of the status is the set of the sessions whose reports it was   *)
(* made from: that is all the properties tell apart.                       *)
(***************************************************************************)
EXTENDS Integers, Sequences

CONSTANTS
    NSessions,    \* OTA sessions, one after the other
    MaxQueued,    \* reports in the queue
    MaxLate,      \* reports the worker threads make, of any session begun
    MaxPushFails  \* writes that raise

VARIABLES
    begun,      \* the last OTA session begun
    live,       \* its OTA status, in ota_core
    late,       \* reports of worker threads left
    queue,      \* the report queue
    status,     \* OTAClientStatusCollector._status
    pushed,     \* latest_status_pushed
    due,        \* _now > next_shm_push
    collector,  \* where the collector thread is
    shm,        \* [lock, head, body]: the shared memory
    copying,    \* what of the message being written is not copied yet
    fails,      \* writes that may still raise
    reader,     \* where sync_msg is
    got,        \* the digest sync_msg has read
    seen        \* the message update_from_local_ecu was last given

report_vars == <<begun, live, late>>
collect_vars == <<queue, status, pushed, due, collector, fails>>
shm_vars == <<shm, copying>>
read_vars == <<reader, got, seen>>
status_vars == <<report_vars, collect_vars, shm_vars, read_vars>>

NoSession == 0
InSession == {"UPDATING", "ABORTING"}

\* n counts the reports a status was made from; Torn is no pickled status
NoStatus == [n |-> 0, ota |-> "none", session |-> NoSession, progress |-> {},
             failure |-> {}, traceback |-> {}]
Torn == [NoStatus EXCEPT !.n = -1]

StatusChange(s, ota) == [type |-> "OTAStatusChangeReport", session |-> s, ota |-> ota]
Progress(s) == [type |-> "UpdateProgressReport", session |-> s, ota |-> "none"]
TERMINATE_SENTINEL == [type |-> "sentinel", session |-> NoSession, ota |-> "none"]

StatusInit ==
    /\ begun = NoSession /\ live = "SUCCESS" /\ late = MaxLate
    /\ queue = <<StatusChange(NoSession, "SUCCESS")>>
    /\ status = NoStatus /\ pushed = FALSE /\ due = TRUE /\ collector = "loop"
    /\ fails = MaxPushFails
    /\ shm = [lock |-> "none", head |-> 0, body |-> NoStatus]
    /\ copying = {}
    /\ reader = "idle" /\ got = 0 /\ seen = NoStatus

(***************************************************************************)
(* The reporters: ota_core changes its live status and puts the report;    *)
(* the worker threads of a session may still report when it is over.       *)
(***************************************************************************)
ReportStatus(s, ota) ==
    /\ Len(queue) < MaxQueued
    /\ begun' = s /\ live' = ota
    /\ queue' = Append(queue, StatusChange(s, ota))
    /\ UNCHANGED <<late, status, pushed, due, collector, fails, shm_vars, read_vars>>

BeginSession ==
    /\ collector # "exit" /\ live \notin InSession /\ begun < NSessions
    /\ ReportStatus(begun + 1, "UPDATING")

ChangeStatus ==
    /\ live \in InSession
    /\ \/ live = "UPDATING" /\ ReportStatus(begun, "ABORTING")
       \/ live = "ABORTING" /\ ReportStatus(begun, "ABORTED")
       \/ live = "UPDATING" /\ ReportStatus(begun, "FAILURE")

WorkerReports ==
    /\ Len(queue) < MaxQueued
    /\ late > 0 /\ late' = late - 1
    /\ \E s \in 1..begun : queue' = Append(queue, Progress(s))
    /\ UNCHANGED <<begun, live, status, pushed, due, collector, fails, shm_vars, read_vars>>

\* The process is told to end: _global_shutdown
GlobalShutdown ==
    /\ begun = NSessions /\ live \notin InSession
    /\ \A i \in 1..Len(queue) : queue[i] # TERMINATE_SENTINEL
    /\ collector # "exit"
    /\ queue' = Append(queue, TERMINATE_SENTINEL)
    /\ UNCHANGED <<report_vars, status, pushed, due, collector, fails, shm_vars, read_vars>>

(***************************************************************************)
(* The collector thread                                                    *)
(***************************************************************************)
\* failure is failure_type and failure_reason; the failure_traceback of an
\* earlier session stays
OnNewOtaSession(st, r) ==
    [st EXCEPT !.ota = r.ota, !.session = r.session, !.progress = {}, !.failure = {}]

FailedSession(r) == IF r.ota = "FAILURE" THEN {r.session} ELSE {}

KeepsProgress(st, r) ==
    [st EXCEPT !.ota = r.ota, !.session = NoSession,
               !.failure = FailedSession(r), !.traceback = FailedSession(r)]

OnSessionFinished(st, r) ==
    [st EXCEPT !.ota = r.ota, !.session = NoSession, !.progress = {},
               !.failure = FailedSession(r), !.traceback = FailedSession(r)]

\* A report of another session than the current one is dropped
MatchesSession(st, r) == r.session = st.session

OnUpdateProgress(st, r) == [st EXCEPT !.progress = @ \cup {r.session}]

Valid(st, r) == r.type = "OTAStatusChangeReport" \/ MatchesSession(st, r)

LoadReport(st, r) ==
    CASE r.type = "OTAStatusChangeReport" /\ r.ota = "UPDATING" -> OnNewOtaSession(st, r)
      [] r.type = "OTAStatusChangeReport" /\ r.ota = "ABORTING" -> [st EXCEPT !.ota = r.ota]
      [] r.type = "OTAStatusChangeReport" /\ r.ota \notin InSession -> OnSessionFinished(st, r)
      [] OTHER -> IF MatchesSession(st, r) THEN OnUpdateProgress(st, r) ELSE st

\* Mutation: what is to be written counts as pushed before write_msg is called.
MarkPushedFirst ==
    \/ /\ copying' = {"head", "body"}
       /\ collector' = "write"
       /\ pushed' = TRUE /\ due' = FALSE
       /\ UNCHANGED <<shm, fails>>
    \/ /\ fails > 0 /\ fails' = fails - 1
       /\ pushed' = TRUE
       /\ UNCHANGED <<collector, due, shm_vars>>

\* write_msg begins, or raises before it touched the memory
Push ==
    \/ /\ copying' = {"head", "body"}
       /\ collector' = "write"
       /\ pushed' = TRUE /\ due' = FALSE
       /\ UNCHANGED <<shm, fails>>
    \/ /\ fails > 0 /\ fails' = fails - 1
       /\ pushed' = FALSE
       /\ UNCHANGED <<collector, due, shm_vars>>

NoPush(p) == pushed' = p /\ UNCHANGED <<collector, due, fails, shm_vars>>

\* A turn of the loop that takes a report
CollectReport ==
    /\ collector = "loop" /\ queue # <<>> /\ Head(queue) # TERMINATE_SENTINEL
    /\ queue' = Tail(queue)
    /\ LET r == Head(queue)
           st == LoadReport(status, r)
           p  == IF Valid(status, r) THEN FALSE ELSE pushed
       IN  /\ status' = [st EXCEPT !.n = IF Valid(status, r) THEN @ + 1 ELSE @]
           /\ IF (due /\ ~p) \/ r.type = "OTAStatusChangeReport"
              THEN Push
              ELSE NoPush(p)
    /\ UNCHANGED <<report_vars, read_vars>>

\* A turn that finds the queue empty
CollectNothing ==
    /\ collector = "loop" /\ queue = <<>> /\ status # NoStatus /\ due /\ ~pushed
    /\ Push
    /\ UNCHANGED <<queue, status, report_vars, read_vars>>

CollectorExits ==
    /\ collector = "loop" /\ queue # <<>> /\ Head(queue) = TERMINATE_SENTINEL
    /\ queue' = Tail(queue) /\ collector' = "exit"
    /\ UNCHANGED <<status, pushed, due, fails, report_vars, shm_vars, read_vars>>

PushIntervalOver ==
    /\ ~due /\ due' = TRUE
    /\ UNCHANGED <<queue, status, pushed, collector, fails, report_vars, shm_vars, read_vars>>

(***************************************************************************)
(* write_msg: buffer[:msg_len] = msg copies the head (lock byte, digest)    *)
(* and the payload in no order the reader can rely on, and the lock byte   *)
(* is opened after it.                                                     *)
(***************************************************************************)
CopyMsg ==
    /\ collector = "write" /\ copying # {}
    /\ \E f \in copying :
          \/ /\ copying' = copying \ {f}
             /\ shm' = IF f = "head" THEN [shm EXCEPT !.lock = "locked", !.head = status.n]
                                     ELSE [shm EXCEPT !.body = status]
          \/ f = "body" /\ shm' = [shm EXCEPT !.body = Torn] /\ UNCHANGED copying
    /\ UNCHANGED <<report_vars, collect_vars, read_vars>>

OpenMsg ==
    /\ collector = "write" /\ copying = {}
    /\ shm' = [shm EXCEPT !.lock = "open"]
    /\ collector' = "loop"
    /\ UNCHANGED <<copying, queue, status, pushed, due, fails, report_vars, read_vars>>

(***************************************************************************)
(* sync_msg, in the API server                                             *)
(***************************************************************************)
VerifyMsg(head, body) == head = body.n

SyncMsg ==
    /\ \/ /\ reader = "idle"
          /\ reader' = IF shm.lock = "open" THEN "head" ELSE "idle"
          /\ UNCHANGED <<got, seen>>
       \/ /\ reader = "head"
          /\ got' = shm.head /\ reader' = "body"
          /\ UNCHANGED seen
       \/ /\ reader = "body" /\ reader' = "idle" /\ got' = 0
          /\ seen' = IF VerifyMsg(got, shm.body) THEN shm.body ELSE seen
    /\ UNCHANGED <<report_vars, collect_vars, shm_vars>>

Report == BeginSession \/ ChangeStatus \/ WorkerReports \/ GlobalShutdown
Collector == CollectReport \/ CollectNothing \/ CollectorExits \/ CopyMsg \/ OpenMsg

StatusNext == Report \/ Collector \/ PushIntervalOver \/ SyncMsg

(***************************************************************************)
(* Properties                                                              *)
(***************************************************************************)
StatusTypeOK ==
    /\ begun \in 0..NSessions /\ late \in 0..MaxLate
    /\ status.session \in 0..NSessions
    /\ collector \in {"loop", "write", "exit"}
    /\ reader \in {"idle", "head", "body"}

\* load_report drops the reports of a session that is over: the numbers of a
\* status are those of its own session, and a status that is in no session
\* shows none.  In a session no failure is shown, but the traceback of an
\* earlier one may be; out of it the failure and the traceback are of one.
OfItsSession(st) ==
    /\ st.session # NoSession => st.progress \subseteq {st.session} /\ st.failure = {}
    /\ st.session = NoSession => st.progress = {} /\ st.traceback = st.failure

\* sync_msg returns a status the collector had, whole, however the write and
\* the read interleave
SeenIsWhole ==
    /\ seen.n >= 0 /\ OfItsSession(seen)

\* The last status is the one the API server ends up showing, although a push
\* may raise, a read may hit a write, and pushes are limited to one an interval
LatestIsSeen == collector = "exit" \/ (queue = <<>> /\ seen = status /\ status.ota = live)
=============================================================================
