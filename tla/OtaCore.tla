------------------------------ MODULE OtaCore ------------------------------
(***************************************************************************)
(* The ota_core process: the request loop (OTAClient.main), the update and *)
(* client-update threads it starts, and the abort handler thread.  The     *)
(* three kinds of thread share live_ota_status and the abort state, and    *)
(* write the OTA status file of the running slot.                          *)
(*                                                                         *)
(* Code: ota_core/_main.py, _abort_handler.py, _updater.py (execute),      *)
(* _updater_base.py and _client_updater.py, and what they call of          *)
(* boot_control/_ota_status_control.py and otaclient_common/cmdhelper.py.  *)
(***************************************************************************)
EXTENDS Naturals, Sequences, FiniteSets

CONSTANTS
    UpdateSessions,          \* session ids of the update requests that may come
    ClientSessions,          \* session ids of the client-update requests
    NoSession,               \* AbortHandler._session_id before any update
    RunningAsAppImage,       \* the installed otaclient is a systemd app image
    Faults,                  \* which of FaultKinds may happen
    MaxAborts,               \* bound: abort requests handled by the main loop
    MaxRestarts              \* bound: starts of the process after the first one

\* A write of the status file raises; cmdhelper.reboot gives up with SystemExit;
\* client_update() raises before its try block; OTAClient.__init__ gets no boot
\* controller and returns early.
FaultKinds == {"status_write", "reboot", "client_prepare", "startup"}

ASSUME ConstantsAssumption ==
    /\ UpdateSessions \cap ClientSessions = {}
    /\ NoSession \notin UpdateSessions \cup ClientSessions
    /\ RunningAsAppImage \in BOOLEAN
    /\ Faults \subseteq FaultKinds
    /\ MaxAborts \in Nat
    /\ MaxRestarts \in Nat

Sessions == UpdateSessions \cup ClientSessions

OTAStatus == {"INITIALIZED", "SUCCESS", "FAILURE", "UPDATING",
              "CLIENT_UPDATING", "ABORTED"}

AbortState == {"NONE", "CRITICAL_ZONE", "REQUESTED", "ABORTING", "ABORTED",
               "FINAL_PHASE"}

VARIABLES
    live_ota_status,   \* OTAClient._live_ota_status
    aborted_deadline,  \* _aborted_status_report_deadline is not None
    hold,              \* _now < _allow_request_after
    main_pc,           \* where the request loop is
    abort_resp,        \* the last answer to an abort request
    abort_queue,       \* requests in AbortHandler._abort_queue
    resp_queue,        \* AbortHandler._resp_queue
    abort_state,       \* AbortHandler._state
    session_id,        \* AbortHandler._session_id
    handler_pc,        \* where the abort handler thread is
    cond_held,         \* the handler thread holds _cond across its steps
    upc,               \* session -> where its thread is
    status_file,       \* the status file of the running slot
    sigusr1,           \* ABORT_SIGNAL is pending for the main thread
    request_shutdown,  \* the supervisor has been asked to stop the process
    data_ready,        \* notify_data_ready_event is set
    running_as,        \* the installed otaclient, or the downloaded dynamic app
    alive,             \* the process runs
    started,           \* OTAClient.started: __init__ got its boot controller
    abort_accepted,    \* sessions whose abort an accepted request has begun
    aborts, restarts   \* counters of the two bounds

main_vars    == <<aborted_deadline, hold, main_pc, abort_resp>>
handler_vars == <<abort_queue, resp_queue, handler_pc, cond_held>>
proc_vars    == <<sigusr1, request_shutdown, data_ready, running_as, alive,
                  started, restarts>>
thread_vars  == <<live_ota_status, abort_state, session_id, upc, status_file>>
count_vars   == <<abort_accepted, aborts>>
vars == <<main_vars, handler_vars, proc_vars, thread_vars, count_vars>>

\* What most steps of an update or client-update thread leave alone.
others == <<main_vars, handler_vars, session_id, proc_vars, count_vars>>

-----------------------------------------------------------------------------
(* Where a thread of a session may be.  The names of an update thread follow *)
(* OTAClient.update and OTAUpdaterBase.execute.                              *)

\* Started, and live_ota_status not yet set by the thread.
Starting == {"spawned", "session_set", "c_spawned"}
\* In update() before it sets its final status; "final" (_post_update) and
\* "finalize" (_finalize_update) follow enter_final_phase().
FinalPhase == {"final", "finalize"}
InUpdate == {"prepare", "metadata", "zone", "pre_updated", "in_update",
             "execute_except", "on_failure", "update_except", "set_failure",
             "abort_signal"} \cup FinalPhase

\* In client_update() before it sets its final status; "c_dead" is a thread
\* ended by an exception that nothing catches.
InClientUpdate == {"c_prepare", "c_execute", "c_handover", "c_dead"}
\* live_ota_status is not the thread's any more.
Leaving == {"store_failure", "finally"}
Gone    == {"none", "rejected", "done", "killed"}

PC == Starting \cup InUpdate \cup InClientUpdate \cup Leaving \cup Gone

Active == Starting \cup InUpdate \cup InClientUpdate

HandlerPC == {"idle", "run_check", "cond_wait", "perform", "on_abort_done",
              "dead"}

FlagsOK ==
    /\ aborted_deadline \in BOOLEAN
    /\ hold \in BOOLEAN
    /\ cond_held \in BOOLEAN
    /\ sigusr1 \in BOOLEAN
    /\ request_shutdown \in BOOLEAN
    /\ data_ready \in BOOLEAN
    /\ alive \in BOOLEAN
    /\ started \in BOOLEAN

\* Every variable has its type; a status file never says CLIENT_UPDATING.
TypeOK ==
    /\ FlagsOK
    /\ live_ota_status \in OTAStatus
    /\ main_pc \in {"loop", "get_response", "expiring"}
    /\ abort_resp \in {"none", "ACCEPT", "REJECT_ABORT"}
    /\ abort_queue \in Nat
    /\ resp_queue \in Seq({"ACCEPT", "REJECT_ABORT"})
    /\ abort_state \in AbortState
    /\ session_id \in Sessions \cup {NoSession}
    /\ handler_pc \in HandlerPC
    /\ upc \in [Sessions -> PC]
    /\ status_file \in OTAStatus \ {"CLIENT_UPDATING"}
    /\ running_as \in {"installed", "downloaded"}
    /\ abort_accepted \subseteq Sessions
    /\ aborts \in Nat
    /\ restarts \in Nat

Init ==
    /\ live_ota_status = "INITIALIZED"
    /\ aborted_deadline = FALSE
    /\ hold = FALSE
    /\ main_pc = "loop"
    /\ abort_resp = "none"
    /\ abort_queue = 0
    /\ resp_queue = <<>>
    /\ abort_state = "NONE"
    /\ session_id = NoSession
    /\ handler_pc = "idle"
    /\ cond_held = FALSE
    /\ upc = [s \in Sessions |-> "none"]
    /\ status_file = "INITIALIZED"
    /\ sigusr1 = FALSE
    /\ request_shutdown = FALSE
    /\ data_ready = FALSE
    /\ running_as = "installed"
    /\ alive = TRUE
    /\ started = TRUE
    /\ abort_accepted = {}
    /\ aborts = 0
    /\ restarts = 0

-----------------------------------------------------------------------------
(* The request loop: OTAClient.main.                                         *)

\* Mutation of IsBusy: a client update does not count.
IsBusyUpdatingOnly == live_ota_status = "UPDATING"

IsBusy == live_ota_status \in {"UPDATING", "CLIENT_UPDATING"}

\* The main thread runs Python code; a pending signal ends it instead.
MainRuns(pc) == alive /\ ~sigusr1 /\ main_pc = pc

\* Answer a request that comes within the hold time or while an OTA runs.
RejectBusy(s) ==
    /\ MainRuns("loop")
    /\ upc[s] = "none"
    /\ hold \/ IsBusy
    /\ upc' = [upc EXCEPT ![s] = "rejected"]
    /\ UNCHANGED <<live_ota_status, abort_state, status_file, others>>

\* Mutation of Accept: the deadline of the ABORTED report is kept.
AcceptKeepsDeadline(s, pc) ==
    /\ MainRuns("loop")
    /\ upc[s] = "none"
    /\ ~hold /\ ~IsBusy
    /\ upc' = [upc EXCEPT ![s] = pc]
    /\ hold' = TRUE
    /\ UNCHANGED <<live_ota_status, aborted_deadline, main_pc, abort_resp,
                   abort_state, session_id, status_file, handler_vars,
                   proc_vars, count_vars>>

\* Start the thread of an accepted request, hold further requests, and give up
\* on replacing the ABORTED status loaded at startup.
Accept(s, pc) ==
    /\ MainRuns("loop")
    /\ upc[s] = "none"
    /\ ~hold /\ ~IsBusy
    /\ upc' = [upc EXCEPT ![s] = pc]
    /\ hold' = TRUE
    /\ aborted_deadline' = FALSE
    /\ UNCHANGED <<live_ota_status, main_pc, abort_resp, abort_state,
                   session_id, status_file, handler_vars, proc_vars,
                   count_vars>>

AcceptUpdate(s) == s \in UpdateSessions /\ Accept(s, "spawned")

AcceptClientUpdate(s) == s \in ClientSessions /\ Accept(s, "c_spawned")

\* HOLD_REQ_HANDLING_ON_ACK_REQUEST (16 s) or _ON_ACK_CLIENT_UPDATE_REQUEST
\* (4 s) have passed.  Assumed: a started thread has set live_ota_status by
\* then, which it does with its first statements.
HoldExpires ==
    /\ alive /\ hold
    /\ \A s \in Sessions : upc[s] \notin Starting
    /\ hold' = FALSE
    /\ UNCHANGED <<aborted_deadline, main_pc, abort_resp, handler_vars,
                   proc_vars, thread_vars, count_vars>>

\* Hand an abort request to the handler thread, then block in get_response.
SubmitAbort ==
    /\ MainRuns("loop")
    /\ aborts < MaxAborts
    /\ aborts' = aborts + 1
    /\ abort_queue' = abort_queue + 1
    /\ abort_resp' = "none"
    /\ main_pc' = "get_response"
    /\ UNCHANGED <<aborted_deadline, hold, resp_queue, handler_pc, cond_held,
                   abort_accepted, proc_vars, thread_vars>>

GetResponse ==
    /\ MainRuns("get_response")
    /\ resp_queue # <<>>
    /\ abort_resp' = Head(resp_queue)
    /\ resp_queue' = Tail(resp_queue)
    /\ main_pc' = "loop"
    /\ UNCHANGED <<aborted_deadline, hold, abort_queue, handler_pc, cond_held,
                   proc_vars, thread_vars, count_vars>>

\* get_response timed out after 3 s.  Assumed: the handler thread answers in
\* that time unless it is waiting for the critical zone to end, performing an
\* abort, or dead.
GetResponseTimeout ==
    /\ MainRuns("get_response")
    /\ resp_queue = <<>>
    /\ handler_pc \notin {"idle", "run_check"}
    /\ abort_resp' = "REJECT_ABORT"
    /\ main_pc' = "loop"
    /\ UNCHANGED <<aborted_deadline, hold, handler_vars, proc_vars,
                   thread_vars, count_vars>>

\* _expire_aborted_status_report: the deadline has passed.  The check of the
\* live status and the write that depends on it are two steps.
ExpireAbortedCheck ==
    /\ MainRuns("loop")
    /\ aborted_deadline
    /\ aborted_deadline' = FALSE
    /\ main_pc' = IF live_ota_status = "ABORTED" THEN "expiring" ELSE "loop"
    /\ UNCHANGED <<hold, abort_resp, handler_vars, proc_vars, thread_vars,
                   count_vars>>

ExpireAbortedWrite ==
    /\ MainRuns("expiring")
    /\ live_ota_status' = "INITIALIZED"
    /\ main_pc' = "loop"
    /\ UNCHANGED <<aborted_deadline, hold, abort_resp, abort_state, session_id,
                   upc, status_file, handler_vars, proc_vars, count_vars>>
-----------------------------------------------------------------------------
(* The abort handler thread: AbortHandler._run, _handle and _perform_abort.  *)
(* Whoever takes _cond for one statement block is one step here; cond_held   *)
(* is TRUE while _run() holds it across _perform_abort().                    *)

\* Mutation of AbortInProgress: an abort counts once it is done.
AbortDone == abort_state = "ABORTED"

AbortInProgress == abort_state \in {"ABORTING", "ABORTED"}

\* What _handle answers and makes of the abort state.
HandleOutcome ==
    IF live_ota_status # "UPDATING" \/ abort_state = "FINAL_PHASE"
        THEN [res |-> "REJECT_ABORT", state |-> abort_state]
    ELSE IF abort_state = "CRITICAL_ZONE"
        THEN [res |-> "ACCEPT", state |-> "REQUESTED"]
    ELSE IF abort_state = "NONE"
        THEN [res |-> "ACCEPT", state |-> "ABORTING"]
    ELSE [res |-> "ACCEPT", state |-> abort_state]

\* Take one request and answer it.  Only an abort of state NONE is performed
\* from _handle itself, after _cond is released.
Handle ==
    /\ alive /\ handler_pc = "idle"
    /\ abort_queue > 0
    /\ abort_queue' = abort_queue - 1
    /\ resp_queue' = Append(resp_queue, HandleOutcome.res)
    /\ abort_state' = HandleOutcome.state
    /\ handler_pc' = IF abort_state = "NONE" /\ HandleOutcome.res = "ACCEPT"
                       THEN "perform" ELSE "run_check"
    /\ abort_accepted' = IF HandleOutcome.state # abort_state
                           THEN abort_accepted \cup {session_id}
                           ELSE abort_accepted
    /\ UNCHANGED <<live_ota_status, cond_held, session_id, upc, status_file,
                   aborts, main_vars, proc_vars>>

\* The rest of the loop of _run: wait while REQUESTED, perform when ABORTING.
\* In the latter case _cond stays held until _perform_abort returns.
RunCheck ==
    /\ alive /\ handler_pc = "run_check"
    /\ handler_pc' = CASE abort_state = "REQUESTED" -> "cond_wait"
                       [] abort_state = "ABORTING"  -> "perform"
                       [] OTHER -> "idle"
    /\ cond_held' = (abort_state = "ABORTING")
    /\ UNCHANGED <<abort_queue, resp_queue, main_vars, proc_vars, thread_vars,
                   count_vars>>

\* The status write of on_abort in _perform_abort, WAIT_FOR_STATUS_REPORT (3 s)
\* after the abort began.  Assumed: a thread that found no abort in progress
\* has finished the failure report it then writes within those 3 s.
OnAbort ==
    /\ alive /\ handler_pc = "perform"
    /\ started
    /\ \A s \in Sessions :
         upc[s] \notin {"on_failure", "set_failure", "store_failure"}
    /\ status_file' = "ABORTED"
    /\ handler_pc' = "on_abort_done"
    /\ UNCHANGED <<live_ota_status, abort_queue, resp_queue, cond_held,
                   abort_state, session_id, upc, main_vars, proc_vars,
                   count_vars>>

\* on_abort raises: the write fails, or there is no boot controller.  Nothing
\* catches it, so the thread ends with the abort state as it is.
OnAbortFails ==
    /\ alive /\ handler_pc = "perform"
    /\ "status_write" \in Faults \/ ~started
    /\ handler_pc' = "dead"
    /\ cond_held' = FALSE
    /\ UNCHANGED <<abort_queue, resp_queue, main_vars, proc_vars, thread_vars,
                   count_vars>>

\* The rest of _perform_abort: ABORTED, and the signal to the main thread.
SendAbortSignal ==
    /\ alive /\ handler_pc = "on_abort_done"
    /\ abort_state' = "ABORTED"
    /\ sigusr1' = TRUE
    /\ handler_pc' = IF cond_held THEN "idle" ELSE "run_check"
    /\ cond_held' = FALSE
    /\ UNCHANGED <<live_ota_status, abort_queue, resp_queue, session_id, upc,
                   status_file, request_shutdown, data_ready, running_as, alive,
                   started, restarts, main_vars, count_vars>>

-----------------------------------------------------------------------------
(* The update thread: OTAClient.update and OTAUpdaterBase.execute.           *)

\* The thread of s goes on from one place to another.
Goes(s, from, to) ==
    /\ alive
    /\ upc[s] = from
    /\ upc' = [upc EXCEPT ![s] = to]

SetSession(s) ==
    /\ Goes(s, "spawned", "session_set")
    /\ ~cond_held
    /\ session_id' = s
    /\ abort_state' = "NONE"
    /\ UNCHANGED <<live_ota_status, status_file, main_vars, handler_vars,
                   proc_vars, count_vars>>

SetUpdating(s) ==
    /\ Goes(s, "session_set", "prepare")
    /\ live_ota_status' = "UPDATING"
    /\ UNCHANGED <<abort_state, status_file, others>>

\* Upper otaproxy, downloaders, image check, CA store, updater object.  Without
\* a boot controller _download_threads is not set and this fails.
Prepared(s) ==
    /\ Goes(s, "prepare", "metadata")
    /\ started
    /\ UNCHANGED <<live_ota_status, abort_state, status_file, others>>

\* Mutation of PrepareFails: the exception escapes from update().
PrepareFailsUncaught(s) ==
    /\ Goes(s, "prepare", "finally")
    /\ UNCHANGED <<live_ota_status, abort_state, status_file, others>>

PrepareFails(s) ==
    /\ Goes(s, "prepare", "update_except")
    /\ UNCHANGED <<live_ota_status, abort_state, status_file, others>>

\* An error in execute() outside the critical zone.
ExecuteFails(s) ==
    /\ \E from \in {"metadata", "in_update"} \cup FinalPhase :
         Goes(s, from, "execute_except")
    /\ UNCHANGED <<live_ota_status, abort_state, status_file, others>>

EnterCriticalZone(s) ==
    /\ ~cond_held
    /\ IF AbortInProgress
         THEN Goes(s, "metadata", "abort_signal") /\ UNCHANGED abort_state
         ELSE Goes(s, "metadata", "zone") /\ abort_state' = "CRITICAL_ZONE"
    /\ UNCHANGED <<live_ota_status, status_file, others>>

\* The first write of pre_update(); the rest of _pre_update changes only the
\* standby slot.
PreUpdateCurrent(s) ==
    /\ Goes(s, "zone", "pre_updated")
    /\ status_file' = "FAILURE"
    /\ UNCHANGED <<live_ota_status, abort_state, others>>

\* Mutation of Notified: exit_critical_zone() forgets notify().
NotNotified(pc) == pc

\* _cond.notify(): a thread that waits goes on.
Notified(pc) == IF pc = "cond_wait" THEN "run_check" ELSE pc

\* exit_critical_zone() in the finally of the context manager, for a body that
\* went through or raised.  Its own signal replaces an exception of the body.
ExitCriticalZone(s, raised) ==
    /\ ~cond_held
    /\ upc[s] = "pre_updated" \/ (raised /\ upc[s] = "zone")
    /\ IF abort_state = "REQUESTED"
         THEN /\ abort_state' = "ABORTING"
              /\ handler_pc' = Notified(handler_pc)
         ELSE /\ abort_state' = IF AbortInProgress THEN abort_state ELSE "NONE"
              /\ UNCHANGED handler_pc
    /\ Goes(s, upc[s], IF abort_state = "REQUESTED" \/ AbortInProgress
                         THEN "abort_signal"
                       ELSE IF raised THEN "execute_except" ELSE "in_update")
    /\ UNCHANGED <<live_ota_status, abort_queue, resp_queue, cond_held,
                   session_id, status_file, main_vars, proc_vars, count_vars>>

\* Mutation of EnterFinalPhase: an abort in progress is not looked for.
EnterFinalPhaseUnchecked(s) ==
    /\ ~cond_held
    /\ Goes(s, "in_update", "final")
    /\ abort_state' = "FINAL_PHASE"
    /\ UNCHANGED <<live_ota_status, status_file, others>>

EnterFinalPhase(s) ==
    /\ ~cond_held
    /\ IF AbortInProgress
         THEN Goes(s, "in_update", "abort_signal") /\ UNCHANGED abort_state
         ELSE Goes(s, "in_update", "final") /\ abort_state' = "FINAL_PHASE"
    /\ UNCHANGED <<live_ota_status, status_file, others>>

\* _post_update: the standby slot is made the one to boot.
PostUpdate(s) ==
    /\ Goes(s, "final", "finalize")
    /\ UNCHANGED <<live_ota_status, abort_state, status_file, others>>

\* reboot() or wait_for_reboot() gives up.  SystemExit is no Exception: it ends
\* this thread through the finally blocks alone.
RebootFails(s) ==
    /\ "reboot" \in Faults
    /\ Goes(s, "finalize", "finally")
    /\ UNCHANGED <<live_ota_status, abort_state, status_file, others>>

\* The except blocks of execute(): an error while an abort is in progress is
\* the abort's, any other is reported to the boot controller.
ExecuteExcept(s) ==
    /\ ~cond_held
    /\ Goes(s, "execute_except",
            IF AbortInProgress THEN "abort_signal" ELSE "on_failure")
    /\ UNCHANGED <<live_ota_status, abort_state, status_file, others>>

\* on_operation_failure() writes FAILURE, or raises and is itself the error.
OnOperationFailure(s) ==
    /\ Goes(s, "on_failure", "update_except")
    /\ status_file' \in {"FAILURE"} \cup
                        (IF "status_write" \in Faults THEN {status_file} ELSE {})
    /\ UNCHANGED <<live_ota_status, abort_state, others>>

\* The except Exception block of update(), up to the write of the live status.
UpdateExcept(s) ==
    /\ ~cond_held
    /\ Goes(s, "update_except",
            IF AbortInProgress THEN "abort_signal" ELSE "set_failure")
    /\ UNCHANGED <<live_ota_status, abort_state, status_file, others>>

SetFailure(s) ==
    /\ Goes(s, "set_failure", "store_failure")
    /\ live_ota_status' = "FAILURE"
    /\ UNCHANGED <<abort_state, status_file, others>>

\* store_failure_info() sets FAILURE too; what it raises is swallowed.
StoreFailure(s) ==
    /\ Goes(s, "store_failure", "finally")
    /\ status_file' \in (IF started THEN {"FAILURE"} ELSE {status_file}) \cup
                        (IF "status_write" \in Faults THEN {status_file} ELSE {})
    /\ UNCHANGED <<live_ota_status, abort_state, others>>

\* Mutation of SetAborted: the status of the running abort, not of its result.
SetAborting(s) ==
    /\ Goes(s, "abort_signal", "finally")
    /\ live_ota_status' = "ABORTING"
    /\ UNCHANGED <<abort_state, status_file, others>>

\* The thread leaves because of an abort, with live status ABORTED.
SetAborted(s) ==
    /\ Goes(s, "abort_signal", "finally")
    /\ live_ota_status' = "ABORTED"
    /\ UNCHANGED <<abort_state, status_file, others>>

IsDynamicClientRunning == RunningAsAppImage \/ running_as = "downloaded"

\* The finally block of update(), with _exit_from_dynamic_client().
Finally(s) ==
    /\ Goes(s, "finally", "done")
    /\ request_shutdown' = (request_shutdown \/ IsDynamicClientRunning)
    /\ UNCHANGED <<live_ota_status, abort_state, session_id, status_file, sigusr1,
                   data_ready, running_as, alive, started, restarts, main_vars,
                   handler_vars, count_vars>>

-----------------------------------------------------------------------------
(* The client-update thread: OTAClient.client_update.                        *)

\* A downloaded dynamic app ignores the request.
IgnoreClientUpdate(s) ==
    /\ running_as = "downloaded"
    /\ Goes(s, "c_spawned", "done")
    /\ UNCHANGED <<live_ota_status, abort_state, status_file, others>>

SetClientUpdating(s) ==
    /\ running_as # "downloaded"
    /\ Goes(s, "c_spawned", "c_prepare")
    /\ live_ota_status' = "CLIENT_UPDATING"
    /\ UNCHANGED <<abort_state, status_file, others>>

\* Upper otaproxy and downloaders, before the try block.
ClientPrepared(s) ==
    /\ Goes(s, "c_prepare", "c_execute")
    /\ started
    /\ UNCHANGED <<live_ota_status, abort_state, status_file, others>>

\* What is raised there ends the thread.
ClientPrepareFails(s) ==
    /\ Goes(s, "c_prepare", "c_dead")
    /\ "client_prepare" \in Faults \/ ~started
    /\ UNCHANGED <<live_ota_status, abort_state, status_file, others>>

\* Mutation of ClientFails: the live status is left at CLIENT_UPDATING.
ClientFailsSilently(s) ==
    /\ Goes(s, "c_execute", "done")
    /\ UNCHANGED <<live_ota_status, abort_state, status_file, others>>

\* Same version, or any failure within execute(): an OTAError.
ClientFails(s) ==
    /\ Goes(s, "c_execute", "done")
    /\ live_ota_status' = "SUCCESS"
    /\ UNCHANGED <<abort_state, status_file, others>>

\* The client package is ready: the supervisor is to launch it.
ClientHandsOver(s) ==
    /\ Goes(s, "c_execute", "c_handover")
    /\ data_ready' = TRUE
    /\ UNCHANGED <<live_ota_status, abort_state, session_id, status_file, sigusr1,
                   request_shutdown, running_as, alive, started, restarts,
                   main_vars, handler_vars, count_vars>>

\* An exception that is no OTAError asks the supervisor for a shutdown.
ClientRequestsShutdown(s) ==
    /\ Goes(s, "c_execute", "c_handover")
    /\ request_shutdown' = TRUE
    /\ UNCHANGED <<live_ota_status, abort_state, session_id, status_file, sigusr1,
                   data_ready, running_as, alive, started, restarts, main_vars,
                   handler_vars, count_vars>>

-----------------------------------------------------------------------------
(* The life of the process.                                                  *)

\* The process is gone, and with it its threads and everything in memory;
\* what runs next is the installed otaclient or the downloaded app.
Stop(next) ==
    /\ alive
    /\ alive' = FALSE
    /\ live_ota_status' = "INITIALIZED"
    /\ aborted_deadline' = FALSE
    /\ hold' = FALSE
    /\ main_pc' = "loop"
    /\ abort_resp' = "none"
    /\ abort_queue' = 0
    /\ resp_queue' = <<>>
    /\ abort_state' = "NONE"
    /\ session_id' = NoSession
    /\ handler_pc' = "idle"
    /\ cond_held' = FALSE
    /\ upc' = [s \in Sessions |-> IF upc[s] \in Gone THEN upc[s] ELSE "killed"]
    /\ sigusr1' = FALSE
    /\ request_shutdown' = FALSE
    /\ data_ready' = FALSE
    /\ running_as' = next
    /\ started' = FALSE
    /\ abort_accepted' = {}
    /\ UNCHANGED <<restarts, aborts>>

\* _abort_signal_handler exits the process with EXIT_CODE_OTA_ABORTED.
ExitOnAbortSignal == sigusr1 /\ Stop("installed") /\ UNCHANGED status_file

\* The supervisor saw request_shutdown_event.
SupervisorStops ==
    request_shutdown /\ ~data_ready /\ Stop("installed") /\ UNCHANGED status_file

\* The supervisor saw notify_data_ready_event: it stops everything and launches
\* the downloaded app, or fails to and lets systemd restart the installed one.
SupervisorLaunchesApp ==
    /\ data_ready
    /\ \E next \in {"downloaded", "installed"} : Stop(next)
    /\ UNCHANGED status_file

\* A crash, a kill or a power loss.
Crash == Stop("installed") /\ UNCHANGED status_file

\* finalizing_update() reboots the ECU.  What boots next is the standby slot,
\* with the UPDATING that _post_update wrote there, or by a failed switch this
\* slot again.
Reboot(s) ==
    /\ upc[s] = "finalize"
    /\ Stop("installed")
    /\ status_file' \in {"UPDATING", status_file}

\* OTAClient.__init__ with the boot controller's _load_status_file: the live
\* status and what is stored for the next start.
LoadStatus ==
    IF running_as = "downloaded" THEN {[live |-> "SUCCESS", file |-> status_file]}
    ELSE CASE status_file = "ABORTED" ->
                {[live |-> "ABORTED", file |-> "INITIALIZED"]}
           [] status_file = "UPDATING" ->
                {[live |-> st, file |-> st] : st \in {"SUCCESS", "FAILURE"}}
           [] OTHER -> {[live |-> status_file, file |-> status_file]}

\* systemd starts otaclient again.
Start ==
    /\ ~alive
    /\ restarts < MaxRestarts
    /\ restarts' = restarts + 1
    /\ alive' = TRUE
    /\ started' = TRUE
    /\ \E st \in LoadStatus :
         /\ live_ota_status' = st.live
         /\ status_file' = st.file
         /\ aborted_deadline' = (st.live = "ABORTED")
    /\ UNCHANGED <<hold, main_pc, abort_resp, abort_state, session_id, upc,
                   sigusr1, request_shutdown, data_ready, running_as,
                   handler_vars, count_vars>>

\* The boot controller cannot be set up: the process serves requests all the
\* same, with the live status it was constructed with.
StartFails ==
    /\ ~alive
    /\ "startup" \in Faults
    /\ restarts < MaxRestarts
    /\ restarts' = restarts + 1
    /\ alive' = TRUE
    /\ UNCHANGED <<sigusr1, request_shutdown, data_ready, running_as, started,
                   main_vars, handler_vars, thread_vars, count_vars>>

-----------------------------------------------------------------------------

MainStep ==
    \/ \E s \in Sessions :
         RejectBusy(s) \/ AcceptUpdate(s) \/ AcceptClientUpdate(s)
    \/ HoldExpires \/ SubmitAbort \/ GetResponse \/ GetResponseTimeout
    \/ ExpireAbortedCheck \/ ExpireAbortedWrite

HandlerStep == Handle \/ RunCheck \/ OnAbort \/ OnAbortFails \/ SendAbortSignal

UpdateStep(s) ==
    \/ SetSession(s) \/ SetUpdating(s) \/ Prepared(s) \/ PrepareFails(s)
    \/ ExecuteFails(s) \/ EnterCriticalZone(s) \/ PreUpdateCurrent(s)
    \/ \E raised \in BOOLEAN : ExitCriticalZone(s, raised)
    \/ EnterFinalPhase(s) \/ PostUpdate(s) \/ Reboot(s) \/ RebootFails(s)
    \/ ExecuteExcept(s) \/ OnOperationFailure(s) \/ UpdateExcept(s)
    \/ SetFailure(s) \/ StoreFailure(s) \/ SetAborted(s) \/ Finally(s)

ClientStep(s) ==
    \/ IgnoreClientUpdate(s) \/ SetClientUpdating(s) \/ ClientPrepared(s)
    \/ ClientPrepareFails(s) \/ ClientFails(s) \/ ClientHandsOver(s)
    \/ ClientRequestsShutdown(s)

ProcessStep ==
    \/ ExitOnAbortSignal \/ SupervisorStops \/ SupervisorLaunchesApp
    \/ Crash \/ Start \/ StartFails

Next ==
    \/ MainStep
    \/ HandlerStep
    \/ \E s \in Sessions : UpdateStep(s) \/ ClientStep(s)
    \/ ProcessStep

Spec == Init /\ [][Next]_vars

\* Every thread that can run is scheduled some time, the supervisor polls its
\* events, and a pending signal is delivered.  Nothing makes requests come,
\* the process crash or start again.
Fairness ==
    /\ \A s \in Sessions : WF_vars(UpdateStep(s)) /\ WF_vars(ClientStep(s))
    /\ WF_vars(HandlerStep)
    /\ WF_vars(ExitOnAbortSignal)
    /\ WF_vars(SupervisorStops) /\ WF_vars(SupervisorLaunchesApp)

FairSpec == Spec /\ Fairness

-----------------------------------------------------------------------------
(* What the process promises.                                                *)

\* At most one update or client update is under way: the request loop tells a
\* running OTA by a live status that the new thread sets only after it was
\* started, and the hold time covers the gap (OTAClient.main).
OneUpdateAtATime ==
    \A s, t \in Sessions : upc[s] \in Active /\ upc[t] \in Active => s = t

\* While a thread is inside update() or client_update() the live status says
\* so, whatever the request loop does to an ABORTED status loaded at startup
\* (_expire_aborted_status_report: "the live status of a running OTA is never
\* overwritten here").
RunningStatus ==
    \A s \in Sessions :
        /\ upc[s] \in InUpdate => live_ota_status = "UPDATING"
        /\ upc[s] \in InClientUpdate => live_ota_status = "CLIENT_UPDATING"

\* An update whose abort was accepted never reaches the phases that switch the
\* boot slot and reboot (AbortHandler: abort window closed by
\* enter_final_phase, deferred by critical_zone).
AcceptedAbortNeverReboots ==
    \A s \in abort_accepted : upc[s] \notin FinalPhase

\* Once the abort of the current session, the first one since the start, has
\* persisted ABORTED, the update thread that is still running does not
\* overwrite it before the process ends (the race that on_abort's docstring and
\* the except blocks of execute() are about).
AbortedStatusSurvives ==
    [][(alive /\ alive' /\ abort_accepted = {session_id}
          /\ (handler_pc = "on_abort_done" \/ abort_state = "ABORTED"))
         => status_file' = "ABORTED"]_vars

\* An accepted abort ends the process, unless a later update replaced the
\* session first: the handler performs it at once or when the critical zone
\* ends, whichever way the update thread leaves the zone.
AcceptedAbortTerminates ==
    \A s \in UpdateSessions :
        (s \in abort_accepted) ~> (~alive \/ session_id # s)

\* The live status does not stay UPDATING: update() "will not raise any
\* exceptions", so every path ends in another status or ends the process.
UpdateConcludes ==
    (live_ota_status = "UPDATING") ~> (live_ota_status # "UPDATING")

\* Likewise for CLIENT_UPDATING and client_update().
ClientUpdateConcludes ==
    (live_ota_status = "CLIENT_UPDATING")
        ~> (live_ota_status # "CLIENT_UPDATING")

=============================================================================
