--------------------------- MODULE OtaCoreProofs ---------------------------
(***************************************************************************)
(* Proofs about OtaCore for any number of sessions, aborts and restarts    *)
(* and for every choice of faults.                                         *)
(***************************************************************************)
EXTENDS OtaCore, TLAPS

\* A process that is not running has no threads.
StoppedInv ==
    ~alive => /\ \A s \in Sessions : upc[s] \in Gone
              /\ ~hold /\ main_pc = "loop" /\ ~aborted_deadline
              /\ live_ota_status = "INITIALIZED"

\* Until a started thread has set the live status, the hold time keeps further
\* requests out and nothing else is running.
StartingInv ==
    \A s \in Sessions : upc[s] \in Starting => hold /\ ~IsBusy

\* The ABORTED status of the startup is only replaced while no thread runs.
DeadlineInv ==
    aborted_deadline \/ main_pc = "expiring"
        => \A s \in Sessions : upc[s] \notin Active

\* The abort handler works for the session that is in update().
SessionInv ==
    /\ \A s \in Sessions :
         upc[s] \in InUpdate \cup {"session_set"} => session_id = s
    /\ live_ota_status = "UPDATING" => session_id \in Sessions
    /\ session_id \in Sessions =>
         upc[session_id] \notin {"none", "spawned", "c_spawned"}

\* The abort state follows the update thread: the critical zone is marked only
\* while the thread is in it, the final phase is never unmarked.
ZoneInv ==
    \A s \in Sessions :
        /\ upc[s] \in InUpdate /\ abort_state \in {"CRITICAL_ZONE", "REQUESTED"}
             => upc[s] \in {"zone", "pre_updated"}
        /\ upc[s] = "session_set" => abort_state \in {"NONE", "ABORTED"}
        /\ upc[s] \in FinalPhase => abort_state \in {"FINAL_PHASE", "ABORTED"}

\* The abort of an update, once accepted, stays visible to its thread.
AcceptedInv ==
    \A s \in abort_accepted :
        /\ upc[s] \notin Starting \cup {"none"}
        /\ upc[s] \in InUpdate =>
             \/ AbortInProgress
             \/ abort_state = "REQUESTED" /\ upc[s] \in {"zone", "pre_updated"}

\* The inductive invariant.
IInv ==
    /\ TypeOK
    /\ StoppedInv
    /\ OneUpdateAtATime
    /\ RunningStatus
    /\ StartingInv
    /\ DeadlineInv
    /\ SessionInv
    /\ ZoneInv
    /\ AcceptedInv
    /\ AcceptedAbortNeverReboots

-----------------------------------------------------------------------------

\* The invariant holds initially.
LEMMA InitIInv == Init => IInv
<1> SUFFICES ASSUME Init PROVE IInv
  OBVIOUS
<1>1. FlagsOK
  BY Zenon DEF Init, FlagsOK
<1>2. TypeOK
  BY <1>1, ConstantsAssumption
     DEF Init, TypeOK, Sessions, Gone, PC, OTAStatus, AbortState, HandlerPC
<1>3. \A s \in Sessions : upc[s] = "none"
  BY DEF Init
<1>4. QED
  BY <1>2, <1>3, ConstantsAssumption
     DEF Init, IInv, StoppedInv, OneUpdateAtATime, RunningStatus, StartingInv,
         DeadlineInv, SessionInv, ZoneInv, AcceptedInv,
         AcceptedAbortNeverReboots, Sessions, Starting, InUpdate, FinalPhase,
         InClientUpdate, Gone, Active

\* The request loop answers a request.
LEMMA RequestIInv ==
    ASSUME IInv, NEW s \in Sessions,
           RejectBusy(s) \/ AcceptUpdate(s) \/ AcceptClientUpdate(s)
    PROVE  IInv'
<1> USE ConstantsAssumption
    DEF IInv, TypeOK, StoppedInv, OneUpdateAtATime, RunningStatus, StartingInv,
        DeadlineInv, SessionInv, ZoneInv, AcceptedInv,
        AcceptedAbortNeverReboots, Sessions, Starting, InUpdate, FinalPhase,
        InClientUpdate, Leaving, Gone, PC, Active,
        OTAStatus, AbortState, HandlerPC, IsBusy, AbortInProgress, MainRuns,
        Goes, main_vars, handler_vars, proc_vars, thread_vars, count_vars, others
<1>1. CASE RejectBusy(s)
  <2>1. FlagsOK'
    BY <1>1, Zenon DEF FlagsOK, RejectBusy
  <2>2. QED
    BY <1>1, <2>1 DEF RejectBusy
<1>2. CASE AcceptUpdate(s)
  <2>1. FlagsOK'
    BY <1>2, Zenon DEF FlagsOK, AcceptUpdate, Accept
  <2>2. QED
    BY <1>2, <2>1 DEF AcceptUpdate, Accept
<1>3. CASE AcceptClientUpdate(s)
  <2>1. FlagsOK'
    BY <1>3, Zenon DEF FlagsOK, AcceptClientUpdate, Accept
  <2>2. QED
    BY <1>3, <2>1 DEF AcceptClientUpdate, Accept
<1>4. QED
  BY <1>1, <1>2, <1>3

\* The other steps of the request loop.
LEMMA LoopIInv ==
    ASSUME IInv, HoldExpires \/ SubmitAbort \/ GetResponse \/ GetResponseTimeout
           \/ ExpireAbortedCheck \/ ExpireAbortedWrite
    PROVE  IInv'
<1> USE ConstantsAssumption
    DEF IInv, TypeOK, StoppedInv, OneUpdateAtATime, RunningStatus, StartingInv,
        DeadlineInv, SessionInv, ZoneInv, AcceptedInv,
        AcceptedAbortNeverReboots, Sessions, Starting, InUpdate, FinalPhase,
        InClientUpdate, Leaving, Gone, PC, Active,
        OTAStatus, AbortState, HandlerPC, IsBusy, AbortInProgress, MainRuns,
        Goes, main_vars, handler_vars, proc_vars, thread_vars, count_vars, others
<1>1. CASE HoldExpires
  <2>1. FlagsOK'
    BY <1>1, Zenon DEF FlagsOK, HoldExpires
  <2>2. QED
    BY <1>1, <2>1 DEF HoldExpires
<1>2. CASE SubmitAbort
  <2>1. FlagsOK'
    BY <1>2, Zenon DEF FlagsOK, SubmitAbort
  <2>2. QED
    BY <1>2, <2>1 DEF SubmitAbort
<1>3. CASE GetResponse
  <2>1. FlagsOK'
    BY <1>3, Zenon DEF FlagsOK, GetResponse
  <2>2. QED
    BY <1>3, <2>1 DEF GetResponse
<1>4. CASE GetResponseTimeout
  <2>1. FlagsOK'
    BY <1>4, Zenon DEF FlagsOK, GetResponseTimeout
  <2>2. QED
    BY <1>4, <2>1 DEF GetResponseTimeout
<1>5. CASE ExpireAbortedCheck
  <2>1. FlagsOK'
    BY <1>5, Zenon DEF FlagsOK, ExpireAbortedCheck
  <2>2. QED
    BY <1>5, <2>1 DEF ExpireAbortedCheck
<1>6. CASE ExpireAbortedWrite
  <2>1. FlagsOK'
    BY <1>6, Zenon DEF FlagsOK, ExpireAbortedWrite
  <2>2. QED
    BY <1>6, <2>1 DEF ExpireAbortedWrite
<1>7. QED
  BY <1>1, <1>2, <1>3, <1>4, <1>5, <1>6

\* The abort handler thread.
LEMMA HandlerIInv ==
    ASSUME IInv, HandlerStep
    PROVE  IInv'
<1> USE ConstantsAssumption
    DEF IInv, TypeOK, StoppedInv, OneUpdateAtATime, RunningStatus, StartingInv,
        DeadlineInv, SessionInv, ZoneInv, AcceptedInv,
        AcceptedAbortNeverReboots, Sessions, Starting, InUpdate, FinalPhase,
        InClientUpdate, Leaving, Gone, PC, Active,
        OTAStatus, AbortState, HandlerPC, IsBusy, AbortInProgress, MainRuns,
        Goes, main_vars, handler_vars, proc_vars, thread_vars, count_vars, others
<1>1. CASE Handle
  <2>1. FlagsOK'
    BY <1>1, Zenon DEF FlagsOK, Handle, HandleOutcome
  <2>2. QED
    BY <1>1, <2>1 DEF Handle, HandleOutcome
<1>2. CASE RunCheck
  <2>1. FlagsOK'
    BY <1>2, Zenon DEF FlagsOK, RunCheck
  <2>2. QED
    BY <1>2, <2>1 DEF RunCheck
<1>3. CASE OnAbort
  <2>1. FlagsOK'
    BY <1>3, Zenon DEF FlagsOK, OnAbort
  <2>2. QED
    BY <1>3, <2>1 DEF OnAbort
<1>4. CASE OnAbortFails
  <2>1. FlagsOK'
    BY <1>4, Zenon DEF FlagsOK, OnAbortFails
  <2>2. QED
    BY <1>4, <2>1 DEF OnAbortFails
<1>5. CASE SendAbortSignal
  <2>1. FlagsOK'
    BY <1>5, Zenon DEF FlagsOK, SendAbortSignal
  <2>2. QED
    BY <1>5, <2>1 DEF SendAbortSignal
<1> HIDE DEF IInv
<1>6. QED
  BY <1>1, <1>2, <1>3, <1>4, <1>5, Zenon DEF HandlerStep

\* An update thread.
LEMMA UpdateIInv ==
    ASSUME IInv, NEW s \in Sessions, UpdateStep(s)
    PROVE  IInv'
<1> USE ConstantsAssumption
    DEF IInv, TypeOK, StoppedInv, OneUpdateAtATime, RunningStatus, StartingInv,
        DeadlineInv, SessionInv, ZoneInv, AcceptedInv,
        AcceptedAbortNeverReboots, Sessions, Starting, InUpdate, FinalPhase,
        InClientUpdate, Leaving, Gone, PC, Active,
        OTAStatus, AbortState, HandlerPC, IsBusy, AbortInProgress, MainRuns,
        Goes, main_vars, handler_vars, proc_vars, thread_vars, count_vars, others
<1>1. CASE SetSession(s)
  <2>1. FlagsOK'
    BY <1>1, Zenon DEF FlagsOK, SetSession
  <2>2. QED
    BY <1>1, <2>1 DEF SetSession
<1>2. CASE SetUpdating(s)
  <2>1. FlagsOK'
    BY <1>2, Zenon DEF FlagsOK, SetUpdating
  <2>2. QED
    BY <1>2, <2>1 DEF SetUpdating
<1>3. CASE Prepared(s)
  <2>1. FlagsOK'
    BY <1>3, Zenon DEF FlagsOK, Prepared
  <2>2. QED
    BY <1>3, <2>1 DEF Prepared
<1>4. CASE PrepareFails(s)
  <2>1. FlagsOK'
    BY <1>4, Zenon DEF FlagsOK, PrepareFails
  <2>2. QED
    BY <1>4, <2>1 DEF PrepareFails
<1>5. CASE ExecuteFails(s)
  <2>1. FlagsOK'
    BY <1>5, Zenon DEF FlagsOK, ExecuteFails
  <2>2. QED
    BY <1>5, <2>1 DEF ExecuteFails
<1>6. CASE EnterCriticalZone(s)
  <2>1. FlagsOK'
    BY <1>6, Zenon DEF FlagsOK, EnterCriticalZone
  <2>2. QED
    BY <1>6, <2>1 DEF EnterCriticalZone
<1>7. CASE PreUpdateCurrent(s)
  <2>1. FlagsOK'
    BY <1>7, Zenon DEF FlagsOK, PreUpdateCurrent
  <2>2. QED
    BY <1>7, <2>1 DEF PreUpdateCurrent
<1>8. ASSUME NEW raised \in BOOLEAN, ExitCriticalZone(s, raised)
      PROVE  IInv'
  <2>1. FlagsOK'
    BY <1>8, Zenon DEF FlagsOK, ExitCriticalZone, Notified
  <2>2. QED
    BY <1>8, <2>1 DEF ExitCriticalZone, Notified
<1>9. CASE EnterFinalPhase(s)
  <2>1. FlagsOK'
    BY <1>9, Zenon DEF FlagsOK, EnterFinalPhase
  <2>2. QED
    BY <1>9, <2>1 DEF EnterFinalPhase
<1>10. CASE PostUpdate(s)
  <2>1. FlagsOK'
    BY <1>10, Zenon DEF FlagsOK, PostUpdate
  <2>2. QED
    BY <1>10, <2>1 DEF PostUpdate
<1>11. CASE RebootFails(s)
  <2>1. FlagsOK'
    BY <1>11, Zenon DEF FlagsOK, RebootFails
  <2>2. QED
    BY <1>11, <2>1 DEF RebootFails
<1>12. CASE ExecuteExcept(s)
  <2>1. FlagsOK'
    BY <1>12, Zenon DEF FlagsOK, ExecuteExcept
  <2>2. QED
    BY <1>12, <2>1 DEF ExecuteExcept
<1>13. CASE OnOperationFailure(s)
  <2>1. FlagsOK'
    BY <1>13, Zenon DEF FlagsOK, OnOperationFailure
  <2>2. QED
    BY <1>13, <2>1 DEF OnOperationFailure
<1>14. CASE UpdateExcept(s)
  <2>1. FlagsOK'
    BY <1>14, Zenon DEF FlagsOK, UpdateExcept
  <2>2. QED
    BY <1>14, <2>1 DEF UpdateExcept
<1>15. CASE SetFailure(s)
  <2>1. FlagsOK'
    BY <1>15, Zenon DEF FlagsOK, SetFailure
  <2>2. QED
    BY <1>15, <2>1 DEF SetFailure
<1>16. CASE StoreFailure(s)
  <2>1. FlagsOK'
    BY <1>16, Zenon DEF FlagsOK, StoreFailure
  <2>2. QED
    BY <1>16, <2>1 DEF StoreFailure
<1>17. CASE SetAborted(s)
  <2>1. FlagsOK'
    BY <1>17, Zenon DEF FlagsOK, SetAborted
  <2>2. QED
    BY <1>17, <2>1 DEF SetAborted
<1>18. CASE Finally(s)
  <2>1. FlagsOK'
    BY <1>18, Zenon DEF FlagsOK, Finally, IsDynamicClientRunning
  <2>2. QED
    BY <1>18, <2>1 DEF Finally, IsDynamicClientRunning
<1>19. CASE Reboot(s)
  <2>1. FlagsOK'
    BY <1>19, Zenon DEF FlagsOK, Reboot, Stop
  <2>2. QED
    BY <1>19, <2>1 DEF Reboot, Stop
<1> HIDE DEF IInv
<1>20. QED
  BY <1>1, <1>2, <1>3, <1>4, <1>5, <1>6, <1>7, <1>8, <1>9, <1>10, <1>11,
     <1>12, <1>13, <1>14, <1>15, <1>16, <1>17, <1>18, <1>19, Zenon DEF
     UpdateStep

\* A client-update thread.
LEMMA ClientIInv ==
    ASSUME IInv, NEW s \in Sessions, ClientStep(s)
    PROVE  IInv'
<1> USE ConstantsAssumption
    DEF IInv, TypeOK, StoppedInv, OneUpdateAtATime, RunningStatus, StartingInv,
        DeadlineInv, SessionInv, ZoneInv, AcceptedInv,
        AcceptedAbortNeverReboots, Sessions, Starting, InUpdate, FinalPhase,
        InClientUpdate, Leaving, Gone, PC, Active,
        OTAStatus, AbortState, HandlerPC, IsBusy, AbortInProgress, MainRuns,
        Goes, main_vars, handler_vars, proc_vars, thread_vars, count_vars, others
<1>1. CASE IgnoreClientUpdate(s)
  <2>1. FlagsOK'
    BY <1>1, Zenon DEF FlagsOK, IgnoreClientUpdate
  <2>2. QED
    BY <1>1, <2>1 DEF IgnoreClientUpdate
<1>2. CASE SetClientUpdating(s)
  <2>1. FlagsOK'
    BY <1>2, Zenon DEF FlagsOK, SetClientUpdating
  <2>2. QED
    BY <1>2, <2>1 DEF SetClientUpdating
<1>3. CASE ClientPrepared(s)
  <2>1. FlagsOK'
    BY <1>3, Zenon DEF FlagsOK, ClientPrepared
  <2>2. QED
    BY <1>3, <2>1 DEF ClientPrepared
<1>4. CASE ClientPrepareFails(s)
  <2>1. FlagsOK'
    BY <1>4, Zenon DEF FlagsOK, ClientPrepareFails
  <2>2. QED
    BY <1>4, <2>1 DEF ClientPrepareFails
<1>5. CASE ClientFails(s)
  <2>1. FlagsOK'
    BY <1>5, Zenon DEF FlagsOK, ClientFails
  <2>2. QED
    BY <1>5, <2>1 DEF ClientFails
<1>6. CASE ClientHandsOver(s)
  <2>1. FlagsOK'
    BY <1>6, Zenon DEF FlagsOK, ClientHandsOver
  <2>2. QED
    BY <1>6, <2>1 DEF ClientHandsOver
<1>7. CASE ClientRequestsShutdown(s)
  <2>1. FlagsOK'
    BY <1>7, Zenon DEF FlagsOK, ClientRequestsShutdown
  <2>2. QED
    BY <1>7, <2>1 DEF ClientRequestsShutdown
<1> HIDE DEF IInv
<1>8. QED
  BY <1>1, <1>2, <1>3, <1>4, <1>5, <1>6, <1>7, Zenon DEF ClientStep

\* The process ends or starts.
LEMMA ProcessIInv ==
    ASSUME IInv, ProcessStep
    PROVE  IInv'
<1> USE ConstantsAssumption
    DEF IInv, TypeOK, StoppedInv, OneUpdateAtATime, RunningStatus, StartingInv,
        DeadlineInv, SessionInv, ZoneInv, AcceptedInv,
        AcceptedAbortNeverReboots, Sessions, Starting, InUpdate, FinalPhase,
        InClientUpdate, Leaving, Gone, PC, Active,
        OTAStatus, AbortState, HandlerPC, IsBusy, AbortInProgress, MainRuns,
        Goes, main_vars, handler_vars, proc_vars, thread_vars, count_vars, others
<1>1. CASE ExitOnAbortSignal
  <2>1. FlagsOK'
    BY <1>1, Zenon DEF FlagsOK, ExitOnAbortSignal, Stop
  <2>2. QED
    BY <1>1, <2>1 DEF ExitOnAbortSignal, Stop
<1>2. CASE SupervisorStops
  <2>1. FlagsOK'
    BY <1>2, Zenon DEF FlagsOK, SupervisorStops, Stop
  <2>2. QED
    BY <1>2, <2>1 DEF SupervisorStops, Stop
<1>3. CASE SupervisorLaunchesApp
  <2>1. FlagsOK'
    BY <1>3, Zenon DEF FlagsOK, SupervisorLaunchesApp, Stop
  <2>2. QED
    BY <1>3, <2>1 DEF SupervisorLaunchesApp, Stop
<1>4. CASE Crash
  <2>1. FlagsOK'
    BY <1>4, Zenon DEF FlagsOK, Crash, Stop
  <2>2. QED
    BY <1>4, <2>1 DEF Crash, Stop
<1>5. CASE Start
  <2>1. FlagsOK'
    BY <1>5, Zenon DEF FlagsOK, Start, LoadStatus
  <2>2. QED
    BY <1>5, <2>1 DEF Start, LoadStatus
<1>6. CASE StartFails
  <2>1. FlagsOK'
    BY <1>6, Zenon DEF FlagsOK, StartFails
  <2>2. QED
    BY <1>6, <2>1 DEF StartFails
<1> HIDE DEF IInv
<1>7. QED
  BY <1>1, <1>2, <1>3, <1>4, <1>5, <1>6, Zenon DEF ProcessStep

\* Every step, and every stuttering step, preserves the invariant.
LEMMA NextIInv == IInv /\ [Next]_vars => IInv'
<1> SUFFICES ASSUME IInv, [Next]_vars PROVE IInv'
  OBVIOUS
<1>1. CASE Next
  BY <1>1, RequestIInv, LoopIInv, HandlerIInv, UpdateIInv, ClientIInv,
     ProcessIInv, Zenon DEF Next, MainStep
<1>2. CASE UNCHANGED vars
  <2>1. FlagsOK'
    BY <1>2, Zenon DEF IInv, TypeOK, FlagsOK, vars, main_vars, handler_vars,
                       proc_vars
  <2>2. QED
    BY <1>2, <2>1
       DEF IInv, TypeOK, StoppedInv, OneUpdateAtATime, RunningStatus,
           StartingInv, DeadlineInv, SessionInv, ZoneInv, AcceptedInv,
           AcceptedAbortNeverReboots, IsBusy,
           AbortInProgress, vars, main_vars, handler_vars, proc_vars,
           thread_vars, count_vars
<1>3. QED
  BY <1>1, <1>2

\* The inductive invariant holds throughout.
THEOREM SpecIInv == Spec => []IInv
BY InitIInv, NextIInv, PTL DEF Spec

\* Every variable keeps its type.
THEOREM TypeCorrect == Spec => []TypeOK
<1>1. IInv => TypeOK
  BY DEF IInv
<1>2. QED
  BY <1>1, SpecIInv, PTL

\* The request loop never runs two updates, whatever the number of requests.
THEOREM NeverTwoUpdates == Spec => []OneUpdateAtATime
<1>1. IInv => OneUpdateAtATime
  BY DEF IInv
<1>2. QED
  BY <1>1, SpecIInv, PTL

\* The live status names the OTA that is running.
THEOREM LiveStatusCorrect == Spec => []RunningStatus
<1>1. IInv => RunningStatus
  BY DEF IInv
<1>2. QED
  BY <1>1, SpecIInv, PTL

\* An update whose abort was accepted does not switch slots and reboot.
THEOREM AbortPrecludesReboot == Spec => []AcceptedAbortNeverReboots
<1>1. IInv => AcceptedAbortNeverReboots
  BY DEF IInv
<1>2. QED
  BY <1>1, SpecIInv, PTL

-----------------------------------------------------------------------------
(* The ABORTED status of an accepted abort is what the next start finds.     *)

\* Once an abort has been accepted its thread is in the critical zone only
\* while the abort waits for it, and once on_abort has written the status file
\* no thread is left that writes it.
SurvivesInv ==
    /\ ~alive => abort_accepted = {}
    /\ handler_pc \in {"perform", "on_abort_done"}
         \/ abort_state \in {"REQUESTED", "ABORTING", "ABORTED"}
           => abort_accepted # {}
    /\ abort_accepted \subseteq {session_id}
         => \A s \in Sessions :
              upc[s] = "zone" => abort_state \in {"CRITICAL_ZONE", "REQUESTED"}
    /\ abort_accepted = {session_id} =>
         /\ handler_pc \in {"perform", "on_abort_done"} => AbortInProgress
         /\ handler_pc = "on_abort_done" \/ abort_state = "ABORTED" =>
              /\ status_file = "ABORTED"
              /\ \A s \in Sessions :
                   upc[s] \notin {"zone", "on_failure", "set_failure",
                                  "store_failure"}

\* What AbortedStatusSurvives says of one step.
AbortedStays ==
    alive /\ alive' /\ abort_accepted = {session_id}
        /\ (handler_pc = "on_abort_done" \/ abort_state = "ABORTED")
      => status_file' = "ABORTED"

\* The request loop answers a request.
LEMMA RequestSurvives ==
    ASSUME IInv, SurvivesInv, NEW s \in Sessions,
           RejectBusy(s) \/ AcceptUpdate(s) \/ AcceptClientUpdate(s)
    PROVE  SurvivesInv' /\ AbortedStays
<1> USE ConstantsAssumption
    DEF IInv, TypeOK, StoppedInv, OneUpdateAtATime, RunningStatus, StartingInv,
        SessionInv, ZoneInv, AcceptedInv, SurvivesInv, AbortedStays, Sessions,
        Starting, InUpdate, FinalPhase, InClientUpdate, Leaving, Gone, PC, Active,
        IsBusy, AbortInProgress, MainRuns, Goes, main_vars, handler_vars,
        proc_vars, thread_vars, count_vars, others
<1>1. CASE RejectBusy(s)
  BY <1>1 DEF RejectBusy
<1>2. CASE AcceptUpdate(s)
  BY <1>2 DEF AcceptUpdate, Accept
<1>3. CASE AcceptClientUpdate(s)
  BY <1>3 DEF AcceptClientUpdate, Accept
<1> HIDE DEF IInv, SurvivesInv, AbortedStays
<1>4. QED
  BY <1>1, <1>2, <1>3, Zenon

\* The other steps of the request loop.
LEMMA LoopSurvives ==
    ASSUME IInv, SurvivesInv, HoldExpires \/ SubmitAbort \/ GetResponse
           \/ GetResponseTimeout \/ ExpireAbortedCheck \/ ExpireAbortedWrite
    PROVE  SurvivesInv' /\ AbortedStays
<1> USE ConstantsAssumption
    DEF IInv, TypeOK, StoppedInv, OneUpdateAtATime, RunningStatus, StartingInv,
        SessionInv, ZoneInv, AcceptedInv, SurvivesInv, AbortedStays, Sessions,
        Starting, InUpdate, FinalPhase, InClientUpdate, Leaving, Gone, PC, Active,
        IsBusy, AbortInProgress, MainRuns, Goes, main_vars, handler_vars,
        proc_vars, thread_vars, count_vars, others
<1>1. CASE HoldExpires
  BY <1>1 DEF HoldExpires
<1>2. CASE SubmitAbort
  BY <1>2 DEF SubmitAbort
<1>3. CASE GetResponse
  BY <1>3 DEF GetResponse
<1>4. CASE GetResponseTimeout
  BY <1>4 DEF GetResponseTimeout
<1>5. CASE ExpireAbortedCheck
  BY <1>5 DEF ExpireAbortedCheck
<1>6. CASE ExpireAbortedWrite
  BY <1>6 DEF ExpireAbortedWrite
<1> HIDE DEF IInv, SurvivesInv, AbortedStays
<1>7. QED
  BY <1>1, <1>2, <1>3, <1>4, <1>5, <1>6, Zenon

\* The abort handler: what it writes stays.
LEMMA HandlerSurvives ==
    ASSUME IInv, SurvivesInv, HandlerStep
    PROVE  SurvivesInv' /\ AbortedStays
<1> USE ConstantsAssumption
    DEF IInv, TypeOK, StoppedInv, OneUpdateAtATime, RunningStatus, StartingInv,
        SessionInv, ZoneInv, AcceptedInv, SurvivesInv, AbortedStays, Sessions,
        Starting, InUpdate, FinalPhase, InClientUpdate, Leaving, Gone, PC, Active,
        IsBusy, AbortInProgress, MainRuns, Goes, main_vars, handler_vars,
        proc_vars, thread_vars, count_vars, others
<1>1. CASE Handle
  BY <1>1 DEF Handle, HandleOutcome
<1>2. CASE RunCheck
  BY <1>2 DEF RunCheck
<1>3. CASE OnAbort
  BY <1>3 DEF OnAbort
<1>4. CASE OnAbortFails
  BY <1>4 DEF OnAbortFails
<1>5. CASE SendAbortSignal
  BY <1>5 DEF SendAbortSignal
<1> HIDE DEF IInv, SurvivesInv, AbortedStays
<1>6. QED
  BY <1>1, <1>2, <1>3, <1>4, <1>5, Zenon DEF HandlerStep

\* An update thread: once the abort is in progress, it writes no status.
LEMMA UpdateSurvives ==
    ASSUME IInv, SurvivesInv, NEW s \in Sessions, UpdateStep(s)
    PROVE  SurvivesInv' /\ AbortedStays
<1> USE ConstantsAssumption
    DEF IInv, TypeOK, StoppedInv, OneUpdateAtATime, RunningStatus, StartingInv,
        SessionInv, ZoneInv, AcceptedInv, SurvivesInv, AbortedStays, Sessions,
        Starting, InUpdate, FinalPhase, InClientUpdate, Leaving, Gone, PC, Active,
        IsBusy, AbortInProgress, MainRuns, Goes, main_vars, handler_vars,
        proc_vars, thread_vars, count_vars, others
<1>1. CASE SetSession(s)
  BY <1>1 DEF SetSession
<1>2. CASE SetUpdating(s)
  BY <1>2 DEF SetUpdating
<1>3. CASE Prepared(s)
  BY <1>3 DEF Prepared
<1>4. CASE PrepareFails(s)
  BY <1>4 DEF PrepareFails
<1>5. CASE ExecuteFails(s)
  BY <1>5 DEF ExecuteFails
<1>6. CASE EnterCriticalZone(s)
  BY <1>6 DEF EnterCriticalZone
<1>7. CASE PreUpdateCurrent(s)
  BY <1>7 DEF PreUpdateCurrent
<1>8. ASSUME NEW raised \in BOOLEAN, ExitCriticalZone(s, raised)
      PROVE  SurvivesInv' /\ AbortedStays
  BY <1>8 DEF ExitCriticalZone, Notified
<1>9. CASE EnterFinalPhase(s)
  BY <1>9 DEF EnterFinalPhase
<1>10. CASE PostUpdate(s)
  BY <1>10 DEF PostUpdate
<1>11. CASE Reboot(s)
  BY <1>11 DEF Reboot, Stop
<1>12. CASE RebootFails(s)
  BY <1>12 DEF RebootFails
<1>13. CASE ExecuteExcept(s)
  BY <1>13 DEF ExecuteExcept
<1>14. CASE OnOperationFailure(s)
  BY <1>14 DEF OnOperationFailure
<1>15. CASE UpdateExcept(s)
  BY <1>15 DEF UpdateExcept
<1>16. CASE SetFailure(s)
  BY <1>16 DEF SetFailure
<1>17. CASE StoreFailure(s)
  BY <1>17 DEF StoreFailure
<1>18. CASE SetAborted(s)
  BY <1>18 DEF SetAborted
<1>19. CASE Finally(s)
  BY <1>19 DEF Finally
<1> HIDE DEF IInv, SurvivesInv, AbortedStays
<1>20. QED
  BY <1>1, <1>2, <1>3, <1>4, <1>5, <1>6, <1>7, <1>8, <1>9, <1>10, <1>11,
     <1>12, <1>13, <1>14, <1>15, <1>16, <1>17, <1>18, <1>19, Zenon DEF
     UpdateStep

\* A client-update thread does not write the status.
LEMMA ClientSurvives ==
    ASSUME IInv, SurvivesInv, NEW s \in Sessions, ClientStep(s)
    PROVE  SurvivesInv' /\ AbortedStays
<1> USE ConstantsAssumption
    DEF IInv, TypeOK, StoppedInv, OneUpdateAtATime, RunningStatus, StartingInv,
        SessionInv, ZoneInv, AcceptedInv, SurvivesInv, AbortedStays, Sessions,
        Starting, InUpdate, FinalPhase, InClientUpdate, Leaving, Gone, PC, Active,
        IsBusy, AbortInProgress, MainRuns, Goes, main_vars, handler_vars,
        proc_vars, thread_vars, count_vars, others
<1>1. CASE IgnoreClientUpdate(s)
  BY <1>1 DEF IgnoreClientUpdate
<1>2. CASE SetClientUpdating(s)
  BY <1>2 DEF SetClientUpdating
<1>3. CASE ClientPrepared(s)
  BY <1>3 DEF ClientPrepared
<1>4. CASE ClientPrepareFails(s)
  BY <1>4 DEF ClientPrepareFails
<1>5. CASE ClientFails(s)
  BY <1>5 DEF ClientFails
<1>6. CASE ClientHandsOver(s)
  BY <1>6 DEF ClientHandsOver
<1>7. CASE ClientRequestsShutdown(s)
  BY <1>7 DEF ClientRequestsShutdown
<1> HIDE DEF IInv, SurvivesInv, AbortedStays
<1>8. QED
  BY <1>1, <1>2, <1>3, <1>4, <1>5, <1>6, <1>7, Zenon DEF ClientStep

\* The end of the process ends the abort, and a start finds none.
LEMMA ProcessSurvives ==
    ASSUME IInv, SurvivesInv, ProcessStep
    PROVE  SurvivesInv' /\ AbortedStays
<1> USE ConstantsAssumption
    DEF IInv, TypeOK, StoppedInv, OneUpdateAtATime, RunningStatus, StartingInv,
        SessionInv, ZoneInv, AcceptedInv, SurvivesInv, AbortedStays, Sessions,
        Starting, InUpdate, FinalPhase, InClientUpdate, Leaving, Gone, PC, Active,
        IsBusy, AbortInProgress, MainRuns, Goes, main_vars, handler_vars,
        proc_vars, thread_vars, count_vars, others
<1>1. CASE ExitOnAbortSignal
  BY <1>1 DEF ExitOnAbortSignal, Stop
<1>2. CASE SupervisorStops
  BY <1>2 DEF SupervisorStops, Stop
<1>3. CASE SupervisorLaunchesApp
  BY <1>3 DEF SupervisorLaunchesApp, Stop
<1>4. CASE Crash
  BY <1>4 DEF Crash, Stop
<1>5. CASE Start
  BY <1>5 DEF Start
<1>6. CASE StartFails
  BY <1>6 DEF StartFails
<1> HIDE DEF IInv, SurvivesInv, AbortedStays
<1>7. QED
  BY <1>1, <1>2, <1>3, <1>4, <1>5, <1>6, Zenon DEF ProcessStep

\* Every step keeps the invariant, and the status once it is written.
LEMMA NextSurvives ==
    ASSUME IInv, SurvivesInv, [Next]_vars
    PROVE  SurvivesInv' /\ [AbortedStays]_vars
<1>1. CASE Next
  BY <1>1, RequestSurvives, LoopSurvives, HandlerSurvives, UpdateSurvives,
     ClientSurvives, ProcessSurvives, Zenon DEF Next, MainStep
<1>2. CASE UNCHANGED vars
  BY <1>2 DEF SurvivesInv, AbortInProgress, vars, main_vars, handler_vars,
              proc_vars, thread_vars, count_vars
<1>3. QED
  BY <1>1, <1>2

\* Once on_abort has written ABORTED for the first abort since the start, no
\* thread overwrites it while the process lives: the update thread finds the
\* abort in progress in its except blocks and leaves without a report.
THEOREM AbortedIsKept == Spec => AbortedStatusSurvives
<1>1. Init => SurvivesInv
  BY DEF Init, SurvivesInv, AbortInProgress
<1>2. IInv /\ SurvivesInv /\ [Next]_vars => SurvivesInv' /\ [AbortedStays]_vars
  BY NextSurvives
<1>3. AbortedStatusSurvives <=> [][AbortedStays]_vars
  BY DEF AbortedStatusSurvives, AbortedStays
<1> HIDE DEF AbortedStays, SurvivesInv
<1>4. QED
  BY <1>1, <1>2, <1>3, SpecIInv, PTL DEF Spec

=============================================================================
