-------------------------- MODULE SupervisorProofs --------------------------
(***************************************************************************)
(* Proofs about the main process (Supervisor), for any number of deaths,   *)
(* signals, kills, client updates and failing mounts.                      *)
(***************************************************************************)
EXTENDS Supervisor, TLAPS

SuperSpec == SuperInit /\ [][SuperNext]_super_vars

\* What the start-up has not started yet, in the order it starts it
StartupInv ==
    /\ pc \in {"off", "init", "check", "hooks", "shm", "core", "core_start"} => core # "alive"
    /\ pc \in {"off", "init", "check", "hooks", "shm", "core", "core_start", "api", "api_start"}
          => api # "alive"
    /\ pc \in {"off", "init", "check", "hooks", "shm", "core", "core_start", "api", "api_start",
               "proxy"} => proxy = FALSE
    /\ pc \in {"api", "api_start", "proxy", "loop", "stop_proxy"} => core # "created"
    /\ pc \in {"proxy", "loop", "stop_proxy"} => api # "created"
    /\ core = "created" => api # "alive" /\ proxy = FALSE
    /\ api = "created" => proxy = FALSE

\* What the shutdown has stopped by the time it comes to a step, and what a
\* run that got to its end has left
ShutdownInv ==
    /\ pc \in {"stop_api", "unlink", "umount", "exit", "launch", "wait_app"} => core # "alive"
    /\ pc \in {"unlink", "umount", "exit", "launch", "wait_app"} => api # "alive"
    /\ pc \in {"umount", "exit", "launch", "wait_app"} => shm = {}
    /\ pc \in {"exit", "launch", "wait_app"} => mounts \subseteq stuck
    /\ pc = "off" /\ ended = "clean" => shm = {} /\ mounts \subseteq stuck

\* A launch has stopped the otaproxy before the shutdown begins, and a signal
\* that comes before it turns the launch into an exit
LaunchInv ==
    /\ pc \in {"on_shutdown", "stop_core", "stop_api", "unlink", "umount"}
          => (then = "launch" => proxy = FALSE)
    /\ pc \in {"launch", "wait_app"} => proxy = FALSE
    /\ pc = "wait_app" => pid_file = "none"
    /\ "waited" \in app => pc = "wait_app"

\* The inductive invariant
SuperIInv == StartupInv /\ ShutdownInv /\ LaunchInv

\* Every step of the start-up and of the health check loop keeps the invariant.
LEMMA StartIInv ==
    ASSUME SuperIInv, Start \/ HealthCheck \/ CoreRuns \/ ApiDies
    PROVE  SuperIInv'
<1> USE DEF SuperIInv, StartupInv, ShutdownInv, LaunchInv, service, resources, events, Fault, NoFault
<1>1. CASE Started
  BY <1>1 DEF Started
<1>2. CASE DynamicOtaclientInit
  BY <1>2 DEF DynamicOtaclientInit
<1>3. CASE CheckOtherOtaclient
  BY <1>3 DEF CheckOtherOtaclient
<1>4. CASE SetHooks
  BY <1>4 DEF SetHooks
<1>5. CASE StartProcesses
  BY <1>5 DEF StartProcesses
<1>6. CASE HealthCheck
  BY <1>6 DEF HealthCheck
<1>7. CASE CoreRuns
  BY <1>7 DEF CoreRuns, CoreEnds, EXIT_CODE_OTA_ABORTED
<1>8. CASE ApiDies
  BY <1>8 DEF ApiDies
<1>9. QED
  BY <1>1, <1>2, <1>3, <1>4, <1>5, <1>6, <1>7, <1>8 DEF Start

\* Every step of the shutdown and of the launch keeps the invariant.
LEMMA ShutdownIInv ==
    ASSUME SuperIInv, Shutdown \/ Launch \/ DynamicAppEnds
    PROVE  SuperIInv'
<1> USE DEF SuperIInv, StartupInv, ShutdownInv, LaunchInv, service, resources, events, Fault, NoFault
<1>1. CASE TakeGuard
  BY <1>1 DEF TakeGuard
<1>2. CASE StopProcesses
  BY <1>2 DEF StopProcesses, Ended
<1>3. CASE TerminateRaises
  BY <1>3 DEF TerminateRaises
<1>4. CASE Umount
  BY <1>4 DEF Umount
<1>5. CASE Exit
  BY <1>5 DEF Exit
<1>6. CASE StopProxyForLaunch
  BY <1>6 DEF StopProxyForLaunch
<1>7. CASE DynamicOtaclientLaunch
  BY <1>7 DEF DynamicOtaclientLaunch
<1>8. CASE DynamicAppEnds
  BY <1>8 DEF DynamicAppEnds
<1>9. QED
  BY <1>1, <1>2, <1>3, <1>4, <1>5, <1>6, <1>7, <1>8 DEF Shutdown, Launch

\* What comes from outside keeps the invariant.
LEMMA OutsideIInv ==
    ASSUME SuperIInv, Signal \/ Killed \/ PidTaken \/ PidFree
    PROVE  SuperIInv'
<1> USE DEF SuperIInv, StartupInv, ShutdownInv, LaunchInv, service, resources, events, Fault, NoFault
<1>1. CASE Signal
  BY <1>1 DEF Signal, EndsEarly, NoHandler, Handled, Starting
<1>2. CASE Killed
  BY <1>2 DEF Killed, Ended
<1>3. CASE PidTaken
  BY <1>3 DEF PidTaken
<1>4. CASE PidFree
  BY <1>4 DEF PidFree
<1>5. QED
  BY <1>1, <1>2, <1>3, <1>4

\* The invariant holds in every reachable state of the main process.
THEOREM SuperInductive == SuperSpec => []SuperIInv
<1>1. SuperInit => SuperIInv
  BY DEF SuperInit, SuperIInv, StartupInv, ShutdownInv, LaunchInv
<1>2. ASSUME SuperIInv, [SuperNext]_super_vars PROVE SuperIInv'
  <2>1. CASE UNCHANGED super_vars
    BY <1>2, <2>1 DEF SuperIInv, StartupInv, ShutdownInv, LaunchInv, super_vars
  <2>2. CASE SuperNext
    BY <1>2, <2>2, StartIInv, ShutdownIInv, OutsideIInv DEF SuperNext, MainProcess
  <2>3. QED
    BY <1>2, <2>1, <2>2
<1>3. QED
  BY <1>1, <1>2, PTL DEF SuperSpec

\* _on_shutdown: no run leaves a process or the otaproxy, and one that ends by
\* itself or by a signal, its hooks set and no process created but not started,
\* leaves no shared memory and no mount it could unmount, for any number of
\* signals, deaths and kills, of this run and of earlier ones.
THEOREM NothingIsLeft == SuperSpec => []NothingLeft
<1>1. SuperIInv => NothingLeft
  BY DEF SuperIInv, StartupInv, ShutdownInv, NothingLeft
<1>2. QED
  BY <1>1, SuperInductive, PTL

\* The launch branch of main: the dynamic client runs beside nothing of the
\* process that launched it.
THEOREM LaunchIsAlone == SuperSpec => []LaunchedAlone
<1>1. SuperIInv => LaunchedAlone
  BY DEF SuperIInv, ShutdownInv, LaunchInv, LaunchedAlone
<1>2. QED
  BY <1>1, SuperInductive, PTL
=============================================================================
