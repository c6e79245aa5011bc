----------------------------- MODULE Supervisor -----------------------------
(***************************************************************************)
(* The main process of otaclient (otaclient/main.py): start-up, the health *)
(* check loop over ota_core and the API server, the shutdown that runs at  *)
(* most once, signals, and the launch of a downloaded dynamic client.      *)
(* systemd (samples/otaclient.service) restarts the process when it ends.  *)
(***************************************************************************)
EXTENDS Integers, FiniteSets

CONSTANTS
    MaxFaults   \* what may happen to a run: a process dies, a client update asks for a
                \* launch or a shutdown, the main process is killed or signalled, a mount
                \* or umount fails, a pid is taken

VARIABLES
    app_image,   \* running as an APP image
    pc,          \* where the main process is
    then,        \* what follows the shutdown: "exit", "launch" or "none"
    guard,       \* _global_shutdown_lock is taken
    pid_file,    \* "none", "mine", or the pid of a process that is "gone" or "taken" by another
    core, api,   \* "none", "created" and not started, "alive", or how the process ended
    shm,         \* the shared memory segments
    mounts,      \* mount points below /run/otaclient/mnt
    stuck,       \* mount points that could not be unmounted
    proxy,       \* the otaproxy control thread runs
    data_ready, request_shutdown,     \* client_update_control_flags
    app,         \* the downloaded dynamic clients that are up: the one this run waits
                 \* for, and one "left" by a run that was killed
    ended,       \* how the last run ended
    faults

super_vars == <<app_image, pc, then, guard, pid_file, core, api, shm, mounts, stuck,
                proxy, data_ready, request_shutdown, app, ended, faults>>

Segments == {"status", "metrics"}
Mounts == {"session", "active_slot", "standby_slot"}
EXIT_CODE_OTA_ABORTED == "aborted"
CoreEnds == {"success", EXIT_CODE_OTA_ABORTED, "error"}

SuperInit ==
    /\ app_image \in BOOLEAN
    /\ pc = "off" /\ then = "none" /\ guard = FALSE /\ pid_file \in {"none", "gone"}
    /\ core = "none" /\ api = "none" /\ shm = {} /\ mounts = {} /\ stuck = {}
    /\ proxy = FALSE /\ data_ready = FALSE /\ request_shutdown = FALSE
    /\ app = {} /\ ended = "none" /\ faults = MaxFaults

Fault == faults > 0 /\ faults' = faults - 1
NoFault == UNCHANGED faults

resources == <<core, api, shm, mounts, stuck, proxy>>
events == <<data_ready, request_shutdown>>
service == <<app_image, app>>

\* The pid that the file of a run that ended names
PidGone == IF pid_file = "mine" THEN "gone" ELSE pid_file

(***************************************************************************)
(* Start-up                                                                *)
(***************************************************************************)
\* systemd starts the service.  It meets the mounts that the last run left;
\* shared memory it left has another, random name.
Started ==
    /\ pc = "off"
    /\ pc' = IF app_image THEN "init" ELSE "check"
    /\ then' = "none" /\ guard' = FALSE /\ core' = "none" /\ api' = "none" /\ shm' = {}
    /\ data_ready' = FALSE /\ request_shutdown' = FALSE /\ stuck' = {}
    /\ NoFault /\ UNCHANGED <<service, pid_file, mounts, proxy, ended>>

\* _dynamic_otaclient_init, _bind_external_nfs_cache.  Of the three mounts the
\* active slot is the second; a failure ends the process before it has set
\* up anything to run at its end.
DynamicOtaclientInit ==
    /\ pc = "init"
    /\ \/ /\ NoFault /\ pc' = "check" /\ mounts' = mounts \cup {"active_slot"}
          /\ UNCHANGED ended
       \/ /\ Fault /\ pc' = "off" /\ ended' = "early"
          /\ mounts' \in {mounts, mounts \cup {"active_slot"}}
    /\ UNCHANGED <<service, then, guard, pid_file, core, api, shm, stuck, proxy, events>>

\* The pid in the file is that of a running process: this one gives up
PidIsRunning == pid_file = "taken"

CheckOtherOtaclient ==
    /\ pc = "check"
    /\ IF PidIsRunning
       THEN pc' = "off" /\ ended' = "early" /\ UNCHANGED pid_file
       ELSE pc' = "hooks" /\ pid_file' = "mine" /\ UNCHANGED ended
    /\ NoFault /\ UNCHANGED <<service, then, guard, resources, events>>

\* atexit.register and the signal handlers
SetHooks ==
    /\ pc = "hooks" /\ pc' = "shm"
    /\ NoFault /\ UNCHANGED <<service, then, guard, pid_file, resources, events, ended>>

\* Each process is created, the global names it, and then it is started
StartProcesses ==
    /\ \/ pc = "shm" /\ shm' = Segments /\ pc' = "core" /\ UNCHANGED <<core, api, proxy>>
       \/ pc = "core" /\ core' = "created" /\ pc' = "core_start" /\ UNCHANGED <<shm, api, proxy>>
       \/ pc = "core_start" /\ core' = "alive" /\ pc' = "api" /\ UNCHANGED <<shm, api, proxy>>
       \/ pc = "api" /\ api' = "created" /\ pc' = "api_start" /\ UNCHANGED <<shm, core, proxy>>
       \/ pc = "api_start" /\ api' = "alive" /\ pc' = "proxy" /\ UNCHANGED <<shm, core, proxy>>
       \/ pc = "proxy" /\ proxy' = TRUE /\ pc' = "loop" /\ UNCHANGED <<shm, core, api>>
    /\ NoFault /\ UNCHANGED <<service, then, guard, pid_file, mounts, stuck, events, ended>>

(***************************************************************************)
(* ota_core and the API server                                             *)
(***************************************************************************)
CoreRuns ==
    /\ core = "alive"
    /\ \/ /\ mounts' = mounts \cup {"session", "standby_slot"}
          /\ NoFault /\ UNCHANGED <<core, events>>
       \/ /\ faults > 0 /\ mounts' = mounts /\ UNCHANGED core
          /\ Fault                                   \* a client update, one for each fault
          /\ \/ data_ready' = TRUE /\ UNCHANGED request_shutdown
             \/ request_shutdown' = TRUE /\ UNCHANGED data_ready
       \/ Fault /\ core' \in CoreEnds /\ UNCHANGED <<mounts, events>>
    /\ UNCHANGED <<service, pc, then, guard, pid_file, api, shm, stuck, proxy, ended>>

ApiDies ==
    /\ api = "alive" /\ Fault /\ api' = "error"
    /\ UNCHANGED <<service, pc, then, guard, pid_file, core, shm, mounts, stuck, proxy, events,
                   ended>>

(***************************************************************************)
(* The health check loop: the first condition that holds decides           *)
(***************************************************************************)

LoopDecides(next) ==
    CASE core # "alive"     -> next = "exit"
      [] core = "alive" /\ api # "alive" -> next = "exit"
      [] core = "alive" /\ api = "alive" /\ data_ready -> next = "launch"
      [] OTHER -> request_shutdown /\ next = "exit"

HealthCheck ==
    /\ pc = "loop"
    /\ \E next \in {"exit", "launch"} :
          /\ LoopDecides(next)
          /\ pc' = IF next = "exit" THEN "on_shutdown" ELSE "stop_proxy"
          /\ then' = next
    /\ NoFault /\ UNCHANGED <<service, guard, pid_file, resources, events, ended>>

\* The proxy thread is told to end and joined before anything else
StopProxyForLaunch ==
    /\ pc = "stop_proxy"
    /\ proxy' = FALSE /\ pc' = "on_shutdown"
    /\ NoFault /\ UNCHANGED <<service, then, guard, pid_file, core, api, shm, mounts, stuck, events,
                              ended>>

(***************************************************************************)
(* _on_shutdown: the first caller takes the guard for good; another call,  *)
(* from a signal or from atexit, does nothing                              *)
(***************************************************************************)
TakeGuard ==
    /\ pc = "on_shutdown" /\ ~guard
    /\ guard' = TRUE /\ pc' = "stop_core"
    /\ NoFault /\ UNCHANGED <<service, then, pid_file, resources, events, ended>>

Ended(p) == IF p = "alive" THEN "terminated" ELSE p

StopProcesses ==
    /\ \/ /\ pc = "stop_core" /\ core # "created"
          /\ core' = Ended(core) /\ pc' = "stop_api" /\ UNCHANGED <<api, shm>>
       \/ /\ pc = "stop_api" /\ api # "created"
          /\ api' = Ended(api) /\ pc' = "unlink" /\ UNCHANGED <<core, shm>>
       \/ pc = "unlink" /\ shm' = {} /\ pc' = "umount" /\ UNCHANGED <<core, api>>
    /\ NoFault /\ UNCHANGED <<service, then, guard, pid_file, mounts, stuck, proxy, events, ended>>

\* terminate() of a process that was not started raises.  The guard is taken,
\* so the hook at exit does nothing: the shared memory and the mounts stay.
TerminateRaises ==
    /\ (pc = "stop_core" /\ core = "created") \/ (pc = "stop_api" /\ api = "created")
    /\ pc' = "off" /\ ended' = "raised" /\ pid_file' = PidGone
    /\ NoFault /\ UNCHANGED <<service, then, guard, resources, events>>

\* Umounting goes on when it fails
Umount ==
    /\ pc = "umount"
    /\ \/ NoFault /\ mounts' = {} /\ UNCHANGED stuck
       \/ /\ Fault
          /\ \E m \in mounts : mounts' = {m} /\ stuck' = stuck \cup {m}
    /\ pc' = IF then = "launch" THEN "launch" ELSE "exit"
    /\ UNCHANGED <<service, then, guard, pid_file, core, api, shm, proxy, events, ended>>

\* sys.exit: the hooks at exit run, the otaproxy's with them
Exit ==
    /\ pc = "exit"
    /\ pc' = "off" /\ ended' = "clean" /\ proxy' = FALSE /\ pid_file' = PidGone
    /\ NoFault /\ UNCHANGED <<service, then, guard, core, api, shm, mounts, stuck, events>>

NoHandler == {"init", "check", "hooks"}
Starting == {"shm", "core", "core_start", "api", "api_start", "proxy"}
Handled == Starting \cup {"loop", "on_shutdown", "stop_proxy"}

EndsEarly ==
    /\ pc \in NoHandler /\ pc' = "off" /\ ended' = "early" /\ pid_file' = PidGone
    /\ UNCHANGED then

SignalExitsAnyway ==
    /\ Fault
    /\ \/ EndsEarly
       \/ /\ pc \in Handled /\ ~guard /\ pc' = "on_shutdown" /\ then' = "exit"
          /\ UNCHANGED <<pid_file, ended>>
       \/ /\ pc \in {"stop_core", "stop_api", "unlink", "umount"}
          /\ pc' = "exit" /\ then' = "exit" /\ UNCHANGED <<pid_file, ended>>
    /\ UNCHANGED <<service, guard, resources, events>>

\* SIGTERM, SIGINT or SIGHUP in the main thread.  Before the handlers are set
\* the process just ends.  An exception of the start-up has the same effect,
\* as the hook at exit then calls _on_shutdown.
Signal ==
    /\ Fault
    /\ \/ EndsEarly
       \/ /\ pc \in Handled /\ ~guard /\ pc' = "on_shutdown" /\ then' = "exit"
          /\ UNCHANGED <<pid_file, ended>>
    /\ UNCHANGED <<service, guard, resources, events>>

\* SIGKILL: systemd ends all processes of the service; nothing is cleaned up.
\* A dynamic client is a unit of its own, and stays up.
Killed ==
    /\ Fault /\ pc # "off" /\ pc' = "off" /\ ended' = "killed"
    /\ core' = Ended(core) /\ api' = Ended(api) /\ proxy' = FALSE
    /\ pid_file' = PidGone
    /\ app' = IF "waited" \in app THEN {"left"} ELSE app
    /\ UNCHANGED <<app_image, then, guard, shm, mounts, stuck, events>>

(***************************************************************************)
(* _dynamic_otaclient_launch: the main process becomes systemd-run and     *)
(* waits for the dynamic client, whose unit has a random name; if it       *)
(* cannot, it exits                                                        *)
(***************************************************************************)
DynamicOtaclientLaunch ==
    /\ pc = "launch"
    /\ \/ /\ NoFault /\ pid_file' = "none" /\ pc' = "wait_app" /\ app' = app \cup {"waited"}
       \/ /\ Fault /\ pid_file' \in {pid_file, "none"} /\ pc' = "exit" /\ UNCHANGED app
    /\ UNCHANGED <<app_image, then, guard, resources, events, ended>>

DynamicAppEnds ==
    /\ \/ "left" \in app /\ app' = app \ {"left"} /\ UNCHANGED <<pc, ended>>
       \/ "waited" \in app /\ app' = app \ {"waited"} /\ pc' = "off" /\ ended' = "clean"
    /\ NoFault /\ UNCHANGED <<app_image, then, guard, pid_file, resources, events>>

\* The pid of a run that is gone is given to another process, which ends
PidTaken ==
    /\ pid_file = "gone" /\ Fault /\ pid_file' = "taken"
    /\ UNCHANGED <<service, pc, then, guard, resources, events, ended>>

PidFree ==
    /\ pid_file = "taken" /\ pid_file' = "gone" /\ NoFault
    /\ UNCHANGED <<service, pc, then, guard, resources, events, ended>>

Start == Started \/ DynamicOtaclientInit \/ CheckOtherOtaclient \/ SetHooks \/ StartProcesses
Shutdown == TakeGuard \/ StopProcesses \/ TerminateRaises \/ Umount \/ Exit
Launch == StopProxyForLaunch \/ DynamicOtaclientLaunch
MainProcess == Start \/ HealthCheck \/ Shutdown \/ Launch

SuperNext ==
    \/ MainProcess \/ CoreRuns \/ ApiDies
    \/ Signal \/ Killed \/ DynamicAppEnds \/ PidTaken \/ PidFree

(***************************************************************************)
(* Properties                                                              *)
(***************************************************************************)
SuperTypeOK ==
    /\ shm \subseteq Segments /\ mounts \subseteq Mounts /\ stuck \subseteq Mounts
    /\ then \in {"none", "exit", "launch"}
    /\ pid_file \in {"none", "mine", "gone", "taken"}
    /\ ended \in {"none", "early", "raised", "killed", "clean"}

\* No run, however it ended, leaves a process or the otaproxy.  One that ended
\* by itself or by a signal once its hooks were set leaves no shared memory
\* and no mount that could be unmounted, of earlier runs neither, whatever the
\* signals and deaths met on the way.  The others leave what they had: one
\* that gave up at the pid check or before its hooks, one that was killed,
\* one that was signalled between creating a process and starting it.
NothingLeft ==
    pc = "off" => /\ core # "alive" /\ api # "alive" /\ ~proxy
                  /\ ended = "clean" => shm = {} /\ mounts \subseteq stuck

\* The dynamic client is launched by a process that gave up its own: its
\* ports, its shared memory and the otaproxy are free, and no signal that
\* came in between keeps the old processes
LaunchedAlone ==
    pc = "wait_app" => /\ core # "alive" /\ api # "alive" /\ shm = {} /\ ~proxy
                       /\ mounts \subseteq stuck /\ pid_file # "mine"

\* Whatever died, the service is up again with all its parts in the end,
\* unless a dynamic client it launched, or the process that has the pid of an
\* earlier run, does not end
ServiceUp ==
    \/ /\ pc = "loop" /\ core = "alive" /\ api = "alive" /\ proxy /\ shm = Segments
       /\ ~data_ready /\ ~request_shutdown
    \/ pc = "wait_app" \/ pid_file = "taken"
=============================================================================
