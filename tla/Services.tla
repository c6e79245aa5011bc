------------------------------ MODULE Services ------------------------------
(***************************************************************************)
(* The processes around an update, part by part: the status of the local   *)
(* ECU on its way to the API server (StatusCollector), the view of the     *)
(* ECUs and the wait for them (EcuStatus), the API requests (Servicer),    *)
(* the main process (Supervisor), the client update (ClientUpdate) and the *)
(* OTA config files (OtaConfigFiles).  Each behaviour is one of these; the *)
(* variables of the others are not used.                                   *)
(***************************************************************************)
EXTENDS Integers, FiniteSets, Sequences

CONSTANTS NotUsed, Parts

VARIABLES
    part,
    begun, live, late, queue, status, pushed, due, collector, shm, copying, fails,
    reader, got, seen,                                           \* StatusCollector
    ecu, responds, missed, unheard, accepted, main, call, report, gap, age, fresh, made_now,
    since_req, in_update, any_child_ecu_in_update, any_requires_network, all_success,
    requests, outages,                                           \* EcuStatus
    kind, asked, handler, response, acked, op_queue, resp_queue, core_busy, core_accepts,
    tracked, disturbed,                                          \* Servicer
    as_app, at, then, guard, pid_file, core, api, segments, mounts, stuck, proxy,
    data_ready, request_shutdown, app, ended, faults,            \* Supervisor
    version, app_image, zstd, base, dyn, launched, updater, target, patches, package,
    ready, sessions, crashes,                                    \* ClientUpdate
    image, persisted, links, loaded, shared, before, backup, todo, armed, stage, cut,
    failures                                                     \* OtaConfigFiles

\* Two sessions, so that reports of the first can arrive in the second
Status == INSTANCE StatusCollector WITH
    NSessions <- 2, MaxQueued <- 2, MaxLate <- 1, MaxPushFails <- 1

\* The intervals keep the order of the configured ones: 1 and 10 s polling, 60 s of
\* pause after a request, 20 min without contact before an ECU is lost
View == INSTANCE EcuStatus WITH
    Me <- "main", Children <- {"sub"}, ACTIVE_POLLING_INTERVAL <- 1,
    IDLE_POLLING_INTERVAL <- 2, DISCONNECTED_ECU_TIMEOUT_FACTOR <- 1, PAUSED <- 2,
    ECU_UNREACHABLE_TIMEOUT <- 3, MaxRequests <- 2, MaxOutages <- 1
Service == INSTANCE Servicer WITH
    Me <- "main", Children <- {"sub"}, Below <- [c \in {"sub"} |-> {"deep"}],
    Requests <- 1..2, pc <- handler
Super == INSTANCE Supervisor WITH
    MaxFaults <- 3, app_image <- as_app, pc <- at, shm <- segments
Client == INSTANCE ClientUpdate WITH
    Versions <- 1..2, MaxSessions <- 2, MaxCrashes <- 1, pc <- updater
Config == INSTANCE OtaConfigFiles WITH
    MaxFaults <- 2, pc <- stage, faults <- failures

status_vars == <<begun, live, late, queue, status, pushed, due, collector, shm, copying,
                 fails, reader, got, seen>>
ecu_vars == <<ecu, responds, missed, unheard, accepted, main, call, report, gap, age, fresh,
              made_now, since_req, in_update, any_child_ecu_in_update,
              any_requires_network, all_success, requests, outages>>
service_vars == <<kind, asked, handler, response, acked, op_queue, resp_queue, core_busy,
                  core_accepts, tracked, disturbed>>
super_vars == <<as_app, at, then, guard, pid_file, core, api, segments, mounts, stuck,
                proxy, data_ready, request_shutdown, app, ended, faults>>
client_vars == <<version, app_image, zstd, base, dyn, launched, updater, target, patches,
                 package, ready, sessions, crashes>>
config_vars == <<image, persisted, links, loaded, shared, before, backup, todo, armed,
                 stage, cut, failures>>
vars == <<part, status_vars, ecu_vars, service_vars, super_vars, client_vars, config_vars>>

StatusUnused ==
    /\ begun = NotUsed /\ live = NotUsed /\ late = NotUsed /\ queue = NotUsed
    /\ status = NotUsed /\ pushed = NotUsed /\ due = NotUsed /\ collector = NotUsed
    /\ shm = NotUsed /\ copying = NotUsed /\ fails = NotUsed /\ reader = NotUsed
    /\ got = NotUsed /\ seen = NotUsed
EcuUnused ==
    /\ ecu = NotUsed /\ responds = NotUsed /\ missed = NotUsed /\ unheard = NotUsed
    /\ accepted = NotUsed
    /\ main = NotUsed /\ call = NotUsed /\ report = NotUsed /\ gap = NotUsed
    /\ age = NotUsed /\ fresh = NotUsed /\ made_now = NotUsed /\ since_req = NotUsed
    /\ in_update = NotUsed /\ any_child_ecu_in_update = NotUsed
    /\ any_requires_network = NotUsed /\ all_success = NotUsed
    /\ requests = NotUsed /\ outages = NotUsed
ServiceUnused ==
    /\ kind = NotUsed /\ asked = NotUsed /\ handler = NotUsed /\ response = NotUsed
    /\ acked = NotUsed /\ op_queue = NotUsed /\ resp_queue = NotUsed
    /\ core_busy = NotUsed /\ core_accepts = NotUsed /\ tracked = NotUsed
    /\ disturbed = NotUsed
SuperUnused ==
    /\ as_app = NotUsed /\ at = NotUsed /\ then = NotUsed /\ guard = NotUsed
    /\ pid_file = NotUsed /\ core = NotUsed /\ api = NotUsed /\ segments = NotUsed
    /\ mounts = NotUsed /\ stuck = NotUsed /\ proxy = NotUsed /\ data_ready = NotUsed
    /\ request_shutdown = NotUsed /\ app = NotUsed /\ ended = NotUsed /\ faults = NotUsed
ClientUnused ==
    /\ version = NotUsed /\ app_image = NotUsed /\ zstd = NotUsed /\ base = NotUsed
    /\ dyn = NotUsed /\ launched = NotUsed /\ updater = NotUsed /\ target = NotUsed
    /\ patches = NotUsed /\ package = NotUsed /\ ready = NotUsed /\ sessions = NotUsed
    /\ crashes = NotUsed
ConfigUnused ==
    /\ image = NotUsed /\ persisted = NotUsed /\ links = NotUsed /\ loaded = NotUsed
    /\ shared = NotUsed /\ before = NotUsed /\ backup = NotUsed /\ todo = NotUsed
    /\ armed = NotUsed /\ stage = NotUsed /\ cut = NotUsed /\ failures = NotUsed

Init ==
    /\ part \in Parts
    /\ IF part = "status" THEN Status!StatusInit ELSE StatusUnused
    /\ IF part = "ecus" THEN View!EcuInit ELSE EcuUnused
    /\ IF part = "servicer" THEN Service!ServiceInit ELSE ServiceUnused
    /\ IF part = "supervisor" THEN Super!SuperInit ELSE SuperUnused
    /\ IF part = "client" THEN Client!ClientInit ELSE ClientUnused
    /\ IF part = "config" THEN Config!ConfigInit ELSE ConfigUnused

Next ==
    /\ UNCHANGED part
    /\ \/ /\ part = "status" /\ Status!StatusNext
          /\ UNCHANGED <<ecu_vars, service_vars, super_vars, client_vars, config_vars>>
       \/ /\ part = "ecus" /\ View!EcuNext
          /\ UNCHANGED <<status_vars, service_vars, super_vars, client_vars, config_vars>>
       \/ /\ part = "servicer" /\ Service!ServiceNext
          /\ UNCHANGED <<status_vars, ecu_vars, super_vars, client_vars, config_vars>>
       \/ /\ part = "supervisor" /\ Super!SuperNext
          /\ UNCHANGED <<status_vars, ecu_vars, service_vars, client_vars, config_vars>>
       \/ /\ part = "client" /\ Client!ClientNext
          /\ UNCHANGED <<status_vars, ecu_vars, service_vars, super_vars, config_vars>>
       \/ /\ part = "config" /\ Config!ConfigNext
          /\ UNCHANGED <<status_vars, ecu_vars, service_vars, super_vars, client_vars>>

\* Threads, tasks and processes that can run do, time passes, and systemd restarts the
\* service.  Nothing is asked of what the code does not decide: an update may never end,
\* an ECU may stay silent, ota_core may not answer, and the dynamic client or the process
\* that has an old pid may run for ever.
Fairness ==
    /\ WF_status_vars(part = "status" /\ Status!Collector)
    /\ WF_status_vars(part = "status" /\ Status!PushIntervalOver)
    /\ WF_status_vars(part = "status" /\ Status!SyncMsg)
    /\ WF_ecu_vars(part = "ecus" /\ View!Watch)
    /\ WF_ecu_vars(part = "ecus" /\ View!OnEcusAcceptUpdateRequest)
    /\ WF_ecu_vars(part = "ecus" /\ View!Leave)
    /\ \A r \in 1..2 : WF_service_vars(part = "servicer" /\ Service!Handle(r))
    /\ WF_super_vars(part = "supervisor" /\ Super!MainProcess)
    /\ WF_client_vars(part = "client" /\ Client!Session)
    /\ WF_client_vars(part = "client" /\ Client!LaunchDynamicClient)
    /\ WF_config_vars(part = "config" /\ Config!PostUpdate)

Spec == Init /\ [][Next]_vars /\ Fairness

(***************************************************************************)
(* Properties                                                              *)
(***************************************************************************)

TypeOK ==
    /\ part = "status" => Status!StatusTypeOK
    /\ part = "ecus" => View!EcuTypeOK
    /\ part = "servicer" => Service!ServiceTypeOK
    /\ part = "supervisor" => Super!SuperTypeOK
    /\ part = "client" => Client!ClientTypeOK
    /\ part = "config" => Config!ConfigTypeOK

\* The status that is shown is one the ECU had.  The numbers of a status are those of its
\* own session: a report that a worker thread of an earlier session makes late is dropped
\* (load_report).  The API server only ever sees a status of the collector, whole, however
\* the copy into the shared memory and the read of it interleave (write_msg, sync_msg).
StatusIsTrue == part = "status" => Status!OfItsSession(status) /\ Status!SeenIsWhole

\* The main ECU does not reboot, and take its otaproxy down, while a child ECU that
\* stayed in reach is in its update (_finalize_update_and_reboot).
RebootWaits == [][(part = "ecus") => View!RebootWaits]_vars

\* An ECU that downloads finds the flag set that keeps the otaproxy up, from the task of
\* the servicer on until it reports a later phase (on_ecus_accept_update_request and the
\* pause of _loop_updating_properties).
ProxyWhileDownloading == part = "ecus" => View!ProxyWhileDownloading

\* The answer to a request is true.  NO_FAILURE for the local ECU means that ota_core
\* accepted this very request, although all requests share one response queue and a late
\* response stays in it; and only a wait that timed out, or another request waiting at the
\* same time, hides from the caller that ota_core accepted.
AnswersAreTrue ==
    part = "servicer" => Service!NoFailureIsAccepted /\ Service!AcceptedIsTold

\* One main process hands over to the next.  No run leaves a process or the otaproxy.  One
\* that ends by itself, or by a signal when its hooks are set and no process is created
\* but not started, leaves no shared memory and no mount either, whatever died or was
\* signalled on the way (_on_shutdown runs at most once, and no second caller gets past
\* it).  The dynamic client is launched by a process that has given up all of that.
HandsOverClean == part = "supervisor" => Super!NothingLeft /\ Super!LaunchedAlone

\* The dynamic client that is launched is the whole client of the image, however earlier
\* sessions, crashes and updates left the squashfs files a patch applies to
\* (_get_target_squashfs_path, copy_client_package, notify_data_ready_event).
ClientIsWhole == part = "client" => Client!LaunchedIsTarget

\* Each slot runs with its OTA config files, although both share them.  A write or a
\* grub-reboot that fails leaves the old slot the files it had, unless a restore fails as
\* well.  The new slot has the files its image may replace, and the current ones elsewhere
\* (load_ota_config_files_from_image), also after a loss of power or a reboot that failed.
ConfigOfItsSlot ==
    part = "config" => Config!OldSlotKeepsConfig /\ Config!NewSlotHasConfig

\* _install_new_ota_config_files_and_switch_boot: "the current ones are restored if either
\* fails, so that the current slot is not left with the new ones".  Power that is lost
\* between the first file and grub-reboot, or a restore that fails, leaves it with them.
CurrentSlotNotLeftWithNew == part = "config" => Config!NotLeftWithNew

\* Everything settles.  The API server ends up showing the last status, although a push
\* may raise, a read may hit a write, and pushes are limited to one an interval.  Once the
\* ECUs stay as they are, the flags and the status API say so; the wait of the main ECU for
\* its child ECUs, to which the code sets no limit, ends unless a child that answers stays
\* in its update, for one that went silent is lost after ECU_UNREACHABLE_TIMEOUT.  Every
\* request is answered, also when an abort blocks the event loop and ota_core does not
\* answer.  Whatever died, the service is up again with all its parts, unless it waits for
\* a dynamic client or finds its pid in use.  A client update and an installation of
\* config files end.
ServicesSettle ==
    <>[](/\ part = "status" => Status!LatestIsSeen
         /\ part = "ecus" => View!Agrees /\ View!WaitEnds
         /\ part = "servicer" => Service!AllAnswered
         /\ part = "supervisor" => Super!ServiceUp
         /\ part = "client" => updater = "idle"
         /\ part = "config" => stage \in {"failed", "old_slot", "new_slot"})
=============================================================================
