------------------------------ MODULE OtaProxyCtx ------------------------------
(***************************************************************************)
(* The thread that starts and stops the otaproxy process as the ECUs need  *)
(* it, and the handler of the shutdown of otaclient, which runs in another *)
(* thread (otaclient/_otaproxy_ctx.py).                                    *)
(***************************************************************************)
EXTENDS Naturals

CONSTANTS MaxChanges, MaxDeaths

VARIABLES
    proc,        \* the otaproxy process: "none", "alive", "leaving" or "dead"
    plock,       \* who holds _global_process_lock
    control,     \* where otaproxy_control_thread is
    exiting,     \* where otaproxy_on_global_shutdown is
    seen,        \* what the control thread read at the start of the turn
    needed, all_success,   \* the ECU status flags
    young,       \* started less than OTAPROXY_MIN_STARTUP_TIME ago
    cache_dir,   \* whether the cache directory holds anything
    changes, deaths

ctx_vars == <<proc, plock, control, exiting, seen, needed, all_success, young, cache_dir,
              changes, deaths>>

NothingSeen == [running |-> FALSE, should |-> FALSE, success |-> FALSE]

CtxInit ==
    /\ proc = "none" /\ plock = "nobody" /\ control = "sleep" /\ exiting = "no"
    /\ seen = NothingSeen
    /\ needed = FALSE /\ all_success \in BOOLEAN /\ young = FALSE /\ cache_dir \in BOOLEAN
    /\ changes = 0 /\ deaths = 0

GlobalShutdown == exiting # "no"

TrustHandle ==
    /\ control = "sleep" /\ ~GlobalShutdown /\ plock = "nobody"
    /\ seen' = [running |-> proc # "none", should |-> needed, success |-> all_success]
    /\ control' = "decide"
    /\ UNCHANGED <<proc, plock, exiting, needed, all_success, young, cache_dir, changes, deaths>>

\* The top of the loop, and what the turn is decided by
Turn ==
    /\ control = "sleep" /\ ~GlobalShutdown /\ plock = "nobody"
    /\ seen' = [running |-> proc = "alive", should |-> needed, success |-> all_success]
    /\ control' = "decide"
    /\ UNCHANGED <<proc, plock, exiting, needed, all_success, young, cache_dir, changes, deaths>>

LeaveLoop ==
    /\ control = "sleep" /\ GlobalShutdown
    /\ control' = "ended"
    /\ UNCHANGED <<proc, plock, exiting, seen, needed, all_success, young, cache_dir, changes, deaths>>

CleanupOk == ~seen.should /\ ~seen.running /\ seen.success /\ ~young

\* Not needed and not running: the cache of an update that all ECUs finished is removed
CleanupCacheDir ==
    /\ control = "decide" /\ CleanupOk
    /\ cache_dir' = FALSE
    /\ control' = "sleep"
    /\ UNCHANGED <<proc, plock, exiting, seen, needed, all_success, young, changes, deaths>>

AcquireToStart ==
    /\ control = "decide" /\ seen.should /\ ~seen.running
    /\ plock = "nobody"
    /\ plock' = "control"
    /\ control' = "start"
    /\ UNCHANGED <<proc, exiting, seen, needed, all_success, young, cache_dir, changes, deaths>>

StartUnchecked ==
    /\ control = "start"
    /\ proc' = "alive" /\ young' = TRUE
    /\ plock' = "nobody"
    /\ control' = "sleep"
    /\ UNCHANGED <<exiting, seen, needed, all_success, cache_dir, changes, deaths>>

\* Under the lock the shutdown is looked at again
StartOtaproxy ==
    /\ control = "start"
    /\ IF GlobalShutdown THEN UNCHANGED <<proc, young>>
       ELSE proc' = "alive" /\ young' = TRUE
    /\ plock' = "nobody"
    /\ control' = "sleep"
    /\ UNCHANGED <<exiting, seen, needed, all_success, cache_dir, changes, deaths>>

NotNeeded == seen.running /\ ~seen.should /\ ~young

AcquireToStop ==
    /\ control = "decide" /\ NotNeeded /\ plock = "nobody"
    /\ plock' = "control"
    /\ control' = "stop"
    /\ UNCHANGED <<proc, exiting, seen, needed, all_success, young, cache_dir, changes, deaths>>

NothingToDo ==
    /\ control = "decide"
    /\ ~CleanupOk /\ ~NotNeeded /\ ~(seen.should /\ ~seen.running)
    /\ control' = "sleep"
    /\ UNCHANGED <<proc, plock, exiting, seen, needed, all_success, young, cache_dir, changes, deaths>>

\* _shutdown_otaproxy, with the lock held: terminate, join and forget
StopOtaproxy ==
    /\ control = "stop"
    /\ \/ /\ proc = "alive"
          /\ proc' = "leaving"
          /\ UNCHANGED <<plock, control>>
       \/ /\ proc \in {"none", "dead"}
          /\ proc' = "none" /\ plock' = "nobody" /\ control' = "sleep"
    /\ UNCHANGED <<exiting, seen, needed, all_success, young, cache_dir, changes, deaths>>

-----------------------------------------------------------------------------
(* otaproxy_on_global_shutdown *)

OnGlobalShutdown ==
    /\ exiting = "no"
    /\ exiting' = "flagged"
    /\ UNCHANGED <<proc, plock, control, seen, needed, all_success, young, cache_dir, changes, deaths>>

ShutdownAcquires ==
    /\ exiting = "flagged" /\ plock = "nobody"
    /\ plock' = "exit"
    /\ exiting' = "stop"
    /\ UNCHANGED <<proc, control, seen, needed, all_success, young, cache_dir, changes, deaths>>

ShutdownStops ==
    /\ exiting = "stop"
    /\ \/ /\ proc = "alive"
          /\ proc' = "leaving"
          /\ UNCHANGED <<plock, exiting>>
       \/ /\ proc \in {"none", "dead"}
          /\ proc' = "none" /\ plock' = "nobody" /\ exiting' = "done"
    /\ UNCHANGED <<control, seen, needed, all_success, young, cache_dir, changes, deaths>>

-----------------------------------------------------------------------------
(* The process, the clock and the flags *)

\* A terminated server finishes its requests and exits
ProcessLeaves ==
    /\ proc = "leaving"
    /\ proc' = "dead"
    /\ UNCHANGED <<plock, control, exiting, seen, needed, all_success, young, cache_dir, changes, deaths>>

ProcessDies ==
    /\ proc = "alive" /\ deaths < MaxDeaths
    /\ deaths' = deaths + 1
    /\ proc' = "dead"
    /\ UNCHANGED <<plock, control, exiting, seen, needed, all_success, young, cache_dir, changes>>

ProcessCaches ==
    /\ proc = "alive" /\ ~cache_dir
    /\ cache_dir' = TRUE
    /\ UNCHANGED <<proc, plock, control, exiting, seen, needed, all_success, young, changes, deaths>>

MinStartupTimePasses ==
    /\ young
    /\ young' = FALSE
    /\ UNCHANGED <<proc, plock, control, exiting, seen, needed, all_success, cache_dir, changes, deaths>>

\* An ECU that needs the network is updating: not all are in SUCCESS
FlagsChange ==
    /\ changes < MaxChanges
    /\ changes' = changes + 1
    /\ needed' \in BOOLEAN /\ all_success' \in BOOLEAN
    /\ ~(needed' /\ all_success')
    /\ <<needed', all_success'>> # <<needed, all_success>>
    /\ UNCHANGED <<proc, plock, control, exiting, seen, young, cache_dir, deaths>>

CtxOver == control = "ended" /\ exiting = "done" /\ UNCHANGED ctx_vars

Control ==
    Turn \/ LeaveLoop \/ CleanupCacheDir \/ AcquireToStart \/ StartOtaproxy
    \/ AcquireToStop \/ StopOtaproxy \/ NothingToDo
Exiting == ShutdownAcquires \/ ShutdownStops
CtxNext ==
    Control \/ Exiting \/ OnGlobalShutdown \/ ProcessLeaves \/ ProcessDies
    \/ ProcessCaches \/ MinStartupTimePasses \/ FlagsChange \/ CtxOver

-----------------------------------------------------------------------------
CtxTypeOK ==
    /\ proc \in {"none", "alive", "leaving", "dead"}
    /\ plock \in {"nobody", "control", "exit"}
    /\ control \in {"sleep", "decide", "start", "stop", "ended"}
    /\ exiting \in {"no", "flagged", "stop", "done"}

\* No otaproxy outlives otaclient: once the shutdown handler is through, no process runs,
\* though the control thread may have decided to start one before.
NoProxyLeftBehind == exiting = "done" => proc \notin {"alive", "leaving"}

\* The cache directory is not removed under a running otaproxy
CacheKeptWhileServing ==
    (cache_dir /\ ~cache_dir') => (proc \notin {"alive", "leaving"})

\* What the control thread brings about: otaproxy runs when it is needed, is stopped when
\* it is not, and at the shutdown both threads come to their end
Follows ==
    IF GlobalShutdown THEN exiting = "done" /\ control = "ended"
    ELSE (proc = "alive") = needed
=============================================================================
