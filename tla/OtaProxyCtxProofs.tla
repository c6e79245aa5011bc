------------------------- MODULE OtaProxyCtxProofs -------------------------
(***************************************************************************)
(* Proofs about the otaproxy control thread and the shutdown handler       *)
(* (OtaProxyCtx), for any number of changes of the ECU status flags and of *)
(* deaths of the otaproxy process.                                         *)
(***************************************************************************)
EXTENDS OtaProxyCtx, TLAPS

CtxSpec == CtxInit /\ [][CtxNext]_ctx_vars

NotRunning == proc # "alive" /\ proc # "leaving"

\* A thread that starts or stops otaproxy holds _global_process_lock, and the
\* process is leaving only while a thread that holds it waits for that
LockInv ==
    /\ control \in {"start", "stop"} <=> plock = "control"
    /\ exiting = "stop" <=> plock = "exit"
    /\ proc = "leaving" => control = "stop" \/ exiting = "stop"

\* What the control thread saw stays true: only it starts otaproxy
SeenInv == control = "decide" => (seen.running \/ NotRunning)

\* The inductive invariant
CtxIInv == LockInv /\ SeenInv /\ (exiting = "done" => NotRunning)

\* Every step of the control thread keeps the invariant.
LEMMA ControlIInv == ASSUME CtxIInv, Control PROVE CtxIInv'
<1> USE DEF CtxIInv, LockInv, SeenInv, NotRunning, GlobalShutdown
<1>1. CASE Turn
  <2>1. seen'.running = (proc = "alive")
    BY <1>1 DEF Turn
  <2>2. proc # "leaving"
    BY <1>1 DEF Turn
  <2>3. SeenInv'
    BY <1>1, <2>1, <2>2, Zenon DEF Turn
  <2>4. QED
    BY <1>1, <2>3 DEF Turn
<1>2. CASE LeaveLoop
  BY <1>2 DEF LeaveLoop
<1>3. CASE CleanupCacheDir
  BY <1>3 DEF CleanupCacheDir
<1>4. CASE AcquireToStart
  BY <1>4 DEF AcquireToStart
<1>5. CASE StartOtaproxy
  BY <1>5 DEF StartOtaproxy
<1>6. CASE AcquireToStop
  BY <1>6 DEF AcquireToStop
<1>7. CASE StopOtaproxy
  BY <1>7 DEF StopOtaproxy
<1>8. CASE NothingToDo
  BY <1>8 DEF NothingToDo
<1>9. QED
  BY <1>1, <1>2, <1>3, <1>4, <1>5, <1>6, <1>7, <1>8 DEF Control

\* So does every step of the shutdown, of the process and of the flags.
LEMMA OthersIInv ==
    ASSUME CtxIInv,
           Exiting \/ OnGlobalShutdown \/ ProcessLeaves \/ ProcessDies
           \/ ProcessCaches \/ MinStartupTimePasses \/ FlagsChange \/ CtxOver
    PROVE  CtxIInv'
<1> USE DEF CtxIInv, LockInv, SeenInv, NotRunning
<1>1. CASE ShutdownAcquires
  BY <1>1 DEF ShutdownAcquires
<1>2. CASE ShutdownStops
  BY <1>2 DEF ShutdownStops
<1>3. CASE OnGlobalShutdown
  BY <1>3 DEF OnGlobalShutdown
<1>4. CASE ProcessLeaves
  BY <1>4 DEF ProcessLeaves
<1>5. CASE ProcessDies
  BY <1>5 DEF ProcessDies
<1>6. CASE ProcessCaches
  BY <1>6 DEF ProcessCaches
<1>7. CASE MinStartupTimePasses
  BY <1>7 DEF MinStartupTimePasses
<1>8. CASE FlagsChange
  BY <1>8 DEF FlagsChange
<1>9. CASE CtxOver
  BY <1>9 DEF CtxOver, ctx_vars
<1>10. QED
  BY <1>1, <1>2, <1>3, <1>4, <1>5, <1>6, <1>7, <1>8, <1>9 DEF Exiting

\* The invariant holds in every reachable state.
THEOREM CtxInductive == CtxSpec => []CtxIInv
<1>1. CtxInit => CtxIInv
  BY DEF CtxInit, CtxIInv, LockInv, SeenInv, NotRunning
<1>2. ASSUME CtxIInv, [CtxNext]_ctx_vars PROVE CtxIInv'
  <2>1. CASE UNCHANGED ctx_vars
    BY <1>2, <2>1 DEF CtxIInv, LockInv, SeenInv, NotRunning, ctx_vars
  <2>2. CASE CtxNext
    BY <1>2, <2>2, ControlIInv, OthersIInv DEF CtxNext
  <2>3. QED
    BY <1>2, <2>1, <2>2
<1>3. QED
  BY <1>1, <1>2, PTL DEF CtxSpec

\* otaproxy_on_global_shutdown: once it is through, no otaproxy runs, whatever
\* the control thread had decided before.
THEOREM NoProxyIsLeft == CtxSpec => []NoProxyLeftBehind
<1>1. CtxIInv => NoProxyLeftBehind
  BY DEF CtxIInv, NotRunning, NoProxyLeftBehind
<1>2. QED
  BY <1>1, CtxInductive, PTL

\* otaproxy_control_thread: the cache directory is removed only when no
\* otaproxy uses it, though the process is looked at earlier in the turn.
THEOREM CacheIsKept == CtxSpec => [][CacheKeptWhileServing]_ctx_vars
<1>1. ASSUME CtxIInv, CtxNext PROVE CacheKeptWhileServing
  <2>1. CASE CleanupCacheDir
    BY <1>1, <2>1 DEF CleanupCacheDir, CleanupOk, CtxIInv, SeenInv, NotRunning,
                      CacheKeptWhileServing
  <2>2. CASE cache_dir' = cache_dir
    BY <2>2 DEF CacheKeptWhileServing
  <2>3. CASE ProcessCaches
    BY <2>3 DEF ProcessCaches, CacheKeptWhileServing
  <2>4. QED
    BY <1>1, <2>1, <2>2, <2>3
       DEF CtxNext, Control, Exiting, Turn, LeaveLoop, AcquireToStart, StartOtaproxy,
           AcquireToStop, StopOtaproxy, NothingToDo, ShutdownAcquires, ShutdownStops,
           OnGlobalShutdown, ProcessLeaves, ProcessDies, MinStartupTimePasses,
           FlagsChange, CtxOver, ctx_vars
<1>2. QED
  BY <1>1, CtxInductive, PTL DEF CtxSpec
=============================================================================
