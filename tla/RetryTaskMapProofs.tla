------------------------- MODULE RetryTaskMapProofs -------------------------
(***************************************************************************)
(* Proofs about ThreadPoolExecutorWithRetry (RetryTaskMap), for any finite *)
(* sets of items and of worker threads and any limits: the semaphore that  *)
(* bounds the items in flight is neither leaked nor released twice.        *)
(***************************************************************************)
EXTENDS RetryTaskMap, FiniteSetTheorems, TLAPS

Ats == {"idle", "run", "hang", "ok", "err", "retry", "shutdown"}
Works == [at : Ats, item : Tasks \union {NoItem}]

\* The workers that have an item
Working == {w \in Workers : work[w].at # "idle"}

\* The dispatcher has an item that is not submitted yet
Dispatching == dispatcher.at \in {"acquire", "submit"}

PoolTyped ==
    /\ todo \subseteq Tasks /\ queue \subseteq Tasks
    /\ permits \in Int
    /\ work \in [Workers -> Works]
    /\ dispatcher \in [at : {"pull", "acquire", "submit", "abort", "end"},
                       item : Tasks \union {NoItem}]

\* An item is in one place at a time: still to come, with the dispatcher, in the
\* work queue, or with one worker
OnePlace ==
    /\ queue \intersect todo = {}
    /\ \A w \in Working : work[w].item \in Tasks \ (queue \union todo)
    /\ \A v, w \in Working : work[v].item = work[w].item => v = w
    /\ Dispatching => /\ dispatcher.item \in Tasks \ (queue \union todo)
                      /\ \A w \in Working : work[w].item # dispatcher.item

\* The inductive invariant
PoolIInv == PoolTyped /\ OnePlace /\ PermitsAccounted

\* The sets are finite, so they can be counted.
LEMMA Counted ==
    ASSUME IsFiniteSet(Tasks), IsFiniteSet(Workers), PoolTyped
    PROVE  /\ IsFiniteSet(queue) /\ Cardinality(queue) \in Nat
           /\ IsFiniteSet(Working) /\ Cardinality(Working) \in Nat
  BY FS_Subset, FS_CardinalityType DEF PoolTyped, Working

\* The worker's step changes at most what that worker does.
LEMMA WorkerMoves ==
    ASSUME IsFiniteSet(Tasks), IsFiniteSet(Workers), PoolTyped, NEW w \in Workers,
           NEW x \in Works, work' = [work EXCEPT ![w] = x]
    PROVE  /\ work' \in [Workers -> Works] /\ work'[w] = x
           /\ \A v \in Workers : v # w => work'[v] = work[v]
           /\ Working' = IF x.at = "idle" THEN Working \ {w} ELSE Working \union {w}
           /\ Cardinality(Working') =
                 Cardinality(Working)
                 + (IF w \in Working THEN 0 ELSE 1) - (IF x.at = "idle" THEN 1 ELSE 0)
<1>1. work' \in [Workers -> Works] /\ work'[w] = x
      /\ \A v \in Workers : v # w => work'[v] = work[v]
  BY DEF PoolTyped
<1>2. Working' = IF x.at = "idle" THEN Working \ {w} ELSE Working \union {w}
  BY <1>1 DEF Working
<1>3. IsFiniteSet(Working) /\ Cardinality(Working) \in Nat
  BY Counted
<1>4. Cardinality(Working \union {w}) =
         IF w \in Working THEN Cardinality(Working) ELSE Cardinality(Working) + 1
  BY <1>3, FS_AddElement
<1>5. Cardinality(Working \ {w}) =
         IF w \in Working THEN Cardinality(Working) - 1 ELSE Cardinality(Working)
  BY <1>3, FS_RemoveElement
<1>6. QED
  BY <1>1, <1>2, <1>3, <1>4, <1>5

\* A finite set grows and shrinks by the item that is put in or taken out.
LEMMA QueueMoves ==
    ASSUME IsFiniteSet(Tasks), IsFiniteSet(Workers), PoolTyped, NEW i \in Tasks
    PROVE  /\ i \notin queue => Cardinality(queue \union {i}) = Cardinality(queue) + 1
           /\ i \in queue => Cardinality(queue \ {i}) = Cardinality(queue) - 1
  BY Counted, FS_AddElement, FS_RemoveElement

\* The steps of the dispatcher keep the invariant.
LEMMA DispatcherKept ==
    ASSUME IsFiniteSet(Tasks), IsFiniteSet(Workers), MaxConcurrent \in Nat, PoolIInv,
           Dispatch \/ (Dispatcher /\ UNCHANGED todo)
    PROVE  PoolIInv'
<1> USE DEF pool_vars, stop_vars, PoolIInv
<1>1. /\ Cardinality(queue) \in Nat /\ Cardinality(Working) \in Nat
  BY Counted
<1>2. UNCHANGED work
  BY DEF Dispatch, PullItem, PullEnd, PullRaises, Dispatcher, Acquire, Submit, Abort
<1>3. Working' = Working
  BY <1>2 DEF Working
<1> USE DEF PoolTyped, OnePlace, Dispatching
<1>4. CASE \E i \in todo : PullItem(i) /\ todo' = todo \ {i}
  <2>1. PICK i \in todo : PullItem(i) /\ todo' = todo \ {i}
    BY <1>4
  <2>2. UNCHANGED <<queue, permits, shutdown>>
    BY <2>1 DEF PullItem
  <2>3. /\ dispatcher' \in [at : {"end", "acquire"}, item : Tasks \union {NoItem}]
        /\ dispatcher'.item = i /\ dispatcher'.at # "submit" /\ dispatcher.at = "pull"
    BY <2>1 DEF PullItem
  <2>4. PermitsAccounted'
    BY <1>2, <2>2, <2>3 DEF PermitsAccounted
  <2>5. OnePlace'
    BY <1>2, <1>3, <2>1, <2>2, <2>3
  <2>6. QED
    BY <1>2, <2>1, <2>2, <2>3, <2>4, <2>5
<1>5. CASE (PullEnd \/ PullRaises) /\ UNCHANGED todo
  <2>1. UNCHANGED <<todo, queue, permits, shutdown>> /\ dispatcher.at = "pull"
        /\ dispatcher' \in {[dispatcher EXCEPT !.at = "end"], [dispatcher EXCEPT !.at = "abort"]}
    BY <1>5 DEF PullEnd, PullRaises
  <2>2. PermitsAccounted'
    BY <1>2, <2>1 DEF PermitsAccounted
  <2>3. QED
    BY <1>2, <1>3, <2>1, <2>2
<1>6. CASE Acquire /\ UNCHANGED todo
  <2>1. /\ UNCHANGED <<todo, queue, shutdown>> /\ permits' = permits - 1
        /\ dispatcher.at = "acquire" /\ dispatcher' = [dispatcher EXCEPT !.at = "submit"]
    BY <1>6 DEF Acquire
  <2>2. PermitsAccounted'
    BY <1>1, <1>2, <1>3, <2>1 DEF PermitsAccounted, Working
  <2>3. QED
    BY <1>2, <1>3, <2>1, <2>2
<1>7. CASE Submit /\ UNCHANGED todo
  <2>1. UNCHANGED <<todo, permits, shutdown>> /\ dispatcher.at = "submit"
    BY <1>7 DEF Submit
  <2>2. CASE shutdown
    <3>1. UNCHANGED queue /\ dispatcher' = [dispatcher EXCEPT !.at = "abort"]
      BY <1>7, <2>2 DEF Submit
    <3>2. PermitsAccounted'
      BY <2>1, <2>2 DEF PermitsAccounted
    <3>3. QED
      BY <1>2, <1>3, <2>1, <3>1, <3>2
  <2>3. CASE ~shutdown
    <3>1. queue' = queue \union {dispatcher.item}
          /\ dispatcher' = [at |-> "pull", item |-> NoItem]
      BY <1>7, <2>3 DEF Submit
    <3>2. dispatcher.item \in Tasks /\ dispatcher.item \notin queue
      BY <2>1
    <3>3. Cardinality(queue') = Cardinality(queue) + 1
      BY <3>1, <3>2, QueueMoves
    <3>4. PermitsAccounted'
      BY <1>1, <1>2, <1>3, <2>1, <3>1, <3>3 DEF PermitsAccounted, Working
    <3>5. OnePlace'
      BY <1>2, <1>3, <2>1, <3>1, <3>2
    <3>6. QED
      BY <1>2, <2>1, <3>1, <3>2, <3>4, <3>5
  <2>4. QED
    BY <2>2, <2>3
<1>8. CASE Abort /\ UNCHANGED todo
  <2>1. /\ UNCHANGED <<todo, queue, permits>> /\ shutdown' = TRUE
        /\ dispatcher' = [dispatcher EXCEPT !.at = "end"]
    BY <1>8 DEF Abort, RtmShutdown
  <2>2. PermitsAccounted'
    BY <2>1 DEF PermitsAccounted
  <2>3. QED
    BY <1>2, <1>3, <2>1, <2>2
<1>9. QED
  BY <1>4, <1>5, <1>6, <1>7, <1>8 DEF Dispatch, Dispatcher

\* A worker that goes on with its item holds the permit on.
LEMMA GoesOnKept ==
    ASSUME IsFiniteSet(Tasks), IsFiniteSet(Workers), PoolIInv, NEW w \in Workers,
           Succeed(w) \/ Fail(w) \/ Hang(w) \/ CallbackErr(w), UNCHANGED todo
    PROVE  PoolIInv'
<1> USE DEF PoolIInv, PoolTyped
<1>1. UNCHANGED <<todo, queue, permits, dispatcher, shutdown>>
  BY DEF Succeed, Fail, Hang, CallbackErr, dispatch_vars, stop_vars
<1>2. work[w].at \in {"run", "hang", "err"}
  BY DEF Succeed, Fail, Hang, CallbackErr
<1>3. PICK a \in {"ok", "err", "hang", "shutdown", "retry"} : work' = [work EXCEPT ![w].at = a]
  BY DEF Succeed, Fail, Hang, CallbackErr
<1> DEFINE x == [work[w] EXCEPT !.at = a]
<1>4. work' = [work EXCEPT ![w] = x]
  BY <1>3
<1>5. x \in Works /\ x.at = a /\ x.item = work[w].item
  BY <1>3 DEF Works, Ats
<1>6. w \in Working
  BY <1>2 DEF Working
<1> HIDE DEF x
<1>7. /\ work' \in [Workers -> Works] /\ work'[w] = x
      /\ \A v \in Workers : v # w => work'[v] = work[v]
      /\ Working' = Working \union {w} /\ Cardinality(Working') = Cardinality(Working)
  <2>1. Cardinality(Working) \in Nat
    BY Counted
  <2>2. /\ work' \in [Workers -> Works] /\ work'[w] = x
        /\ \A v \in Workers : v # w => work'[v] = work[v]
        /\ Working' = IF x.at = "idle" THEN Working \ {w} ELSE Working \union {w}
        /\ Cardinality(Working') =
              Cardinality(Working)
              + (IF w \in Working THEN 0 ELSE 1) - (IF x.at = "idle" THEN 1 ELSE 0)
    <3> HIDE DEF PoolTyped
    <3>1. QED
      BY <1>4, <1>5, WorkerMoves
  <2>3. QED
    BY <1>3, <1>5, <1>6, <2>1, <2>2
<1>8. Working' = Working /\ \A v \in Workers : work'[v].item = work[v].item
  BY <1>5, <1>6, <1>7
<1>9. OnePlace'
  BY <1>1, <1>8 DEF OnePlace, Dispatching, Working
<1>10. PermitsAccounted'
  BY <1>1, <1>8 DEF PermitsAccounted, Working
<1>11. QED
  BY <1>1, <1>7, <1>9, <1>10

\* A worker takes an item over from the queue, with its permit.
LEMMA TakeKept ==
    ASSUME IsFiniteSet(Tasks), IsFiniteSet(Workers), MaxConcurrent \in Nat, PoolIInv,
           NEW w \in Workers, Take(w), UNCHANGED todo
    PROVE  PoolIInv'
<1> USE DEF PoolIInv, PoolTyped
<1>1. UNCHANGED <<todo, permits, dispatcher, shutdown>> /\ work[w].at = "idle"
  BY DEF Take, dispatch_vars, stop_vars, Idle
<1>2. PICK i \in queue : /\ queue' = queue \ {i}
                         /\ work' = [work EXCEPT ![w] = [at |-> "run", item |-> i]]
  BY DEF Take
<1>3. Cardinality(queue) \in Nat /\ Cardinality(Working) \in Nat
  BY Counted
<1>4. w \notin Working /\ [at |-> "run", item |-> i] \in Works
  BY <1>1 DEF Working, Works, Ats
<1>5. /\ work' \in [Workers -> Works] /\ work'[w] = [at |-> "run", item |-> i]
      /\ \A v \in Workers : v # w => work'[v] = work[v]
      /\ Working' = Working \union {w} /\ Cardinality(Working') = Cardinality(Working) + 1
  <2> DEFINE x == [at |-> "run", item |-> i]
  <2>0. x \in Works /\ x.at = "run" /\ work' = [work EXCEPT ![w] = x]
    BY <1>2, <1>4
  <2> HIDE DEF x
  <2>1. /\ work' \in [Workers -> Works] /\ work'[w] = x
        /\ \A v \in Workers : v # w => work'[v] = work[v]
        /\ Working' = IF x.at = "idle" THEN Working \ {w} ELSE Working \union {w}
        /\ Cardinality(Working') =
              Cardinality(Working)
              + (IF w \in Working THEN 0 ELSE 1) - (IF x.at = "idle" THEN 1 ELSE 0)
    <3> HIDE DEF PoolTyped
    <3>1. QED
      BY <2>0, WorkerMoves
  <2>2. QED
    BY <1>3, <1>4, <2>0, <2>1 DEF x
<1>6. Cardinality(queue') = Cardinality(queue) - 1
  BY <1>2, QueueMoves
<1>7. OnePlace'
  BY <1>1, <1>2, <1>4, <1>5 DEF OnePlace, Dispatching, Working
<1>8. PermitsAccounted'
  BY <1>1, <1>3, <1>5, <1>6 DEF PermitsAccounted, Working
<1>9. QED
  BY <1>1, <1>2, <1>5, <1>7, <1>8

\* A worker that is done with its item gives the permit back, or the item with the permit.
LEMMA GivesBackKept ==
    ASSUME IsFiniteSet(Tasks), IsFiniteSet(Workers), MaxConcurrent \in Nat, PoolIInv,
           NEW w \in Workers,
           CallbackOnShutdown(w) \/ CallbackOk(w) \/ CallbackShutdown(w) \/ Resubmit(w),
           UNCHANGED todo
    PROVE  PoolIInv'
<1> USE DEF PoolIInv, PoolTyped
<1>1. UNCHANGED <<todo, dispatcher>> /\ work' = [work EXCEPT ![w] = Idle]
  BY DEF CallbackOnShutdown, CallbackOk, CallbackShutdown, Resubmit, dispatch_vars, stop_vars
<1>2. w \in Working
  BY DEF CallbackOnShutdown, CallbackOk, CallbackShutdown, Resubmit, Working
<1>3. Cardinality(queue) \in Nat /\ Cardinality(Working) \in Nat
  BY Counted
<1>4. Idle \in Works /\ Idle.at = "idle"
  BY DEF Works, Ats, Idle
<1>5. /\ work' \in [Workers -> Works]
      /\ \A v \in Workers : v # w => work'[v] = work[v]
      /\ Working' = Working \ {w} /\ Cardinality(Working') = Cardinality(Working) - 1
  <2>1. /\ work' \in [Workers -> Works] /\ work'[w] = Idle
        /\ \A v \in Workers : v # w => work'[v] = work[v]
        /\ Working' = IF Idle.at = "idle" THEN Working \ {w} ELSE Working \union {w}
        /\ Cardinality(Working') =
              Cardinality(Working)
              + (IF w \in Working THEN 0 ELSE 1) - (IF Idle.at = "idle" THEN 1 ELSE 0)
    <3> HIDE DEF PoolTyped
    <3>1. QED
      BY <1>1, <1>4, WorkerMoves
  <2>2. QED
    BY <1>2, <1>3, <1>4, <2>1
<1>6. work[w].item \in Tasks /\ work[w].item \notin queue /\ work[w].item \notin todo
  BY <1>2 DEF OnePlace
<1>7. CASE Resubmit(w) /\ ~shutdown
  <2>1. UNCHANGED <<permits, shutdown>> /\ queue' = queue \union {work[w].item}
    BY <1>7 DEF Resubmit, stop_vars
  <2>2. Cardinality(queue') = Cardinality(queue) + 1
    BY <1>6, <2>1, QueueMoves
  <2>3. OnePlace'
    BY <1>1, <1>2, <1>5, <1>6, <2>1 DEF OnePlace, Dispatching, Working
  <2>4. PermitsAccounted'
    BY <1>1, <1>3, <1>5, <2>1, <2>2 DEF PermitsAccounted, Working
  <2>5. QED
    BY <1>1, <1>5, <1>6, <2>1, <2>3, <2>4
<1>8. CASE ~(Resubmit(w) /\ ~shutdown)
  <2>1. UNCHANGED queue
    BY <1>8 DEF CallbackOnShutdown, CallbackOk, CallbackShutdown, Resubmit
  <2>2. permits' \in Int /\ (shutdown' \/ (permits' = permits + 1 /\ UNCHANGED shutdown))
    BY <1>8 DEF CallbackOnShutdown, CallbackOk, CallbackShutdown, Resubmit, RtmShutdown,
                stop_vars
  <2>3. OnePlace'
    BY <1>1, <1>2, <1>5, <2>1 DEF OnePlace, Dispatching, Working
  <2>4. PermitsAccounted'
    BY <1>1, <1>3, <1>5, <2>1, <2>2 DEF PermitsAccounted, Working
  <2>5. QED
    BY <1>1, <1>5, <2>1, <2>2, <2>3, <2>4
<1>9. QED
  BY <1>7, <1>8

\* The watchdog, the generator and the shutdown do not touch the items in flight.
LEMMA OthersKept ==
    ASSUME PoolIInv, (DrainQueue \/ Watchdog \/ Generator \/ Leave) /\ UNCHANGED todo
    PROVE  PoolIInv'
<1> USE DEF PoolIInv, PoolTyped, OnePlace, Dispatching, Working, PermitsAccounted,
            dispatch_vars, pool_vars, stop_vars, task_vars
<1>1. CASE DrainQueue
  BY <1>1 DEF DrainQueue
<1>2. CASE Watchdog
  BY <1>2 DEF Watchdog, RtmShutdown
<1>3. CASE Generator
  <2>1. UNCHANGED <<queue, permits, work, dispatcher, shutdown>>
    BY <1>3 DEF Generator, GenReturns, GenRaises, GenYields, GenPolls
  <2>2. QED
    BY <2>1
<1>4. CASE Leave
  BY <1>4 DEF Leave, ShutdownWait, JoinWorkers
<1>5. QED
  BY <1>1, <1>2, <1>3, <1>4

\* _concurrent_semaphore: while the pool runs, the permits and the items in flight add
\* up to max_concurrent, through any number of failures and retries.
THEOREM PermitsAreAccounted ==
    ASSUME IsFiniteSet(Tasks), IsFiniteSet(Workers), MaxConcurrent \in Nat
    PROVE  Spec => []PermitsAccounted
<1>1. Init => PoolIInv
  <2> SUFFICES ASSUME Init PROVE PoolIInv
    OBVIOUS
  <2> USE DEF Init, PoolInit, Idle
  <2>1. {w \in Workers : work[w].at # "idle"} = {}
    OBVIOUS
  <2>2. PoolTyped /\ OnePlace
    BY DEF PoolTyped, OnePlace, Dispatching, Working, Works, Ats
  <2>3. PermitsAccounted
    <3>1. Cardinality(queue) = 0 /\ Cardinality({w \in Workers : work[w].at # "idle"}) = 0
      BY <2>1, FS_EmptySet
    <3>2. dispatcher.at # "submit" /\ permits = MaxConcurrent
      OBVIOUS
    <3>3. QED
      BY <3>1, <3>2 DEF PermitsAccounted
  <2>4. QED
    BY <2>2, <2>3 DEF PoolIInv
<1>2. ASSUME PoolIInv, [Next]_vars PROVE PoolIInv'
  <2>1. CASE Dispatch \/ (Dispatcher /\ UNCHANGED todo)
    BY <1>2, <2>1, DispatcherKept
  <2>2. CASE (DrainQueue \/ Watchdog \/ Generator \/ Leave) /\ UNCHANGED todo
    BY <1>2, <2>2, OthersKept
  <2>3. CASE (\E w \in Workers : Worker(w) \/ Fail(w) \/ Hang(w) \/ Callback(w))
             /\ UNCHANGED todo
    BY <1>2, <2>3, GoesOnKept, TakeKept, GivesBackKept DEF Worker, Callback
  <2>4. CASE UNCHANGED vars
    BY <1>2, <2>4 DEF vars, task_vars, dispatch_vars, pool_vars, stop_vars, PoolIInv, PoolTyped,
                      OnePlace, Dispatching, Working, PermitsAccounted
  <2>5. QED
    BY <1>2, <2>1, <2>2, <2>3, <2>4 DEF Next, Over
<1>3. PoolIInv => PermitsAccounted
  BY DEF PoolIInv
<1>4. QED
  BY <1>1, <1>2, <1>3, PTL DEF Spec
=============================================================================
