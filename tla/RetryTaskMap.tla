---------------------------- MODULE RetryTaskMap ----------------------------
(***************************************************************************)
(* ThreadPoolExecutorWithRetry of otaclient_common/retry_task_map.py: a    *)
(* dispatcher thread feeds the items of an iterable to a thread pool, a    *)
(* semaphore bounds the ones in flight, a failed item is submitted again   *)
(* by the worker it failed in, a watchdog may shut the pool down, and the  *)
(* generator the caller iterates waits for all of them to succeed.         *)
(***************************************************************************)
EXTENDS Integers, FiniteSets, Sequences

CONSTANTS
    Tasks, Workers,
    NoItem,
    MaxConcurrent,     \* max_concurrent
    MaxTotalRetry,     \* max_total_retry
    MaxRetryOnEntry,   \* max_retry_on_entry
    MaxFails           \* bound on the failures of a behaviour

VARIABLES
    todo,         \* what the iterable has not yielded yet
    dispatched,   \* _tasks_count
    dispatcher,   \* where the dispatcher thread is, and its item
    permits,      \* _concurrent_semaphore
    queue,        \* _work_queue of the pool
    work,         \* what each worker thread does
    futs,         \* done futures in _fut_queue, by their result
    succeeded,    \* history: the items whose function returned
    finished, total,   \* finished_tasks, _total_task_num
    shutdown, drained, \* the pool is shut down, its work queue is emptied
    exc,          \* _exc_deque
    watchdog,     \* the watchdog thread
    gen,          \* _fut_gen: "loop", "returned", "raised" with its cause, "bare"
    left,         \* the caller has left the "with" of the pool
    retries,      \* _total_retry_counter
    register,     \* _RetryOnEntryTracker: the counts, the oldest first
    fails         \* failures so far

dispatch_vars == <<dispatched, dispatcher>>
pool_vars == <<queue, work>>
retry_vars == <<retries, register, fails>>
gen_vars == <<finished, gen, left>>
stop_vars == <<shutdown, drained, exc, watchdog>>
task_vars == <<dispatch_vars, pool_vars, retry_vars, gen_vars, stop_vars,
               permits, futs, succeeded, total>>
vars == <<todo, task_vars>>

Idle == [at |-> "idle", item |-> NoItem]

TypeOK ==
    /\ todo \subseteq Tasks /\ dispatched \in 0..Cardinality(Tasks)
    /\ dispatcher.at \in {"pull", "acquire", "submit", "abort", "end"}
    /\ permits \in 0..MaxConcurrent
    /\ queue \subseteq Tasks
    /\ \A w \in Workers : /\ work[w].item \in Tasks \union {NoItem}
                          /\ work[w].at \in {"idle", "run", "hang", "ok",
                                             "err", "retry", "shutdown"}
    /\ futs \in [ok : Nat, err : Nat] /\ succeeded \subseteq Tasks
    /\ finished \in 0..Cardinality(Tasks)
    /\ total \in -1..Cardinality(Tasks)
    /\ shutdown \in BOOLEAN /\ drained \in BOOLEAN
    /\ exc \in {"none", "task", "watchdog", "dispatcher"}
    /\ watchdog \in {"watching", "shutdown", "end"}
    /\ gen \in {"loop", "returned", "raised", "bare"} /\ left \in BOOLEAN
    /\ retries \in Nat /\ fails \in 0..MaxFails

PoolInit ==
    /\ dispatched = 0
    /\ dispatcher = [at |-> "pull", item |-> NoItem]
    /\ permits = MaxConcurrent
    /\ queue = {} /\ work = [w \in Workers |-> Idle]
    /\ futs = [ok |-> 0, err |-> 0] /\ succeeded = {}
    /\ finished = 0 /\ total = 0
    /\ shutdown = FALSE /\ drained = FALSE /\ exc = "none"
    /\ watchdog = "watching" /\ gen = "loop" /\ left = FALSE
    /\ retries = 0 /\ register = <<>> /\ fails = 0

\* ensure_tasks, also with an iterable that yields nothing
Init == todo \in {{}, Tasks} /\ PoolInit

\* _rtm_shutdown: one caller shuts the pool down, which the others see.
RtmShutdown == shutdown' = TRUE

DrainQueue ==
    /\ shutdown /\ ~drained
    /\ drained' = TRUE /\ queue' = {}
    /\ UNCHANGED <<dispatch_vars, work, retry_vars, gen_vars, shutdown, exc,
                   watchdog, permits, futs, succeeded, total>>

(***************************************************************************)
(* _dispatcher_thread                                                      *)
(***************************************************************************)

\* The iterable yields an item.
PullItem(item) ==
    /\ dispatcher.at = "pull"
    /\ dispatched' = dispatched + 1
    /\ dispatcher' = [at |-> IF shutdown THEN "end" ELSE "acquire",
                      item |-> item]
    /\ UNCHANGED <<pool_vars, retry_vars, gen_vars, stop_vars, permits, futs,
                   succeeded, total>>

\* Mutation: an empty iterable leaves _total_task_num at 0.
CountDispatched ==
    /\ dispatcher.at = "pull"
    /\ total' = dispatched
    /\ dispatcher' = [dispatcher EXCEPT !.at = "end"]
    /\ UNCHANGED <<dispatched, pool_vars, retry_vars, gen_vars, stop_vars,
                   permits, futs, succeeded>>

\* The iterable is exhausted.
PullEnd ==
    /\ dispatcher.at = "pull"
    /\ total' = IF dispatched = 0 THEN -1 ELSE dispatched
    /\ dispatcher' = [dispatcher EXCEPT !.at = "end"]
    /\ UNCHANGED <<dispatched, pool_vars, retry_vars, gen_vars, stop_vars,
                   permits, futs, succeeded>>

\* The iterable raises.
PullRaises ==
    /\ dispatcher.at = "pull"
    /\ exc' = "dispatcher"
    /\ dispatcher' = [dispatcher EXCEPT !.at = "abort"]
    /\ UNCHANGED <<dispatched, pool_vars, retry_vars, gen_vars, shutdown,
                   drained, watchdog, permits, futs, succeeded, total>>

Acquire ==
    /\ dispatcher.at = "acquire" /\ permits > 0
    /\ permits' = permits - 1
    /\ dispatcher' = [dispatcher EXCEPT !.at = "submit"]
    /\ UNCHANGED <<dispatched, pool_vars, retry_vars, gen_vars, stop_vars,
                   futs, succeeded, total>>

Submit ==
    /\ dispatcher.at = "submit"
    /\ IF shutdown
       THEN /\ dispatcher' = [dispatcher EXCEPT !.at = "abort"]
            /\ UNCHANGED queue
       ELSE /\ dispatcher' = [at |-> "pull", item |-> NoItem]
            /\ queue' = queue \union {dispatcher.item}
    /\ UNCHANGED <<dispatched, work, retry_vars, gen_vars, stop_vars, permits,
                   futs, succeeded, total>>

Abort ==
    /\ dispatcher.at = "abort"
    /\ dispatcher' = [dispatcher EXCEPT !.at = "end"]
    /\ RtmShutdown
    /\ UNCHANGED <<dispatched, pool_vars, retry_vars, gen_vars, drained, exc,
                   watchdog, permits, futs, succeeded, total>>

(***************************************************************************)
(* The worker threads                                                      *)
(***************************************************************************)

Take(w) ==
    /\ work[w] = Idle
    /\ \E i \in queue :
        /\ queue' = queue \ {i}
        /\ work' = [work EXCEPT ![w] = [at |-> "run", item |-> i]]
    /\ UNCHANGED <<dispatch_vars, retry_vars, gen_vars, stop_vars, permits,
                   futs, succeeded, total>>

\* The function returns or raises, or hangs for as long as the watchdog
\* waits; it may still end after that.
Succeed(w) ==
    /\ work[w].at \in {"run", "hang"}
    /\ work' = [work EXCEPT ![w].at = "ok"]
    /\ succeeded' = succeeded \union {work[w].item}
    /\ UNCHANGED <<dispatch_vars, queue, retry_vars, gen_vars, stop_vars,
                   permits, futs, total>>

Fail(w) ==
    /\ work[w].at \in {"run", "hang"} /\ fails < MaxFails
    /\ work' = [work EXCEPT ![w].at = "err"]
    /\ fails' = fails + 1
    /\ UNCHANGED <<dispatch_vars, queue, retries, register, gen_vars,
                   stop_vars, permits, futs, succeeded, total>>

Hang(w) ==
    /\ work[w].at = "run"
    /\ work' = [work EXCEPT ![w].at = "hang"]
    /\ UNCHANGED <<dispatch_vars, queue, retry_vars, gen_vars, stop_vars,
                   permits, futs, succeeded, total>>

(***************************************************************************)
(* _task_done_cb_at_thread                                                 *)
(***************************************************************************)

CallbackOnShutdown(w) ==
    /\ work[w].at \in {"ok", "err"} /\ shutdown
    /\ permits' = permits + 1
    /\ work' = [work EXCEPT ![w] = Idle]
    /\ UNCHANGED <<dispatch_vars, queue, retry_vars, gen_vars, stop_vars,
                   futs, succeeded, total>>

CallbackOk(w) ==
    /\ work[w].at = "ok" /\ ~shutdown
    /\ futs' = [futs EXCEPT !.ok = @ + 1]
    /\ permits' = permits + 1
    /\ work' = [work EXCEPT ![w] = Idle]
    /\ UNCHANGED <<dispatch_vars, queue, retry_vars, gen_vars, stop_vars,
                   succeeded, total>>

\* _RetryOnEntryTracker.register: only the last max_concurrent are kept.
Entries(item) == SelectSeq(register, LAMBDA e : e.item = item)
Others(item) == SelectSeq(register, LAMBDA e : e.item # item)
RetriesOnEntry(item) ==
    IF Entries(item) = <<>> THEN 1 ELSE Entries(item)[1].count + 1
Register(item) ==
    LET all == Append(Others(item),
                      [item |-> item, count |-> RetriesOnEntry(item)])
    IN  IF Len(all) > MaxConcurrent THEN Tail(all) ELSE all

TotalExceeded == retries + 1 > MaxTotalRetry
EntryExceeded(item) == RetriesOnEntry(item) > MaxRetryOnEntry

\* Mutation: the semaphore is released when a failed item is kept for retry.
ReleaseOnFailure(w) ==
    /\ work[w].at = "err" /\ ~shutdown
    /\ futs' = [futs EXCEPT !.err = @ + 1]
    /\ permits' = permits + 1
    /\ work' = [work EXCEPT ![w].at = "retry"]
    /\ UNCHANGED <<dispatch_vars, queue, retry_vars, gen_vars, stop_vars,
                   succeeded, total>>

CallbackErr(w) ==
    /\ work[w].at = "err" /\ ~shutdown
    /\ futs' = [futs EXCEPT !.err = @ + 1]
    /\ retries' = retries + 1
    /\ register' = IF TotalExceeded THEN register ELSE Register(work[w].item)
    /\ IF TotalExceeded \/ EntryExceeded(work[w].item)
       THEN /\ exc' = "task"
            /\ work' = [work EXCEPT ![w].at = "shutdown"]
       ELSE /\ work' = [work EXCEPT ![w].at = "retry"]
            /\ UNCHANGED exc
    /\ UNCHANGED <<dispatch_vars, queue, fails, gen_vars, shutdown, drained,
                   watchdog, permits, succeeded, total>>

CallbackShutdown(w) ==
    /\ work[w].at = "shutdown"
    /\ RtmShutdown
    /\ work' = [work EXCEPT ![w] = Idle]
    /\ UNCHANGED <<dispatch_vars, queue, retry_vars, gen_vars, drained, exc,
                   watchdog, permits, futs, succeeded, total>>

\* After the backoff
Resubmit(w) ==
    /\ work[w].at = "retry"
    /\ IF shutdown
       THEN permits' = permits + 1 /\ UNCHANGED queue
       ELSE queue' = queue \union {work[w].item} /\ UNCHANGED permits
    /\ work' = [work EXCEPT ![w] = Idle]
    /\ UNCHANGED <<dispatch_vars, retry_vars, gen_vars, stop_vars, futs,
                   succeeded, total>>

(***************************************************************************)
(* _watchdog_runner_thread and _fut_gen                                    *)
(***************************************************************************)

Watchdog ==
    /\ \/ /\ watchdog = "watching" /\ ~shutdown
          /\ \E w \in Workers : work[w].at = "hang"
          /\ exc' = "watchdog" /\ watchdog' = "shutdown"
          /\ UNCHANGED shutdown
       \/ /\ watchdog = "shutdown"
          /\ RtmShutdown
          /\ watchdog' = "end" /\ UNCHANGED exc
       \/ /\ watchdog = "watching" /\ shutdown
          /\ watchdog' = "end" /\ UNCHANGED <<shutdown, exc>>
    /\ UNCHANGED <<dispatch_vars, pool_vars, retry_vars, gen_vars, drained,
                   permits, futs, succeeded, total>>

Looping == gen = "loop" /\ (finished = 0 \/ finished # total)

GenReturns ==
    /\ gen = "loop" /\ (~Looping \/ total < 0)
    /\ gen' = "returned"
    /\ UNCHANGED <<dispatch_vars, pool_vars, retry_vars, finished, left,
                   stop_vars, permits, futs, succeeded, total>>

GenRaises ==
    /\ Looping /\ total >= 0 /\ shutdown
    /\ gen' = IF exc = "none" THEN "bare" ELSE "raised"
    /\ futs' = [ok |-> 0, err |-> 0]
    /\ UNCHANGED <<dispatch_vars, pool_vars, retry_vars, finished, left,
                   stop_vars, permits, succeeded, total>>

GenYields ==
    /\ Looping /\ total >= 0 /\ ~shutdown
    /\ \E r \in {"ok", "err"} :
        /\ futs[r] > 0
        /\ futs' = [futs EXCEPT ![r] = @ - 1]
        /\ finished' = IF r = "ok" THEN finished + 1 ELSE finished
    /\ UNCHANGED <<dispatch_vars, pool_vars, retry_vars, gen, left, stop_vars,
                   permits, succeeded, total>>

\* Nothing is done yet: _fut_gen sleeps and looks again.
GenPolls ==
    /\ Looping /\ total >= 0 /\ ~shutdown /\ futs = [ok |-> 0, err |-> 0]
    /\ UNCHANGED task_vars

(***************************************************************************)
(* Leaving the "with" of the pool: ThreadPoolExecutor.__exit__ calls       *)
(* shutdown(wait=True), which lets the workers empty the queue and joins   *)
(* them.  A worker whose function hangs is waited for.                     *)
(***************************************************************************)

ShutdownWait ==
    /\ gen # "loop" /\ ~shutdown
    /\ shutdown' = TRUE /\ drained' = TRUE
    /\ UNCHANGED <<dispatch_vars, pool_vars, retry_vars, gen_vars, exc,
                   watchdog, permits, futs, succeeded, total>>

JoinWorkers ==
    /\ gen # "loop" /\ shutdown /\ ~left
    /\ queue = {} /\ \A w \in Workers : work[w] = Idle
    /\ left' = TRUE
    /\ UNCHANGED <<dispatch_vars, pool_vars, retry_vars, finished, gen,
                   stop_vars, permits, futs, succeeded, total>>

Leave == ShutdownWait \/ JoinWorkers

Dispatch ==
    \/ \E i \in todo : PullItem(i) /\ todo' = todo \ {i}
    \/ todo = {} /\ PullEnd /\ UNCHANGED todo
    \/ PullRaises /\ UNCHANGED todo

Dispatcher == Acquire \/ Submit \/ Abort
Worker(w) == Take(w) \/ Succeed(w)
Callback(w) ==
    \/ CallbackOnShutdown(w) \/ CallbackOk(w) \/ CallbackErr(w)
    \/ CallbackShutdown(w) \/ Resubmit(w)
Generator == GenReturns \/ GenRaises \/ GenYields \/ GenPolls

\* The caller is done, or waits for a function that hangs.
Over == gen # "loop" /\ UNCHANGED vars

Next ==
    \/ Dispatch
    \/ /\ \/ Dispatcher \/ DrainQueue \/ Watchdog \/ Generator \/ Leave
          \/ \E w \in Workers : Worker(w) \/ Fail(w) \/ Hang(w) \/ Callback(w)
       /\ UNCHANGED todo
    \/ Over

\* The threads are scheduled; a function that does not hang ends.
Fairness ==
    /\ WF_vars(Dispatch)
    /\ WF_vars((Dispatcher \/ DrainQueue) /\ UNCHANGED todo)
    /\ WF_vars(Watchdog /\ UNCHANGED todo)
    /\ WF_vars(Generator /\ UNCHANGED todo)
    /\ WF_vars(Leave /\ UNCHANGED todo)
    /\ \A w \in Workers :
        /\ WF_vars((work[w].at # "hang" /\ Worker(w)) /\ UNCHANGED todo)
        /\ WF_vars(Callback(w) /\ UNCHANGED todo)

Spec == Init /\ [][Next]_vars /\ Fairness

(***************************************************************************)
(* Properties                                                              *)
(***************************************************************************)

\* _concurrent_semaphore: as long as the pool runs, every item in flight holds
\* one permit through all of its retries, and no permit is lost.
PermitsAccounted ==
    ~shutdown =>
        permits + Cardinality(queue)
            + Cardinality({w \in Workers : work[w].at # "idle"})
            + (IF dispatcher.at = "submit" THEN 1 ELSE 0) = MaxConcurrent

=============================================================================
