------------------------------ MODULE MetaFiles ------------------------------
(***************************************************************************)
(* download_meta_files of ota_core/_download_resources.py: the generator   *)
(* of an image's metadata (ota_metadata) yields a batch of files while it  *)
(* holds a condition, and waits on it; the one worker of the pool takes    *)
(* the batch, downloads it under the condition with the help of batch      *)
(* threads, and notifies.  The instances come from DownloaderPool.         *)
(***************************************************************************)
EXTENDS RetryTaskMap, SequencesExt

CONSTANTS
    Instances,   \* of the DownloaderPool
    NoThread

VARIABLES
    image,       \* which metadata is downloaded
    parsed,      \* batches the generator has read
    producer,    \* the generator: "run", "yielded", "wait", "woken", "end"
    lock,        \* who is in "with condition"
    fst,         \* the files of the batch
    stage,       \* the worker in _download_with_condition_at_thread
    mapping,     \* _idx_thread_mapping
    mine         \* the worker's entry of _downloader_mapper

cond_vars == <<parsed, producer, lock>>
batch_vars == <<fst, stage, mapping, mine>>
meta_vars == <<image, cond_vars, batch_vars, todo, task_vars>>

\* OTAMetadata.download_metafiles
Legacy == << <<"metadata.jwt">>, <<"certificate">>,
             <<"regulars", "dirs", "symlinks">>, <<"persists">> >>

\* with only_metadata_verification
LegacyVerification == SubSeq(Legacy, 1, 2)
\* OTAImageHelper.download_and_verify_image_index
ImageIndex == << <<"index.jwt">>, <<"index.json">> >>
\* OTAImageHelper.select_image_payload; an image may have no sys_config
ImagePayload == << <<"manifest">>, <<"image_config">>, <<"sys_config">>,
                   <<"file_table", "resource_table">> >>
Images == {Legacy, LegacyVerification, ImageIndex, ImagePayload,
           <<ImagePayload[1], ImagePayload[2], ImagePayload[4]>>}

Worker1 == CHOOSE w \in Workers : TRUE
Batch == image[work[Worker1].item]
First == Batch[1]
Others1 == Range(Tail(Batch))

MetaInit ==
    /\ PoolInit /\ todo = {}
    /\ image \in Images /\ parsed = 0
    /\ producer = "run" /\ lock = "none" /\ stage = "out" /\ fst = <<>>
    \* _downloader_worker_initializer
    /\ mine = CHOOSE i \in Instances : TRUE
    /\ mapping = [i \in Instances |-> IF i = mine THEN Worker1 ELSE NoThread]

(***************************************************************************)
(* The generator, in the dispatcher thread                                 *)
(***************************************************************************)

Yield ==
    /\ producer = "run" /\ parsed < Len(image)
    /\ lock = "none" /\ lock' = "dispatcher"
    /\ PullItem(parsed + 1)
    /\ producer' = "yielded"
    /\ UNCHANGED <<image, parsed, batch_vars, todo>>

\* condition.wait, once the dispatcher has submitted the batch
WaitForBatch ==
    /\ producer = "yielded" /\ dispatcher.at = "pull"
    /\ producer' = "wait" /\ lock' = "none"
    /\ UNCHANGED <<image, parsed, batch_vars, todo, task_vars>>

\* The files are read, verified and parsed; invalid ones end the generator.
Parse ==
    /\ producer = "woken" /\ lock = "none"
    /\ \/ /\ producer' = "run" /\ parsed' = parsed + 1
          /\ UNCHANGED task_vars
       \/ PullRaises /\ producer' = "end" /\ UNCHANGED parsed
    /\ UNCHANGED <<image, lock, batch_vars, todo>>

EndOfFiles ==
    /\ producer = "run" /\ parsed = Len(image)
    /\ PullEnd
    /\ producer' = "end"
    /\ UNCHANGED <<image, parsed, lock, batch_vars, todo>>

(***************************************************************************)
(* DownloaderPool                                                          *)
(***************************************************************************)

Available == {i \in Instances : mapping[i] = NoThread}
Held(t) == {i \in Instances : mapping[i] = t}

\* release_instance
ReleaseInstance(t) ==
    mapping' = [i \in Instances |-> IF mapping[i] = t THEN NoThread
                                    ELSE mapping[i]]

(***************************************************************************)
(* _download_with_condition_at_thread                                      *)
(***************************************************************************)

Running == work[Worker1].at \in {"run", "hang"}

\* "with condition": the generator has to be waiting.
EnterBatch ==
    /\ work[Worker1].at = "run" /\ stage = "out"
    /\ lock = "none" /\ lock' = "worker"
    /\ fst' = [f \in Range(Batch) |-> IF f = First THEN "todo" ELSE "thread"]
    /\ stage' = "first"
    /\ UNCHANGED <<image, parsed, producer, mapping, mine, todo, task_vars>>

Outcome(f) == \/ fst' = [fst EXCEPT ![f] = "ok"]
              \/ fails < MaxFails /\ fst' = [fst EXCEPT ![f] = "failed"]

\* _download_one of the first file, by the worker
DownloadFirst ==
    /\ Running /\ stage = "first"
    /\ Outcome(First) /\ stage' = "join"
    /\ UNCHANGED <<image, cond_vars, mapping, mine, todo, task_vars>>

\* _download_one_at_batch_thread: get_instance, or None without a spare one
GetInstance(f) ==
    /\ stage \in {"first", "join"} /\ fst[f] = "thread"
    /\ IF Available = {}
       THEN fst' = [fst EXCEPT ![f] = "none"] /\ UNCHANGED mapping
       ELSE /\ mapping' = [mapping EXCEPT
                            ![CHOOSE i \in Available : TRUE] = f]
            /\ fst' = [fst EXCEPT ![f] = "loading"]
    /\ UNCHANGED <<image, cond_vars, stage, mine, todo, task_vars>>

BatchThread(f) ==
    /\ stage \in {"first", "join"} /\ fst[f] = "loading"
    /\ Outcome(f) /\ ReleaseInstance(f)
    /\ UNCHANGED <<image, cond_vars, stage, mine, todo, task_vars>>

\* The batch pool is joined; then the worker downloads what had no instance.
Joined == stage = "join" /\ \A f \in Others1 : fst[f] \notin {"thread", "loading"}

DownloadRest(f) ==
    /\ Running /\ Joined /\ fst[f] = "none"
    /\ \A g \in DOMAIN fst : fst[g] # "failed"
    /\ Outcome(f)
    /\ UNCHANGED <<image, cond_vars, stage, mapping, mine, todo, task_vars>>

\* notify and return; an exception leaves the generator waiting for the retry.
LeaveBatch ==
    /\ Joined /\ lock' = "none" /\ stage' = "out"
    /\ \/ /\ \A f \in DOMAIN fst : fst[f] = "ok"
          /\ producer' = "woken"
          /\ Succeed(Worker1)
       \/ /\ \E f \in DOMAIN fst : fst[f] = "failed"
          /\ Fail(Worker1)
          /\ UNCHANGED producer
    /\ UNCHANGED <<image, parsed, fst, mapping, mine, todo>>

Produce == Yield \/ WaitForBatch \/ Parse \/ EndOfFiles

MetaWorker ==
    \/ EnterBatch \/ DownloadFirst \/ LeaveBatch
    \/ \E f \in DOMAIN fst : GetInstance(f) \/ BatchThread(f) \/ DownloadRest(f)

MetaPool ==
    /\ \/ Dispatcher \/ DrainQueue \/ Watchdog \/ Generator \/ Leave
       \/ \E w \in Workers : Take(w) \/ Callback(w)
       \/ stage # "out" /\ Hang(Worker1)
    /\ UNCHANGED <<image, cond_vars, batch_vars, todo>>

MetaOver == gen # "loop" /\ UNCHANGED meta_vars

MetaNext == Produce \/ MetaWorker \/ MetaPool \/ MetaOver

(***************************************************************************)
(* Properties                                                              *)
(***************************************************************************)

\* The generator goes on only when every file of the batch it yielded is
\* there, a batch that failed and was retried included.
ReadMeansDownloaded ==
    producer = "woken" => \A f \in Range(image[parsed + 1]) :
                            f \in DOMAIN fst /\ fst[f] = "ok"

\* "Downloader instance cannot be used in multi-threading": the worker and
\* the batch threads never download with the same instance.
InstanceHasOneUser ==
    /\ Running /\ (stage = "first" \/ (Joined /\ "none" \in Range(fst)))
        => \A f \in DOMAIN fst : fst[f] = "loading" => mine \notin Held(f)
    /\ \A f \in DOMAIN fst : fst[f] = "loading" => Cardinality(Held(f)) = 1

==============================================================================
